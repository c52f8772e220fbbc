---------------------------- MODULE CoreShutdown ----------------------------
(***************************************************************************)
(* The end of Special K in a game: who shuts it down, and what becomes of  *)
(* its background threads.                                                 *)
(*                                                                         *)
(* SK_SelfDestruct (src/utility.cpp) is called by the game's window thread *)
(* or, through the detour of ExitProcess, by the thread that ends the      *)
(* process; the first caller runs SK_Detach (src/SpecialK.cpp) and in it   *)
(* SK_ShutdownCore (src/core.cpp) while the game's other threads go on.    *)
(* When the process ends Windows first ends every other thread, wherever   *)
(* it is, and then calls DllMain with DLL_PROCESS_DETACH.                  *)
(*                                                                         *)
(* The monitors are those of PerfMonitors, the GPU's thread that of        *)
(* GpuPolling.                                                             *)
(***************************************************************************)
EXTENDS PerfMonitors, GpuPolling

Caller == {"window", "exit"}

VARIABLES
  phase,    \* where SK_Detach and SK_ShutdownCore stand
  runner,   \* who runs them
  caller,   \* where the callers of SK_SelfDestruct stand
  attached, \* __SK_DLL_Attached
  released, \* how often SK_Inject_ReleaseProcess ran
  halted    \* the phase at which the end of the process stopped the runner

cvars == <<phase, runner, caller, attached, released, halted>>
vars  == <<pvars, gvars, cvars>>

Init ==
  /\ PerfInit /\ GpuInit
  /\ shown \in Configurations
  /\ phase = "off" /\ runner = "nobody"
  /\ caller = [c \in Caller |-> "live"]
  /\ attached = TRUE /\ released = 0 /\ halted = "off"

Draws(s) == call[s][1] # "dead"

-----------------------------------------------------------------------------
(* Operators named ...Slip are plausible mistakes the properties below are *)
(* there to catch; no action uses them.                                    *)

ReleaseTwiceSlip == TRUE     \* the detach does not ask who was first
FirstDetach      == attached

-----------------------------------------------------------------------------
(* SK_SelfDestruct: CAS (__SK_DLL_Ending, 1, 0).                           *)
SelfDestruct(c) ==
  /\ caller[c] = "live"
  /\ IF ending
     THEN /\ caller' = [caller EXCEPT ![c] = "back"]
          /\ UNCHANGED <<ending, phase, runner>>
     ELSE /\ caller' = [caller EXCEPT ![c] = "inside"]
          /\ ending' = TRUE /\ phase' = "detach" /\ runner' = c
  /\ UNCHANGED <<shown, teardown, threads, wmi, call, calls, stop, overlaps,
                 gvars, attached, released, halted>>

(* The process ends, with or without SK_SelfDestruct: no other thread is   *)
(* left, and the last one is in DLL_PROCESS_DETACH.                        *)
EndProcess ==
  /\ caller["exit"] \in {"live", "back"}
  /\ caller' = [window |-> "dead", exit |-> "alone"]
  /\ at' = [t \in Thread |-> "off"]
  /\ call' = [s \in Starter |-> <<"dead", 1>>]
  /\ read' = [r \in Reader |-> "dead"]
  /\ poll' = IF poll = "none" THEN "none" ELSE "off"
  /\ server' = IF server = "none" THEN "none" ELSE "off"
  /\ teardown' = TRUE /\ ending' = TRUE
  /\ halted' = IF phase \in {"off", "done"} THEN halted ELSE phase
  /\ phase' = "detach"
  /\ runner' = "exit"
  /\ overtaken' = {} /\ abrupt' = TRUE
  /\ cut' = cut \cup {t[1] : t \in {u \in Thread : at[u] = "clear"}}
  /\ UNCHANGED <<hThread, hSignal, open, signalled, lock, once, init, told,
                 calls, stop, late, twice, asked, events, shutdown, handle,
                 buffers, stats, finish, crossed, shown, attached, released>>

-----------------------------------------------------------------------------
(* SK_Detach and SK_ShutdownCore, run by one thread.                       *)

Return == caller' = [caller EXCEPT ![runner] = IF @ = "alone" THEN "gone"
                                                              ELSE "back"]

(* CAS (__SK_DLL_Attached, FALSE, TRUE).                                   *)
Detach ==
  /\ phase = "detach"
  /\ attached' = FALSE
  /\ IF FirstDetach THEN phase' = "release" /\ UNCHANGED caller
                    ELSE phase' = "done" /\ Return
  /\ UNCHANGED <<pvars, gvars, runner, released, halted>>

ReleaseProcess ==
  /\ phase = "release" /\ phase' = "signal"
  /\ released' = released + 1
  /\ UNCHANGED <<pvars, gvars, runner, caller, attached, halted>>

SetTeardown ==
  /\ phase = "signal" /\ phase' = "gpu"
  /\ teardown' = TRUE
  /\ UNCHANGED <<shown, ending, threads, wmi, call, calls, stop, overlaps,
                 gvars, runner, caller, attached, released, halted>>

EndPolling ==
  /\ phase = "gpu" /\ EndStep
  /\ phase' = IF finish' = "done" THEN "monitors" ELSE phase
  /\ UNCHANGED <<pvars, runner, caller, attached, released, halted>>

StopMonitors ==
  /\ phase = "monitors"
  /\ \E m \in Monitor :
       /\ \A k \in 1 .. m - 1 : stop[k] = "done"
       /\ StopStep(m)
       /\ phase' = IF stop'[NumMonitors] = "done" THEN "wmi" ELSE phase
  /\ UNCHANGED <<gvars, runner, caller, attached, released, halted>>

(* SK_WMI_Shutdown, CAS (init, 0, 1): a server that is not ready yet is    *)
(* not told, and one that is told is not waited for, since the loop that   *)
(* should do so waits for the cell that was just reset.                    *)
ShutdownWmi ==
  /\ phase = "wmi" /\ phase' = "done"
  /\ IF init = 1 THEN init' = 0 /\ told' = TRUE ELSE UNCHANGED <<init, told>>
  /\ Return
  /\ UNCHANGED <<shown, ending, teardown, threads, once, server, call, calls,
                 stop, overlaps, gvars, runner, attached, released, halted>>

ShutdownStep == Detach \/ ReleaseProcess \/ SetTeardown \/ EndPolling
                \/ StopMonitors \/ ShutdownWmi

-----------------------------------------------------------------------------
MonitorPart ==
  /\ \/ \E s \in Starter : Draws(s) /\ StarterStep(s)
     \/ ServerStep
     \/ \E t \in Thread : MonitorStep(t)
  /\ UNCHANGED <<gvars, cvars>>

GpuPart ==
  /\ \/ \E r \in Reader : /\ Draws(r) /\ 0 \in shown
                          /\ Ask(r) \/ TakePointer(r) \/ ReaderStep(r)
     \/ PollerStep \/ NoDevice \/ Sample
  /\ UNCHANGED <<pvars, cvars>>

Next == \/ \E c \in Caller : SelfDestruct(c)
        \/ EndProcess \/ ShutdownStep \/ MonitorPart \/ GpuPart

(* The thread that shuts down runs; nothing is assumed about any other.    *)
Spec == Init /\ [][Next]_vars /\ WF_vars(ShutdownStep)

-----------------------------------------------------------------------------
(* Every variable stays in its range.                                      *)
TypeOK ==
  /\ {ending, teardown, once, told, asked, shutdown, buffers, stats, abrupt,
      crossed, attached} \subseteq BOOLEAN
  /\ hThread \in [Monitor -> Starter \cup {Invalid, Null}]
  /\ hSignal \in [Monitor -> Starter \cup {Invalid}]
  /\ open \subseteq Thread /\ signalled \subseteq open
  /\ at \in [Thread -> Holding \cup {"off", "spin", "enter", "loop", "query",
                                     "finish"}]
  /\ lock \in Thread \cup {Nobody}
  /\ server \in {"none", "starting", "serving", "off"} /\ init \in {0, 1}
  /\ call \in [Starter -> {"idle", "visit", "create", "store", "wmi", "dead"}
                            \X Monitor]
  /\ stop \in [Monitor -> {"todo", "wait", "kill", "forget", "signal",
                           "done"}]
  /\ UNION {late, cut, twice} \subseteq Monitor
  /\ {events, handle} \subseteq {"unset", "open", "closed"}
  /\ poll \in {"none", "start", "ready", "wait", "leave", "off"}
  /\ read \in [Reader -> {"idle", "events", "thread", "attach", "use",
                          "dead"}]
  /\ finish \in {"todo", "wait", "kill", "close", "free", "done"}
  /\ overtaken \subseteq Reader
  /\ shown \in Configurations
  /\ {phase, halted} \subseteq {"off", "detach", "release", "signal", "gpu",
                               "monitors", "wmi", "done"}
  /\ runner \in Caller \cup {"nobody"}
  /\ caller \in [Caller -> {"live", "inside", "back", "alone", "gone",
                            "dead"}]
  /\ calls \in 0 .. MaxCalls[shown]
  /\ released \in Nat

(* A monitor has one thread at most, and none once the shutdown is done    *)
(* with it, though threads that draw start monitors at any time: except if *)
(* one was starting it just then.                                          *)
OneThreadThenNone ==
  \A m \in Monitor \ late :
    LET running == {s \in Starter : Running(<<m, s>>)} IN
    /\ Cardinality(running) <= 1
    /\ stop[m] = "done" => running = {}

(* The monitor and the shutdown both close the monitor's event.  They      *)
(* close it twice only if the monitor was terminated between closing it    *)
(* and saying so, or its start overlapped the shutdown.                    *)
SignalClosedOnce == twice \subseteq late \cup cut

(* The pointer to the GPU's sensors points to buffers that exist, and so   *)
(* does the one a thread that draws has taken, unless it took it before    *)
(* they were freed; except if the polling thread was terminated or found   *)
(* no device, or came to life only as it was ended.                        *)
SensorsValid ==
  ~abrupt /\ ~crossed =>
    /\ stats => buffers
    /\ \A r \in Reader : read[r] = "use" /\ ~buffers => r \in overtaken

(* However the callers overlap and wherever the end of the process stops   *)
(* one of them, the slot in the table of injected processes is given back  *)
(* exactly once, unless the thread that was to do it was stopped right     *)
(* before.                                                                 *)
SlotGivenBack ==
  /\ released <= 1
  /\ caller["exit"] = "gone" => released = IF halted = "release" THEN 0 ELSE 1

(* A monitor that waits for WMI has a server to wait for: it was started,  *)
(* or somebody is about to start it whom no monitor blocks.  A server that *)
(* fails to connect, or is told to stop, leaves its monitors spinning.     *)
WmiUnderWay ==
  \A t \in Thread :
    at[t] = "spin" =>
      \/ server # "none"
      \/ \E s \in Starter : \/ In(s, "store") /\ NeedsWmi(call[s][2])
                            \/ In(s, "wmi") /\ lock = Nobody

(* A shutdown gets to its end whatever the monitors and the threads that   *)
(* draw do or hold, unless the end of the process stops it.                *)
ShutdownReturns ==
  (\E c \in Caller : caller[c] = "inside")
    ~> (\A c \in Caller : caller[c] # "inside")
=============================================================================
