---------------------------- MODULE PerfMonitors ----------------------------
(***************************************************************************)
(* The performance monitors: threads that watch the processor, the disks   *)
(* and the page file for the overlay (src/performance/io_monitor.cpp).     *)
(* Every thread that draws starts those that are missing; the shutdown of  *)
(* the core stops them (SK_StartPerfMonThreads and SK_ShutdownCore in      *)
(* src/core.cpp).  All but the processor's ask WMI, which a server thread  *)
(* of its own connects to (src/com_util.cpp), under the lock wmi_cs.       *)
(*                                                                         *)
(* A monitor has two cells, hThread and hShutdownSignal.  They are written *)
(* by the starter, by the monitor and by the shutdown, which waits for a   *)
(* monitor 66 ms and then terminates it, whatever it holds.                *)
(***************************************************************************)
EXTENDS Naturals, FiniteSets

CONSTANTS NumMonitors, \* 3: processor, disk, page file, in this order
          Starter,     \* the threads that draw
          Configurations, \* the sets of monitors, and 0 for the GPU's, that
                          \* the user may have switched on
          MaxCalls,    \* bound on the calls of SK_StartPerfMonThreads in each
          Invalid,     \* INVALID_HANDLE_VALUE
          Null,        \* nullptr
          Nobody       \* no owner of a lock

ASSUME MonitorAssumption == NumMonitors \in Nat \ {0}
ASSUME ConfigurationAssumption ==
  /\ Configurations \subseteq SUBSET (0 .. NumMonitors)
  /\ MaxCalls \in [Configurations -> Nat]
ASSUME HandleAssumption  ==
  {Invalid, Null, Nobody} \cap Starter = {} /\ Invalid # Null

Monitor == 1 .. NumMonitors
Wmi     == 2 .. NumMonitors  \* those that ask WMI
Thread  == Monitor \X Starter \* a monitor's thread, by who created it

Holding == {"setup", "refresh", "clean", "clear"}

VARIABLES
  shown,     \* the monitors that are switched on, and 0 if the GPU's is
  ending,    \* __SK_DLL_Ending
  teardown,  \* __SK_DLL_TeardownEvent is set
  hThread,   \* hThread of each monitor: whose thread it stands for
  hSignal,   \* hShutdownSignal: whose thread created the event
  open,      \* the events that exist, by the thread that created them
  signalled, \* those that are set
  at,        \* where each monitor thread stands
  lock,      \* wmi_cs: its owner, dead or alive
  once,      \* SK_RunOnce (SK_WMI_Init ()) is still to come
  server,    \* where the WMI server thread stands
  init,      \* COM::base.wmi.init
  told,      \* hShutdownServer is set
  call,      \* where each starter stands, and at which monitor
  stop,      \* where the shutdown stands with each monitor
  \* History variables.
  calls,     \* the calls of SK_StartPerfMonThreads so far
  late,      \* monitors whose start overlapped the shutdown
  cut,       \* those terminated while they closed their event
  twice      \* those whose event was closed twice

threads  == <<hThread, hSignal, open, signalled, at, lock>>
wmi      == <<once, server, init, told>>
overlaps == <<late, cut, twice>>
pvars    == <<shown, ending, teardown, threads, wmi, call, calls, stop,
              overlaps>>

Idle == <<"idle", 1>>

PerfInit ==
  /\ ending = FALSE /\ teardown = FALSE
  /\ hThread = [m \in Monitor |-> Invalid]
  /\ hSignal = [m \in Monitor |-> Invalid]
  /\ open = {} /\ signalled = {}
  /\ at = [t \in Thread |-> "off"]
  /\ lock = Nobody
  /\ once = TRUE /\ server = "none" /\ init = 0 /\ told = FALSE
  /\ call = [s \in Starter |-> Idle]
  /\ stop = [m \in Monitor |-> "todo"]
  /\ calls = 0
  /\ late = {} /\ cut = {} /\ twice = {}

Goto(t, s)     == at' = [at EXCEPT ![t] = s]
StopAt(m, s)   == stop' = [stop EXCEPT ![m] = s]
CallAt(s, c)   == call' = [call EXCEPT ![s] = c]
In(s, c)       == call[s][1] = c
Event(m)       == <<m, hSignal[m]>>
Usable(m)      == hSignal[m] # Invalid /\ Event(m) \in open
Running(t)     == at[t] # "off"

(* CloseHandle on what hShutdownSignal holds: nothing, if the event is     *)
(* gone already.                                                           *)
CloseEvent(m) ==
  /\ open' = open \ {Event(m)}
  /\ signalled' = signalled \ {Event(m)}
  /\ twice' = IF Event(m) \in open THEN twice ELSE twice \cup {m}

-----------------------------------------------------------------------------
(* Decisions of the code.  The operators named ...Slip are plausible       *)
(* mistakes the properties below are there to catch; no action uses them.  *)

PlainTestSlip(m)   == TRUE      \* a thread is created without the exchange
MayClaim(m)        == hThread[m] = Invalid

MayStart           == ~ending

LeaveSignalSlip(m) == hSignal[m]  \* the handle stays behind
Cleared(m)         == Invalid

Unlocked(t)        == IF t[1] \in Wmi THEN Nobody ELSE lock

PastTheLastSlip(m) == <<"visit", m + 1>>
After(m)           == IF m = NumMonitors THEN Idle ELSE <<"visit", m + 1>>

InfiniteSlip(m)    == FALSE     \* the wait has no limit
TimePasses(m)      == Running(<<m, hThread[m]>>)

ProcessorOnlySlip(m) == m \notin Wmi
NeedsWmi(m)          == m \in Wmi

-----------------------------------------------------------------------------
(* SK_StartPerfMonThreads.                                                 *)

Advance(s, m) == CallAt(s, After(m))

StartPerfMon(s) ==
  /\ In(s, "idle") /\ MayStart
  /\ calls < MaxCalls[shown] /\ calls' = calls + 1
  /\ CallAt(s, <<"visit", 1>>)
  /\ UNCHANGED <<shown, ending, teardown, threads, wmi, stop, overlaps>>

(* The monitor is not shown, or it is there already.                       *)
Pass(s) ==
  /\ In(s, "visit")
  /\ call[s][2] \notin shown \/ ~MayClaim(call[s][2])
  /\ Advance(s, call[s][2])
  /\ UNCHANGED <<shown, ending, teardown, threads, wmi, calls, stop, overlaps>>

(* CAS (hThread, nullptr, INVALID_HANDLE_VALUE).                           *)
Claim(s) ==
  LET m == call[s][2] IN
  /\ In(s, "visit") /\ m \in shown /\ MayClaim(m)
  /\ hThread' = [hThread EXCEPT ![m] = Null]
  /\ CallAt(s, <<"create", m>>)
  /\ late' = IF ending THEN late \cup {m} ELSE late
  /\ UNCHANGED <<shown, ending, teardown, hSignal, open, signalled, at, lock,
                 wmi, calls, stop, cut, twice>>

Create(s) ==
  LET m == call[s][2] IN
  /\ In(s, "create")
  /\ Goto(<<m, s>>, IF m \in Wmi THEN "spin" ELSE "setup")
  /\ CallAt(s, <<"store", m>>)
  /\ UNCHANGED <<shown, ending, teardown, hThread, hSignal, open, signalled,
                 lock, wmi, calls, stop, overlaps>>

Store(s) ==
  LET m == call[s][2] IN
  /\ In(s, "store")
  /\ hThread' = [hThread EXCEPT ![m] = s]
  /\ IF NeedsWmi(m) /\ once
     THEN once' = FALSE /\ CallAt(s, <<"wmi", m>>)
     ELSE UNCHANGED once /\ Advance(s, m)
  /\ UNCHANGED <<shown, ending, teardown, hSignal, open, signalled, at, lock,
                 server, init, told, calls, stop, overlaps>>

(* SK_WMI_Init: it runs once, so that the server is never there already.   *)
InitWmi(s) ==
  /\ In(s, "wmi") /\ lock = Nobody
  /\ server' = "starting"
  /\ Advance(s, call[s][2])
  /\ UNCHANGED <<shown, ending, teardown, threads, once, init, told, calls,
                 stop, overlaps>>

StarterStep(s) == StartPerfMon(s) \/ Pass(s) \/ Claim(s) \/ Create(s)
                  \/ Store(s) \/ InitWmi(s)

-----------------------------------------------------------------------------
(* SK_WMI_ServerThread.                                                    *)

Connect ==
  /\ server = "starting" /\ server' = "serving" /\ init' = 1
  /\ UNCHANGED <<shown, ending, teardown, threads, once, told, call, calls,
                 stop, overlaps>>

ConnectFails ==
  /\ server = "starting" /\ server' = "off" /\ init' = 0
  /\ UNCHANGED <<shown, ending, teardown, threads, once, told, call, calls,
                 stop, overlaps>>

Disconnect ==
  /\ server = "serving" /\ told
  /\ server' = "off" /\ init' = 0
  /\ UNCHANGED <<shown, ending, teardown, threads, once, told, call, calls,
                 stop, overlaps>>

ServerStep == Connect \/ ConnectFails \/ Disconnect

-----------------------------------------------------------------------------
(* SK_MonitorCPU, SK_MonitorDisk, SK_MonitorPagefile.                      *)

Others == <<shown, ending, teardown, hThread, wmi, call, calls, stop>>

(* SK_WMI_WaitForInit.                                                     *)
SeeInit(t) ==
  /\ at[t] = "spin" /\ init = 1
  /\ Goto(t, "enter")
  /\ UNCHANGED <<Others, hSignal, open, signalled, lock, overlaps>>

(* wmi_cs is taken to begin, for a query and to clean up.                  *)
Enter(t) ==
  /\ at[t] \in {"enter", "query", "finish"} /\ lock = Nobody
  /\ lock' = t
  /\ Goto(t, CASE at[t] = "enter" -> "setup" [] at[t] = "query" -> "refresh"
               [] at[t] = "finish" -> "clean")
  /\ UNCHANGED <<Others, hSignal, open, signalled, overlaps>>

CreateSignal(t) ==
  /\ at[t] = "setup"
  /\ hSignal' = [hSignal EXCEPT ![t[1]] = t[2]]
  /\ open' = open \cup {t} /\ signalled' = signalled \ {t}
  /\ lock' = Unlocked(t)
  /\ Goto(t, "loop")
  /\ UNCHANGED <<Others, overlaps>>

(* WMI refuses something, before there is an event or at a query.          *)
WmiFails(t) ==
  /\ at[t] \in {"setup", "refresh"} /\ t[1] \in Wmi
  /\ Goto(t, "clean")
  /\ UNCHANGED <<Others, hSignal, open, signalled, lock, overlaps>>

(* The wait ends with a signal.  The processor's monitor keeps a copy of   *)
(* the handle and also waits for the teardown; a wait on a handle that is  *)
(* closed fails, and the loop goes on.                                     *)
SeeSignal(t) ==
  /\ at[t] = "loop"
  /\ IF t[1] \in Wmi
     THEN /\ Usable(t[1]) /\ Event(t[1]) \in signalled
          /\ Goto(t, "finish")
     ELSE /\ t \in open /\ (t \in signalled \/ teardown)
          /\ Goto(t, "clean")
  /\ UNCHANGED <<Others, hSignal, open, signalled, lock, overlaps>>

(* The wait ends with its time, or fails.                                  *)
Query(t) ==
  /\ at[t] = "loop" /\ t[1] \in Wmi
  /\ ~Usable(t[1]) \/ Event(t[1]) \notin signalled
  /\ Goto(t, "query")
  /\ UNCHANGED <<Others, hSignal, open, signalled, lock, overlaps>>

Refresh(t) ==
  /\ at[t] = "refresh"
  /\ lock' = Unlocked(t)
  /\ Goto(t, "loop")
  /\ UNCHANGED <<Others, hSignal, open, signalled, overlaps>>

CloseSignal(t) ==
  /\ at[t] = "clean" /\ hSignal[t[1]] # Invalid
  /\ CloseEvent(t[1])
  /\ Goto(t, "clear")
  /\ UNCHANGED <<Others, hSignal, lock, late, cut>>

Leave(t) ==
  /\ \/ at[t] = "clear" /\ hSignal' = [hSignal EXCEPT ![t[1]] = Cleared(t[1])]
     \/ at[t] = "clean" /\ hSignal[t[1]] = Invalid /\ UNCHANGED hSignal
  /\ lock' = Unlocked(t)
  /\ Goto(t, "off")
  /\ UNCHANGED <<Others, open, signalled, overlaps>>

MonitorStep(t) ==
  \/ SeeInit(t) \/ Enter(t) \/ CreateSignal(t) \/ WmiFails(t) \/ SeeSignal(t)
  \/ Query(t) \/ Refresh(t) \/ CloseSignal(t) \/ Leave(t)

-----------------------------------------------------------------------------
(* ShutdownWMIThread, which SK_ShutdownCore calls for one monitor after    *)
(* the other.                                                              *)

Apart == <<shown, ending, teardown, wmi, call, calls>>

(* SignalObjectAndWait takes both handles or does nothing at all.          *)
BeginStop(m) ==
  /\ stop[m] = "todo"
  /\ \/ /\ hThread[m] = Invalid
        /\ StopAt(m, IF hSignal[m] = Invalid THEN "done" ELSE "signal")
        /\ UNCHANGED signalled
     \/ /\ hThread[m] \in Starter /\ Usable(m)
        /\ signalled' = signalled \cup {Event(m)}
        /\ StopAt(m, "wait")
     \/ /\ hThread[m] # Invalid /\ ~(hThread[m] \in Starter /\ Usable(m))
        /\ StopAt(m, "kill") /\ UNCHANGED signalled
  /\ UNCHANGED <<Apart, hThread, hSignal, open, at, lock, overlaps>>

Join(m) ==
  /\ stop[m] = "wait" /\ ~Running(<<m, hThread[m]>>)
  /\ hThread' = [hThread EXCEPT ![m] = Invalid]
  /\ StopAt(m, "signal")
  /\ UNCHANGED <<Apart, hSignal, open, signalled, at, lock, overlaps>>

(* 66 ms pass.                                                             *)
GiveUp(m) ==
  /\ stop[m] = "wait" /\ TimePasses(m)
  /\ StopAt(m, "kill")
  /\ UNCHANGED <<Apart, threads, overlaps>>

(* SK_TerminateThread: nothing the thread held is given back.  There may   *)
(* be no handle yet.                                                       *)
Kill(m) ==
  LET t == <<m, hThread[m]>> IN
  /\ stop[m] = "kill"
  /\ IF hThread[m] \in Starter
     THEN /\ Goto(t, "off")
          /\ cut' = IF at[t] = "clear" THEN cut \cup {m} ELSE cut
          /\ UNCHANGED late
     ELSE /\ late' = late \cup {m}
          /\ UNCHANGED <<at, cut>>
  /\ StopAt(m, "forget")
  /\ UNCHANGED <<Apart, hThread, hSignal, open, signalled, lock, twice>>

Forget(m) ==
  /\ stop[m] = "forget"
  /\ hThread' = [hThread EXCEPT ![m] = Invalid]
  /\ StopAt(m, "signal")
  /\ UNCHANGED <<Apart, hSignal, open, signalled, at, lock, overlaps>>

DropSignal(m) ==
  /\ stop[m] = "signal"
  /\ IF hSignal[m] # Invalid
     THEN CloseEvent(m) /\ hSignal' = [hSignal EXCEPT ![m] = Invalid]
     ELSE UNCHANGED <<open, signalled, twice, hSignal>>
  /\ StopAt(m, "done")
  /\ UNCHANGED <<Apart, hThread, at, lock, late, cut>>

StopStep(m) == BeginStop(m) \/ Join(m) \/ GiveUp(m) \/ Kill(m) \/ Forget(m)
               \/ DropSignal(m)
=============================================================================
