---------------------------- MODULE HookLifecycle ----------------------------
(***************************************************************************)
(* The life of the global CBT hook (src/injection/injection.cpp).          *)
(*                                                                         *)
(* A tool process installs the hook and then waits for the teardown event. *)
(* Windows maps the DLL into every process the hook reaches; each of those *)
(* runs one listener thread that holds a reference to the DLL while it     *)
(* waits for the event, and a process that uses Special K holds another    *)
(* one for good.  Whoever removes the hook (another tool process on        *)
(* request, or the installing one on its way out) sets the event, unhooks, *)
(* and looks for suspended processes that would not let go of the DLL.     *)
(* Shared are the data segment, the event and the hook itself.             *)
(***************************************************************************)
EXTENDS Integers, FiniteSets

CONSTANTS Game,        \* the processes the hook reaches
          Target,      \* those of them that use Special K
          NoPid,
          MaxInstalls, \* bound on installations
          MaxRemovals, \* bound on removal requests
          MaxLoads     \* bound on the times the DLL is mapped

ASSUME GameAssumption  == Target \subseteq Game /\ NoPid \notin Game
ASSUME BoundAssumption == {MaxInstalls, MaxRemovals, MaxLoads} \subseteq Nat

(* MAX_HOOKED_PROCS is 262144: the array is never full within the bounds.  *)
Index   == 0 .. MaxLoads
Remover == {"tool", "rundll"}
NoHook  == 0

VARIABLES
  hHookCBT,      \* shared: the handle of the hook, by installation, or NoHook
  osHook,        \* the hook Windows has installed, or NoHook
  dwHookPID,     \* shared: not zero
  event,         \* the teardown event: none, clear or set
  eventHandles,  \* who keeps the event alive
  injectedProcs, \* shared: injected_procs
  numHookedPids, \* shared: num_hooked_pids
  hookedPids,    \* shared: hooked_pids
  tool,          \* the installing process: off, event, hooked, created,
                 \*   waiting, exiting
  owner,         \* its __SK_HookContextOwner
  removal,       \* each remover's place in SKX_RemoveCBTHook
  hHookOrig,     \* its local copy of the hook handle
  refs,          \* what keeps the DLL mapped in a process
  listener,      \* its listener thread: none, start, wait, waitExit
  timed,         \* the processes whose listener waits with a timeout
  suspended,     \* the processes that are suspended
  \* History variables, for bounds and properties.
  installs, removals, loads,
  lost,          \* listeners that were killed while they were counted
  unhooks,       \* hooks removed by SKX_RemoveCBTHook
  killed         \* the tool was terminated

hookVars == <<hHookCBT, osHook, dwHookPID>>
eventVars == <<event, eventHandles>>
pidVars  == <<numHookedPids, hookedPids>>
toolVars == <<tool, owner, installs, killed>>
moveVars == <<removal, hHookOrig, removals, unhooks>>
gameVars == <<refs, listener, timed, loads, lost>>
vars == <<hookVars, eventVars, injectedProcs, pidVars, toolVars, moveVars,
          gameVars, suspended>>

Init ==
  /\ hHookCBT = NoHook /\ osHook = NoHook /\ dwHookPID = FALSE
  /\ event = "none" /\ eventHandles = {}
  /\ injectedProcs = 0 /\ numHookedPids = 0
  /\ hookedPids = [i \in Index |-> NoPid]
  /\ tool = "off" /\ owner = FALSE
  /\ removal = [r \in Remover |-> "off"]
  /\ hHookOrig = [r \in Remover |-> NoHook]
  /\ refs = [g \in Game |-> {}] /\ listener = [g \in Game |-> "none"]
  /\ timed = {} /\ suspended = {}
  /\ installs = 0 /\ removals = 0 /\ loads = 0
  /\ lost = 0 /\ unhooks = 0 /\ killed = FALSE

-----------------------------------------------------------------------------
(* Pieces of the handlers.  The operators named ...Slip are plausible      *)
(* mistakes the properties below are there to catch; no action uses them.  *)

NoPinSlip(g)        == {}            \* Acquire takes no reference
Pin(g)              == IF g \in Target THEN {"pin"} ELSE {}

UncountedSlip       == injectedProcs
OneLess             == injectedProcs - 1

DoubleSlip          == numHookedPids + 2
NextPid             == numHookedPids + 1

StaleHandleSlip     == hHookCBT
HandleAfterUnhook   == NoHook

NoFreeSlip          == {}            \* the thread ends without FreeLibrary
ListenerFrees       == {"listener"}

LostEventSlip       == event = "none"
TeardownSeen        == event # "clear"

(* A named event lives as long as somebody has a handle to it, and can be  *)
(* opened only while it lives.                                             *)
CloseEvent(who) ==
  /\ eventHandles' = eventHandles \ {who}
  /\ event' = IF eventHandles' = {} THEN "none" ELSE event

OpenEvent(who, state) ==
  IF event = "none"
  THEN UNCHANGED eventVars
  ELSE eventHandles' = eventHandles \cup {who} /\ event' = state

Advance(r, s) == removal' = [removal EXCEPT ![r] = s]

-----------------------------------------------------------------------------
(* The installing process: RunDLL_InjectionManager "Install".              *)

(* SK_Inject_InitShutdownEvent, reached only without a hook.               *)
InitShutdownEvent ==
  /\ tool = "off" /\ removal["tool"] = "off"
  /\ installs < MaxInstalls /\ installs' = installs + 1
  /\ hHookCBT = NoHook
  /\ tool' = "event"
  /\ IF ~dwHookPID
     THEN event' = "clear" /\ eventHandles' = eventHandles \cup {"tool"}
     ELSE UNCHANGED eventVars
  /\ dwHookPID' = TRUE
  /\ UNCHANGED <<hHookCBT, osHook, injectedProcs, pidVars, owner, killed,
                 moveVars, gameVars, suspended>>

InstallCBTHook ==
  /\ tool = "event"
  /\ osHook' = installs /\ hHookCBT' = installs
  /\ owner' = TRUE
  /\ tool' = "hooked"
  /\ UNCHANGED <<dwHookPID, eventVars, injectedProcs, pidVars, installs,
                 killed, moveVars, gameVars, suspended>>

(* The process is gone: Windows drops its hook and its handles.            *)
ToolEnds ==
  /\ tool' = "off" /\ owner' = FALSE
  /\ osHook' = NoHook
  /\ CloseEvent("tool")

(* SetWindowsHookEx fails: nothing is left to do, and nothing is undone.   *)
InstallFails ==
  /\ tool = "event"
  /\ ToolEnds
  /\ UNCHANGED <<hHookCBT, dwHookPID, injectedProcs, pidVars, installs, killed,
                 moveVars, gameVars, suspended>>

(* Install goes on only if the handle is there and SpecialK64.pid can be   *)
(* written; then a thread is created to wait for the teardown.             *)
CreateWaiter ==
  /\ tool = "hooked" /\ hHookCBT # NoHook
  /\ tool' = "created"
  /\ UNCHANGED <<hookVars, eventVars, injectedProcs, pidVars, owner, installs,
                 killed, moveVars, gameVars, suspended>>

(* The process exits, and on DLL_PROCESS_DETACH the owner of the hook      *)
(* removes it.                                                             *)
BeginExit ==
  /\ tool' = "exiting"
  /\ Advance("tool", IF owner THEN "signal" ELSE "off")
  /\ UNCHANGED <<hookVars, eventVars, injectedProcs, pidVars, owner, installs,
                 killed, hHookOrig, removals, unhooks, gameVars, suspended>>

InstallGivesUp == tool = "hooked" /\ BeginExit

(* The thread resets the event first, however late it comes to run.        *)
WaiterStarts ==
  /\ tool = "created"
  /\ tool' = "waiting"
  /\ OpenEvent("tool", "clear")
  /\ UNCHANGED <<hookVars, injectedProcs, pidVars, owner, installs, killed,
                 moveVars, gameVars, suspended>>

(* The wait ends, at once if there is no event.                            *)
WaiterWakes == tool = "waiting" /\ TeardownSeen /\ BeginExit

ToolExits ==
  /\ tool = "exiting" /\ removal["tool"] = "off"
  /\ ToolEnds
  /\ UNCHANGED <<hHookCBT, dwHookPID, injectedProcs, pidVars, installs, killed,
                 moveVars, gameVars, suspended>>

ToolKilled ==
  /\ tool # "off"
  /\ ToolEnds
  /\ Advance("tool", "off")
  /\ killed' = TRUE
  /\ UNCHANGED <<hHookCBT, dwHookPID, injectedProcs, pidVars, installs,
                 hHookOrig, removals, unhooks, gameVars, suspended>>

-----------------------------------------------------------------------------
(* SKX_RemoveCBTHook, run by the tool on exit or by rundll32 on request.   *)

RequestRemoval ==
  /\ removal["rundll"] = "off"
  /\ removals < MaxRemovals /\ removals' = removals + 1
  /\ Advance("rundll", "signal")
  /\ UNCHANGED <<hookVars, eventVars, injectedProcs, pidVars, toolVars,
                 hHookOrig, unhooks, gameVars, suspended>>

SignalTeardown(r) ==
  /\ removal[r] = "signal"
  /\ hHookOrig' = [hHookOrig EXCEPT ![r] = hHookCBT]
  /\ OpenEvent(r, "set")
  /\ Advance(r, "unhook")
  /\ UNCHANGED <<hookVars, injectedProcs, pidVars, toolVars,
                 removals, unhooks, gameVars, suspended>>

(* Unhooking succeeds for one remover; Windows may refuse it to a process  *)
(* that did not install the hook.                                          *)
Unhook(r) ==
  /\ removal[r] = "unhook"
  /\ \/ /\ hHookOrig[r] = osHook /\ osHook # NoHook
        /\ osHook' = NoHook
        /\ injectedProcs' = OneLess
        /\ unhooks' = unhooks + 1
        /\ Advance(r, "sweep")
     \/ /\ hHookOrig[r] = NoHook \/ hHookOrig[r] # osHook \/ r = "rundll"
        /\ Advance(r, "clear")
        /\ UNCHANGED <<osHook, injectedProcs, unhooks>>
  /\ UNCHANGED <<hHookCBT, dwHookPID, eventVars, pidVars, toolVars, hHookOrig,
                 removals, gameVars, suspended>>

(* SK_Process_IsSuspended leaves its result false on every path.           *)
IsSuspended(g) == FALSE

(* The recorded processes found suspended are resumed.  The first index    *)
(* written is 1, the last index read is the count less one.                *)
Sweep(r) ==
  /\ removal[r] = "sweep"
  /\ suspended' = suspended \ {g \in Game : /\ IsSuspended(g)
                                           /\ \E i \in 0 .. numHookedPids - 1 :
                                                hookedPids[i] = g}
  /\ Advance(r, "null")
  /\ UNCHANGED <<hookVars, eventVars, injectedProcs, pidVars, toolVars,
                 hHookOrig, removals, unhooks, gameVars>>

FinishRemoval(r) ==
  /\ removal[r] \in {"null", "clear"}
  /\ hHookCBT' = IF removal[r] = "null" THEN HandleAfterUnhook ELSE hHookCBT
  /\ dwHookPID' = FALSE
  /\ Advance(r, "off")
  /\ IF r = "rundll" THEN CloseEvent(r) ELSE UNCHANGED eventVars
  /\ UNCHANGED <<osHook, injectedProcs, pidVars, toolVars, hHookOrig,
                 removals, unhooks, gameVars, suspended>>

RemoveStep(r) == SignalTeardown(r) \/ Unhook(r) \/ Sweep(r) \/ FinishRemoval(r)

-----------------------------------------------------------------------------
(* A process the hook reaches.                                             *)

Mappable(g) ==
  /\ osHook # NoHook /\ refs[g] = {} /\ g \notin suspended
  /\ loads < MaxLoads /\ loads' = loads + 1

(* The hook maps the DLL; DllMain records the process, creates the         *)
(* listener (which cannot start before DllMain is left) with a reference,  *)
(* and a target acquires: the table of process ids has room.               *)
Load(g) ==
  /\ Mappable(g)
  /\ refs' = [refs EXCEPT ![g] = {"hook", "listener"} \cup Pin(g)]
  /\ listener' = [listener EXCEPT ![g] = "start"]
  /\ OpenEvent(g, event)
  /\ numHookedPids' = NextPid
  /\ hookedPids' = [hookedPids EXCEPT ![NextPid] = g]
  /\ UNCHANGED <<hookVars, injectedProcs, toolVars, moveVars, timed, lost,
                 suspended>>

(* In a blacklisted process DllMain returns before it does any of that.    *)
LoadBlacklisted(g) ==
  /\ g \notin Target
  /\ Mappable(g)
  /\ refs' = [refs EXCEPT ![g] = {"hook"}]
  /\ UNCHANGED <<hookVars, eventVars, injectedProcs, pidVars, toolVars,
                 moveVars, listener, timed, lost, suspended>>

(* References of g are dropped; with the last one the DLL is unmapped.     *)
Drop(g, dropped) ==
  /\ refs' = [refs EXCEPT ![g] = @ \ dropped]
  /\ IF refs'[g] = {} THEN CloseEvent(g) ELSE UNCHANGED eventVars

ListenerEnds(g) ==
  /\ listener' = [listener EXCEPT ![g] = "none"]
  /\ timed' = timed \ {g}
  /\ Drop(g, ListenerFrees)

(* Without the event there is nothing to listen to.  With more than one    *)
(* reference to the DLL the listener waits 250 ms, otherwise for ever.     *)
ListenerStarts(g) ==
  /\ listener[g] = "start" /\ g \notin suspended
  /\ IF g \in eventHandles
     THEN /\ injectedProcs' = injectedProcs + 1
          /\ listener' = [listener EXCEPT ![g] = "wait"]
          /\ timed' = IF Cardinality(refs[g]) > 1 THEN timed \cup {g}
                      ELSE timed
          /\ UNCHANGED <<eventVars, refs>>
     ELSE ListenerEnds(g) /\ UNCHANGED injectedProcs
  /\ UNCHANGED <<hookVars, pidVars, toolVars, moveVars, loads, lost,
                 suspended>>

(* On teardown a process that uses Special K waits on for its own exit.    *)
ListenerWakes(g) ==
  /\ listener[g] = "wait" /\ event = "set" /\ g \notin suspended
  /\ IF "pin" \in refs[g]
     THEN /\ listener' = [listener EXCEPT ![g] = "waitExit"]
          /\ UNCHANGED <<eventVars, injectedProcs, refs, timed>>
     ELSE ListenerEnds(g) /\ injectedProcs' = OneLess
  /\ UNCHANGED <<hookVars, pidVars, toolVars, moveVars, loads, lost,
                 suspended>>

ListenerTimesOut(g) ==
  /\ listener[g] \in {"wait", "waitExit"} /\ g \in timed /\ g \notin suspended
  /\ ListenerEnds(g)
  /\ injectedProcs' = OneLess
  /\ UNCHANGED <<hookVars, pidVars, toolVars, moveVars, loads, lost,
                 suspended>>

(* Windows takes back its reference when the process next handles a        *)
(* message without the hook.                                               *)
HookUnloads(g) ==
  /\ osHook = NoHook /\ "hook" \in refs[g] /\ g \notin suspended
  /\ Drop(g, {"hook"})
  /\ UNCHANGED <<hookVars, injectedProcs, pidVars, toolVars, moveVars,
                 listener, timed, loads, lost, suspended>>

(* ExitProcess ends the listener thread wherever it is.                    *)
Exit(g) ==
  /\ refs[g] # {}
  /\ refs' = [refs EXCEPT ![g] = {}]
  /\ listener' = [listener EXCEPT ![g] = "none"]
  /\ timed' = timed \ {g}
  /\ lost' = IF listener[g] \in {"wait", "waitExit"} THEN lost + 1 ELSE lost
  /\ suspended' = suspended \ {g}
  /\ CloseEvent(g)
  /\ UNCHANGED <<hookVars, injectedProcs, pidVars, toolVars, moveVars, loads>>

(* The system suspends a process that has the DLL mapped.                  *)
Suspend(g) ==
  /\ refs[g] # {} /\ g \notin suspended
  /\ suspended' = suspended \cup {g}
  /\ UNCHANGED <<hookVars, eventVars, injectedProcs, pidVars, toolVars,
                 moveVars, gameVars>>

GameStep(g) == \/ ListenerStarts(g) \/ ListenerWakes(g) \/ ListenerTimesOut(g)
               \/ HookUnloads(g)

ToolStep == WaiterStarts \/ WaiterWakes \/ ToolExits

Next ==
  \/ InitShutdownEvent \/ InstallCBTHook \/ InstallFails
  \/ CreateWaiter \/ InstallGivesUp \/ ToolStep \/ ToolKilled
  \/ RequestRemoval
  \/ \E r \in Remover : RemoveStep(r)
  \/ \E g \in Game : \/ Load(g) \/ LoadBlacklisted(g) \/ GameStep(g)
                      \/ Exit(g) \/ Suspend(g)

(* Threads that can run do run; a process that is not suspended handles    *)
(* messages.  Nothing obliges anyone to install, remove, load or exit.     *)
Fairness ==
  /\ WF_vars(ToolStep)
  /\ \A r \in Remover : WF_vars(RemoveStep(r))
  /\ \A g \in Game : /\ WF_vars(ListenerStarts(g)) /\ WF_vars(ListenerWakes(g))
                     /\ WF_vars(ListenerTimesOut(g)) /\ WF_vars(HookUnloads(g))

Spec == Init /\ [][Next]_vars /\ Fairness

-----------------------------------------------------------------------------
Counted(g) == listener[g] \in {"wait", "waitExit"}

(* Every variable stays in its range.                                      *)
TypeOK ==
  /\ {hHookCBT, osHook} \subseteq 0 .. MaxInstalls /\ dwHookPID \in BOOLEAN
  /\ event \in {"none", "clear", "set"}
  /\ eventHandles \subseteq Game \cup Remover
  /\ injectedProcs \in Int /\ numHookedPids \in Index
  /\ hookedPids \in [Index -> Game \cup {NoPid}]
  /\ tool \in {"off", "event", "hooked", "created", "waiting", "exiting"}
  /\ owner \in BOOLEAN /\ killed \in BOOLEAN
  /\ removal \in [Remover -> {"off", "signal", "unhook", "sweep", "null",
                              "clear"}]
  /\ hHookOrig \in [Remover -> 0 .. MaxInstalls]
  /\ refs \in [Game -> SUBSET {"hook", "listener", "pin"}]
  /\ listener \in [Game -> {"none", "start", "wait", "waitExit"}]
  /\ timed \subseteq Game /\ suspended \subseteq Game
  /\ {installs, removals, loads, lost, unhooks} \subseteq Nat

(* A process that uses Special K keeps the DLL mapped when the hook and    *)
(* the listener are gone: "Must hold a reference to this DLL so that       *)
(* removing the global hook does not crash the game".  Only its own exit   *)
(* unmaps it.                                                              *)
TargetStaysMapped ==
  [][\A g \in Target : refs[g] # {} /\ ~Exit(g) => refs'[g] # {}]_vars

(* injected_procs counts the waiting listeners, plus those that died with  *)
(* their process, less one for each unhook: no listener is counted or      *)
(* discounted twice, however its wait ends.                                *)
ListenersCounted ==
  injectedProcs = Cardinality({g \in Game : Counted(g)}) + lost - unhooks

(* Between removals, and unless the tool was killed, the shared handle     *)
(* tells whether Windows has the hook: nobody is locked out of installing. *)
HandleTellsHook ==
  ~killed /\ (\A r \in Remover : removal[r] = "off") => hHookCBT = osHook

(* Once the hook is gone and the event is not cleared again, a process     *)
(* that merely had the DLL mapped lets go of it, unless it is suspended.   *)
BystanderUnloads ==
  \A g \in Game \ Target :
    <>[](osHook = NoHook /\ event # "clear" /\ g \notin suspended)
      => <>[](refs[g] = {})

(* The installing process does not outlive a teardown it can see.          *)
ToolLeaves == tool = "waiting" /\ event = "set" ~> tool = "off"

(* injection.cpp:86: the process ids are recorded "to release the DLL in   *)
(* any process that has become suspended since hook install": the sweep of *)
(* a removal resumes every recorded process that was suspended before it.  *)
Recorded(g) == \E i \in Index : hookedPids[i] = g

SweepResumes ==
  [][\A r \in Remover, g \in Game :
       Sweep(r) /\ Recorded(g) => g \notin suspended']_vars
=============================================================================
