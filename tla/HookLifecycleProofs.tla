------------------------ MODULE HookLifecycleProofs -------------------------
(***************************************************************************)
(* What HookLifecycle promises holds for any number of processes,          *)
(* installations and removals.                                             *)
(***************************************************************************)
EXTENDS HookLifecycle, FiniteSetTheorems, TLAPS

(* The counters do not pass their bounds, and a process id is recorded     *)
(* only with a mapping.                                                    *)
Bounded ==
  /\ installs <= MaxInstalls
  /\ numHookedPids <= loads /\ loads <= MaxLoads

(* Who counts as a listener is one of finitely many.                       *)
Listening == {g \in Game : Counted(g)}

Clearing == {"sweep", "null"}   \* unhooked, and yet to clear the handle

(* The hook and its handle are one: the handle is set with the hook, and   *)
(* between the unhooking and the clearing of the handle one remover, and   *)
(* only one, is on its way to clear it, so that nobody can install.        *)
HandleFollows ==
  /\ osHook # NoHook => osHook = hHookCBT
  /\ hHookCBT # NoHook /\ osHook = NoHook =>
       \E r \in Remover : removal[r] \in Clearing
  /\ \A r \in Remover : removal[r] \in Clearing =>
       /\ osHook = NoHook /\ hHookCBT # NoHook
       /\ \A q \in Remover : removal[q] \in Clearing => q = r

(* The tool does not leave its hook behind unless it is terminated.        *)
ToolCleansUp ==
  /\ tool \in {"off", "event"} => osHook = NoHook
  /\ tool = "event" => hHookCBT = NoHook
  /\ tool \in {"hooked", "created", "waiting"} => owner
  /\ removal["tool"] # "off" => tool = "exiting"
  /\ removal["tool"] = "unhook" =>
       osHook = NoHook \/ hHookOrig["tool"] = osHook
  /\ tool = "exiting" /\ removal["tool"] \in {"off", "clear"} =>
       osHook = NoHook

HookInv == ~killed => HandleFollows /\ ToolCleansUp

(* A process that uses Special K holds the DLL for good, and a listener    *)
(* holds it while it lasts.                                                *)
Pinned == \A g \in Target : refs[g] # {} => "pin" \in refs[g]
ListenersHold == \A g \in Game : listener[g] # "none" => "listener" \in refs[g]

-----------------------------------------------------------------------------
(* Types and bounds.                                                       *)

(* Whoever lets go of the event leaves its other holders with it.          *)
LEMMA ClosedEvent ==
  ASSUME TypeOK, NEW who, CloseEvent(who)
  PROVE  /\ event' \in {"none", "clear", "set"}
         /\ eventHandles' \subseteq Game \cup Remover
BY DEF TypeOK, CloseEvent

(* The data segment, the event, the processes and the removals keep their  *)
(* types, and the counters their bounds.                                   *)
LEMMA TypeStep == TypeOK /\ Bounded /\ [Next]_vars => (TypeOK /\ Bounded)'
<1> SUFFICES ASSUME TypeOK, Bounded, [Next]_vars PROVE (TypeOK /\ Bounded)'
  OBVIOUS
<1> USE BoundAssumption, GameAssumption
    DEF TypeOK, Bounded, Index, Remover, NoHook, Advance, OpenEvent,
        hookVars, eventVars, pidVars, toolVars, moveVars, gameVars
<1>0. CASE UNCHANGED vars
  BY <1>0 DEF vars
<1>1. CASE InitShutdownEvent
  BY <1>1 DEF InitShutdownEvent
<1>2. CASE InstallCBTHook
  BY <1>2 DEF InstallCBTHook
<1>3. CASE InstallFails
  <2>1. /\ event' \in {"none", "clear", "set"}
        /\ eventHandles' \subseteq Game \cup Remover
    BY <1>3, ClosedEvent DEF InstallFails, ToolEnds
  <2>2. osHook' = 0 /\ tool' = "off" /\ owner' = FALSE
    BY <1>3 DEF InstallFails, ToolEnds
  <2>3. /\ ({hHookCBT, osHook} \subseteq 0 .. MaxInstalls)'
        /\ ({installs, removals, loads, lost, unhooks} \subseteq Nat)'
    BY <1>3, <2>2 DEF InstallFails
  <2>4. QED
    BY <1>3, <2>1, <2>2, <2>3 DEF InstallFails
<1>4. CASE CreateWaiter
  BY <1>4 DEF CreateWaiter
<1>5. CASE InstallGivesUp
  BY <1>5 DEF InstallGivesUp, BeginExit
<1>6. CASE WaiterStarts
  BY <1>6 DEF WaiterStarts
<1>7. CASE WaiterWakes
  BY <1>7 DEF WaiterWakes, BeginExit
<1>8. CASE ToolExits
  <2>1. /\ event' \in {"none", "clear", "set"}
        /\ eventHandles' \subseteq Game \cup Remover
    BY <1>8, ClosedEvent DEF ToolExits, ToolEnds
  <2>2. osHook' = 0 /\ tool' = "off" /\ owner' = FALSE
    BY <1>8 DEF ToolExits, ToolEnds
  <2>3. /\ ({hHookCBT, osHook} \subseteq 0 .. MaxInstalls)'
        /\ ({installs, removals, loads, lost, unhooks} \subseteq Nat)'
    BY <1>8, <2>2 DEF ToolExits
  <2>4. QED
    BY <1>8, <2>1, <2>2, <2>3 DEF ToolExits
<1>9. CASE ToolKilled
  <2>1. /\ event' \in {"none", "clear", "set"}
        /\ eventHandles' \subseteq Game \cup Remover
    BY <1>9, ClosedEvent DEF ToolKilled, ToolEnds
  <2>2. osHook' = 0 /\ tool' = "off" /\ owner' = FALSE
    BY <1>9 DEF ToolKilled, ToolEnds
  <2>3. /\ ({hHookCBT, osHook} \subseteq 0 .. MaxInstalls)'
        /\ ({installs, removals, loads, lost, unhooks} \subseteq Nat)'
    BY <1>9, <2>2 DEF ToolKilled
  <2>4. QED
    BY <1>9, <2>1, <2>2, <2>3 DEF ToolKilled
<1>10. CASE RequestRemoval
  BY <1>10 DEF RequestRemoval
<1>11. ASSUME NEW r \in Remover, SignalTeardown(r) PROVE (TypeOK /\ Bounded)'
  BY <1>11 DEF SignalTeardown
<1>12. ASSUME NEW r \in Remover, Unhook(r) PROVE (TypeOK /\ Bounded)'
  <2>1. osHook' \in 0 .. MaxInstalls /\ injectedProcs' \in Int
        /\ unhooks' \in Nat
    BY <1>12, SMTT(20) DEF Unhook, OneLess
  <2>2. removal' \in [Remover -> {"off", "signal", "unhook", "sweep",
                                 "null", "clear"}]
    BY <1>12 DEF Unhook
  <2>3. QED
    BY <1>12, <2>1, <2>2 DEF Unhook
<1>13. ASSUME NEW r \in Remover, Sweep(r) PROVE (TypeOK /\ Bounded)'
  BY <1>13 DEF Sweep
<1>14. ASSUME NEW r \in Remover, FinishRemoval(r) PROVE (TypeOK /\ Bounded)'
  <2>1. /\ event' \in {"none", "clear", "set"}
        /\ eventHandles' \subseteq Game \cup Remover
    BY <1>14, ClosedEvent DEF FinishRemoval
  <2>2. hHookCBT' \in 0 .. MaxInstalls
    BY <1>14 DEF FinishRemoval, HandleAfterUnhook
  <2>3. /\ ({hHookCBT, osHook} \subseteq 0 .. MaxInstalls)'
        /\ ({installs, removals, loads, lost, unhooks} \subseteq Nat)'
    BY <1>14, <2>2 DEF FinishRemoval
  <2>4. QED
    BY <1>14, <2>1, <2>2, <2>3 DEF FinishRemoval
<1>15. ASSUME NEW g \in Game, Load(g) PROVE (TypeOK /\ Bounded)'
  BY <1>15, SMTT(20) DEF Load, Mappable, Pin, NextPid
<1>16. ASSUME NEW g \in Game, LoadBlacklisted(g) PROVE (TypeOK /\ Bounded)'
  BY <1>16 DEF LoadBlacklisted, Mappable
<1>17. ASSUME NEW g \in Game, ListenerStarts(g) PROVE (TypeOK /\ Bounded)'
  <2>1. /\ event' \in {"none", "clear", "set"}
        /\ eventHandles' \subseteq Game \cup Remover
    BY <1>17, ClosedEvent DEF ListenerStarts, ListenerEnds, Drop
  <2>2. refs' \in [Game -> SUBSET {"hook", "listener", "pin"}]
    BY <1>17 DEF ListenerStarts, ListenerEnds, Drop
  <2>3. /\ listener' \in {[listener EXCEPT ![g] = "wait"],
                          [listener EXCEPT ![g] = "none"]}
        /\ timed' \in {timed, timed \cup {g}, timed \ {g}}
        /\ injectedProcs' \in {injectedProcs, injectedProcs + 1}
    BY <1>17 DEF ListenerStarts, ListenerEnds
  <2>4. listener' \in [Game -> {"none", "start", "wait", "waitExit"}]
    BY <2>3
  <2>5. injectedProcs' \in Int /\ timed' \subseteq Game
    BY <2>3
  <2>6. QED
    BY <1>17, <2>1, <2>2, <2>4, <2>5 DEF ListenerStarts
<1>18. ASSUME NEW g \in Game, ListenerWakes(g) PROVE (TypeOK /\ Bounded)'
  <2>1. /\ event' \in {"none", "clear", "set"}
        /\ eventHandles' \subseteq Game \cup Remover
    BY <1>18, ClosedEvent DEF ListenerWakes, ListenerEnds, Drop
  <2>2. refs' \in [Game -> SUBSET {"hook", "listener", "pin"}]
    BY <1>18 DEF ListenerWakes, ListenerEnds, Drop
  <2>3. /\ listener' \in [Game -> {"none", "start", "wait", "waitExit"}]
        /\ timed' \subseteq Game
    BY <1>18 DEF ListenerWakes, ListenerEnds
  <2>4. injectedProcs' \in Int
    BY <1>18 DEF ListenerWakes, OneLess
  <2>5. QED
    BY <1>18, <2>1, <2>2, <2>3, <2>4 DEF ListenerWakes
<1>19. ASSUME NEW g \in Game, ListenerTimesOut(g) PROVE (TypeOK /\ Bounded)'
  <2>1. /\ event' \in {"none", "clear", "set"}
        /\ eventHandles' \subseteq Game \cup Remover
    BY <1>19, ClosedEvent DEF ListenerTimesOut, ListenerEnds, Drop
  <2>2. refs' \in [Game -> SUBSET {"hook", "listener", "pin"}]
    BY <1>19 DEF ListenerTimesOut, ListenerEnds, Drop
  <2>3. /\ listener' \in [Game -> {"none", "start", "wait", "waitExit"}]
        /\ timed' \subseteq Game
    BY <1>19 DEF ListenerTimesOut, ListenerEnds
  <2>4. injectedProcs' \in Int
    BY <1>19 DEF ListenerTimesOut, OneLess
  <2>5. QED
    BY <1>19, <2>1, <2>2, <2>3, <2>4 DEF ListenerTimesOut
<1>20. ASSUME NEW g \in Game, HookUnloads(g) PROVE (TypeOK /\ Bounded)'
  <2>1. /\ event' \in {"none", "clear", "set"}
        /\ eventHandles' \subseteq Game \cup Remover
    BY <1>20, ClosedEvent DEF HookUnloads, Drop
  <2>2. refs' \in [Game -> SUBSET {"hook", "listener", "pin"}]
    BY <1>20 DEF HookUnloads, Drop
  <2>3. QED
    BY <1>20, <2>1, <2>2 DEF HookUnloads
<1>21. ASSUME NEW g \in Game, Exit(g) PROVE (TypeOK /\ Bounded)'
  <2>1. /\ event' \in {"none", "clear", "set"}
        /\ eventHandles' \subseteq Game \cup Remover
    BY <1>21, ClosedEvent DEF Exit
  <2>2. refs' \in [Game -> SUBSET {"hook", "listener", "pin"}]
    BY <1>21 DEF Exit
  <2>3. lost' \in Nat
    BY <1>21 DEF Exit
  <2>4. QED
    BY <1>21, <2>1, <2>2, <2>3 DEF Exit
<1>22. ASSUME NEW g \in Game, Suspend(g) PROVE (TypeOK /\ Bounded)'
  BY <1>22 DEF Suspend
<1>23. QED
  BY <1>0, <1>1, <1>2, <1>3, <1>4, <1>5, <1>6, <1>7, <1>8, <1>9, <1>10,
     <1>11, <1>12, <1>13, <1>14, <1>15, <1>16, <1>17, <1>18, <1>19, <1>20,
     <1>21, <1>22
     DEF Next, ToolStep, RemoveStep, GameStep

(* The types and the bounds are invariants.                                *)
LEMMA BoundsKept == Spec => [](TypeOK /\ Bounded)
<1>1. Init => TypeOK /\ Bounded
  <2> SUFFICES ASSUME Init PROVE TypeOK /\ Bounded
    OBVIOUS
  <2>1. 0 \in 0 .. MaxInstalls /\ 0 \in Index /\ NoHook = 0
    BY BoundAssumption DEF Index, NoHook
  <2>2. ({hHookCBT, osHook} \subseteq 0 .. MaxInstalls)
        /\ ({installs, removals, loads, lost, unhooks} \subseteq Nat)
    BY <2>1 DEF Init
  <2>3. /\ hookedPids \in [Index -> Game \cup {NoPid}]
        /\ hHookOrig \in [Remover -> 0 .. MaxInstalls]
    BY <2>1 DEF Init
  <2>4. /\ removal \in [Remover -> {"off", "signal", "unhook", "sweep",
                                   "null", "clear"}]
        /\ refs \in [Game -> SUBSET {"hook", "listener", "pin"}]
        /\ listener \in [Game -> {"none", "start", "wait", "waitExit"}]
    BY DEF Init
  <2>5. /\ injectedProcs \in Int /\ numHookedPids \in Index
        /\ eventHandles \subseteq Game \cup Remover
        /\ timed \subseteq Game /\ suspended \subseteq Game
    BY <2>1 DEF Init
  <2>6. Bounded
    BY BoundAssumption DEF Init, Bounded
  <2>7. QED
    BY <2>2, <2>3, <2>4, <2>5, <2>6 DEF Init, TypeOK
<1>2. QED
  BY <1>1, TypeStep, PTL DEF Spec

(* Every variable of the hook's life stays in its range, whatever the      *)
(* order of installations, removals, mappings and exits.                   *)
THEOREM HookTypes == Spec => []TypeOK
BY BoundsKept, PTL

-----------------------------------------------------------------------------
(* The handle and the hook.                                                *)

(* A step of installing or removing keeps the handle with the hook; what   *)
(* the processes do does not touch either.                                 *)
LEMMA HandleStep == TypeOK /\ HookInv /\ [Next]_vars => HookInv'
<1> SUFFICES ASSUME TypeOK, HookInv, [Next]_vars, ~killed'
             PROVE  (HandleFollows /\ ToolCleansUp)'
  BY DEF HookInv
<1>k. ~killed
  BY DEF Next, InitShutdownEvent, InstallCBTHook, InstallFails, CreateWaiter,
         InstallGivesUp, BeginExit, ToolStep, WaiterStarts, WaiterWakes,
         ToolExits, ToolKilled, RequestRemoval, RemoveStep, SignalTeardown,
         Unhook, Sweep, FinishRemoval, Load, LoadBlacklisted, GameStep,
         ListenerStarts, ListenerWakes, ListenerTimesOut, HookUnloads, Exit,
         Suspend, vars, toolVars
<1>h. HandleFollows /\ ToolCleansUp
  BY <1>k DEF HookInv
<1> USE <1>h
    DEF TypeOK, HandleFollows, ToolCleansUp, Clearing, Remover, NoHook,
        Advance, hookVars, toolVars, moveVars
<1>0. CASE UNCHANGED <<hookVars, toolVars, moveVars>>
  BY <1>0
<1>1. CASE InitShutdownEvent
  BY <1>1 DEF InitShutdownEvent
<1>2. CASE InstallCBTHook
  BY <1>2 DEF InstallCBTHook
<1>3. CASE InstallFails
  BY <1>3 DEF InstallFails, ToolEnds
<1>4. CASE CreateWaiter
  BY <1>4 DEF CreateWaiter
<1>5. CASE InstallGivesUp
  BY <1>5 DEF InstallGivesUp, BeginExit
<1>6. CASE WaiterStarts
  BY <1>6 DEF WaiterStarts
<1>7. CASE WaiterWakes
  BY <1>7 DEF WaiterWakes, BeginExit
<1>8. CASE ToolExits
  BY <1>8 DEF ToolExits, ToolEnds
<1>9. CASE RequestRemoval
  BY <1>9 DEF RequestRemoval
<1>10. ASSUME NEW r \in Remover, SignalTeardown(r)
      PROVE  (HandleFollows /\ ToolCleansUp)'
  BY <1>10 DEF SignalTeardown
<1>11. ASSUME NEW r \in Remover, Unhook(r)
      PROVE  (HandleFollows /\ ToolCleansUp)'
  BY <1>11 DEF Unhook
<1>12. ASSUME NEW r \in Remover, Sweep(r)
      PROVE  (HandleFollows /\ ToolCleansUp)'
  BY <1>12 DEF Sweep
<1>13. ASSUME NEW r \in Remover, FinishRemoval(r)
      PROVE  (HandleFollows /\ ToolCleansUp)'
  BY <1>13 DEF FinishRemoval, HandleAfterUnhook
<1>14. QED
  BY <1>k, <1>0, <1>1, <1>2, <1>3, <1>4, <1>5, <1>6, <1>7,
     <1>8, <1>9, <1>10, <1>11, <1>12, <1>13
     DEF Next, ToolStep, RemoveStep, GameStep, ToolKilled, Load,
         LoadBlacklisted, ListenerStarts, ListenerWakes, ListenerTimesOut,
         HookUnloads, Exit, Suspend, vars

(* injection.cpp: unless the tool was terminated, and while nobody is      *)
(* removing it, the shared handle tells whether there is a hook.           *)
THEOREM HandleIsHook == Spec => []HandleTellsHook
<1>1. Init => HookInv
  BY DEF Init, HookInv, HandleFollows, ToolCleansUp, Clearing, Remover
<1>2. HookInv => HandleTellsHook
  BY DEF HookInv, HandleFollows, HandleTellsHook, Clearing
<1>3. QED
  BY <1>1, <1>2, HandleStep, HookTypes, PTL DEF Spec

-----------------------------------------------------------------------------
(* The processes.                                                          *)

(* Only its exit takes the last reference of a process that uses the DLL.  *)
LEMMA PinnedStep ==
  /\ TypeOK /\ Pinned /\ [Next]_vars => Pinned'
  /\ TypeOK /\ Pinned /\ [Next]_vars =>
       \A g \in Target : refs[g] # {} /\ ~Exit(g) => refs'[g] # {}
<1> SUFFICES ASSUME TypeOK, Pinned, [Next]_vars, NEW h \in Target
             PROVE  /\ refs'[h] # {} => "pin" \in refs'[h]
                    /\ refs[h] # {} /\ ~Exit(h) => refs'[h] # {}
  BY DEF Pinned
<1> DEFINE Keeps == /\ refs'[h] # {} => "pin" \in refs'[h]
                    /\ refs[h] # {} /\ ~Exit(h) => refs'[h] # {}
<1> SUFFICES Keeps
  OBVIOUS
<1>h. h \in Game /\ (refs[h] # {} => "pin" \in refs[h])
  BY GameAssumption DEF Pinned
<1> USE <1>h DEF TypeOK, gameVars
<1>0. CASE refs' = refs
  BY <1>0
<1>1. ASSUME NEW g \in Game, Load(g) PROVE Keeps
  BY <1>1 DEF Load, Pin, Mappable
<1>2. ASSUME NEW g \in Game, LoadBlacklisted(g) PROVE Keeps
  BY <1>2 DEF LoadBlacklisted
<1>3. ASSUME NEW g \in Game, NEW dropped, Drop(g, dropped),
             "pin" \notin dropped
      PROVE  Keeps
  BY <1>3 DEF Drop
<1>4. ASSUME NEW g \in Game, Exit(g) PROVE Keeps
  BY <1>4 DEF Exit
<1>5. ASSUME NEW g \in Game, ListenerEnds(g) PROVE Keeps
  BY <1>3, <1>5 DEF ListenerEnds, ListenerFrees
<1>6. ASSUME NEW g \in Game, HookUnloads(g) PROVE Keeps
  BY <1>3, <1>6 DEF HookUnloads
<1>7. QED
  BY <1>0, <1>1, <1>2, <1>4, <1>5, <1>6
     DEF Next, ToolStep, RemoveStep, GameStep, InitShutdownEvent,
         InstallCBTHook, InstallFails, CreateWaiter, InstallGivesUp,
         BeginExit, WaiterStarts, WaiterWakes, ToolExits, ToolKilled,
         RequestRemoval, SignalTeardown, Unhook, Sweep, FinishRemoval,
         ListenerStarts, ListenerWakes, ListenerTimesOut, Suspend, vars

(* injection.cpp: a process that uses Special K keeps the DLL mapped until *)
(* it exits, whatever becomes of the hook and of its listener.             *)
THEOREM TargetsStayMapped == Spec => TargetStaysMapped
<1>1. Init => Pinned
  BY GameAssumption DEF Init, Pinned
<1>2. TypeOK /\ Pinned /\ [Next]_vars =>
        [\A g \in Target : refs[g] # {} /\ ~Exit(g) => refs'[g] # {}]_vars
  BY PinnedStep
<1>3. TypeOK /\ Pinned /\ [Next]_vars => Pinned'
  BY PinnedStep
<1>4. QED
  BY <1>1, <1>2, <1>3, HookTypes, PTL DEF Spec, TargetStaysMapped

-----------------------------------------------------------------------------
(* The counter.                                                            *)

CountInv == IsFiniteSet(Listening) /\ ListenersHold /\ ListenersCounted

(* The counter and the corrections make up for what a step does to the set *)
(* of listeners: it is left alone, or one comes, or one goes.              *)
LEMMA CountMoves ==
  ASSUME TypeOK', TypeOK, CountInv, NEW g \in Game,
         injectedProcs' - lost' + unhooks' = injectedProcs - lost + unhooks
           + (IF Counted(g)' THEN 1 ELSE 0) - (IF Counted(g) THEN 1 ELSE 0),
         \A h \in Game \ {g} : Counted(h)' = Counted(h)
  PROVE  IsFiniteSet(Listening') /\ ListenersCounted'
<1>1. IsFiniteSet(Listening) /\ Cardinality(Listening) \in Nat
      /\ injectedProcs = Cardinality(Listening) + lost - unhooks
  BY FS_CardinalityType DEF CountInv, ListenersCounted, Listening
<1>i. /\ injectedProcs \in Int /\ lost \in Nat /\ unhooks \in Nat
      /\ injectedProcs' \in Int /\ lost' \in Nat /\ unhooks' \in Nat
  BY DEF TypeOK
<1>2. CASE Counted(g)' = Counted(g)
  <2>1. Listening' = Listening
    BY <1>2 DEF Listening
  <2>2. Cardinality(Listening') = Cardinality(Listening)
    BY <2>1
  <2>3. injectedProcs' = Cardinality(Listening') + lost' - unhooks'
    BY <1>1, <1>2, <1>i, <2>2
  <2>4. QED
    BY <1>1, <2>1, <2>3 DEF ListenersCounted, Listening
<1>3. CASE Counted(g)' /\ ~Counted(g)
  <2>1. Listening' = Listening \cup {g} /\ g \notin Listening
    BY <1>3 DEF Listening
  <2>2. IsFiniteSet(Listening')
        /\ Cardinality(Listening') = Cardinality(Listening) + 1
    BY <1>1, <2>1, FS_AddElement
  <2>3. injectedProcs' = Cardinality(Listening') + lost' - unhooks'
    BY <1>1, <1>3, <1>i, <2>2
  <2>4. QED
    BY <2>2, <2>3 DEF ListenersCounted, Listening
<1>4. CASE ~Counted(g)' /\ Counted(g)
  <2>1. Listening' = Listening \ {g} /\ g \in Listening
    BY <1>4 DEF Listening
  <2>2. IsFiniteSet(Listening')
        /\ Cardinality(Listening') = Cardinality(Listening) - 1
    BY <1>1, <2>1, FS_RemoveElement
  <2>3. injectedProcs' = Cardinality(Listening') + lost' - unhooks'
    BY <1>1, <1>4, <1>i, <2>2
  <2>4. QED
    BY <2>2, <2>3 DEF ListenersCounted, Listening
<1>5. QED
  BY <1>2, <1>3, <1>4 DEF Counted

(* A listener is counted when it begins to wait and discounted when its    *)
(* wait ends; one that dies with its process is made up for by lost.       *)
LEMMA CountStep == TypeOK /\ Bounded /\ CountInv /\ [Next]_vars => CountInv'
<1> SUFFICES ASSUME TypeOK, Bounded, CountInv, [Next]_vars
             PROVE  CountInv'
  OBVIOUS
<1>t. TypeOK' /\ ListenersHold
  BY TypeStep DEF CountInv
<1>0. CASE UNCHANGED <<injectedProcs, listener, refs, lost, unhooks>>
  BY <1>0 DEF CountInv, ListenersHold, ListenersCounted, Listening, Counted
<1>g. ASSUME NEW g \in Game, ListenersHold',
             injectedProcs' - lost' + unhooks' = injectedProcs - lost
               + unhooks + (IF Counted(g)' THEN 1 ELSE 0)
               - (IF Counted(g) THEN 1 ELSE 0),
             \A h \in Game \ {g} : Counted(h)' = Counted(h)
      PROVE  CountInv'
  BY <1>g, <1>t, CountMoves DEF CountInv
<1>u. ASSUME NEW r \in Remover, Unhook(r) PROVE CountInv'
  <2>1. CASE UNCHANGED <<osHook, injectedProcs, unhooks>>
    BY <1>0, <1>u, <2>1 DEF Unhook, gameVars
  <2>2. CASE injectedProcs' = OneLess /\ unhooks' = unhooks + 1
    <3>1. UNCHANGED <<listener, refs, lost>>
      BY <1>u DEF Unhook, gameVars
    <3>2. Listening' = Listening /\ ListenersHold'
      BY <1>t, <3>1 DEF Listening, Counted, ListenersHold
    <3>3. Cardinality(Listening') = Cardinality(Listening)
      BY <3>2
    <3>4. Cardinality(Listening) \in Nat
      BY FS_CardinalityType DEF CountInv
    <3>5. injectedProcs' = Cardinality(Listening') + lost' - unhooks'
      BY <2>2, <3>1, <3>3, <3>4
         DEF CountInv, ListenersCounted, Listening, OneLess, TypeOK
    <3>6. QED
      BY <3>2, <3>5 DEF CountInv, ListenersCounted, Listening
  <2>3. QED
    BY <1>u, <2>1, <2>2 DEF Unhook
<1> USE <1>t DEF TypeOK, Counted, ListenersHold, gameVars, moveVars
<1>1. ASSUME NEW g \in Game, Load(g) PROVE CountInv'
  <2>1. listener[g] = "none" /\ UNCHANGED <<injectedProcs, lost, unhooks>>
        /\ listener' = [listener EXCEPT ![g] = "start"] /\ ListenersHold'
    BY <1>1 DEF Load, Mappable
  <2>2. QED
    BY <1>g, <2>1
<1>2. ASSUME NEW g \in Game, LoadBlacklisted(g) PROVE CountInv'
  <2>1. UNCHANGED <<injectedProcs, listener, lost, unhooks>> /\ ListenersHold'
    BY <1>2 DEF LoadBlacklisted, Mappable
  <2>2. QED
    BY <1>g, <2>1
<1>3. ASSUME NEW g \in Game, ListenerStarts(g) PROVE CountInv'
  <2>1. CASE g \in eventHandles
    <3>1. listener[g] = "start" /\ UNCHANGED <<lost, unhooks>>
          /\ injectedProcs' = injectedProcs + 1
          /\ listener' = [listener EXCEPT ![g] = "wait"] /\ ListenersHold'
      BY <1>3, <2>1 DEF ListenerStarts
    <3>2. QED
      BY <1>g, <3>1
  <2>2. CASE g \notin eventHandles
    <3>1. listener[g] = "start" /\ UNCHANGED <<injectedProcs, lost, unhooks>>
          /\ listener' = [listener EXCEPT ![g] = "none"] /\ ListenersHold'
      BY <1>3, <2>2 DEF ListenerStarts, ListenerEnds, ListenerFrees, Drop
    <3>2. QED
      BY <1>g, <3>1
  <2>3. QED
    BY <2>1, <2>2
<1>4. ASSUME NEW g \in Game, ListenerWakes(g) PROVE CountInv'
  <2>1. CASE "pin" \in refs[g]
    <3>1. listener[g] = "wait" /\ UNCHANGED <<injectedProcs, lost, unhooks>>
          /\ listener' = [listener EXCEPT ![g] = "waitExit"]
          /\ ListenersHold'
      BY <1>4, <2>1 DEF ListenerWakes
    <3>2. QED
      BY <1>g, <3>1
  <2>2. CASE "pin" \notin refs[g]
    <3>1. listener[g] = "wait" /\ UNCHANGED <<lost, unhooks>>
          /\ injectedProcs' = injectedProcs - 1
          /\ listener' = [listener EXCEPT ![g] = "none"] /\ ListenersHold'
      BY <1>4, <2>2
         DEF ListenerWakes, ListenerEnds, ListenerFrees, Drop, OneLess
    <3>2. QED
      BY <1>g, <3>1
  <2>3. QED
    BY <2>1, <2>2
<1>5. ASSUME NEW g \in Game, ListenerTimesOut(g) PROVE CountInv'
  <2>1. Counted(g) /\ UNCHANGED <<lost, unhooks>>
        /\ injectedProcs' = injectedProcs - 1
        /\ listener' = [listener EXCEPT ![g] = "none"] /\ ListenersHold'
    BY <1>5
       DEF ListenerTimesOut, ListenerEnds, ListenerFrees, Drop, OneLess
  <2>2. QED
    BY <1>g, <2>1
<1>6. ASSUME NEW g \in Game, HookUnloads(g) PROVE CountInv'
  <2>1. UNCHANGED <<injectedProcs, listener, lost, unhooks>> /\ ListenersHold'
    BY <1>6 DEF HookUnloads, Drop
  <2>2. QED
    BY <1>g, <2>1
<1>7. ASSUME NEW g \in Game, Exit(g) PROVE CountInv'
  <2>1. /\ lost' = IF Counted(g) THEN lost + 1 ELSE lost
        /\ UNCHANGED <<injectedProcs, unhooks>>
        /\ listener' = [listener EXCEPT ![g] = "none"] /\ ListenersHold'
    BY <1>7 DEF Exit
  <2>2. QED
    BY <1>g, <2>1
<1>8. QED
  BY <1>0, <1>u, <1>1, <1>2, <1>3, <1>4, <1>5, <1>6, <1>7
     DEF Next, ToolStep, RemoveStep, GameStep, InitShutdownEvent,
         InstallCBTHook, InstallFails, CreateWaiter, InstallGivesUp,
         BeginExit, WaiterStarts, WaiterWakes, ToolExits, ToolKilled,
         RequestRemoval, SignalTeardown, Sweep, FinishRemoval, Suspend, vars

(* injection.cpp: injected_procs counts the listeners that wait, but for   *)
(* those that died with their process, and one less for every unhooking.   *)
THEOREM ListenersAreCounted == Spec => []ListenersCounted
<1>1. Init => CountInv
  <2> SUFFICES ASSUME Init PROVE CountInv
    OBVIOUS
  <2>1. Listening = {}
    BY DEF Init, Listening, Counted
  <2>2. IsFiniteSet(Listening) /\ Cardinality(Listening) = 0
    BY <2>1, FS_EmptySet
  <2>3. QED
    BY <2>2
       DEF Init, CountInv, ListenersHold, ListenersCounted, Listening
<1>2. CountInv => ListenersCounted
  BY DEF CountInv
<1>3. QED
  BY <1>1, <1>2, CountStep, BoundsKept, PTL DEF Spec
=============================================================================
