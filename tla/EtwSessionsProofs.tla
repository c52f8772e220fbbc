-------------------------- MODULE EtwSessionsProofs --------------------------
(***************************************************************************)
(* The table of tracing sessions, for any number of games, slots, starts,  *)
(* failures and crashes.                                                   *)
(*                                                                         *)
(* Nobody releases the mutex of the table, and yet it guards the table: a  *)
(* thread at the table owns the mutex because it was let in as its owner,  *)
(* and nothing that others do takes the mutex from an owner.  It goes only *)
(* with its last handle, and is abandoned only by its owner's end.         *)
(*                                                                         *)
(* The worker of a game and the thread that shuts it down both take down   *)
(* the session and the slot.  Who does is decided by the wait between the  *)
(* two (ShutdownInv), from which it follows that the slots are gone when   *)
(* they are through (Cleared), and that a session runs under a name only   *)
(* while its process has the slot of that name (SessionInv).               *)
(***************************************************************************)
EXTENDS EtwSessions, WellFoundedInduction, TLAPS

Step == {"off", "open", "lock", "table", "close", "start", "running",
         "retry", "stop", "wait", "ended", "success"}

StepsTyped   == step \in [Thread -> Step]

(* A thread keeps its handle open from CreateMutex to CloseHandle.         *)
HandlesOpen  == \A t \in Thread : step[t] \in {"lock", "table"} => t \in opened

MutexInv == StepsTyped /\ HandlesOpen /\ TableGuarded

(* The names for the mutex's states are no threads.                        *)
LEMMA NotThreads == NoMutex \notin Thread /\ Abandoned \notin Thread
BY ProcAssumption DEF NoMutex, Abandoned, Thread, Worker, Closer

(* The threads of a process.                                               *)
LEMMA WorkersAndClosers ==
  ASSUME NEW p \in Proc
  PROVE  <<p, "worker">> \in Thread /\ <<p, "closer">> \in Thread
BY DEF Thread, Worker, Closer

(* A thread that has its handle open and does not end keeps the mutex.     *)
LEMMA OwnerKeeps ==
  ASSUME NEW open, NEW ended, NEW t \in open, mutex = t, t \notin ended
  PROVE  MutexAfter(open, ended) = t
BY DEF MutexAfter

(* At the start there is no mutex and nobody at the table.                 *)
LEMMA MutexInvInit == Init => MutexInv
BY DEF Init, MutexInv, StepsTyped, HandlesOpen, TableGuarded, Step

(* Another thread's step leaves a thread where it is.                      *)
LEMMA MutexInvStep == MutexInv /\ [Next]_vars => MutexInv'
<1> SUFFICES ASSUME MutexInv, [Next]_vars PROVE MutexInv'
  OBVIOUS
<1> USE DEF MutexInv, StepsTyped, HandlesOpen, TableGuarded, Step, Goto, Begin
<1>1. CASE UNCHANGED vars
  BY <1>1 DEF vars
<1>2. ASSUME NEW t \in Thread, OpenMutex(t) PROVE MutexInv'
  <2>1. \A u \in Thread : step[u] = "table" => OwnerAfterOpen(t) = u
    BY NotThreads DEF OwnerAfterOpen
  <2>2. QED
    BY <1>2, <2>1 DEF OpenMutex
<1>3. ASSUME NEW t \in Thread, Lock(t) PROVE MutexInv'
  <2>1. \/ step' = [step EXCEPT ![t] = "table"] /\ mutex = t
        \/ step' = [step EXCEPT ![t] = "close"]
    BY <1>3 DEF Lock
  <2>2. mutex' = t /\ mutex \in {t, Abandoned} /\ step[t] = "lock"
        /\ opened' = opened
    BY <1>3 DEF Lock
  <2>3. \A u \in Thread \ {t} : step[u] # "table"
    BY <2>2, NotThreads
  <2>4. QED
    BY <2>1, <2>2, <2>3
<1>4. ASSUME NEW t \in Thread, Register(t) \/ Unregister(t) PROVE MutexInv'
  BY <1>4 DEF Register, Unregister
<1>5. ASSUME NEW t \in Thread, Close(t) PROVE MutexInv'
  <2>1. opened' = opened \ {t}
    BY <1>5 DEF Close
  <2>2. PICK ended \in SUBSET {t} : mutex' = MutexAfter(opened', ended)
    BY <1>5 DEF Close
  <2>3. \E s \in Step \ {"lock", "table"} : step' = [step EXCEPT ![t] = s]
    BY <1>5 DEF Close
  <2>4. ASSUME NEW u \in Thread \ {t}, step[u] = "table" PROVE mutex' = u
    BY <2>1, <2>2, <2>4, OwnerKeeps
  <2>5. QED
    BY <2>1, <2>3, <2>4
<1>6. ASSUME NEW p \in Proc, Spawn(p) PROVE MutexInv'
  BY <1>6, WorkersAndClosers DEF Spawn
<1>7. ASSUME NEW t \in Thread, WorkerStep(t) PROVE MutexInv'
  BY <1>7 DEF WorkerStep, StartTraceSession, StartFails, Retry, SeeTeardown
<1>8. ASSUME NEW t \in Thread, StopTraceSession(t) \/ WaitForWorker(t)
      PROVE  MutexInv'
  BY <1>8 DEF StopTraceSession, WaitForWorker
<1>9. ASSUME NEW p \in Proc, Shutdown(p) PROVE MutexInv'
  <2> DEFINE w == <<p, "worker">>
             c == <<p, "closer">>
  <2>1. CASE step' = [step EXCEPT ![c] = "wait"] /\ UNCHANGED mutex
    BY <1>9, <2>1, WorkersAndClosers DEF Shutdown
  <2>2. CASE /\ step' = [step EXCEPT ![c] = "wait", ![w] = "ended"]
             /\ mutex' = MutexAfter(opened, {w})
    <3>1. UNCHANGED opened
      BY <1>9 DEF Shutdown
    <3>2. ASSUME NEW u \in Thread, step'[u] = "table"
          PROVE  step[u] = "table" /\ u # w
      BY <2>2, <3>2, WorkersAndClosers
    <3>3. ASSUME NEW u \in Thread, step'[u] = "table" PROVE mutex' = u
      BY <2>2, <3>2, <3>3, OwnerKeeps
    <3>4. StepsTyped' /\ HandlesOpen'
      BY <2>2, <3>1, WorkersAndClosers
    <3>5. QED
      BY <3>3, <3>4
  <2>3. QED
    BY <1>9, <2>1, <2>2 DEF Shutdown
<1>10. ASSUME NEW p \in Proc, ProcessEnds(p) PROVE MutexInv'
  <2> DEFINE mine == {<<p, "worker">>, <<p, "closer">>}
  <2>1. /\ opened' = opened \ mine /\ mutex' = MutexAfter(opened', mine)
        /\ step' = [t \in Thread |-> IF t \in mine THEN "off" ELSE step[t]]
    BY <1>10 DEF ProcessEnds
  <2> HIDE DEF mine
  <2>2. ASSUME NEW u \in Thread \ mine, step[u] = "table" PROVE mutex' = u
    BY <2>1, <2>2, OwnerKeeps
  <2>3. QED
    BY <2>1, <2>2
<1>11. QED
  BY <1>1, <1>2, <1>3, <1>4, <1>5, <1>6, <1>7, <1>8, <1>9, <1>10
  DEF Next, ThreadStep, TableStep

(* The table is only ever read or written by the owner of the mutex.       *)
THEOREM MutexGuards == Spec => []TableGuarded
<1>1. MutexInv => TableGuarded
  BY DEF MutexInv
<1>2. QED
  BY MutexInvInit, MutexInvStep, <1>1, PTL DEF Spec

-----------------------------------------------------------------------------
(* Types, and the slots and names that are handed out.                     *)

W(p) == <<p, "worker">>
C(p) == <<p, "closer">>

Asks == {"open", "lock", "table", "close"}

TracingTypes ==
  /\ dwPid \in [Slot -> Proc \cup {Nobody}]
  /\ step \in [Thread -> Step]
  /\ call \in [Thread -> {"parse", "reuse", "fresh", "unregister"}]
  /\ answer \in [Thread -> Slot \cup {NoName}]
  /\ session \in [Slot -> Proc \cup {Nobody, Orphan}]
  /\ name \in [Proc -> Slot \cup {NoName}]
  /\ alive \subseteq Proc /\ teardown \subseteq alive
  /\ stolen \in BOOLEAN /\ hasty \in BOOLEAN

(* A process has two threads, its worker and the one that shuts it down.   *)
LEMMA TwoThreads ==
  /\ \A p \in Proc :
       /\ W(p) \in Worker \ Closer /\ C(p) \in Closer \ Worker
       /\ {W(p), C(p)} \subseteq Thread /\ W(p)[1] = p /\ C(p)[1] = p
  /\ \A t \in Thread : t[1] \in Proc /\ t \in {W(t[1]), C(t[1])}
  /\ \A p, q \in Proc : W(p) # C(q)
  /\ \A p, q \in Proc : p # q => W(p) # W(q) /\ C(p) # C(q)
BY DEF W, C, Worker, Closer, Thread

(* A set of numbers that is not empty has a least one.                     *)
LEMMA LeastOf ==
  ASSUME NEW T, T \subseteq Nat, T # {}
  PROVE  Min(T) \in T
<1>1. \E x \in T : \A y \in T : <<y, x>> \notin OpToRel(<, Nat)
  BY NatLessThanWellFounded, WFMin, Zenon
<1>2. \A x, y \in Nat : <<y, x>> \notin OpToRel(<, Nat) <=> ~(y < x)
  BY Zenon DEF OpToRel
<1>3. \E x \in T : \A y \in T : x <= y
  <2>1. PICK x \in T : \A y \in T : <<y, x>> \notin OpToRel(<, Nat)
    BY <1>1
  <2>2. \A y \in T : ~(y < x)
    BY <1>2, <2>1
  <2>3. QED
    BY <2>2
<1>4. QED
  BY <1>3 DEF Min

(* The slots are numbers, and their count is none of them.                 *)
LEMMA SlotsAreNumbers ==
  /\ NoName = NumSessions /\ NumSessions \in Nat /\ NumSessions - 1 \in Slot
  /\ Slot \subseteq Nat /\ NumSessions \notin Slot
BY SizeAssumption DEF Slot, NoName

(* The search in the table ends at a slot, or past the last.               *)
LEMMA FirstIsSlot ==
  ASSUME NEW S, S \subseteq Slot
  PROVE  FirstOf(S) \in S \cup {NumSessions}
<1>1. S \cup {NumSessions} \subseteq Nat
  BY SlotsAreNumbers
<1>2. QED
  BY <1>1, LeastOf DEF FirstOf

(* So does the choice of the slot to register in.                          *)
LEMMA ChoiceIsSlot ==
  ASSUME NEW p, NEW reuse
  PROVE  Choice(p, reuse) \in Slot \cup {NumSessions}
<1> DEFINE a == FirstOf({i \in Slot : dwPid[i] = Nobody})
           b == FirstOf({i \in Slot : LooksFree(p, i)})
           c == IF reuse THEN b ELSE NumSessions - 1
<1>1. a \in Slot \cup {NumSessions} /\ b \in Slot \cup {NumSessions}
  BY FirstIsSlot
<1>2. {a, c} \subseteq Slot \cup {NumSessions}
  BY <1>1, SlotsAreNumbers
<1> HIDE DEF a, c
<1>3. {a, c} \subseteq Nat
  BY <1>2, SlotsAreNumbers
<1>4. Min({a, c}) \in {a, c}
  BY <1>3, LeastOf
<1>5. Choice(p, reuse) = Min({a, c})
  BY DEF Choice, a, c
<1>6. QED
  BY <1>2, <1>4, <1>5

(* Every variable of the table, the threads and the sessions stays in its  *)
(* range.                                                                  *)
LEMMA TracingTypesStep == TracingTypes /\ [Next]_vars => TracingTypes'
<1> SUFFICES ASSUME TracingTypes, [Next]_vars PROVE TracingTypes'
  OBVIOUS
<1> USE TwoThreads, SlotsAreNumbers
    DEF TracingTypes, Goto, Begin, Step, tracing, histories
<1>1. CASE UNCHANGED vars
  BY <1>1 DEF vars
<1>2. ASSUME NEW t \in Thread, OpenMutex(t) PROVE TracingTypes'
  BY <1>2 DEF OpenMutex
<1>3. ASSUME NEW t \in Thread, Lock(t) PROVE TracingTypes'
  BY <1>3 DEF Lock
<1>4. ASSUME NEW t \in Thread, Register(t) PROVE TracingTypes'
  <2> DEFINE idx == Choice(t[1], call[t] # "fresh")
  <2>1. idx \in Slot \cup {NumSessions}
    BY ChoiceIsSlot
  <2> HIDE DEF idx
  <2>2. IF idx = NumSessions
        THEN UNCHANGED <<dwPid, answer, stolen>>
        ELSE /\ dwPid' = [dwPid EXCEPT ![idx] = t[1]]
             /\ answer' = [answer EXCEPT ![t] = NameGiven(idx)]
             /\ stolen' \in BOOLEAN
    BY <1>4 DEF Register, idx
  <2>3. NameGiven(idx) \in Slot \cup {NoName}
    BY <2>1 DEF NameGiven
  <2>4. /\ dwPid' \in [Slot -> Proc \cup {Nobody}] /\ stolen' \in BOOLEAN
        /\ answer' \in [Thread -> Slot \cup {NoName}]
    BY <2>1, <2>2, <2>3
  <2>5. QED
    BY <1>4, <2>4 DEF Register
<1>5. ASSUME NEW t \in Thread, Unregister(t) PROVE TracingTypes'
  <2> DEFINE S == {i \in Slot : Unregisters(t[1], i)}
  <2>1. FirstOf(S) \in Slot \cup {NoName}
    BY FirstIsSlot
  <2> HIDE DEF S
  <2>2. answer' = [answer EXCEPT ![t] = FirstOf(S)]
    BY <1>5 DEF Unregister, S
  <2>3. QED
    BY <1>5, <2>1, <2>2 DEF Unregister
<1>6. ASSUME NEW t \in Thread, Close(t) PROVE TracingTypes'
  BY <1>6 DEF Close
<1>7. ASSUME NEW p \in Proc, Spawn(p) PROVE TracingTypes'
  BY <1>7 DEF Spawn, W
<1>8. ASSUME NEW t \in Thread, StartTraceSession(t) PROVE TracingTypes'
  BY <1>8 DEF StartTraceSession
<1>9. ASSUME NEW t \in Thread,
             StartFails(t) \/ Retry(t) \/ SeeTeardown(t)
      PROVE  TracingTypes'
  BY <1>9 DEF StartFails, Retry, SeeTeardown
<1>10. ASSUME NEW t \in Thread, StopTraceSession(t) PROVE TracingTypes'
  BY <1>10 DEF StopTraceSession
<1>11. ASSUME NEW t \in Thread, WaitForWorker(t) PROVE TracingTypes'
  <2>1. \E s \in Step : step' = [step EXCEPT ![t] = s]
    BY <1>11 DEF WaitForWorker
  <2>2. hasty' \in BOOLEAN
    BY <1>11 DEF WaitForWorker
  <2>3. QED
    BY <1>11, <2>1, <2>2 DEF WaitForWorker
<1>12. ASSUME NEW p \in Proc, Shutdown(p) PROVE TracingTypes'
  <2>1. step' \in [Thread -> Step]
    BY <1>12 DEF Shutdown, W, C
  <2>2. QED
    BY <1>12, <2>1 DEF Shutdown
<1>13. ASSUME NEW p \in Proc, ProcessEnds(p) PROVE TracingTypes'
  BY <1>13 DEF ProcessEnds
<1>14. QED
  BY <1>1, <1>2, <1>3, <1>4, <1>5, <1>6, <1>7, <1>8, <1>9, <1>10, <1>11,
     <1>12, <1>13
     DEF Next, ThreadStep, TableStep, WorkerStep

-----------------------------------------------------------------------------
(* The shutdown of a game.                                                 *)

Ended(p) == step[W(p)] \in {"ended", "success"}

(* A process that is gone has no thread and no name.  The thread that      *)
(* shuts a game down does nothing but wait, stop and unregister, and once  *)
(* it has waited the worker has ended, unless the wait timed out.          *)
ShutdownInv ==
  /\ \A p \in Proc \ alive :
       /\ step[W(p)] = "off" /\ step[C(p)] = "off"
       /\ answer[W(p)] = NoName /\ name[p] = NoName
  /\ \A p \in Proc :
       /\ step[C(p)] # "off" => p \in teardown
       /\ step[C(p)] \notin {"start", "running", "retry"}
       /\ step[C(p)] \in Asks => call[C(p)] = "unregister"
  /\ \A p \in Proc \ timedOut :
       step[C(p)] \notin {"off", "wait"} => Ended(p)
  /\ timedOut # {} => hasty

(* The wait is the only way past the worker, and whoever is through with   *)
(* it finds a worker that does nothing more.                               *)
LEMMA ShutdownInvStep ==
  TracingTypes /\ ShutdownInv /\ [Next]_vars => ShutdownInv'
<1> SUFFICES ASSUME TracingTypes, ShutdownInv, [Next]_vars
             PROVE  ShutdownInv'
  OBVIOUS
<1> USE TwoThreads
    DEF TracingTypes, ShutdownInv, Ended, Asks, Goto, Begin, tracing,
        histories
<1>1. CASE UNCHANGED vars
  BY <1>1 DEF vars
<1>2. ASSUME NEW t \in Thread, OpenMutex(t) PROVE ShutdownInv'
  BY <1>2 DEF OpenMutex
<1>3. ASSUME NEW t \in Thread, Lock(t) PROVE ShutdownInv'
  BY <1>3 DEF Lock
<1>4. ASSUME NEW t \in Thread, Register(t) PROVE ShutdownInv'
  <2>1. /\ step[t] = "table" /\ step' = [step EXCEPT ![t] = "close"]
        /\ \A u \in Thread \ {t} : answer'[u] = answer[u]
        /\ UNCHANGED <<call, name, alive, teardown, timedOut, hasty>>
    BY <1>4 DEF Register
  <2>2. QED
    BY <2>1
<1>5. ASSUME NEW t \in Thread, Unregister(t) PROVE ShutdownInv'
  BY <1>5 DEF Unregister
<1>6. ASSUME NEW t \in Thread, Close(t) PROVE ShutdownInv'
  <2>1. /\ step[t] = "close" /\ answer' = [answer EXCEPT ![t] = NoName]
        /\ UNCHANGED <<alive, teardown, timedOut, hasty>>
    BY <1>6 DEF Close
  <2>2. CASE call[t] = "unregister"
    <3>1. /\ step' \in {[step EXCEPT ![t] = "ended"],
                       [step EXCEPT ![t] = "success"]}
          /\ UNCHANGED <<call, name>>
      BY <1>6, <2>2 DEF Close
    <3>2. QED
      BY <2>1, <2>2, <3>1
  <2>3. CASE call[t] # "unregister"
    <3>1. t = W(t[1]) /\ t[1] \in alive
      BY <2>1, <2>3
    <3>2. /\ \A u \in Thread \ {t} : step'[u] = step[u] /\ call'[u] = call[u]
          /\ \A p \in Proc \ {t[1]} : name'[p] = name[p]
      BY <1>6, <2>3 DEF Close
    <3>3. \A p \in Proc : step'[C(p)] = step[C(p)] /\ call'[C(p)] = call[C(p)]
      BY <3>1, <3>2
    <3>4. \A p \in Proc \ {t[1]} : step'[W(p)] = step[W(p)]
      BY <3>1, <3>2
    <3>5. step[C(t[1])] \in {"off", "wait"} \/ t[1] \in timedOut
      BY <2>1, <3>1
    <3>6. QED
      BY <2>1, <3>1, <3>2, <3>3, <3>4, <3>5
  <2>4. QED
    BY <2>2, <2>3
<1>7. ASSUME NEW p \in Proc, Spawn(p) PROVE ShutdownInv'
  <2>1. /\ p \notin alive /\ alive' = alive \cup {p}
        /\ step' = [step EXCEPT ![W(p)] = "open"]
        /\ call' = [call EXCEPT ![W(p)] = "parse"]
        /\ UNCHANGED <<name, answer, teardown, timedOut, hasty>>
    BY <1>7 DEF Spawn, W
  <2>2. QED
    BY <2>1
<1>8. ASSUME NEW t \in Worker, WorkerStep(t) PROVE ShutdownInv'
  <2>1. t \in Thread /\ t = W(t[1]) /\ t[1] \in Proc
    BY DEF Thread
  <2>2. /\ step[t] \in {"start", "running", "retry"}
        /\ \A u \in Thread \ {t} : step'[u] = step[u] /\ call'[u] = call[u]
        /\ UNCHANGED <<name, answer, alive, teardown, timedOut, hasty>>
    BY <1>8, <2>1
       DEF WorkerStep, StartTraceSession, StartFails, Retry, SeeTeardown
  <2>3. \A p \in Proc : step'[C(p)] = step[C(p)] /\ call'[C(p)] = call[C(p)]
    BY <2>1, <2>2
  <2>4. \A p \in Proc \ {t[1]} : step'[W(p)] = step[W(p)]
    BY <2>1, <2>2
  <2>5. t[1] \in alive /\ ~Ended(t[1])
    BY <2>1, <2>2
  <2>6. QED
    BY <2>2, <2>3, <2>4, <2>5
<1>9. ASSUME NEW t \in Thread, StopTraceSession(t) PROVE ShutdownInv'
  <2>1. /\ step[t] = "stop" /\ step' = [step EXCEPT ![t] = "open"]
        /\ call' = [call EXCEPT ![t] = "unregister"]
        /\ UNCHANGED <<name, answer, alive, teardown, timedOut, hasty>>
    BY <1>9 DEF StopTraceSession
  <2>2. QED
    BY <2>1
<1>10. ASSUME NEW t \in Closer, WaitForWorker(t) PROVE ShutdownInv'
  <2>1. t \in Thread /\ t = C(t[1]) /\ t[1] \in Proc
    BY DEF Thread
  <2>2. /\ step[t] = "wait"
        /\ UNCHANGED <<name, answer, call, alive, teardown>>
        /\ step' \in {[step EXCEPT ![t] = "success"],
                     [step EXCEPT ![t] = "stop"]}
        /\ \/ Ended(t[1]) /\ UNCHANGED <<hasty, timedOut>>
           \/ hasty' /\ timedOut' = timedOut \cup {t[1]}
    BY <1>10, <2>1 DEF WaitForWorker, WorkerEnded, W
  <2>3. QED
    BY <2>1, <2>2
<1>11. ASSUME NEW p \in Proc, Shutdown(p) PROVE ShutdownInv'
  <2>1. /\ p \in alive \ teardown /\ teardown' = teardown \cup {p}
        /\ step' \in {[step EXCEPT ![C(p)] = "wait"],
                     [step EXCEPT ![C(p)] = "wait", ![W(p)] = "ended"]}
        /\ UNCHANGED <<name, answer, call, alive, timedOut, hasty>>
    BY <1>11 DEF Shutdown, W, C
  <2>2. QED
    BY <2>1
<1>12. ASSUME NEW p \in Proc, ProcessEnds(p) PROVE ShutdownInv'
  <2>1. /\ alive' = alive \ {p} /\ teardown' = teardown \ {p}
        /\ name' = [name EXCEPT ![p] = NoName]
        /\ timedOut' = timedOut \ {p} /\ hasty' = hasty
        /\ step' = [t \in Thread |-> IF t \in {W(p), C(p)} THEN "off"
                                     ELSE step[t]]
        /\ call' = [t \in Thread |-> IF t \in {W(p), C(p)} THEN "parse"
                                     ELSE call[t]]
        /\ answer' = [t \in Thread |-> IF t \in {W(p), C(p)} THEN NoName
                                       ELSE answer[t]]
    BY <1>12 DEF ProcessEnds, W, C
  <2>2. QED
    BY <2>1
<1>13. QED
  BY <1>1, <1>2, <1>3, <1>4, <1>5, <1>6, <1>7, <1>8, <1>9, <1>10, <1>11,
     <1>12
     DEF Next, ThreadStep, TableStep

(* At the start no game runs.                                              *)
LEMMA ShutdownInvInit == Init => TracingTypes /\ ShutdownInv
<1> SUFFICES ASSUME Init PROVE TracingTypes /\ ShutdownInv
  OBVIOUS
<1>1. TracingTypes
  BY DEF Init, TracingTypes, Step
<1>2. ShutdownInv
  BY TwoThreads DEF Init, ShutdownInv, Asks
<1>3. QED
  BY <1>1, <1>2

(* SK_ETW_EndTracing: the worker of a game and the thread that shuts it    *)
(* down never are both in StopTraceSession, unless the wait timed out.     *)
THEOREM StopsOnlyOnce == Spec => []StopsOnce
<1>1. ShutdownInv /\ TracingTypes => StopsOnce
  <2> SUFFICES ASSUME ShutdownInv, TracingTypes,
                      NEW p \in alive \ timedOut,
                      Stopping(W(p)), Stopping(C(p))
               PROVE  FALSE
    BY DEF StopsOnce, W, C
  <2>1. p \in Proc
    BY DEF TracingTypes
  <2>2. step[C(p)] \notin {"off", "wait"} /\ ~Ended(p)
    BY DEF Stopping, Ended
  <2>3. QED
    BY <2>1, <2>2 DEF ShutdownInv
<1>2. QED
  BY <1>1, ShutdownInvInit, ShutdownInvStep, TracingTypesStep, PTL DEF Spec

(* A thread that has unregistered its process.  A worker that has ended    *)
(* may have been ended before it could.                                    *)
Through(t) == \/ step[t] = "success"
              \/ step[t] = "ended" /\ t \in Closer
              \/ step[t] = "close" /\ call[t] = "unregister"

(* Who has unregistered, and was not kept from it, has left no slot.       *)
Cleared ==
  \A p \in alive \ (timedOut \cup skipped) :
    Through(W(p)) \/ Through(C(p)) => \A i \in Slot : dwPid[i] # p

(* Nobody registers a process whose worker has ended.                      *)
LEMMA ClearedStep ==
  TracingTypes /\ ShutdownInv /\ Cleared /\ [Next]_vars => Cleared'
<1> SUFFICES ASSUME TracingTypes, ShutdownInv, Cleared, [Next]_vars
             PROVE  Cleared'
  OBVIOUS
<1>t. alive' \subseteq Proc
  BY TracingTypesStep DEF TracingTypes
<1> SUFFICES ASSUME NEW p \in Proc,
                    p \in alive' \ (timedOut' \cup skipped'),
                    Through(W(p))' \/ Through(C(p))',
                    NEW i \in Slot
             PROVE  dwPid'[i] # p
  BY <1>t DEF Cleared
<1>k. ASSUME UNCHANGED dwPid, p \in alive \ (timedOut \cup skipped),
             Through(W(p)) \/ Through(C(p))
      PROVE  dwPid'[i] # p
  BY <1>k DEF Cleared
<1> USE TwoThreads
    DEF TracingTypes, ShutdownInv, Ended, Asks, Goto, Begin, tracing,
        histories, Through
<1>1. CASE UNCHANGED vars
  BY <1>1, <1>k DEF vars
<1>2. ASSUME NEW t \in Thread, OpenMutex(t) PROVE dwPid'[i] # p
  <2>1. /\ step' = [step EXCEPT ![t] = "lock"]
        /\ UNCHANGED <<dwPid, call, alive, timedOut, skipped>>
    BY <1>2 DEF OpenMutex
  <2>2. QED
    BY <2>1, <1>k
<1>3. ASSUME NEW t \in Thread, Lock(t) PROVE dwPid'[i] # p
  <2>1. /\ UNCHANGED <<dwPid, call, alive, timedOut>>
        /\ \/ /\ step' = [step EXCEPT ![t] = "close"]
              /\ skipped' = skipped \cup {t[1]}
           \/ step' = [step EXCEPT ![t] = "table"] /\ UNCHANGED skipped
    BY <1>3 DEF Lock
  <2>2. t \in {W(p), C(p)} => step'[t] = "table"
    BY <2>1
  <2>3. QED
    BY <2>1, <2>2, <1>k
<1>4. ASSUME NEW t \in Thread, Register(t) PROVE dwPid'[i] # p
  <2>1. /\ step[t] = "table" /\ call[t] # "unregister"
        /\ step' = [step EXCEPT ![t] = "close"]
        /\ UNCHANGED <<call, alive, timedOut, skipped>>
        /\ dwPid'[i] \in {dwPid[i], t[1]}
    BY <1>4 DEF Register
  <2>2. t = W(t[1])
    BY <2>1
  <2>3. Through(W(p)) \/ Through(C(p))
    BY <2>1, <2>2
  <2>4. dwPid[i] # p
    BY <2>1, <2>3 DEF Cleared
  <2>5. t[1] # p
    <3> SUFFICES ASSUME t[1] = p PROVE FALSE
      OBVIOUS
    <3>1. step[W(p)] = "table" /\ call[W(p)] # "unregister"
      BY <2>1, <2>2
    <3>2. Through(C(p)) /\ p \notin timedOut
      BY <2>1, <2>3, <3>1
    <3>3. QED
      BY <3>1, <3>2
  <2>6. QED
    BY <2>1, <2>4, <2>5
<1>5. ASSUME NEW t \in Thread, Unregister(t) PROVE dwPid'[i] # p
  <2>1. /\ step' = [step EXCEPT ![t] = "close"]
        /\ UNCHANGED <<call, alive, timedOut, skipped>>
        /\ dwPid'[i] = IF dwPid[i] = t[1] THEN Nobody ELSE dwPid[i]
    BY <1>5 DEF Unregister, Unregisters
  <2>2. CASE t[1] = p
    BY <2>1, <2>2, ProcAssumption
  <2>3. CASE t[1] # p
    <3>1. t # W(p) /\ t # C(p)
      BY <2>3
    <3>2. Through(W(p)) \/ Through(C(p))
      BY <2>1, <3>1
    <3>3. QED
      BY <2>1, <3>2, ProcAssumption DEF Cleared
  <2>4. QED
    BY <2>2, <2>3
<1>6. ASSUME NEW t \in Thread, Close(t) PROVE dwPid'[i] # p
  <2>1. /\ step[t] = "close" /\ UNCHANGED <<dwPid, alive, timedOut, skipped>>
        /\ \A u \in Thread \ {t} : step'[u] = step[u] /\ call'[u] = call[u]
        /\ \/ call[t] = "unregister"
           \/ step'[t] \in {"start", "stop", "open"}
    BY <1>6 DEF Close
  <2>2. Through(W(p)) \/ Through(C(p))
    BY <2>1
  <2>3. QED
    BY <2>1, <2>2, <1>k
<1>7. ASSUME NEW q \in Proc, Spawn(q) PROVE dwPid'[i] # p
  <2>1. /\ q \notin alive /\ alive' = alive \cup {q}
        /\ step' = [step EXCEPT ![W(q)] = "open"]
        /\ call' = [call EXCEPT ![W(q)] = "parse"]
        /\ UNCHANGED <<dwPid, timedOut, skipped>>
    BY <1>7 DEF Spawn, W
  <2>2. p # q
    BY <2>1
  <2>3. QED
    BY <2>1, <2>2, <1>k
<1>8. ASSUME NEW t \in Worker, WorkerStep(t) PROVE dwPid'[i] # p
  <2>1. t \in Thread /\ t = W(t[1]) /\ t[1] \in Proc
    BY DEF Thread
  <2>2. /\ \A u \in Thread \ {t} : step'[u] = step[u] /\ call'[u] = call[u]
        /\ step'[t] \in {"running", "retry", "open", "stop"}
        /\ UNCHANGED <<dwPid, alive, timedOut, skipped>>
    BY <1>8, <2>1
       DEF WorkerStep, StartTraceSession, StartFails, Retry, SeeTeardown
  <2>3. QED
    BY <2>1, <2>2, <1>k
<1>9. ASSUME NEW t \in Thread, StopTraceSession(t) PROVE dwPid'[i] # p
  <2>1. /\ step' = [step EXCEPT ![t] = "open"]
        /\ call' = [call EXCEPT ![t] = "unregister"]
        /\ UNCHANGED <<dwPid, alive, timedOut, skipped>>
    BY <1>9 DEF StopTraceSession
  <2>2. QED
    BY <2>1, <1>k
<1>10. ASSUME NEW t \in Closer, WaitForWorker(t) PROVE dwPid'[i] # p
  <2>1. t \in Thread /\ t = C(t[1]) /\ t[1] \in Proc
    BY DEF Thread
  <2>2. /\ step[t] = "wait" /\ UNCHANGED <<dwPid, call, alive, skipped>>
        /\ timedOut \subseteq timedOut'
        /\ \/ /\ step' = [step EXCEPT ![t] = "success"]
              /\ step[W(t[1])] = "success"
           \/ step' = [step EXCEPT ![t] = "stop"]
    BY <1>10, <2>1 DEF WaitForWorker, W
  <2>3. Through(W(p)) \/ Through(C(p))
    BY <2>1, <2>2
  <2>4. QED
    BY <2>2, <2>3, <1>k
<1>11. ASSUME NEW q \in Proc, Shutdown(q) PROVE dwPid'[i] # p
  <2>1. /\ step' \in {[step EXCEPT ![C(q)] = "wait"],
                     [step EXCEPT ![C(q)] = "wait", ![W(q)] = "ended"]}
        /\ UNCHANGED <<dwPid, call, alive, timedOut, skipped>>
    BY <1>11 DEF Shutdown, W, C
  <2>2. QED
    BY <2>1, <1>k
<1>12. ASSUME NEW q \in Proc, ProcessEnds(q) PROVE dwPid'[i] # p
  <2>1. /\ alive' = alive \ {q} /\ dwPid' = dwPid
        /\ timedOut' = timedOut \ {q} /\ skipped' = skipped \ {q}
        /\ step' = [t \in Thread |-> IF t \in {W(q), C(q)} THEN "off"
                                     ELSE step[t]]
        /\ call' = [t \in Thread |-> IF t \in {W(q), C(q)} THEN "parse"
                                     ELSE call[t]]
    BY <1>12 DEF ProcessEnds, W, C
  <2>2. QED
    BY <2>1, <1>k
<1>13. QED
  BY <1>1, <1>2, <1>3, <1>4, <1>5, <1>6, <1>7, <1>8, <1>9, <1>10, <1>11,
     <1>12
     DEF Next, ThreadStep, TableStep

(* SK_Etw_UnregisterSession: a shutdown that was not cut short by a        *)
(* timeout, nor given the mutex abandoned, leaves no slot behind.          *)
THEOREM ShutdownLeavesNoSlot == Spec => []ShutdownUnregisters
<1>1. TracingTypes /\ Cleared => ShutdownUnregisters
  <2> SUFFICES ASSUME TracingTypes, Cleared,
                      NEW p \in alive \ (timedOut \cup skipped),
                      step[C(p)] \in {"ended", "success"}
               PROVE  \A i \in Slot : dwPid[i] # p
    BY DEF ShutdownUnregisters, C
  <2>1. C(p) \in Closer
    BY TwoThreads DEF TracingTypes
  <2>2. QED
    BY <2>1 DEF Cleared, Through
<1>2. Init => Cleared
  BY DEF Init, Cleared
<1>3. QED
  BY <1>1, <1>2, ShutdownInvInit, ShutdownInvStep, TracingTypesStep,
     ClearedStep, PTL DEF Spec

-----------------------------------------------------------------------------
(* The tracing sessions.                                                   *)

(* A worker that has not begun to stop, and one that has its first name.   *)
Works(p) ==
  \/ step[W(p)] \in {"start", "running", "retry"}
  \/ step[W(p)] \in Asks /\ call[W(p)] # "unregister"

Settled(p) == Works(p) /\ ~(step[W(p)] \in Asks /\ call[W(p)] = "parse")

Gives(t) == step[t] \in Asks /\ call[t] = "unregister"

Named == \A p \in Proc : Settled(p) => name[p] \in Slot

(* Who unregisters has stopped its session.                                *)
Stopped ==
  \A t \in Thread : Gives(t) => \A i \in Slot : session[i] # t[1]

(* Whose session runs under a name has the slot of that name, and so has   *)
(* the worker that has, or is given, that name.                            *)
Held ==
  /\ \A i \in Slot : session[i] \in Proc =>
       dwPid[i] = session[i] /\ session[i] \in alive
  /\ \A p \in Proc : Works(p) =>
       \A i \in {name[p], answer[W(p)]} \cap Slot : dwPid[i] = p

SessionInv == Named /\ (~hasty => Stopped) /\ (~hasty /\ ~stolen => Held)

(* At the start no session runs.                                           *)
LEMMA SessionInvInit == Init => SessionInv
BY TwoThreads, ProcAssumption
   DEF Init, SessionInv, Named, Stopped, Held, Settled, Works, Gives, Asks

(* A step that begins nothing anew and touches neither table nor sessions. *)
LEMMA NothingBegins ==
  ASSUME SessionInv,
         UNCHANGED <<dwPid, session, name, answer, alive, stolen>>,
         hasty => hasty',
         \A p \in Proc : /\ Works(p)' => Works(p)
                         /\ Settled(p)' => Settled(p),
         \A t \in Thread : Gives(t)' => Gives(t)
  PROVE  SessionInv'
BY DEF SessionInv, Named, Stopped, Held

(* A slot is given to another only if its process is gone, or it counts as *)
(* stolen; and a session ends before its slot is given back.               *)
LEMMA SessionInvStep ==
  /\ TracingTypes /\ ShutdownInv /\ SessionInv /\ [Next]_vars
  => SessionInv'
<1> SUFFICES ASSUME TracingTypes, ShutdownInv, SessionInv, [Next]_vars
             PROVE  SessionInv'
  OBVIOUS
<1>e. \A p \in Proc : /\ ~hasty /\ Gives(C(p)) => ~Works(p)
                      /\ Works(p) => p \in alive
  BY TwoThreads DEF ShutdownInv, Gives, Works, Asks, Ended
<1> USE TwoThreads
    DEF TracingTypes, Asks, Goto, Begin, tracing, histories
<1>1. CASE UNCHANGED vars
  BY <1>1, NothingBegins DEF vars, Works, Settled, Gives
<1>2. ASSUME NEW t \in Thread, OpenMutex(t) PROVE SessionInv'
  <2>1. /\ step[t] = "open" /\ step' = [step EXCEPT ![t] = "lock"]
        /\ UNCHANGED <<dwPid, session, name, answer, alive, stolen, hasty,
                       call>>
    BY <1>2 DEF OpenMutex
  <2>2. QED
    BY <2>1, NothingBegins DEF Works, Settled, Gives
<1>3. ASSUME NEW t \in Thread, Lock(t) PROVE SessionInv'
  <2>1. /\ step[t] = "lock"
        /\ step' \in {[step EXCEPT ![t] = "close"],
                     [step EXCEPT ![t] = "table"]}
        /\ UNCHANGED <<dwPid, session, name, answer, alive, stolen, hasty,
                       call>>
    BY <1>3 DEF Lock
  <2>2. QED
    BY <2>1, NothingBegins DEF Works, Settled, Gives
<1>4. ASSUME NEW t \in Thread, Register(t) PROVE SessionInv'
  <2> DEFINE idx == Choice(t[1], call[t] # "fresh")
  <2>1. idx \in Slot \cup {NumSessions}
    BY ChoiceIsSlot
  <2> HIDE DEF idx
  <2>2. /\ step[t] = "table" /\ step' = [step EXCEPT ![t] = "close"]
        /\ call[t] # "unregister"
        /\ UNCHANGED <<call, session, name, alive, hasty>>
    BY <1>4 DEF Register
  <2>3. t = W(t[1]) /\ Works(t[1])
    BY <2>2 DEF ShutdownInv, Works
  <2>4. \A p \in Proc : /\ Works(p)' <=> Works(p)
                        /\ Settled(p)' <=> Settled(p)
    BY <2>2, <2>3 DEF Works, Settled
  <2>5. \A u \in Thread : Gives(u)' <=> Gives(u)
    BY <2>2 DEF Gives
  <2>6. Named' /\ (~hasty' => Stopped')
    BY <2>2, <2>4, <2>5 DEF SessionInv, Named, Stopped
  <2>7. ASSUME ~hasty, ~stolen' PROVE Held'
    <3>1. CASE idx = NumSessions
      <4>1. UNCHANGED <<dwPid, answer, stolen>>
        BY <1>4, <3>1 DEF Register, idx
      <4>2. QED
        BY <2>2, <2>4, <2>7, <4>1 DEF SessionInv, Held
    <3>2. CASE idx # NumSessions
      <4>1. /\ idx \in Slot /\ dwPid' = [dwPid EXCEPT ![idx] = t[1]]
            /\ answer' = [answer EXCEPT ![t] = NameGiven(idx)]
            /\ ~stolen /\ dwPid[idx] \notin alive \ {t[1]}
        BY <1>4, <2>1, <2>7, <3>2 DEF Register, idx
      <4>2. Held
        BY <2>7, <4>1 DEF SessionInv
      <4>3. ASSUME NEW i \in Slot, session'[i] \in Proc
            PROVE  dwPid'[i] = session'[i] /\ session'[i] \in alive'
        BY <2>2, <4>1, <4>2, <4>3 DEF Held
      <4>4. ASSUME NEW p \in Proc, Works(p)',
                   NEW i \in {name'[p], answer'[W(p)]} \cap Slot
            PROVE  dwPid'[i] = p
        <5>1. Works(p) /\ p \in alive
          BY <2>4, <4>4, <1>e
        <5>2. i \in {name[p], answer[W(p)]} \/ (i = idx /\ p = t[1])
          <6>1. name'[p] = name[p] /\ i # NoName
            BY <2>2, <4>4, SlotsAreNumbers
          <6>2. answer'[t] \in {idx, NoName}
            BY <4>1 DEF NameGiven
          <6>3. CASE p = t[1]
            BY <2>3, <4>4, <6>1, <6>2, <6>3
          <6>4. CASE p # t[1]
            BY <2>3, <4>1, <4>4, <6>1, <6>4
          <6>5. QED
            BY <6>3, <6>4
        <5>3. CASE i \in {name[p], answer[W(p)]}
          <6>1. dwPid[i] = p
            BY <4>2, <5>1, <5>3 DEF Held
          <6>2. QED
            BY <4>1, <5>1, <6>1
        <5>4. CASE i = idx /\ p = t[1]
          BY <4>1, <5>4
        <5>5. QED
          BY <5>2, <5>3, <5>4
      <4>5. QED
        BY <4>3, <4>4 DEF Held
    <3>3. QED
      BY <3>1, <3>2
  <2>8. QED
    BY <2>2, <2>6, <2>7 DEF SessionInv
<1>5. ASSUME NEW t \in Thread, Unregister(t) PROVE SessionInv'
  <2>1. /\ step[t] = "table" /\ step' = [step EXCEPT ![t] = "close"]
        /\ call[t] = "unregister"
        /\ UNCHANGED <<call, session, name, alive, hasty, stolen>>
        /\ dwPid' = [i \in Slot |-> IF dwPid[i] = t[1] THEN Nobody
                                                      ELSE dwPid[i]]
        /\ \A u \in Thread \ {t} : answer'[u] = answer[u]
    BY <1>5 DEF Unregister, Unregisters
  <2>2. \A p \in Proc : /\ Works(p)' <=> Works(p)
                        /\ Settled(p)' <=> Settled(p)
    BY <2>1 DEF Works, Settled
  <2>3. \A u \in Thread : Gives(u)' <=> Gives(u)
    BY <2>1 DEF Gives
  <2>4. Named' /\ (~hasty' => Stopped')
    BY <2>1, <2>2, <2>3 DEF SessionInv, Named, Stopped
  <2>5. ASSUME ~hasty, ~stolen PROVE Held'
    <3>1. Held /\ \A i \in Slot : session[i] # t[1]
      BY <2>1, <2>5 DEF SessionInv, Stopped, Gives
    <3>2. Gives(t) /\ ~Works(t[1])
      BY <2>1, <2>5, <1>e DEF Gives, Works
    <3>3. ASSUME NEW i \in Slot, session'[i] \in Proc
          PROVE  dwPid'[i] = session'[i] /\ session'[i] \in alive'
      BY <2>1, <3>1, <3>3 DEF Held
    <3>4. ASSUME NEW p \in Proc, Works(p)',
                 NEW i \in {name'[p], answer'[W(p)]} \cap Slot
          PROVE  dwPid'[i] = p
      <4>1. p # t[1] /\ Works(p)
        BY <2>2, <3>2, <3>4
      <4>2. t # W(p)
        BY <4>1
      <4>3. i \in {name[p], answer[W(p)]}
        BY <2>1, <3>4, <4>2
      <4>4. dwPid[i] = p
        BY <3>1, <4>1, <4>3 DEF Held
      <4>5. QED
        BY <2>1, <4>1, <4>4
    <3>5. QED
      BY <3>3, <3>4 DEF Held
  <2>6. QED
    BY <2>1, <2>4, <2>5 DEF SessionInv
<1>6. ASSUME NEW t \in Thread, Close(t) PROVE SessionInv'
  <2>1. /\ step[t] = "close" /\ answer' = [answer EXCEPT ![t] = NoName]
        /\ \A u \in Thread \ {t} : step'[u] = step[u] /\ call'[u] = call[u]
        /\ UNCHANGED <<dwPid, session, alive, stolen, hasty>>
    BY <1>6 DEF Close
  <2>2. \A u \in Thread : Gives(u)' => Gives(u)
    BY <1>6, <2>1 DEF Gives, Close
  <2>3. ~hasty' => Stopped'
    BY <2>1, <2>2 DEF SessionInv, Stopped
  <2>4. CASE call[t] = "unregister"
    <3>1. step'[t] \in {"ended", "success"} /\ UNCHANGED name
      BY <1>6, <2>4 DEF Close
    <3>2. \A p \in Proc : /\ Works(p)' => Works(p)
                          /\ Settled(p)' => Settled(p)
      BY <2>1, <3>1 DEF Works, Settled
    <3>3. Named'
      BY <3>1, <3>2 DEF SessionInv, Named
    <3>4. ~hasty /\ ~stolen => Held'
      BY <2>1, <3>1, <3>2, SlotsAreNumbers DEF SessionInv, Held
    <3>5. QED
      BY <2>1, <2>3, <3>3, <3>4 DEF SessionInv
  <2>5. CASE call[t] # "unregister"
    <3> DEFINE q == t[1]
    <3>1. t = W(q) /\ Works(q) /\ q \in Proc
      BY <2>1, <2>5 DEF ShutdownInv, Works
    <3>2. \A p \in Proc \ {q} : /\ Works(p)' <=> Works(p)
                                /\ Settled(p)' <=> Settled(p)
                                /\ name'[p] = name[p]
      BY <1>6, <2>1, <2>5, <3>1 DEF Works, Settled, Close
    <3>3. /\ name'[q] \in {name[q], answer[W(q)]}
          /\ Settled(q)' => name'[q] \in Slot
      <4>1. CASE answer[t] # NoName
        <5>1. name' = [name EXCEPT ![q] = answer[t]]
          BY <1>6, <2>5, <4>1 DEF Close
        <5>2. QED
          BY <3>1, <4>1, <5>1
      <4>2. CASE answer[t] = NoName
        <5>1. /\ UNCHANGED name
              /\ call[t] = "parse" => step'[t] = "stop"
          BY <1>6, <2>5, <4>2 DEF Close
        <5>2. CASE call[t] = "parse"
          BY <5>1, <5>2, <3>1 DEF Settled, Works
        <5>3. CASE call[t] # "parse"
          <6>1. Settled(q)
            BY <2>1, <3>1, <5>3 DEF Settled
          <6>2. QED
            BY <3>1, <5>1, <6>1 DEF SessionInv, Named
        <5>4. QED
          BY <5>2, <5>3
      <4>3. QED
        BY <4>1, <4>2
    <3>4. Named'
      BY <3>1, <3>2, <3>3 DEF SessionInv, Named
    <3>5. ASSUME ~hasty, ~stolen PROVE Held'
      <4>1. Held
        BY <3>5 DEF SessionInv
      <4>2. ASSUME NEW p \in Proc, Works(p)',
                   NEW i \in {name'[p], answer'[W(p)]} \cap Slot
            PROVE  dwPid'[i] = p
        <5>1. Works(p)
          BY <3>1, <3>2, <4>2
        <5>2. name'[p] \in {name[p], answer[W(p)]}
          BY <3>2, <3>3
        <5>3. answer'[W(p)] \in {answer[W(p)], NoName}
          BY <2>1
        <5>4. i \in {name[p], answer[W(p)]}
          BY <4>2, <5>2, <5>3, SlotsAreNumbers
        <5>5. QED
          BY <2>1, <4>1, <5>1, <5>4 DEF Held
      <4>3. QED
        BY <2>1, <4>1, <4>2 DEF Held
    <3>6. QED
      BY <2>1, <2>3, <3>4, <3>5 DEF SessionInv
  <2>6. QED
    BY <2>4, <2>5
<1>7. ASSUME NEW q \in Proc, Spawn(q) PROVE SessionInv'
  <2>1. /\ q \notin alive /\ alive' = alive \cup {q}
        /\ step' = [step EXCEPT ![W(q)] = "open"]
        /\ call' = [call EXCEPT ![W(q)] = "parse"]
        /\ UNCHANGED <<dwPid, session, name, answer, hasty, stolen>>
    BY <1>7 DEF Spawn, W
  <2>2. \A p \in Proc \ {q} : /\ Works(p)' <=> Works(p)
                              /\ Settled(p)' <=> Settled(p)
    BY <2>1 DEF Works, Settled
  <2>3. /\ ~Settled(q)' /\ name[q] = NoName /\ answer[W(q)] = NoName
    BY <2>1 DEF Settled, ShutdownInv
  <2>4. \A u \in Thread : Gives(u)' => Gives(u)
    BY <2>1 DEF Gives
  <2>5. Named' /\ (~hasty' => Stopped')
    BY <2>1, <2>2, <2>3, <2>4 DEF SessionInv, Named, Stopped
  <2>6. ~hasty /\ ~stolen => Held'
    BY <2>1, <2>2, <2>3, SlotsAreNumbers DEF SessionInv, Held
  <2>7. QED
    BY <2>1, <2>5, <2>6 DEF SessionInv
<1>8. ASSUME NEW t \in Worker, StartTraceSession(t) PROVE SessionInv'
  <2> DEFINE q == t[1]
  <2>1. t \in Thread /\ t = W(q) /\ q \in Proc
    BY DEF Thread
  <2>2. /\ step[t] = "start" /\ step' = [step EXCEPT ![t] = "running"]
        /\ session' = [session EXCEPT ![name[q]] = q]
        /\ UNCHANGED <<dwPid, name, answer, call, alive, hasty, stolen>>
    BY <1>8, <2>1 DEF StartTraceSession
  <2>3. \A p \in Proc : /\ Works(p)' <=> Works(p)
                        /\ Settled(p)' <=> Settled(p)
    BY <2>1, <2>2 DEF Works, Settled
  <2>4. \A u \in Thread : Gives(u)' <=> Gives(u)
    BY <2>2 DEF Gives
  <2>5. Settled(q) /\ name[q] \in Slot /\ q \in alive
    BY <2>1, <2>2, <1>e DEF Settled, Works, SessionInv, Named
  <2>6. ~hasty => Stopped'
    <3> SUFFICES ASSUME ~hasty, NEW u \in Thread, Gives(u), NEW i \in Slot
                 PROVE  session'[i] # u[1]
      BY <2>4 DEF Stopped
    <3>1. u[1] # q
      BY <2>1, <2>2, <1>e DEF Gives, Works
    <3>2. session[i] # u[1]
      BY DEF SessionInv, Stopped
    <3>3. QED
      BY <2>2, <3>1, <3>2
  <2>7. ~hasty /\ ~stolen => Held'
    <3> SUFFICES ASSUME ~hasty, ~stolen PROVE Held'
      OBVIOUS
    <3>1. Held
      BY DEF SessionInv
    <3>2. dwPid[name[q]] = q
      BY <2>1, <2>5, <3>1 DEF Held, Settled
    <3>3. QED
      BY <2>2, <2>3, <2>5, <3>1, <3>2 DEF Held
  <2>8. Named'
    BY <2>2, <2>3 DEF SessionInv, Named
  <2>9. QED
    BY <2>2, <2>6, <2>7, <2>8 DEF SessionInv
<1>9. ASSUME NEW t \in Worker, StartFails(t) \/ Retry(t) \/ SeeTeardown(t)
      PROVE  SessionInv'
  <2>1. t \in Thread
    BY DEF Thread
  <2>2. /\ step[t] \in {"start", "running", "retry"}
        /\ \A u \in Thread \ {t} : step'[u] = step[u] /\ call'[u] = call[u]
        /\ \/ step'[t] \in {"retry", "stop"}
           \/ step'[t] = "open" /\ call'[t] = "reuse"
        /\ UNCHANGED <<dwPid, session, name, answer, alive, stolen, hasty>>
    BY <1>9, <2>1 DEF StartFails, Retry, SeeTeardown
  <2>3. \A p \in Proc : (Works(p)' => Works(p)) /\ (Settled(p)' => Settled(p))
    BY <2>1, <2>2 DEF Works, Settled
  <2>4. \A u \in Thread : Gives(u)' => Gives(u)
    BY <2>1, <2>2 DEF Gives
  <2>5. QED
    BY <2>2, <2>3, <2>4, NothingBegins
<1>10. ASSUME NEW t \in Thread, StopTraceSession(t) PROVE SessionInv'
  <2>1. /\ step[t] = "stop" /\ step' = [step EXCEPT ![t] = "open"]
        /\ call' = [call EXCEPT ![t] = "unregister"]
        /\ session' = [i \in Slot |-> IF session[i] = t[1] THEN Nobody
                                      ELSE session[i]]
        /\ UNCHANGED <<dwPid, name, answer, alive, hasty, stolen>>
    BY <1>10 DEF StopTraceSession
  <2>2. \A p \in Proc : (Works(p)' => Works(p)) /\ (Settled(p)' => Settled(p))
    BY <2>1 DEF Works, Settled
  <2>3. \A u \in Thread : Gives(u)' => Gives(u) \/ u = t
    BY <2>1 DEF Gives
  <2>4. \A i \in Slot : session'[i] \in {session[i], Nobody} \ {t[1]}
    BY <2>1, ProcAssumption
  <2>5. ~hasty' => Stopped'
    BY <2>1, <2>3, <2>4, ProcAssumption DEF SessionInv, Stopped
  <2>6. Named'
    BY <2>1, <2>2 DEF SessionInv, Named
  <2>7. ~hasty /\ ~stolen => Held'
    BY <2>1, <2>2, <2>4, ProcAssumption DEF SessionInv, Held
  <2>8. QED
    BY <2>1, <2>5, <2>6, <2>7 DEF SessionInv
<1>11. ASSUME NEW t \in Closer, WaitForWorker(t) PROVE SessionInv'
  <2>1. t \in Thread /\ t = C(t[1]) /\ t[1] \in Proc
    BY DEF Thread
  <2>2. /\ step' \in {[step EXCEPT ![t] = "success"],
                     [step EXCEPT ![t] = "stop"]}
        /\ hasty => hasty'
        /\ UNCHANGED <<dwPid, session, name, answer, alive, stolen, call>>
    BY <1>11 DEF WaitForWorker
  <2>3. \A p \in Proc : (Works(p)' => Works(p)) /\ (Settled(p)' => Settled(p))
    BY <2>1, <2>2 DEF Works, Settled
  <2>4. \A u \in Thread : Gives(u)' => Gives(u)
    BY <2>1, <2>2 DEF Gives
  <2>5. QED
    BY <2>2, <2>3, <2>4, NothingBegins
<1>12. ASSUME NEW q \in Proc, Shutdown(q) PROVE SessionInv'
  <2>1. /\ step' \in {[step EXCEPT ![C(q)] = "wait"],
                     [step EXCEPT ![C(q)] = "wait", ![W(q)] = "ended"]}
        /\ UNCHANGED <<dwPid, session, name, answer, alive, stolen, hasty,
                       call>>
    BY <1>12 DEF Shutdown, W, C
  <2>2. \A p \in Proc : (Works(p)' => Works(p)) /\ (Settled(p)' => Settled(p))
    BY <2>1 DEF Works, Settled
  <2>3. \A u \in Thread : Gives(u)' => Gives(u)
    BY <2>1 DEF Gives
  <2>4. QED
    BY <2>1, <2>2, <2>3, NothingBegins
<1>13. ASSUME NEW q \in Proc, ProcessEnds(q) PROVE SessionInv'
  <2>1. /\ alive' = alive \ {q} /\ name' = [name EXCEPT ![q] = NoName]
        /\ UNCHANGED <<dwPid, hasty, stolen>>
        /\ session' = [i \in Slot |-> IF session[i] = q THEN Orphan
                                      ELSE session[i]]
        /\ step' = [t \in Thread |-> IF t \in {W(q), C(q)} THEN "off"
                                     ELSE step[t]]
        /\ call' = [t \in Thread |-> IF t \in {W(q), C(q)} THEN "parse"
                                     ELSE call[t]]
        /\ answer' = [t \in Thread |-> IF t \in {W(q), C(q)} THEN NoName
                                       ELSE answer[t]]
    BY <1>13 DEF ProcessEnds, W, C
  <2>2. \A p \in Proc : Works(p)' => Works(p) /\ p # q
    BY <2>1 DEF Works
  <2>3. \A p \in Proc : Settled(p)' => Settled(p) /\ p # q
    BY <2>1 DEF Settled, Works
  <2>4. \A u \in Thread : Gives(u)' => Gives(u)
    BY <2>1 DEF Gives
  <2>5. \A i \in Slot : session'[i] \in ({session[i]} \ {q}) \cup {Orphan}
    BY <2>1
  <2>6. ~hasty' => Stopped'
    BY <2>1, <2>4, <2>5, ProcAssumption DEF SessionInv, Stopped
  <2>7. Named'
    BY <2>1, <2>3 DEF SessionInv, Named
  <2>8. \A p \in Proc \ {q} :
          name'[p] = name[p] /\ answer'[W(p)] = answer[W(p)]
    BY <2>1
  <2>9. ~hasty /\ ~stolen => Held'
    BY <2>1, <2>2, <2>5, <2>8, ProcAssumption DEF SessionInv, Held
  <2>10. QED
    BY <2>1, <2>6, <2>7, <2>9 DEF SessionInv
<1>14. QED
  BY <1>1, <1>2, <1>3, <1>4, <1>5, <1>6, <1>7, <1>8, <1>9, <1>10, <1>11,
     <1>12, <1>13
     DEF Next, ThreadStep, TableStep, WorkerStep

(* PM_TraceSession.cpp: StartTraceSession stops the session that has its   *)
(* name, and that is its own, or one whose process is gone, unless a live  *)
(* process's slot was taken or a shutdown did not wait for its worker.     *)
THEOREM StopsNoLiveSession == Spec => OwnSessionUnlessStolen
<1>1. ASSUME TracingTypes, SessionInv, NEW t \in Worker,
             StartTraceSession(t), ~stolen, ~hasty
      PROVE  Captured(t) \in {Nobody, Orphan, t[1]}
  <2>1. t \in Thread /\ t = W(t[1]) /\ t[1] \in Proc
    BY TwoThreads DEF Thread
  <2>2. Settled(t[1]) /\ Works(t[1])
    BY <1>1, <2>1 DEF StartTraceSession, Settled, Works, Asks
  <2>3. name[t[1]] \in Slot /\ dwPid[name[t[1]]] = t[1]
    BY <1>1, <2>1, <2>2 DEF SessionInv, Named, Held
  <2>4. session[name[t[1]]] \in Proc => session[name[t[1]]] = t[1]
    BY <1>1, <2>3 DEF SessionInv, Held
  <2>5. QED
    BY <1>1, <2>3, <2>4 DEF Captured, TracingTypes
<1>2. TracingTypes /\ SessionInv /\ [Next]_vars =>
        [\A t \in Worker : StartTraceSession(t) /\ ~stolen /\ ~hasty
                             => Captured(t) \in {Nobody, Orphan, t[1]}]_vars
  BY <1>1
<1>3. QED
  BY <1>2, ShutdownInvInit, ShutdownInvStep, TracingTypesStep,
     SessionInvInit, SessionInvStep, PTL
     DEF Spec, OwnSessionUnlessStolen
=============================================================================
