----------------------------- MODULE EtwSessions -----------------------------
(***************************************************************************)
(* Event tracing sessions of the games Special K runs in.  A game's        *)
(* PresentMon worker registers in a table in shared memory                 *)
(* (SK_Etw_RegisterSession, src/injection/injection.cpp), starts an event  *)
(* tracing session under the name that gives it, and takes both down when  *)
(* the game shuts down (src/render/present_mon, src/widgets/               *)
(* frame_pacing.cpp).  The thread that shuts the game down waits for the   *)
(* worker, but not long, and then takes them down itself.                  *)
(*                                                                         *)
(* The table is guarded by a named mutex nobody releases: its handle is    *)
(* closed, which deletes the mutex unless somebody else has it open, and a *)
(* thread that ends abandons it.  The names in the table are never         *)
(* written, so a slot is unused exactly if its process id is zero.         *)
(***************************************************************************)
EXTENDS Integers, FiniteSets, FiniteSetsExt

CONSTANTS Proc,        \* the process ids of the games
          Opaque,      \* those that other processes may not query
          NumSessions, \* __MaxPresentMonSessions
          MaxStarts,   \* bound on the games that run
          MaxFailures, \* bound on the sessions Windows refuses to start
          Nobody, Orphan

ASSUME ProcAssumption == /\ Opaque \subseteq Proc
                         /\ {Nobody, Orphan} \cap Proc = {}
ASSUME SizeAssumption == /\ NumSessions \in Nat \ {0}
                         /\ {MaxStarts, MaxFailures} \subseteq Nat

Slot     == 0 .. NumSessions - 1
NoName   == NumSessions  \* the empty string
Worker   == Proc \X {"worker"}
Closer   == Proc \X {"closer"}
Thread   == Worker \cup Closer

NoMutex   == <<Nobody, "none">>
Abandoned == <<Nobody, "abandoned">>


VARIABLES
  dwPid,     \* PresentMon[i].dwPid, or Nobody for 0
  mutex,     \* SK_EtwMutex0: NoMutex, Abandoned, or its owner
  opened,    \* the threads whose handle to it is open
  step,      \* where each thread stands
  call,      \* what it called RegisterSession or UnregisterSession for
  answer,    \* what the call returns: a slot for a name, NoName; to
             \*   unregister, a slot it had or NoName
  session,   \* whose tracing session runs under a name: that of a process,
             \*   Nobody, or an Orphan that outlived its process
  name,      \* mSessionName, by the slot it was made from
  alive,     \* the processes that run
  teardown,  \* those whose __SK_DLL_TeardownEvent is set
  \* History variables.
  starts, failures,
  stolen,    \* a live process's slot was taken
  timedOut,  \* the processes whose shutdown stopped waiting for the worker
  hasty,     \* some shutdown stopped waiting
  skipped    \* the processes that got the mutex abandoned and gave up

tracing   == <<session, name>>
histories == <<starts, failures, stolen, hasty, timedOut, skipped>>
vars == <<dwPid, mutex, opened, step, call, answer, tracing, alive, teardown,
          histories>>

Init ==
  /\ dwPid = [i \in Slot |-> Nobody]
  /\ mutex = NoMutex /\ opened = {}
  /\ step = [t \in Thread |-> "off"]
  /\ call = [t \in Thread |-> "parse"]
  /\ answer = [t \in Thread |-> NoName]
  /\ session = [i \in Slot |-> Nobody]
  /\ name = [p \in Proc |-> NoName]
  /\ alive = {} /\ teardown = {}
  /\ starts = 0 /\ failures = 0 /\ stolen = FALSE /\ hasty = FALSE
  /\ timedOut = {} /\ skipped = {}

Goto(t, s)  == step' = [step EXCEPT ![t] = s]
Begin(t, c) == Goto(t, "open") /\ call' = [call EXCEPT ![t] = c]

(* Handles are closed and threads end; the mutex lives while it is open,   *)
(* and is abandoned when its owner ends.                                   *)
MutexAfter(open, ended) ==
  CASE open = {}                     -> NoMutex
    [] open # {} /\ mutex \in ended -> Abandoned
    [] OTHER                         -> mutex

-----------------------------------------------------------------------------
(* Decisions of the code.  The operators named ...Slip are plausible       *)
(* mistakes the properties below are there to catch; no action uses them.  *)

(* CreateMutex makes the caller the owner only of a new mutex.             *)
AlwaysOwnerSlip(t)   == t
OwnerAfterOpen(t)    == IF mutex = NoMutex THEN t ELSE mutex

LooksFree(p, i)      == /\ dwPid[i] # Nobody
                        /\ dwPid[i] \notin alive \/ dwPid[i] \in Opaque \ {p}

FirstOf(S)           == Min(S \cup {NumSessions})

(* idx: the first unused slot, or one to reuse if it comes first.  Without *)
(* bReuse the last slot is taken, whoever has it.                          *)
Choice(p, reuse) ==
  Min({FirstOf({i \in Slot : dwPid[i] = Nobody}),
       IF reuse THEN FirstOf({i \in Slot : LooksFree(p, i)})
                ELSE NumSessions - 1})

(* Only a slot that was unused gives a name: the other names are empty.    *)
UnnumberedSlip(idx)  == IF dwPid[idx] = Nobody THEN 0 ELSE NoName
NameGiven(idx)       == IF dwPid[idx] = Nobody THEN idx ELSE NoName

FirstOnlySlip(p, i)  == dwPid[i] = p /\ \A j \in Slot : dwPid[j] = p => i <= j
Unregisters(p, i)    == dwPid[i] = p

AtOnceSlip(p)        == TRUE
WorkerEnded(p)       == step[<<p, "worker">>] \in {"ended", "success"}

DeafSlip(p)          == FALSE
TornDown(p)          == p \in teardown

-----------------------------------------------------------------------------
(* SK_Etw_RegisterSession and SK_Etw_UnregisterSession.                    *)

OpenMutex(t) ==
  /\ step[t] = "open"
  /\ opened' = opened \cup {t}
  /\ mutex' = OwnerAfterOpen(t)
  /\ Goto(t, "lock")
  /\ UNCHANGED <<dwPid, call, answer, tracing, alive, teardown, histories>>

(* WaitForSingleObject: to be given an abandoned mutex counts as failure.  *)
Lock(t) ==
  /\ step[t] = "lock" /\ mutex \in {t, Abandoned}
  /\ mutex' = t
  /\ Goto(t, IF mutex = Abandoned THEN "close" ELSE "table")
  /\ skipped' = IF mutex = Abandoned THEN skipped \cup {t[1]} ELSE skipped
  /\ UNCHANGED <<dwPid, opened, call, answer, tracing, alive, teardown,
                 starts, failures, stolen, hasty, timedOut>>

Register(t) ==
  LET p   == t[1]
      idx == Choice(p, call[t] # "fresh")
  IN
  /\ step[t] = "table" /\ call[t] # "unregister"
  /\ IF idx = NumSessions
     THEN UNCHANGED <<dwPid, answer, stolen>>
     ELSE /\ dwPid' = [dwPid EXCEPT ![idx] = p]
          /\ answer' = [answer EXCEPT ![t] = NameGiven(idx)]
          /\ stolen' = (stolen \/ dwPid[idx] \in alive \ {p})
  /\ Goto(t, "close")
  /\ UNCHANGED <<mutex, opened, call, tracing, alive, teardown, starts,
                 failures, hasty, timedOut, skipped>>

Unregister(t) ==
  /\ step[t] = "table" /\ call[t] = "unregister"
  /\ dwPid' = [i \in Slot |-> IF Unregisters(t[1], i) THEN Nobody
                                                   ELSE dwPid[i]]
  /\ answer' = [answer EXCEPT ![t] =
                   FirstOf({i \in Slot : Unregisters(t[1], i)})]
  /\ Goto(t, "close")
  /\ UNCHANGED <<mutex, opened, call, tracing, alive, teardown,
                 histories>>

(* The handle is closed and the caller goes on.  The worker gives up if it *)
(* gets no name at first, and later tries its luck twice before it starts  *)
(* again under the old one; a thread that unregistered ends, and a worker  *)
(* that had something to unregister clears its own thread handle.          *)
Close(t) ==
  /\ step[t] = "close"
  /\ opened' = opened \ {t}
  /\ mutex' = MutexAfter(opened', IF call[t] = "unregister" /\ t \in Worker
                                  THEN {t} ELSE {})
  /\ \/ /\ call[t] = "unregister"
        /\ Goto(t, IF answer[t] = NoName THEN "ended" ELSE "success")
        /\ UNCHANGED <<call, name>>
     \/ /\ call[t] # "unregister" /\ answer[t] # NoName
        /\ name' = [name EXCEPT ![t[1]] = answer[t]]
        /\ Goto(t, "start") /\ UNCHANGED call
     \/ /\ call[t] = "parse" /\ answer[t] = NoName
        /\ Goto(t, "stop") /\ UNCHANGED <<call, name>>
     \/ /\ call[t] = "reuse" /\ answer[t] = NoName
        /\ Begin(t, "fresh") /\ UNCHANGED name
     \/ /\ call[t] = "fresh" /\ answer[t] = NoName
        /\ Goto(t, "start") /\ UNCHANGED <<call, name>>
  /\ answer' = [answer EXCEPT ![t] = NoName]
  /\ UNCHANGED <<dwPid, session, alive, teardown, histories>>

-----------------------------------------------------------------------------
(* SK_SpawnPresentMonWorker and SK_PresentMon_Main.                        *)

Spawn(p) ==
  /\ p \notin alive
  /\ starts < MaxStarts /\ starts' = starts + 1
  /\ alive' = alive \cup {p}
  /\ Begin(<<p, "worker">>, "parse")
  /\ UNCHANGED <<dwPid, mutex, opened, answer, tracing, teardown, failures,
                 stolen, hasty, timedOut, skipped>>

(* A session of that name that runs already is stopped.                    *)
StartTraceSession(t) ==
  /\ step[t] = "start"
  /\ session' = [session EXCEPT ![name[t[1]]] = t[1]]
  /\ Goto(t, "running")
  /\ UNCHANGED <<dwPid, mutex, opened, call, answer, name, alive, teardown,
                 histories>>

StartFails(t) ==
  /\ step[t] = "start"
  /\ failures < MaxFailures /\ failures' = failures + 1
  /\ Goto(t, "retry")
  /\ UNCHANGED <<dwPid, mutex, opened, call, answer, tracing, alive, teardown,
                 starts, stolen, hasty, timedOut, skipped>>

(* Two seconds pass without a teardown.                                    *)
Retry(t) ==
  /\ step[t] = "retry" /\ ~TornDown(t[1])
  /\ Begin(t, "reuse")
  /\ UNCHANGED <<dwPid, mutex, opened, answer, tracing, alive, teardown,
                 histories>>

SeeTeardown(t) ==
  /\ step[t] \in {"running", "retry"} /\ TornDown(t[1])
  /\ Goto(t, "stop")
  /\ UNCHANGED <<dwPid, mutex, opened, call, answer, tracing, alive, teardown,
                 histories>>

StopTraceSession(t) ==
  /\ step[t] = "stop"
  /\ session' = [i \in Slot |-> IF session[i] = t[1] THEN Nobody
                                ELSE session[i]]
  /\ Begin(t, "unregister")
  /\ UNCHANGED <<dwPid, mutex, opened, answer, name, alive, teardown,
                 histories>>

-----------------------------------------------------------------------------
(* SK_ShutdownCore and SK_ETW_EndTracing.  When the process exits, the     *)
(* worker has been ended wherever it was, with its handle open.            *)
Shutdown(p) ==
  LET w == <<p, "worker">> IN
  /\ p \in alive \ teardown
  /\ teardown' = teardown \cup {p}
  /\ \/ /\ step' = [step EXCEPT ![<<p, "closer">>] = "wait"]
        /\ UNCHANGED mutex
     \/ /\ ~WorkerEnded(p)
        /\ step' = [step EXCEPT ![<<p, "closer">>] = "wait", ![w] = "ended"]
        /\ mutex' = MutexAfter(opened, {w})
  /\ UNCHANGED <<dwPid, opened, call, answer, tracing, alive, histories>>

(* Nothing is left to do if the worker's handle was cleared already.  The  *)
(* 500 ms wait for it ends either way in a call of StopTraceSession.       *)
WaitForWorker(t) ==
  /\ step[t] = "wait"
  /\ \/ /\ step[<<t[1], "worker">>] = "success"
        /\ Goto(t, "success")
        /\ UNCHANGED <<hasty, timedOut>>
     \/ /\ WorkerEnded(t[1])
        /\ Goto(t, "stop")
        /\ UNCHANGED <<hasty, timedOut>>
     \/ /\ step[<<t[1], "worker">>] \notin {"ended", "success"}
        /\ Goto(t, "stop")
        /\ hasty' = TRUE /\ timedOut' = timedOut \cup {t[1]}
  /\ UNCHANGED <<dwPid, mutex, opened, call, answer, tracing, alive, teardown,
                 starts, failures, stolen, skipped>>

(* The process ends, on its way out or by a crash.  Its slots stay, and so *)
(* does its tracing session.                                               *)
ProcessEnds(p) ==
  LET mine == {<<p, "worker">>, <<p, "closer">>} IN
  /\ p \in alive
  /\ alive' = alive \ {p}
  /\ opened' = opened \ mine
  /\ mutex' = MutexAfter(opened', mine)
  /\ step' = [t \in Thread |-> IF t \in mine THEN "off" ELSE step[t]]
  /\ call' = [t \in Thread |-> IF t \in mine THEN "parse" ELSE call[t]]
  /\ answer' = [t \in Thread |-> IF t \in mine THEN NoName ELSE answer[t]]
  /\ name' = [name EXCEPT ![p] = NoName]
  /\ session' = [i \in Slot |-> IF session[i] = p THEN Orphan ELSE session[i]]
  /\ teardown' = teardown \ {p}
  /\ timedOut' = timedOut \ {p} /\ skipped' = skipped \ {p}
  /\ UNCHANGED <<dwPid, starts, failures, stolen, hasty>>

TableStep(t)  == OpenMutex(t) \/ Lock(t) \/ Register(t) \/ Unregister(t)
                 \/ Close(t)
WorkerStep(t) == StartTraceSession(t) \/ StartFails(t) \/ Retry(t)
                 \/ SeeTeardown(t)

ThreadStep(t) ==
  \/ TableStep(t) \/ StopTraceSession(t)
  \/ t \in Worker /\ WorkerStep(t)
  \/ t \in Closer /\ WaitForWorker(t)

Next == \/ \E p \in Proc : Spawn(p) \/ Shutdown(p) \/ ProcessEnds(p)
        \/ \E t \in Thread : ThreadStep(t)

(* Threads that are not waiting run, and a wait with a timeout ends.       *)
Spec == Init /\ [][Next]_vars /\ \A t \in Thread : WF_vars(ThreadStep(t))

-----------------------------------------------------------------------------
(* Nobody releases the mutex, and yet only its owner is at the table.      *)
TableGuarded == \A t \in Thread : step[t] = "table" => mutex = t

(* A session that StartTraceSession stops for its name belongs to a        *)
(* process that is gone, unless somebody took a live process's slot or     *)
(* shut down without waiting for its worker: two games that trace at once  *)
(* have different names.                                                   *)
Captured(t) == session[name[t[1]]]

OwnSessionUnlessStolen ==
  [][\A t \in Worker : StartTraceSession(t) /\ ~stolen /\ ~hasty
                        => Captured(t) \in {Nobody, Orphan, t[1]}]_vars

(* A shutdown that was not cut short by a timeout leaves no slot behind,   *)
(* unless it was given the mutex abandoned.                                *)
ShutdownUnregisters ==
  \A p \in alive \ (timedOut \cup skipped) :
    step[<<p, "closer">>] \in {"ended", "success"} =>
      \A i \in Slot : dwPid[i] # p

Stopping(t) ==
  \/ step[t] = "stop"
  \/ call[t] = "unregister" /\ step[t] \in {"open", "lock", "table", "close"}

(* StopTraceSession deletes the trace consumers: while the shutdown did    *)
(* not time out, the worker and the shutdown never are in it at once.      *)
StopsOnce ==
  \A p \in alive \ timedOut :
    ~(Stopping(<<p, "worker">>) /\ Stopping(<<p, "closer">>))

(* The shutdown of a game can wait for the mutex as long as another game   *)
(* runs, but no longer: it waits for no thread of its own process.         *)
ShutdownEnds ==
  \A p \in Proc :
    (\A q \in Proc \ {p} : <>[](q \notin alive)) =>
      (step[<<p, "closer">>] = "wait"
         ~> step[<<p, "closer">>] \in {"ended", "success", "off"})

(* PM_TraceSession.cpp:60: to stop the session of that name "is useful if  *)
(* a previous process failed to properly shut down the session": it is     *)
(* never the session of a process that still runs and is not shutting down.*)
StopsOnlyOrphans ==
  [][\A t \in Worker : StartTraceSession(t) /\ t[1] \notin teardown
       => Captured(t) \in {Nobody, Orphan, t[1]} \cup teardown]_vars
=============================================================================
