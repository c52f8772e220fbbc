-------------------------- MODULE SharedMemoryView --------------------------
(***************************************************************************)
(* The lazily mapped shared memory of the global injector                  *)
(* (src/injection/injection.cpp, SK_Inject_GetSharedMemory,                *)
(* SK_Inject_GetViewOfSharedMemory, SK_Inject_CleanupSharedMemory; the     *)
(* functions for the 32-bit records are the same code on another pair of   *)
(* pointers).  Threads of one process race to open or create a named       *)
(* section, publish the handle with a compare-and-swap, map a view of it   *)
(* and publish that the same way.  DLL_PROCESS_DETACH cleans up, when the  *)
(* other threads are gone.                                                 *)
(***************************************************************************)
EXTENDS Naturals, FiniteSets

CONSTANTS Thread,
          Handle,  \* handle values; one that is closed may be handed out again
          View,    \* addresses of views; likewise
          None     \* INVALID_HANDLE_VALUE for hMapShared, null elsewhere

ASSUME NoneAssumption == None \notin Handle \cup View

VARIABLES
  hMapShared,  \* the published handle
  memoryView,  \* the published view, _pSharedMemoryView
  handles,     \* the handles this process has open
  views,       \* the views this process has mapped
  elsewhere,   \* another process keeps the section alive
  stage,       \* where each thread stands in GetViewOfSharedMemory
  hMap,        \* its local handle: hExistingFile, hNewFile, then hMap
  lpLocalView, \* its local view
  got,         \* what its last call returned
  detach,      \* the progress of DLL_PROCESS_DETACH: no, take, get, done
  hLocalMap    \* the handle CleanupSharedMemory took

vars   == <<hMapShared, memoryView, handles, views, elsewhere, stage, hMap,
            lpLocalView, got, detach, hLocalMap>>

Init ==
  /\ hMapShared = None /\ memoryView = None
  /\ handles = {} /\ views = {}
  /\ elsewhere \in BOOLEAN
  /\ stage = [t \in Thread |-> "idle"]
  /\ hMap  = [t \in Thread |-> None]
  /\ lpLocalView = [t \in Thread |-> None]
  /\ got = [t \in Thread |-> None]
  /\ detach = "no" /\ hLocalMap = None

SectionExists == elsewhere \/ handles # {} \/ views # {}

Goto(t, s) == stage' = [stage EXCEPT ![t] = s]

(* The call returns v and its local variables are gone.                    *)
Return(t, v) ==
  /\ Goto(t, "idle")
  /\ got' = [got EXCEPT ![t] = v]
  /\ hMap' = [hMap EXCEPT ![t] = None]
  /\ lpLocalView' = [lpLocalView EXCEPT ![t] = None]

-----------------------------------------------------------------------------
(* What the racing threads decide.  The operators named ...Slip are        *)
(* plausible mistakes the properties below are there to catch; no action   *)
(* uses them.                                                              *)

(* InterlockedCompareExchangePointer: what the cell holds afterwards.      *)
Published(cell, new)    == IF cell = None THEN new ELSE cell

KeepHandleSlip(t)       == handles       \* the loser forgets CloseHandle
LoserCloses(t)          == handles \ {hMap[t]}

OwnViewSlip(t)          == lpLocalView[t]
LoserGets(t)            == memoryView

OpenWhileMappingAgain   == handles

-----------------------------------------------------------------------------
(* SK_Inject_GetViewOfSharedMemory and, inlined, SK_Inject_GetSharedMemory *)

Begin(t) ==
  /\ stage[t] = "idle"
  /\ IF memoryView # None
     THEN Return(t, memoryView)
     ELSE Goto(t, "get") /\ UNCHANGED <<hMap, lpLocalView, got>>
  /\ UNCHANGED <<hMapShared, memoryView, handles, views, elsewhere>>

Call(t) == detach = "no" /\ Begin(t) /\ UNCHANGED <<detach, hLocalMap>>

ReadMap(t) ==
  /\ stage[t] = "get"
  /\ IF hMapShared # None
     THEN Goto(t, "map") /\ hMap' = [hMap EXCEPT ![t] = hMapShared]
     ELSE Goto(t, "open") /\ UNCHANGED hMap
  /\ UNCHANGED <<hMapShared, memoryView, handles, views, elsewhere,
                 lpLocalView, got, detach, hLocalMap>>

(* OpenFileMapping finds a section of that name only if one exists.        *)
OpenExisting(t) ==
  /\ stage[t] = "open"
  /\ IF SectionExists
     THEN \E h \in Handle \ handles :
            /\ handles' = handles \cup {h}
            /\ hMap' = [hMap EXCEPT ![t] = h]
            /\ Goto(t, "publish")
     ELSE Goto(t, "create") /\ UNCHANGED <<handles, hMap>>
  /\ UNCHANGED <<hMapShared, memoryView, views, elsewhere, lpLocalView, got,
                 detach, hLocalMap>>

PublishExisting(t) ==
  /\ stage[t] = "publish"
  /\ hMapShared' = Published(hMapShared, hMap[t])
  /\ IF hMapShared = None
     THEN Goto(t, "republish") /\ UNCHANGED <<handles, hMap>>
     ELSE /\ handles' = LoserCloses(t)
          /\ hMap' = [hMap EXCEPT ![t] = None]
          /\ Goto(t, "create")
  /\ UNCHANGED <<memoryView, views, elsewhere, lpLocalView, got, detach,
                 hLocalMap>>

(* The winner stores the handle a second time, without a comparison.       *)
StoreAgain(t) ==
  /\ stage[t] = "republish"
  /\ hMapShared' = hMap[t]
  /\ Goto(t, "map")
  /\ UNCHANGED <<memoryView, handles, views, elsewhere, hMap, lpLocalView, got,
                 detach, hLocalMap>>

CreateNew(t) ==
  /\ stage[t] = "create"
  /\ \/ \E h \in Handle \ handles :
          /\ handles' = handles \cup {h}
          /\ hMap' = [hMap EXCEPT ![t] = h]
          /\ Goto(t, "publishNew")
          /\ UNCHANGED <<lpLocalView, got>>
     \/ Return(t, None) /\ UNCHANGED handles
  /\ UNCHANGED <<hMapShared, memoryView, views, elsewhere, detach, hLocalMap>>

(* Whoever loses here too gets null, though the winner's handle is there.  *)
PublishNew(t) ==
  /\ stage[t] = "publishNew"
  /\ hMapShared' = Published(hMapShared, hMap[t])
  /\ IF hMapShared = None
     THEN Goto(t, "map") /\ UNCHANGED <<handles, hMap, lpLocalView, got>>
     ELSE handles' = LoserCloses(t) /\ Return(t, None)
  /\ UNCHANGED <<memoryView, views, elsewhere, detach, hLocalMap>>

MapView(t) ==
  /\ stage[t] = "map"
  /\ \/ /\ hMap[t] \in handles
        /\ \E v \in View \ views :
             /\ views' = views \cup {v}
             /\ lpLocalView' = [lpLocalView EXCEPT ![t] = v]
        /\ Goto(t, "publishView")
        /\ UNCHANGED <<hMap, got>>
     \/ Return(t, memoryView) /\ UNCHANGED views
  /\ UNCHANGED <<hMapShared, memoryView, handles, elsewhere, detach,
                 hLocalMap>>

(* The loser unmaps its own view and returns the published one.            *)
PublishView(t) ==
  /\ stage[t] = "publishView"
  /\ memoryView' = Published(memoryView, lpLocalView[t])
  /\ IF memoryView = None
     THEN Return(t, lpLocalView[t]) /\ UNCHANGED views
     ELSE views' = views \ {lpLocalView[t]} /\ Return(t, LoserGets(t))
  /\ UNCHANGED <<hMapShared, handles, elsewhere, detach, hLocalMap>>

GetStep(t) ==
  \/ ReadMap(t) \/ OpenExisting(t) \/ PublishExisting(t) \/ StoreAgain(t)
  \/ CreateNew(t) \/ PublishNew(t) \/ MapView(t) \/ PublishView(t)

-----------------------------------------------------------------------------
(* SK_Inject_CleanupSharedMemory, last in DLL_PROCESS_DETACH.              *)

TakeMap(t) ==
  /\ detach = "no"
  /\ \A u \in Thread : stage[u] = "idle"
  /\ memoryView' = None
  /\ hLocalMap'  = hMapShared
  /\ hMapShared' = None
  /\ handles'    = OpenWhileMappingAgain
  /\ detach' = IF hMapShared = None THEN "done" ELSE "take"
  /\ UNCHANGED <<views, elsewhere, stage, hMap, lpLocalView, got>>

(* The argument of UnmapViewOfFile is a new call: both pointers were just  *)
(* cleared, so it opens and maps the section again.                        *)
MapAgain(t) ==
  /\ detach = "take"
  /\ Begin(t)
  /\ detach' = "get"
  /\ UNCHANGED hLocalMap

UnmapAndClose ==
  /\ detach = "get"
  /\ \A u \in Thread : stage[u] = "idle"
  /\ views' = views \ {memoryView}
  /\ handles' = handles \ {hLocalMap}
  /\ detach' = "done"
  /\ UNCHANGED <<hMapShared, memoryView, elsewhere, stage, hMap, lpLocalView,
                 got, hLocalMap>>

(* Other injected processes open and close the section as they like.       *)
OtherProcess ==
  /\ elsewhere' = ~elsewhere
  /\ UNCHANGED <<hMapShared, memoryView, handles, views, stage, hMap,
                 lpLocalView, got, detach, hLocalMap>>

Next == \/ \E t \in Thread : Call(t) \/ GetStep(t) \/ TakeMap(t) \/ MapAgain(t)
        \/ UnmapAndClose
        \/ OtherProcess

Spec == Init /\ [][Next]_vars

-----------------------------------------------------------------------------
Publishing == {"publish", "publishNew"}

(* The losers of the races close what they opened: until the process       *)
(* detaches it has one handle and one view open, besides those a thread is *)
(* just about to publish.                                                  *)
NoLeak ==
  detach = "no" =>
    /\ handles = ({hMapShared} \ {None})
                 \cup {hMap[t] :
                            t \in {u \in Thread : stage[u] \in Publishing}}
    /\ views = ({memoryView} \ {None})
               \cup {lpLocalView[t] :
                       t \in {u \in Thread : stage[u] = "publishView"}}

(* injection.cpp:672: "Do not close this": every caller that got a view    *)
(* got the same one, and until the process detaches it stays mapped.       *)
SharedViewStays ==
  detach = "no" => \A t \in Thread : got[t] # None => /\ got[t] = memoryView
                                                    /\ got[t] \in views
=============================================================================
