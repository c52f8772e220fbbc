----------------------- MODULE SharedMemoryViewProofs -----------------------
(***************************************************************************)
(* The races of SharedMemoryView leak nothing and agree on one view for    *)
(* any number of threads, handles and views.                               *)
(***************************************************************************)
EXTENDS SharedMemoryView, TLAPS

Stage == {"idle", "get", "open", "publish", "republish", "create",
          "publishNew", "map", "publishView"}

TypeOK ==
  /\ hMapShared  \in Handle \cup {None}
  /\ memoryView  \in View \cup {None}
  /\ handles     \subseteq Handle
  /\ views       \subseteq View
  /\ stage       \in [Thread -> Stage]
  /\ hMap        \in [Thread -> Handle \cup {None}]
  /\ lpLocalView \in [Thread -> View \cup {None}]
  /\ got         \in [Thread -> View \cup {None}]

(* A handle is open because it is published or because exactly one thread  *)
(* is about to publish it.                                                 *)
Carries(t, h) == stage[t] \in Publishing /\ hMap[t] = h

HandlesAccounted ==
  /\ hMapShared # None => hMapShared \in handles
  /\ \A t \in Thread : stage[t] \in Publishing =>
       hMap[t] \in handles /\ hMap[t] # hMapShared
  /\ \A t, u \in Thread :
       /\ stage[t] \in Publishing
       /\ stage[u] \in Publishing
       /\ hMap[t] = hMap[u]
       => t = u
  /\ \A h \in handles : h = hMapShared \/ \E t \in Thread : Carries(t, h)

(* The winner is the one thread that holds what is published; its second   *)
(* store writes the value that is there.                                   *)
WinnerAgrees ==
  \A t \in Thread : stage[t] = "republish" =>
                      hMap[t] = hMapShared /\ hMapShared # None

(* The same of the views.                                                  *)
CarriesView(t, v) == stage[t] = "publishView" /\ lpLocalView[t] = v

ViewsAccounted ==
  /\ memoryView # None => memoryView \in views
  /\ \A t \in Thread : stage[t] = "publishView" =>
       lpLocalView[t] \in views /\ lpLocalView[t] # memoryView
  /\ \A t, u \in Thread :
       /\ stage[t] = "publishView"
       /\ stage[u] = "publishView"
       /\ lpLocalView[t] = lpLocalView[u]
       => t = u
  /\ \A v \in views : v = memoryView \/ \E t \in Thread : CarriesView(t, v)

OneView == \A t \in Thread : got[t] # None => got[t] = memoryView

(* CleanupSharedMemory breaks all of it, on purpose: the process is going. *)
RaceInv == /\ TypeOK
           /\ detach = "no" => /\ HandlesAccounted
                               /\ WinnerAgrees
                               /\ ViewsAccounted
                               /\ OneView

LEMMA RaceInvInit == Init => RaceInv
BY DEF Init, RaceInv, TypeOK, Stage, HandlesAccounted, WinnerAgrees,
       ViewsAccounted, OneView, Publishing

LEMMA TypeOKStep == TypeOK /\ [Next]_vars => TypeOK'
<1> SUFFICES ASSUME TypeOK, [Next]_vars PROVE TypeOK'
  OBVIOUS
<1> USE DEF TypeOK, Stage, Goto, Return
<1>1. CASE UNCHANGED vars
  BY <1>1 DEF vars
<1>2. ASSUME NEW t \in Thread, Begin(t) PROVE TypeOK'
  BY <1>2 DEF Begin
<1>3. ASSUME NEW t \in Thread, ReadMap(t) PROVE TypeOK'
  BY <1>3 DEF ReadMap
<1>4. ASSUME NEW t \in Thread, OpenExisting(t) PROVE TypeOK'
  BY <1>4 DEF OpenExisting
<1>5. ASSUME NEW t \in Thread, PublishExisting(t) PROVE TypeOK'
  BY <1>5 DEF PublishExisting, Published, LoserCloses
<1>6. ASSUME NEW t \in Thread, StoreAgain(t) PROVE TypeOK'
  BY <1>6 DEF StoreAgain
<1>7. ASSUME NEW t \in Thread, CreateNew(t) PROVE TypeOK'
  BY <1>7 DEF CreateNew
<1>8. ASSUME NEW t \in Thread, PublishNew(t) PROVE TypeOK'
  BY <1>8 DEF PublishNew, Published, LoserCloses
<1>9. ASSUME NEW t \in Thread, MapView(t) PROVE TypeOK'
  BY <1>9 DEF MapView
<1>10. ASSUME NEW t \in Thread, PublishView(t) PROVE TypeOK'
  BY <1>10 DEF PublishView, Published, LoserGets
<1>11. ASSUME NEW t \in Thread, TakeMap(t) PROVE TypeOK'
  BY <1>11 DEF TakeMap, OpenWhileMappingAgain
<1>12. CASE UnmapAndClose
  BY <1>12 DEF UnmapAndClose
<1>13. CASE OtherProcess
  BY <1>13 DEF OtherProcess
<1>14. QED
  BY <1>1, <1>2, <1>3, <1>4, <1>5, <1>6, <1>7, <1>8, <1>9, <1>10, <1>11,
     <1>12, <1>13 DEF Next, Call, GetStep, MapAgain

(* Nothing that happens after CleanupSharedMemory has begun goes back to   *)
(* before it.                                                              *)
LEMMA DetachIsFinal == [Next]_vars /\ detach' = "no" => detach = "no"
BY DEF Next, vars, Call, GetStep, ReadMap, OpenExisting, PublishExisting,
       StoreAgain, CreateNew, PublishNew, MapView, PublishView, TakeMap,
       MapAgain, UnmapAndClose, OtherProcess

(* A thread that brings a new handle, publishes its handle or closes it    *)
(* leaves every other one accounted for.                                   *)
LEMMA RaceInvStep == RaceInv /\ [Next]_vars => RaceInv'
<1> SUFFICES ASSUME RaceInv, [Next]_vars, detach' = "no"
             PROVE  /\ HandlesAccounted'
                    /\ WinnerAgrees'
                    /\ ViewsAccounted'
                    /\ OneView'
  BY TypeOKStep DEF RaceInv
<1>0. detach = "no"
  BY DetachIsFinal
<1>t. TypeOK /\ TypeOK'
  BY TypeOKStep DEF RaceInv
<1>i. HandlesAccounted /\ WinnerAgrees /\ ViewsAccounted /\ OneView
  BY <1>0 DEF RaceInv
<1> DEFINE Kept == HandlesAccounted' /\ WinnerAgrees' /\ ViewsAccounted'
                   /\ OneView'
<1> USE <1>t, <1>i, NoneAssumption
    DEF TypeOK, Stage, HandlesAccounted, WinnerAgrees, ViewsAccounted,
        OneView, Publishing, Carries, CarriesView, Goto, Return
<1>1. CASE UNCHANGED vars
  BY <1>1 DEF vars
<1>2. ASSUME NEW t \in Thread, Call(t) PROVE Kept
  BY <1>2 DEF Call, Begin
<1>3. ASSUME NEW t \in Thread, ReadMap(t) PROVE Kept
  BY <1>3 DEF ReadMap
<1>4. ASSUME NEW t \in Thread, OpenExisting(t) PROVE Kept
  BY <1>4 DEF OpenExisting
<1>5. ASSUME NEW t \in Thread, PublishExisting(t) PROVE Kept
  BY <1>5 DEF PublishExisting, Published, LoserCloses
<1>6. ASSUME NEW t \in Thread, StoreAgain(t) PROVE Kept
  BY <1>6 DEF StoreAgain
<1>7. ASSUME NEW t \in Thread, CreateNew(t) PROVE Kept
  BY <1>7 DEF CreateNew
<1>8. ASSUME NEW t \in Thread, PublishNew(t) PROVE Kept
  BY <1>8 DEF PublishNew, Published, LoserCloses
<1>9. ASSUME NEW t \in Thread, MapView(t) PROVE Kept
  BY <1>9 DEF MapView
<1>10. ASSUME NEW t \in Thread, PublishView(t) PROVE Kept
  BY <1>10 DEF PublishView, Published, LoserGets
<1>11. ASSUME NEW t \in Thread, TakeMap(t) PROVE Kept
  BY <1>11 DEF TakeMap
<1>12. ASSUME NEW t \in Thread, MapAgain(t) PROVE Kept
  BY <1>0, <1>12 DEF MapAgain
<1>13. CASE UnmapAndClose
  BY <1>0, <1>13 DEF UnmapAndClose
<1>14. CASE OtherProcess
  BY <1>14 DEF OtherProcess
<1>15. QED
  BY <1>1, <1>2, <1>3, <1>4, <1>5, <1>6, <1>7, <1>8, <1>9, <1>10, <1>11,
     <1>12, <1>13, <1>14 DEF Next, GetStep

LEMMA RaceInvariant == Spec => []RaceInv
BY RaceInvInit, RaceInvStep, PTL DEF Spec

(* injection.cpp:672-740: however the opens, creations and publications of *)
(* any number of threads interleave, the process has no handle and no view *)
(* open but the published ones and those about to be published.            *)
THEOREM NoRaceLeaks == Spec => []NoLeak
<1>1. RaceInv => NoLeak
  <2> SUFFICES ASSUME RaceInv, detach = "no"
               PROVE  /\ handles = ({hMapShared} \ {None})
                           \cup {hMap[t] : t \in {u \in Thread :
                                             stage[u] \in Publishing}}
                      /\ views = ({memoryView} \ {None})
                           \cup {lpLocalView[t] : t \in {u \in Thread :
                                             stage[u] = "publishView"}}
    BY DEF NoLeak
  <2>1. TypeOK /\ HandlesAccounted /\ ViewsAccounted
    BY DEF RaceInv
  <2>2. None \notin handles /\ None \notin views
    BY <2>1, NoneAssumption DEF TypeOK
  <2>3. QED
    BY <2>1, <2>2 DEF HandlesAccounted, ViewsAccounted, Carries, CarriesView
<1>2. QED
  BY <1>1, RaceInvariant, PTL

(* injection.cpp:672: every caller that was given a view was given the     *)
(* same one, and it is mapped as long as the process is not detaching.     *)
THEOREM ViewShared == Spec => []SharedViewStays
<1>1. RaceInv => SharedViewStays
  BY DEF RaceInv, ViewsAccounted, OneView, SharedViewStays
<1>2. QED
  BY <1>1, RaceInvariant, PTL
=============================================================================
