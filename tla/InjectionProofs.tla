--------------------------- MODULE InjectionProofs --------------------------
(***************************************************************************)
(* The table of injected processes and their records, for any number of    *)
(* processes, slots and records.                                           *)
(*                                                                         *)
(* The first part is about InjectionRecords: the slots, the records, and   *)
(* the table as a PidRegistry.                                             *)
(*                                                                         *)
(* The second part is about InjectionAudit: what a process writes to its   *)
(* record, and who reads the table.  Until the history rolls over a record *)
(* that bears an id is never given to another process, so that the first   *)
(* record of an id, the one that GetRecord finds, stays the same from the  *)
(* moment a process was injected (Records).  The rest follows from where a *)
(* thread's copy of it comes from: it has the notes that were made before  *)
(* it was taken (Noted), and the exit if it was stamped by then (Stamped). *)
(***************************************************************************)
EXTENDS InjectionAudit, FiniteSetTheorems, WellFoundedInduction, TLAPS

(* WriteRecord subtracts one from the index: it was never drawn as zero.   *)
IndexDrawn ==
  \A p \in Proc : stage[p] \in {"rollover", "write"} => idx[p] >= 1

TypeInv == TypeOK /\ IndexDrawn

LEMMA TypeInvInit == Init => TypeInv
<1> SUFFICES ASSUME Init PROVE TypeInv
  OBVIOUS
<1> USE SizeAssumption DEF Init
<1>1. 0 \in 0 .. NumSlots /\ 0 \in Nat
  OBVIOUS
<1>2. hookedPIDs \in [Slot -> Pid] /\ ids \in [Record -> Pid]
      /\ ejected \in [Record -> Pid] /\ injected \in [Record -> Nat]
  BY DEF Pid
<1>3. /\ stage \in [Proc -> Stage] /\ scan \in [Proc -> 0 .. NumSlots]
      /\ idx \in [Proc -> Nat] /\ localRecord \in [Proc -> Nat]
  BY <1>1 DEF Stage
<1>4. IndexDrawn
  BY DEF IndexDrawn
<1>5. QED
  BY <1>1, <1>2, <1>3, <1>4 DEF TypeInv, TypeOK

(* Every step keeps the variables in their ranges and the drawn indices    *)
(* positive.                                                               *)
LEMMA TypeInvStep == TypeInv /\ [Next]_vars => TypeInv'
<1> SUFFICES ASSUME TypeInv, [Next]_vars PROVE TypeInv'
  OBVIOUS
<1> USE SizeAssumption
    DEF TypeInv, TypeOK, IndexDrawn, Slot, Record, Pid, Stage, Acquiring,
        shared, log, local, history, vars, Goto, Vanish, NextSlot,
        GivesBack, HistoryFull, FirstIndex, Increment, EjectRecord
<1>1. CASE UNCHANGED vars
  BY <1>1
<1>2. ASSUME NEW p \in Proc, Attach(p) PROVE TypeInv'
  BY <1>2 DEF Attach
<1>3. ASSUME NEW p \in Proc, ClaimSlot(p) PROVE TypeInv'
  BY <1>3 DEF ClaimSlot
<1>4. ASSUME NEW p \in Proc, SkipSlot(p) PROVE TypeInv'
  <2>1. scan[p] + 1 \in 0 .. NumSlots
    BY <1>4 DEF SkipSlot
  <2>2. scan' \in [Proc -> 0 .. NumSlots]
    BY <1>4, <2>1 DEF SkipSlot
  <2>3. QED
    BY <1>4, <2>2 DEF SkipSlot
<1>5. ASSUME NEW p \in Proc, Refuse(p) PROVE TypeInv'
  BY <1>5 DEF Refuse
<1>6. ASSUME NEW p \in Proc, DrawIndex(p) PROVE TypeInv'
  <2>1. raced' \in BOOLEAN
    BY <1>6 DEF DrawIndex
  <2>2. QED
    BY <1>6, <2>1 DEF DrawIndex
<1>7. ASSUME NEW p \in Proc, Rollover(p) PROVE TypeInv'
  <2>1. count' \in Nat
    BY <1>7 DEF Rollover
  <2>2. CASE count # 0
    <3>1. /\ idx' = [idx EXCEPT ![p] = 1] /\ rollovers' = rollovers + 1
          /\ stage' = [stage EXCEPT ![p] = "write"] /\ wrapped' = TRUE
          /\ UNCHANGED <<hookedPIDs, log, scan, localRecord,
                         pinned, starts, leaked, freed, raced, refused>>
      BY <1>7, <2>2 DEF Rollover
    <3>2. IndexDrawn'
      BY <3>1
    <3>3. TypeOK'
      BY <2>1, <3>1
    <3>4. QED
      BY <3>2, <3>3
  <2>3. CASE count = 0
    BY <1>7, <2>1, <2>3 DEF Rollover
  <2>4. QED
    BY <2>2, <2>3
<1>8. ASSUME NEW p \in Proc, DrawAgain(p) PROVE TypeInv'
  BY <1>8 DEF DrawAgain
<1>9. ASSUME NEW p \in Proc, WriteRecord(p) PROVE TypeInv'
  <2>1. idx[p] - 1 \in Nat
    BY <1>9 DEF WriteRecord
  <2>2. localRecord' \in [Proc -> Nat] /\ ids' \in [Record -> Pid]
        /\ injected' \in [Record -> Nat] /\ clock' \in Nat
    BY <1>9, <2>1 DEF WriteRecord
  <2>3. /\ stage' = [stage EXCEPT ![p] = "running"]
        /\ pinned' = pinned \cup {p}
        /\ UNCHANGED <<hookedPIDs, count, rollovers, ejected, scan, idx,
                       starts, leaked, freed, wrapped, raced, refused>>
    BY <1>9 DEF WriteRecord
  <2>4. QED
    BY <2>2, <2>3
<1>10. ASSUME NEW p \in Proc, Detach(p) PROVE TypeInv'
  BY <1>10 DEF Detach
<1>11. ASSUME NEW p \in Proc, ReleaseSlot(p) PROVE TypeInv'
  <2>1. scan' \in [Proc -> 0 .. NumSlots]
    <3>1. scan[p] + 1 \in 0 .. NumSlots
      BY <1>11 DEF ReleaseSlot
    <3>2. QED
      BY <1>11, <3>1 DEF ReleaseSlot
  <2>2. hookedPIDs' \in [Slot -> Pid] /\ freed' \subseteq Proc
    <3>1. CASE hookedPIDs[scan[p]] = p
      BY <1>11, <3>1 DEF ReleaseSlot
    <3>2. CASE hookedPIDs[scan[p]] # p
      BY <1>11, <3>2 DEF ReleaseSlot
    <3>3. QED
      BY <3>1, <3>2
  <2>3. UNCHANGED <<count, rollovers, log, stage, idx, localRecord, pinned,
                    starts, leaked, wrapped, raced, refused>>
    BY <1>11 DEF ReleaseSlot
  <2>4. QED
    BY <2>1, <2>2, <2>3
<1>12. ASSUME NEW p \in Proc, StampEject(p) PROVE TypeInv'
  BY <1>12 DEF StampEject
<1>13. ASSUME NEW p \in Proc, Terminate(p) PROVE TypeInv'
  BY <1>13 DEF Terminate
<1>14. QED
  BY <1>1, <1>2, <1>3, <1>4, <1>5, <1>6, <1>7, <1>8, <1>9, <1>10,
     <1>11, <1>12, <1>13
     DEF Next, Step, AcquireStep

(* Every variable of the shared segment and of every process stays in its  *)
(* range, whatever the number of processes, slots and records.             *)
THEOREM TypeCorrect == Spec => []TypeOK
<1>1. TypeInv => TypeOK
  BY DEF TypeInv
<1>2. QED
  BY <1>1, TypeInvInit, TypeInvStep, PTL DEF Spec

-----------------------------------------------------------------------------
(* What the slot protocol relies on between two steps.                     *)

(* A process that is not there has no state of its own; one that is still  *)
(* acquiring holds no reference yet.                                       *)
Fresh ==
  \A p \in Proc :
    /\ stage[p] = "absent" => scan[p] = 0
    /\ stage[p] \in Acquiring \cup {"absent"} => p \notin pinned

(* The slots a releasing process has passed do not hold its id.            *)
ReleasedSoFar ==
  \A p \in Proc :
    /\ stage[p] = "release" =>
         \A i \in Slot : i < scan[p] => hookedPIDs[i] # p

(* The slots a claiming process has passed are taken, unless another       *)
(* process freed one since.                                                *)
ScannedTaken ==
  \A p \in Proc \ freed :
    stage[p] = "claim" =>
      \A i \in Slot : i < scan[p] => hookedPIDs[i] # NoPid

SlotInv == /\ TypeInv
           /\ Fresh
           /\ SlotOwned
           /\ OnlyTerminationLeaks
           /\ ReleasedSoFar
           /\ ScannedTaken

LEMMA SlotInvInit == Init => SlotInv
<1> SUFFICES ASSUME Init PROVE SlotInv
  OBVIOUS
<1>1. TypeInv
  BY TypeInvInit
<1>2. \A p \in Proc : ~HasSlot(p)
  BY NoPidAssumption DEF Init, HasSlot
<1>3. QED
  BY <1>1, <1>2 DEF Init, SlotInv, Fresh, SlotOwned, Enlisted, Acquiring,
                    OnlyTerminationLeaks, ReleasedSoFar, ScannedTaken

(* Every step keeps the slot protocol's invariant.  Only three actions     *)
(* write the table or change who may be in it: ClaimSlot, ReleaseSlot and, *)
(* by leaving its slots behind, Terminate.                                 *)
LEMMA SlotInvStep == SlotInv /\ [Next]_vars => SlotInv'
<1> SUFFICES ASSUME SlotInv, [Next]_vars PROVE SlotInv'
  OBVIOUS
<1>0. TypeInv /\ TypeInv'
  BY TypeInvStep DEF SlotInv
<1> DEFINE Rest == Fresh /\ SlotOwned /\ OnlyTerminationLeaks
                   /\ ReleasedSoFar /\ ScannedTaken
<1> SUFFICES Rest'
  BY <1>0 DEF SlotInv
<1>t. /\ hookedPIDs \in [Slot -> Pid]
      /\ stage \in [Proc -> Stage]
      /\ scan \in [Proc -> 0 .. NumSlots]
      /\ pinned \subseteq Proc /\ leaked \subseteq Proc /\ freed \subseteq Proc
  BY <1>0 DEF TypeInv, TypeOK
<1>i. Rest
  BY DEF SlotInv
<1> USE <1>t, <1>i, SizeAssumption, NoPidAssumption
    DEF Fresh, SlotOwned, Enlisted, OnlyTerminationLeaks, ReleasedSoFar,
        ScannedTaken, HasSlot, Slot, Acquiring, shared, log, local, history,
        vars, Goto, Vanish, NextSlot, GivesBack
<1> DEFINE InRecords == Acquiring \ {"claim"}
<1>m. ASSUME NEW p \in Proc, stage[p] \in InRecords,
             NEW s \in InRecords, Goto(p, s),
             UNCHANGED <<hookedPIDs, scan, pinned, leaked, freed>>
      PROVE  Rest'
  <2>1. \A q \in Proc : HasSlot(q)' <=> HasSlot(q)
    BY <1>m
  <2>2. SlotOwned' /\ OnlyTerminationLeaks'
    BY <1>m, <2>1
  <2>3. Fresh' /\ ReleasedSoFar' /\ ScannedTaken'
    BY <1>m
  <2>4. QED
    BY <2>2, <2>3
<1>1. CASE UNCHANGED vars
  BY <1>1
<1>2. ASSUME NEW p \in Proc, Attach(p) PROVE Rest'
  BY <1>2 DEF Attach
<1>3. ASSUME NEW p \in Proc, ClaimSlot(p) PROVE Rest'
  BY <1>3 DEF ClaimSlot
<1>4. ASSUME NEW p \in Proc, SkipSlot(p) PROVE Rest'
  BY <1>4 DEF SkipSlot
<1>5. ASSUME NEW p \in Proc, Refuse(p) PROVE Rest'
  BY <1>5 DEF Refuse
<1>6. ASSUME NEW p \in Proc, DrawIndex(p) PROVE Rest'
  BY <1>6, <1>m DEF DrawIndex
<1>7. ASSUME NEW p \in Proc, Rollover(p) PROVE Rest'
  <2>1. CASE count # 0
    BY <1>7, <2>1, <1>m DEF Rollover
  <2>2. CASE count = 0
    BY <1>7, <2>2, <1>m DEF Rollover
  <2>3. QED
    BY <2>1, <2>2
<1>8. ASSUME NEW p \in Proc, DrawAgain(p) PROVE Rest'
  BY <1>8, <1>m DEF DrawAgain
<1>9. ASSUME NEW p \in Proc, WriteRecord(p) PROVE Rest'
  BY <1>9 DEF WriteRecord
<1>10. ASSUME NEW p \in Proc, Detach(p) PROVE Rest'
  BY <1>10 DEF Detach
<1>11. ASSUME NEW p \in Proc, ReleaseSlot(p) PROVE Rest'
  <2>1. \A i \in Slot :
          \/ hookedPIDs'[i] = hookedPIDs[i]
          \/ hookedPIDs[i] = p /\ hookedPIDs'[i] = NoPid
    <3>1. CASE hookedPIDs[scan[p]] = p
      BY <1>11, <3>1 DEF ReleaseSlot
    <3>2. CASE hookedPIDs[scan[p]] # p
      BY <1>11, <3>2 DEF ReleaseSlot
    <3>3. QED
      BY <3>1, <3>2
  <2>2. \A q \in Proc \ {p} : HasSlot(q)' <=> HasSlot(q)
    <3>1. \A q \in Proc \ {p}, i \in Slot :
            hookedPIDs'[i] = q <=> hookedPIDs[i] = q
      <4> TAKE q \in Proc \ {p}, i \in Slot
      <4>1. q # p /\ q # NoPid
        OBVIOUS
      <4>2. \/ hookedPIDs'[i] = hookedPIDs[i]
            \/ hookedPIDs[i] = p /\ hookedPIDs'[i] = NoPid
        BY <2>1
      <4>3. QED
        BY ONLY <4>1, <4>2
    <3>2. QED
      BY <3>1
  <2>3. /\ stage' = stage /\ leaked' = leaked /\ pinned' = pinned
        /\ stage[p] = "release" /\ scan[p] \in Slot
        /\ scan' = [scan EXCEPT ![p] = @ + 1]
    BY <1>11 DEF ReleaseSlot
  <2>4. Fresh'
    BY <2>3
  <2>5. SlotOwned' /\ OnlyTerminationLeaks'
    BY <2>2, <2>3
  <2>6. ReleasedSoFar'
    <3>1. hookedPIDs'[scan[p]] # p
      BY <1>11 DEF ReleaseSlot
    <3>2. \A q \in Proc : stage[q] = "release" =>
            \A i \in Slot : i < scan'[q] => hookedPIDs'[i] # q
      <4> SUFFICES ASSUME NEW q \in Proc, stage[q] = "release",
                          NEW i \in Slot, i < scan'[q]
                   PROVE  hookedPIDs'[i] # q
        OBVIOUS
      <4>1. i < scan[q] \/ (q = p /\ i = scan[p])
        BY <2>3
      <4>2. CASE i < scan[q]
        <5>1. hookedPIDs[i] # q /\ q # NoPid
          BY <4>2
        <5>2. QED
          BY ONLY <5>1, <2>1, i \in Slot
      <4>3. QED
        BY ONLY <4>1, <4>2, <3>1
    <3>3. QED
      BY <2>3, <3>2
  <2>7. ScannedTaken'
    BY <1>11, <2>3 DEF ReleaseSlot
  <2>8. QED
    BY <2>4, <2>5, <2>6, <2>7
<1>12. ASSUME NEW p \in Proc, StampEject(p) PROVE Rest'
  BY <1>12 DEF StampEject
<1>13. ASSUME NEW p \in Proc, Terminate(p) PROVE Rest'
  BY <1>13 DEF Terminate
<1>14. QED
  BY <1>1, <1>2, <1>3, <1>4, <1>5, <1>6, <1>7, <1>8, <1>9, <1>10,
     <1>11, <1>12, <1>13
     DEF Next, Step, AcquireStep

LEMMA SlotInvariant == Spec => []SlotInv
BY SlotInvInit, SlotInvStep, PTL DEF Spec

(* A process that claimed a slot keeps one until it detaches, however many *)
(* processes acquire, release and die around it.                           *)
THEOREM SlotsKept == Spec => []SlotOwned
<1>1. SlotInv => SlotOwned
  BY DEF SlotInv
<1>2. QED
  BY <1>1, SlotInvariant, PTL

(* Between two processes of an id, the table holds that id only if the     *)
(* last of them was terminated.                                            *)
THEOREM OrderlyExitLeavesNothing == Spec => []OnlyTerminationLeaks
<1>1. SlotInv => OnlyTerminationLeaks
  BY DEF SlotInv
<1>2. QED
  BY <1>1, SlotInvariant, PTL

(* A process that no slot was freed behind is turned away only by a full   *)
(* table.                                                                  *)
THEOREM NoSpuriousRefusal == Spec => []RefusedOnlyWhenFull
<1>1. SlotInv => RefusedOnlyWhenFull
  BY SizeAssumption DEF SlotInv, ScannedTaken, RefusedOnlyWhenFull, Slot
<1>2. QED
  BY <1>1, SlotInvariant, PTL

-----------------------------------------------------------------------------
(* The records.                                                            *)

(* A process has a record to itself from the draw of an index on.          *)
HasIndex(p) == stage[p] = "write" \/ p \in pinned
Index(p)    == IF p \in pinned THEN localRecord[p] + 1 ELSE idx[p]

(* Until the first rollover the counter only grows, so every index drawn   *)
(* lies below it and belongs to one process; nobody draws untested.        *)
DrawnOnce ==
  ~wrapped =>
    \A p \in Proc :
      /\ stage[p] # "recount"
      /\ HasIndex(p) => /\ 1 <= Index(p)
                        /\ Index(p) < NumRecords
                        /\ Index(p) <= count
                        /\ \A q \in Proc \ {p} :
                             HasIndex(q) => Index(q) # Index(p)
      /\ p \in pinned => ids[localRecord[p]] = p

(* Without a race at most one process is rolling over, and nobody moves    *)
(* the counter under it.                                                   *)
OneRollsOver ==
  ~raced =>
    \A p \in Proc :
      /\ stage[p] # "recount"
      /\ stage[p] = "rollover" =>
           /\ idx[p] = count
           /\ \A q \in Proc \ {p} : stage[q] # "rollover"
      /\ stage[p] = "write" => idx[p] <= NumRecords

RecordInv == SlotInv /\ DrawnOnce /\ OneRollsOver

LEMMA RecordInvInit == Init => RecordInv
<1> SUFFICES ASSUME Init PROVE RecordInv
  OBVIOUS
<1>1. \A p \in Proc : stage[p] = "absent" /\ p \notin pinned
  BY DEF Init
<1>2. QED
  BY <1>1, SlotInvInit DEF RecordInv, DrawnOnce, OneRollsOver, HasIndex

(* Only DrawIndex and Rollover hand out an index while nobody has wrapped  *)
(* or raced; DrawAgain is not reached then.                                *)
LEMMA DrawnOnceStep == SlotInv /\ DrawnOnce /\ [Next]_vars => DrawnOnce'
<1> SUFFICES ASSUME SlotInv, DrawnOnce, [Next]_vars, ~wrapped'
             PROVE  DrawnOnce'
  BY DEF DrawnOnce
<1>0. TypeInv /\ TypeInv' /\ Fresh
  BY TypeInvStep DEF SlotInv
<1>t. /\ count \in Nat /\ stage \in [Proc -> Stage] /\ idx \in [Proc -> Nat]
      /\ ids \in [Record -> Pid] /\ localRecord \in [Proc -> Nat]
      /\ pinned \subseteq Proc
      /\ \A p \in Proc : stage[p] = "write" => idx[p] >= 1
      /\ \A p \in Proc : stage[p] \in Acquiring \cup {"absent"}
                           => p \notin pinned
  BY <1>0 DEF TypeInv, TypeOK, IndexDrawn, Fresh
<1> USE <1>t, SizeAssumption
    DEF HasIndex, Index, Acquiring, shared, log, local, history, vars, Goto,
        Vanish
<1>w. ~wrapped
  BY DEF Next, Step, AcquireStep, Attach, ClaimSlot, SkipSlot, Refuse,
         DrawIndex, Rollover, DrawAgain, WriteRecord, Detach, ReleaseSlot,
         StampEject, Terminate
<1> USE <1>w DEF DrawnOnce
<1>1. CASE UNCHANGED vars
  BY <1>1
<1>2. ASSUME NEW p \in Proc, Attach(p) PROVE DrawnOnce'
  BY <1>2 DEF Attach
<1>3. ASSUME NEW p \in Proc, ClaimSlot(p) PROVE DrawnOnce'
  BY <1>3 DEF ClaimSlot
<1>4. ASSUME NEW p \in Proc, SkipSlot(p) PROVE DrawnOnce'
  BY <1>4 DEF SkipSlot
<1>5. ASSUME NEW p \in Proc, Refuse(p) PROVE DrawnOnce'
  BY <1>5 DEF Refuse
<1>6. ASSUME NEW p \in Proc, DrawIndex(p) PROVE DrawnOnce'
  BY <1>6 DEF DrawIndex, Increment, HistoryFull
<1>7. ASSUME NEW p \in Proc, Rollover(p) PROVE DrawnOnce'
  BY <1>7 DEF Rollover
<1>8. ASSUME NEW p \in Proc, DrawAgain(p) PROVE DrawnOnce'
  BY <1>8 DEF DrawAgain
<1>9. ASSUME NEW p \in Proc, WriteRecord(p) PROVE DrawnOnce'
  BY <1>9 DEF WriteRecord, Record
<1>10. ASSUME NEW p \in Proc, Detach(p) PROVE DrawnOnce'
  BY <1>10 DEF Detach
<1>11. ASSUME NEW p \in Proc, ReleaseSlot(p) PROVE DrawnOnce'
  BY <1>11 DEF ReleaseSlot
<1>12. ASSUME NEW p \in Proc, StampEject(p) PROVE DrawnOnce'
  BY <1>12 DEF StampEject
<1>13. ASSUME NEW p \in Proc, Terminate(p) PROVE DrawnOnce'
  BY <1>13 DEF Terminate
<1>14. QED
  BY <1>1, <1>2, <1>3, <1>4, <1>5, <1>6, <1>7, <1>8, <1>9, <1>10,
     <1>11, <1>12, <1>13
     DEF Next, Step, AcquireStep

LEMMA OneRollsOverStep == TypeInv /\ OneRollsOver /\ [Next]_vars
                            => OneRollsOver'
<1> SUFFICES ASSUME TypeInv, OneRollsOver, [Next]_vars, ~raced'
             PROVE  OneRollsOver'
  BY DEF OneRollsOver
<1>t. /\ count \in Nat /\ stage \in [Proc -> Stage] /\ idx \in [Proc -> Nat]
      /\ \A p \in Proc : stage[p] = "rollover" => idx[p] >= 1
  BY DEF TypeInv, TypeOK, IndexDrawn
<1> USE <1>t, SizeAssumption
    DEF Acquiring, shared, log, local, history, vars, Goto, Vanish
<1>r. ~raced
  BY DEF Next, Step, AcquireStep, Attach, ClaimSlot, SkipSlot, Refuse,
         DrawIndex, Rollover, DrawAgain, WriteRecord, Detach, ReleaseSlot,
         StampEject, Terminate
<1> USE <1>r DEF OneRollsOver
<1>1. CASE UNCHANGED vars
  BY <1>1
<1>2. ASSUME NEW p \in Proc, Attach(p) PROVE OneRollsOver'
  BY <1>2 DEF Attach
<1>3. ASSUME NEW p \in Proc, ClaimSlot(p) PROVE OneRollsOver'
  BY <1>3 DEF ClaimSlot
<1>4. ASSUME NEW p \in Proc, SkipSlot(p) PROVE OneRollsOver'
  BY <1>4 DEF SkipSlot
<1>5. ASSUME NEW p \in Proc, Refuse(p) PROVE OneRollsOver'
  BY <1>5 DEF Refuse
<1>6. ASSUME NEW p \in Proc, DrawIndex(p) PROVE OneRollsOver'
  <2>1. \A q \in Proc \ {p} : stage[q] \notin {"rollover", "recount"}
    BY <1>6 DEF DrawIndex, RollingOver
  <2>2. /\ stage[p] = "count" /\ count' = count + 1
        /\ idx' = [idx EXCEPT ![p] = count + 1]
        /\ stage' = [stage EXCEPT ![p] = IF count + 1 >= NumRecords
                                        THEN "rollover" ELSE "write"]
    BY <1>6 DEF DrawIndex, Increment, HistoryFull
  <2>3. QED
    BY <2>1, <2>2
<1>7. ASSUME NEW p \in Proc, Rollover(p) PROVE OneRollsOver'
  BY <1>7 DEF Rollover, FirstIndex
<1>8. ASSUME NEW p \in Proc, DrawAgain(p) PROVE OneRollsOver'
  BY <1>8 DEF DrawAgain
<1>9. ASSUME NEW p \in Proc, WriteRecord(p) PROVE OneRollsOver'
  BY <1>9 DEF WriteRecord
<1>10. ASSUME NEW p \in Proc, Detach(p) PROVE OneRollsOver'
  BY <1>10 DEF Detach
<1>11. ASSUME NEW p \in Proc, ReleaseSlot(p) PROVE OneRollsOver'
  BY <1>11 DEF ReleaseSlot
<1>12. ASSUME NEW p \in Proc, StampEject(p) PROVE OneRollsOver'
  BY <1>12 DEF StampEject
<1>13. ASSUME NEW p \in Proc, Terminate(p) PROVE OneRollsOver'
  BY <1>13 DEF Terminate
<1>14. QED
  BY <1>1, <1>2, <1>3, <1>4, <1>5, <1>6, <1>7, <1>8, <1>9, <1>10,
     <1>11, <1>12, <1>13
     DEF Next, Step, AcquireStep

LEMMA RecordInvariant == Spec => []RecordInv
<1>1. RecordInv /\ [Next]_vars => RecordInv'
  BY SlotInvStep, DrawnOnceStep, OneRollsOverStep DEF RecordInv, SlotInv
<1>2. QED
  BY <1>1, RecordInvInit, PTL DEF Spec

(* Before the history first rolls over, each live process that was given a *)
(* record finds its own id in it and shares it with nobody.                *)
THEOREM RecordsDisjoint == Spec => []OwnRecord
<1>1. RecordInv => OwnRecord
  <2> SUFFICES ASSUME RecordInv, ~wrapped, NEW p \in pinned
               PROVE  /\ localRecord[p] \in Record
                      /\ ids[localRecord[p]] = p
                      /\ \A q \in pinned \ {p} :
                           localRecord[q] # localRecord[p]
    BY DEF OwnRecord
  <2>1. pinned \subseteq Proc /\ localRecord \in [Proc -> Nat]
    BY DEF RecordInv, SlotInv, TypeInv, TypeOK
  <2>2. DrawnOnce
    BY DEF RecordInv
  <2>3. QED
    BY <2>1, <2>2, SizeAssumption DEF DrawnOnce, HasIndex, Index, Record
<1>2. QED
  BY <1>1, RecordInvariant, PTL

(* injection.cpp: only an index drawn while another process rolls over can *)
(* lie past the history.                                                   *)
THEOREM UnracedInBounds == Spec => []SequentialInBounds
<1>1. RecordInv => SequentialInBounds
  BY SizeAssumption DEF RecordInv, SlotInv, TypeInv, TypeOK, IndexDrawn,
                        OneRollsOver, SequentialInBounds, Record
<1>2. QED
  BY <1>1, RecordInvariant, PTL

-----------------------------------------------------------------------------
(* The refinement of PidRegistry.                                          *)

(* A table names at most as many processes as it has slots.                *)
LEMMA TableBounds ==
  ASSUME NEW table \in [Slot -> Pid]
  PROVE  Cardinality({p \in Proc : \E i \in Slot : table[i] = p}) <= NumSlots
<1> DEFINE Bears == {p \in Proc : \E i \in Slot : table[i] = p}
           Used  == {i \in Slot : table[i] \in Proc}
           f     == [i \in Used |-> table[i]]
<1>1. IsFiniteSet(Slot) /\ Cardinality(Slot) = NumSlots
  BY SizeAssumption, FS_Interval DEF Slot
<1>2. /\ IsFiniteSet(Used) /\ Cardinality(Used) <= NumSlots
      /\ Cardinality(Used) \in Nat
  BY <1>1, FS_Subset, FS_CardinalityType
<1>3. f \in Surjection(Used, Bears)
  BY DEF Surjection
<1>4. IsFiniteSet(Bears) /\ Cardinality(Bears) <= Cardinality(Used)
  <2> HIDE DEF Used, Bears, f
  <2>1. QED
    BY <1>2, <1>3, FS_Surjection
<1>5. Cardinality(Bears) \in Nat
  BY <1>4, FS_CardinalityType
<1>6. QED
  BY <1>2, <1>4, <1>5, SizeAssumption

(* The states PidRegistry knows a process by, read off the code's.         *)
StatusOf(p) ==
  IF stage[p] = "absent" THEN "out"
  ELSE IF stage[p] = "claim" THEN "joining"
  ELSE IF stage[p] = "release" THEN "leaving"
  ELSE IF stage[p] = "running" /\ p \notin pinned THEN "guest"
  ELSE "member"

LEMMA StatusDefined ==
  TypeOK => RegistryStatus = [p \in Proc |-> StatusOf(p)]
<1> SUFFICES ASSUME TypeOK, NEW p \in Proc
             PROVE  RegistryStatus[p] = StatusOf(p)
  BY DEF RegistryStatus
<1>1. stage[p] \in Stage
  BY DEF TypeOK
<1>2. QED
  BY <1>1 DEF RegistryStatus, StatusOf, Enlisted, Stage, Acquiring

Held == {p \in Proc : HasSlot(p)}

(* Every step of the code is a step of the registry or none: claiming a    *)
(* slot is joining, giving back the last slot with the id is the removal,  *)
(* and the counter and the records do not show.                            *)
LEMMA RegistryStep ==
  ASSUME SlotInv, SlotInv', [Next]_vars
  PROVE  [Registry!Next]_Registry!vars
<1>t. /\ TypeOK /\ TypeOK'
      /\ hookedPIDs \in [Slot -> Pid] /\ hookedPIDs' \in [Slot -> Pid]
      /\ stage \in [Proc -> Stage] /\ scan \in [Proc -> 0 .. NumSlots]
      /\ pinned \subseteq Proc
  BY DEF SlotInv, TypeInv, TypeOK
<1>s. /\ RegistryStatus  = [q \in Proc |-> StatusOf(q)]
      /\ RegistryStatus' = [q \in Proc |-> StatusOf(q)']
  <2>1. \A q \in Proc : RegistryStatus'[q] = StatusOf(q)'
    <3> TAKE q \in Proc
    <3>1. stage'[q] \in Stage
      BY <1>t DEF TypeOK
    <3>2. QED
      BY <3>1 DEF RegistryStatus, StatusOf, Enlisted, Stage, Acquiring
  <2>2. RegistryStatus' = [q \in Proc |-> StatusOf(q)']
    BY <2>1 DEF RegistryStatus
  <2>3. QED
    BY <1>t, <2>2, StatusDefined
<1>u. ASSUME NEW p \in Proc,
             \A q \in Proc \ {p} : stage'[q] = stage[q]
                                   /\ (q \in pinned' <=> q \in pinned)
      PROVE  RegistryStatus' = [RegistryStatus EXCEPT ![p] = StatusOf(p)']
  BY <1>s, <1>u DEF StatusOf
<1>h. hookedPIDs' = hookedPIDs => Held' = Held
  BY DEF Held, HasSlot
<1>m. ASSUME NEW p \in Proc,
             \A q \in Proc \ {p} : stage'[q] = stage[q]
                                   /\ (q \in pinned' <=> q \in pinned),
             hookedPIDs' = hookedPIDs,
             \/ StatusOf(p)' = StatusOf(p)
             \/ StatusOf(p) = "out" /\ StatusOf(p)' = "joining"
             \/ StatusOf(p) = "joining" /\ StatusOf(p)' = "guest"
             \/ StatusOf(p) \in {"member", "guest"}
                /\ StatusOf(p)' = "leaving"
             \/ StatusOf(p) # "out" /\ StatusOf(p)' = "out"
                /\ StatusOf(p) \in {"joining", "member", "guest", "leaving"}
      PROVE  [Registry!Next]_Registry!vars
  <2>1. RegistryStatus' = [RegistryStatus EXCEPT ![p] = StatusOf(p)']
    BY <1>m, <1>u
  <2>2. RegistryStatus[p] = StatusOf(p)
    BY <1>s
  <2>3. Held' = Held
    BY <1>m, <1>h
  <2>4. CASE StatusOf(p)' = StatusOf(p)
    <3>1. RegistryStatus' = RegistryStatus
      BY <2>1, <2>2, <2>4, <1>s
    <3>2. QED
      BY <3>1, <2>3 DEF Registry!vars, Held
  <2>5. CASE StatusOf(p)' # StatusOf(p)
    BY <1>m, <2>1, <2>2, <2>3, <2>5
       DEF Held, Registry!Next, Registry!Arrive, Registry!TurnAway,
           Registry!Leave, Registry!Die, Registry!Move
  <2>6. QED
    BY <2>4, <2>5
<1> USE <1>t, SizeAssumption, NoPidAssumption
    DEF Goto, Vanish, shared, log, local, history
<1>1. CASE UNCHANGED vars
  BY <1>1 DEF vars, Registry!vars, HasSlot, RegistryStatus, Enlisted
<1>2. ASSUME NEW p \in Proc, Attach(p) PROVE [Registry!Next]_Registry!vars
  BY <1>2, <1>m DEF Attach, StatusOf
<1>3. ASSUME NEW p \in Proc, ClaimSlot(p)
      PROVE  [Registry!Next]_Registry!vars
  <2>1. RegistryStatus[p] = "joining" /\ StatusOf(p)' = "member"
    BY <1>3, <1>s DEF ClaimSlot, StatusOf
  <2>2. RegistryStatus' = [RegistryStatus EXCEPT ![p] = "member"]
    BY <1>3, <1>u, <2>1 DEF ClaimSlot
  <2>3. Held' = Held \cup {p}
    BY <1>3 DEF ClaimSlot, Held, HasSlot, Slot
  <2>4. Cardinality(Held') <= NumSlots
    <3>1. Held' = {q \in Proc : \E i \in Slot : hookedPIDs'[i] = q}
      BY DEF Held, HasSlot
    <3>2. QED
      BY <3>1, TableBounds
  <2>5. Registry!Join(p)
    <3>1. Registry!Move(p, {"joining"}, "member")
      BY <2>1, <2>2 DEF Registry!Move
    <3>2. Registry!Cardinality(Held') = Cardinality(Held')
      BY DEF Registry!Cardinality, Cardinality,
             IsFiniteSet, Registry!IsFiniteSet
    <3>3. QED
      BY ONLY <3>1, <3>2, <2>3, <2>4 DEF Registry!Join, Held
  <2>6. QED
    BY <2>5 DEF Registry!Next
<1>4. ASSUME NEW p \in Proc, SkipSlot(p) PROVE [Registry!Next]_Registry!vars
  BY <1>4, <1>m DEF SkipSlot, StatusOf
<1>5. ASSUME NEW p \in Proc, Refuse(p) PROVE [Registry!Next]_Registry!vars
  <2>1. p \notin pinned
    BY <1>5 DEF Refuse, SlotInv, Fresh, Acquiring
  <2>2. QED
    BY <1>5, <1>m, <2>1 DEF Refuse, StatusOf
<1>6. ASSUME NEW p \in Proc, DrawIndex(p) PROVE [Registry!Next]_Registry!vars
  BY <1>6, <1>m DEF DrawIndex, StatusOf
<1>7. ASSUME NEW p \in Proc, Rollover(p) PROVE [Registry!Next]_Registry!vars
  BY <1>7, <1>m DEF Rollover, StatusOf
<1>8. ASSUME NEW p \in Proc, DrawAgain(p) PROVE [Registry!Next]_Registry!vars
  BY <1>8, <1>m DEF DrawAgain, StatusOf
<1>9. ASSUME NEW p \in Proc, WriteRecord(p)
      PROVE  [Registry!Next]_Registry!vars
  BY <1>9, <1>m DEF WriteRecord, StatusOf
<1>10. ASSUME NEW p \in Proc, Detach(p) PROVE [Registry!Next]_Registry!vars
  BY <1>10, <1>m DEF Detach, StatusOf
<1>11. ASSUME NEW p \in Proc, ReleaseSlot(p)
       PROVE  [Registry!Next]_Registry!vars
  <2>1. stage' = stage /\ pinned' = pinned /\ stage[p] = "release"
    BY <1>11 DEF ReleaseSlot
  <2>2. RegistryStatus' = RegistryStatus /\ RegistryStatus[p] = "leaving"
    BY <2>1, <1>s DEF StatusOf
  <2>3. Held' = Held \/ Held' = Held \ {p}
    <3>1. CASE hookedPIDs[scan[p]] = p
      <4>1. hookedPIDs' = [hookedPIDs EXCEPT ![scan[p]] = NoPid]
        BY <1>11, <3>1 DEF ReleaseSlot, GivesBack
      <4>2. QED
        BY <3>1, <4>1 DEF Held, HasSlot
    <3>2. CASE hookedPIDs[scan[p]] # p
      BY <1>11, <3>2, <1>h DEF ReleaseSlot, GivesBack
    <3>3. QED
      BY <3>1, <3>2
  <2>4. QED
    BY <2>2, <2>3 DEF Held, Registry!Next, Registry!Remove, Registry!vars
<1>12. ASSUME NEW p \in Proc, StampEject(p)
       PROVE  [Registry!Next]_Registry!vars
  BY <1>12, <1>m DEF StampEject, StatusOf
<1>13. ASSUME NEW p \in Proc, Terminate(p)
       PROVE  [Registry!Next]_Registry!vars
  <2>1. StatusOf(p) \in {"joining", "member", "guest", "leaving"}
        /\ StatusOf(p)' = "out"
    BY <1>13 DEF Terminate, StatusOf
  <2>2. QED
    BY <1>13, <1>m, <2>1 DEF Terminate
<1>14. QED
  BY <1>1, <1>2, <1>3, <1>4, <1>5, <1>6, <1>7, <1>8, <1>9, <1>10,
     <1>11, <1>12, <1>13
     DEF Next, Step, AcquireStep

(* The safety half of ImplementsRegistry: read as a registry, the table    *)
(* only ever gains the id of a process that is joining, never more ids     *)
(* than slots, and loses one only by the hand of the process leaving.      *)
THEOREM TableIsRegistry ==
  Spec => Registry!Init /\ [][Registry!Next]_Registry!vars
<1>1. Init => Registry!Init
  <2> SUFFICES ASSUME Init PROVE Registry!Init
    OBVIOUS
  <2>1. RegistryStatus = [p \in Proc |-> StatusOf(p)]
    BY SlotInvInit, StatusDefined DEF SlotInv, TypeInv
  <2>2. RegistryStatus = [p \in Proc |-> "out"]
    BY <2>1 DEF Init, StatusOf
  <2>3. Held = {}
    BY NoPidAssumption DEF Init, Held, HasSlot
  <2>4. QED
    BY <2>2, <2>3 DEF Held, Registry!Init
<1>2. SlotInv /\ SlotInv' /\ [Next]_vars => [Registry!Next]_Registry!vars
  BY RegistryStep
<1>3. QED
  BY <1>1, <1>2, SlotInvariant, PTL DEF Spec

-----------------------------------------------------------------------------
(* The second part: the records a process works on.                        *)

Entry == [id : Pid, injected : Nat, ejected : Pid, appId : Pid, title : Pid]

AuditTypes ==
  /\ appId \in [Record -> Pid] /\ title \in [Record -> Pid]
  /\ mirror \in [Proc -> [Record -> Entry]]
  /\ pointer \in [Proc -> [Worker -> Record]]
  /\ work \in [Proc -> [Worker -> {"idle", "taken", "done"}]]
  /\ alive \subseteq Proc /\ misled \subseteq Proc /\ mingled \subseteq Proc
  /\ home \in [Proc -> 0 .. NumRecords]

Settled(p) == stage[p] \in {"running", "release", "absent"}

(* A process that has not yet been given its record, or is gone, has       *)
(* neither worked on one nor been shown one.                               *)
Unused(p) ==
  /\ home[p] = NumRecords
  /\ p \notin misled
  /\ \A w \in Worker : work[p][w] = "idle"
  /\ \A r \in Record : mirror[p][r].id = NoPid

Lives ==
  \A p \in Proc :
    /\ p \notin alive => stage[p] = "absent"
    /\ p \notin alive \/ ~Settled(p) => Unused(p)

(* Records that were not given out are blank, and those that were stay     *)
(* with their process; it is misled only by another record of its id.      *)
Records ==
  ~wrapped =>
    /\ \A p \in Proc : stage[p] = "write" => ids[idx[p] - 1] = NoPid
    /\ \A r \in Record : r >= count => ids[r] = NoPid
    /\ \A r \in exited : r \in Record /\ ids[r] # NoPid
    /\ \A p \in Proc : home[p] \in Record => ids[home[p]] = p
    /\ \A p \in pinned : home[p] = localRecord[p]

Homes ==
  ~wrapped /\ ~refused =>
    /\ \A p \in alive : Settled(p) => home[p] \in Record
    /\ \A p \in Proc : stage[p] \in {"running", "release"} => p \in pinned
    /\ \A p \in misled : \E r \in Record : r # home[p] /\ ids[r] = p

(* The first record of its id is the only one a process has a copy of.     *)
OwnFirst(p, r) == Matching(p) # {} /\ r = First(Matching(p))

Taken(p, w) == work[p][w] = "taken"

MirrorOf(p) ==
  /\ \A r \in Record : mirror[p][r].id # NoPid =>
       mirror[p][r].id = p /\ OwnFirst(p, r)
  /\ \A w \in Worker : Taken(p, w) =>
       OwnFirst(p, pointer[p][w]) /\ mirror[p][pointer[p][w]].id = p

Mirrors == ~wrapped => \A p \in Proc : MirrorOf(p)

Done(p, w) == work[p][w] = "done"

AtWork(p) == \E w \in Worker : Taken(p, w)

NotedBy(p) ==
  /\ \E w \in Worker : ~Taken(p, w)
  /\ \A r \in Record : OwnFirst(p, r) =>
       /\ Done(p, "init") => appId[r] = p
       /\ Done(p, "window") => title[r] = p
       /\ AtWork(p) /\ work[p]["init"] # "idle" => mirror[p][r].appId = p
       /\ AtWork(p) /\ work[p]["window"] # "idle" => mirror[p][r].title = p

(* What one of a process' two threads has noted is in the record when it   *)
(* is done, and in the copy both have while one of them is at work.        *)
Noted == ~wrapped => \A p \in Proc \ mingled : NotedBy(p)

(* An exit bears the id of its record.                                     *)
Exits ==
  /\ \A r \in Record : ejected[r] \in {NoPid, ids[r]}
  /\ \A r \in exited \ exposed : ejected[r] = ids[r]

Carried(p, r) ==
  /\ mirror[p][r].ejected \in {NoPid, p}
  /\ r \in exposed \/ mirror[p][r].ejected = ejected[r]

(* A copy that may still be written back has the exit that the record has, *)
(* unless the exit is known to have come in between.                       *)
Stamped ==
  ~wrapped /\ ~refused =>
    /\ Exits
    /\ \A p \in Proc, w \in Worker : Taken(p, w) => Carried(p, pointer[p][w])

(* Where the reader stands, and what it has in its list by then.           *)
Listed ==
  /\ pos \in 0 .. NumSlots /\ tested \in BOOLEAN
  /\ list \in Seq(Pid) /\ Len(list) <= pos
  /\ tested => pos \in Slot
  /\ steady \subseteq Slot
  /\ \A i \in steady : hookedPIDs[i] # NoPid
  /\ Capacity > NumSlots =>
       \A i \in steady : i < pos => Contains(list, hookedPIDs[i])

-----------------------------------------------------------------------------
(* A thread's audit apart, a step is one of InjectionRecords.              *)
LEMMA AuditIsApart ==
  [AuditNext]_avars =>
    \/ [Next]_vars
    \/ \E p \in Proc, w \in Worker : Audit(p, w)
<1> SUFFICES ASSUME AuditNext
             PROVE  [Next]_vars \/ \E p \in Proc, w \in Worker : Audit(p, w)
  BY DEF avars
<1>1. CASE Read
  BY <1>1 DEF Read
<1>2. ASSUME NEW p \in Proc, Life(p), ~ \E w \in Worker : Audit(p, w)
      PROVE  [Next]_vars
  BY <1>2 DEF Life, Begin, Acquire, Release, Exit, Kill, End, FindNone,
              Crash, TakeRecord, Next, Step
<1>3. QED
  BY <1>1, <1>2 DEF AuditNext

(* The least of the records that are meant.                                *)
LEMMA FirstIs ==
  ASSUME NEW R, R \subseteq Record, R # {}
  PROVE  First(R) \in R /\ \A q \in R : First(R) <= q
<1>0. R \subseteq Nat
  BY SizeAssumption DEF Record
<1>1. \E x \in R : \A y \in R : <<y, x>> \notin OpToRel(<, Nat)
  BY <1>0, NatLessThanWellFounded, WFMin, Zenon
<1>2. \A x, y \in Nat : <<y, x>> \notin OpToRel(<, Nat) <=> ~(y < x)
  BY Zenon DEF OpToRel
<1>3. \E x \in R : \A y \in R : x <= y
  <2>1. PICK x \in R : \A y \in R : <<y, x>> \notin OpToRel(<, Nat)
    BY <1>1
  <2>2. \A y \in R : ~(y < x)
    BY <1>0, <1>2, <2>1
  <2>3. QED
    BY <1>0, <2>2
<1>4. QED
  BY <1>3 DEF First

-----------------------------------------------------------------------------
(* Types.                                                                  *)

(* What a thread writes to the mirror and to the records.                  *)
LEMMA EntryFacts ==
  ASSUME TypeOK, AuditTypes
  PROVE  /\ Blank \in Entry
         /\ \A r \in Record : Shared(r) \in Entry
         /\ \A p \in Proc, w \in Worker, d \in Entry : Note(p, w, d) \in Entry
         /\ \A d \in Entry, i \in Pid : [d EXCEPT !.id = i] \in Entry
         /\ \A d \in Entry : /\ d.id \in Pid /\ d.injected \in Nat
                             /\ d.ejected \in Pid
                             /\ d.appId \in Pid /\ d.title \in Pid
<1> USE DEF TypeOK, AuditTypes, Entry, Pid
<1>1. Blank \in Entry
  BY DEF Blank
<1>2. \A r \in Record : Shared(r) \in Entry
  BY DEF Shared
<1>3. \A p \in Proc, w \in Worker, d \in Entry : Note(p, w, d) \in Entry
  BY DEF Note
<1>4. QED
  BY <1>1, <1>2, <1>3

(* An audit keeps the types: it writes an entry to a record there is.      *)
LEMMA TypeInvOfAudit ==
  ASSUME TypeInv, AuditTypes, NEW p \in Proc, NEW w \in Worker, Audit(p, w)
  PROVE  TypeInv' /\ AuditTypes'
<1> USE DEF TypeInv
<1> DEFINE d == mirror[p][pointer[p][w]]
           R == {r \in Record : mirror[p][r].id = Named(p, w)}
           t == First(R)
<1>1. d \in Entry
  BY DEF AuditTypes
<1>2. /\ work' = [work EXCEPT ![p][w] = "done"]
      /\ \/ UNCHANGED <<injected, ejected, notes, mirror>>
         \/ /\ R # {}
            /\ injected' = [injected EXCEPT ![t] = d.injected]
            /\ ejected' = [ejected EXCEPT ![t] = d.ejected]
            /\ appId' = [appId EXCEPT ![t] = d.appId]
            /\ title' = [title EXCEPT ![t] = d.title]
            /\ mirror' = [mirror EXCEPT ![p][t] = [d EXCEPT !.id = ids[t]]]
      /\ UNCHANGED <<hookedPIDs, count, rollovers, ids, clock, local, history,
                     pointer, alive, past>>
  BY DEF Audit, WorkAt, NewTitle
<1>3. work' \in [Proc -> [Worker -> {"idle", "taken", "done"}]]
  BY <1>2 DEF AuditTypes
<1>4. /\ injected' \in [Record -> Nat] /\ ejected' \in [Record -> Pid]
      /\ appId' \in [Record -> Pid] /\ title' \in [Record -> Pid]
      /\ mirror' \in [Proc -> [Record -> Entry]]
  <2>1. CASE UNCHANGED <<injected, ejected, notes, mirror>>
    BY <2>1 DEF TypeOK, AuditTypes, notes
  <2>2. CASE R # {} /\ ~UNCHANGED <<injected, ejected, notes, mirror>>
    <3>1. t \in Record
      BY <2>2, FirstIs
    <3>2. ids[t] \in Pid /\ [d EXCEPT !.id = ids[t]] \in Entry
      BY <1>1, <3>1, EntryFacts DEF TypeOK
    <3>3. mirror' \in [Proc -> [Record -> Entry]]
      <4> HIDE DEF d, t
      <4>1. mirror' = [mirror EXCEPT ![p][t] = [d EXCEPT !.id = ids[t]]]
        BY <1>2, <2>2
      <4>2. QED
        BY <3>1, <3>2, <4>1 DEF AuditTypes
    <3>4. QED
      BY <1>1, <1>2, <2>2, <3>1, <3>3, EntryFacts DEF TypeOK, AuditTypes
  <2>3. QED
    BY <1>2, <2>1, <2>2
<1>5. TypeInv'
  BY <1>2, <1>4 DEF TypeOK, IndexDrawn, local, history
<1>6. QED
  BY <1>2, <1>3, <1>4, <1>5 DEF AuditTypes, past

(* The steps of the threads, of the reader and of InjectionRecords keep    *)
(* the types, those of its inductive invariant included.                   *)
LEMMA TypesStep ==
  TypeInv /\ AuditTypes /\ [AuditNext]_avars => TypeInv' /\ AuditTypes'
<1> SUFFICES ASSUME TypeInv, AuditTypes, [AuditNext]_avars
             PROVE  TypeInv' /\ AuditTypes'
  OBVIOUS
<1>0. TypeOK
  BY DEF TypeInv
<1>1. ASSUME NEW p \in Proc, NEW w \in Worker, Audit(p, w)
      PROVE  TypeInv' /\ AuditTypes'
  BY <1>1, TypeInvOfAudit
<1>2. ASSUME [Next]_vars PROVE TypeInv'
  BY <1>2, TypeInvStep
<1>3. ASSUME UNCHANGED <<notes, local2, past>> PROVE AuditTypes'
  BY <1>3 DEF AuditTypes, notes, local2, past
<1>4. ASSUME NEW p \in Proc, Begin(p) PROVE AuditTypes'
  BY <1>4 DEF Begin, AuditTypes, notes, past
<1>5. ASSUME NEW p \in Proc, Acquire(p) PROVE AuditTypes'
  BY <1>5, SizeAssumption DEF Acquire, AuditTypes, notes, local2, Record
<1>6. ASSUME NEW p \in Proc, Release(p) PROVE AuditTypes'
  BY <1>3, <1>6 DEF Release
<1>7. ASSUME NEW p \in Proc, Exit(p) PROVE AuditTypes'
  BY <1>7 DEF Exit, AuditTypes, notes, local2
<1>8. ASSUME NEW p \in Proc, Gone(p) PROVE AuditTypes'
  <2>1. 0 \in Record /\ NumRecords \in 0 .. NumRecords
    BY SizeAssumption DEF Record
  <2>2. Blank \in Entry
    BY <1>0, EntryFacts
  <2>3. QED
    BY <1>8, <2>1, <2>2 DEF Gone, AuditTypes, notes
<1>9. ASSUME NEW p \in Proc, FindNone(p) PROVE AuditTypes'
  BY <1>9 DEF FindNone, WorkAt, AuditTypes, notes, Worker
<1>10. ASSUME NEW p \in Proc, NEW w \in Worker, TakeRecord(p, w)
       PROVE  AuditTypes'
  <2> DEFINE r == First(Matching(p))
             e == Note(p, w, Loaded(p, r))
  <2>1. r \in Record
    BY <1>10, FirstIs DEF TakeRecord, Matching
  <2>2. e \in Entry
    BY <1>0, <2>1, EntryFacts DEF Loaded
  <2>3. /\ mirror' = [mirror EXCEPT ![p][r] = e]
        /\ pointer' = [pointer EXCEPT ![p][w] = r]
        /\ work' = [work EXCEPT ![p][w] = "taken"]
        /\ misled' \in {misled, misled \cup {p}}
        /\ mingled' \in {mingled, mingled \cup {p}}
        /\ UNCHANGED <<vars, notes, alive, home, exited, exposed>>
    BY <1>10 DEF TakeRecord, WorkAt
  <2> HIDE DEF r, e
  <2>4. QED
    BY <2>1, <2>2, <2>3 DEF AuditTypes, notes
<1>11. ASSUME Read PROVE AuditTypes'
  BY <1>3, <1>11 DEF Read
<1>12. CASE UNCHANGED avars
  BY <1>2, <1>3, <1>12 DEF avars
<1>13. CASE AuditNext
  <2>1. TypeInv'
    BY <1>1, <1>2, AuditIsApart
  <2>2. AuditTypes'
    BY <1>1, <1>4, <1>5, <1>6, <1>7, <1>8, <1>9, <1>10, <1>11, <1>13
       DEF AuditNext, Life, Kill, End, Crash
  <2>3. QED
    BY <2>1, <2>2
<1>14. QED
  BY <1>12, <1>13

-----------------------------------------------------------------------------
(* Who works on a record lives and was given one.                          *)

(* What the steps of a process being injected do to stages and records.    *)
LEMMA AcquireEffect ==
  ASSUME TypeOK, NEW p \in Proc, AcquireStep(p)
  PROVE  /\ stage[p] \in Acquiring
         /\ stage' = [stage EXCEPT ![p] = stage'[p]]
         /\ WriteRecord(p) \/ UNCHANGED <<ids, pinned>>
         /\ stage'[p] \in Acquiring \cup {"running"}
         /\ UNCHANGED ejected
<1> USE DEF TypeOK, Goto, Acquiring, shared, log, history
<1>1. CASE ClaimSlot(p) \/ SkipSlot(p)
  BY <1>1 DEF ClaimSlot, SkipSlot
<1>2. CASE Refuse(p) \/ DrawAgain(p)
  BY <1>2 DEF Refuse, DrawAgain
<1>3. CASE DrawIndex(p)
  BY <1>3 DEF DrawIndex
<1>4. CASE Rollover(p)
  BY <1>4 DEF Rollover
<1>5. CASE WriteRecord(p)
  BY <1>5 DEF WriteRecord
<1>6. QED
  BY <1>1, <1>2, <1>3, <1>4, <1>5 DEF AcquireStep

(* Nobody else's work is touched.                                          *)
Same(q) == /\ stage'[q] = stage[q] /\ (q \in alive' <=> q \in alive)
           /\ home'[q] = home[q] /\ (q \in misled' <=> q \in misled)
           /\ (q \in mingled' <=> q \in mingled)
           /\ mirror'[q] = mirror[q] /\ pointer'[q] = pointer[q]
           /\ work'[q] = work[q]

(* A step of one process leaves the threads, the copies and the home of    *)
(* every other one alone.                                                  *)
LEMMA OnlyOwnWork ==
  ASSUME TypeInv, AuditTypes, NEW p \in Proc, Life(p), NEW q \in Proc \ {p}
  PROVE  Same(q)
<1> USE DEF TypeInv, TypeOK, AuditTypes, Same, Goto, Vanish, vars, local,
            notes, past, local2
<1>1. CASE Begin(p)
  BY <1>1 DEF Begin, Attach
<1>2. CASE Acquire(p)
  <2>1. stage' = [stage EXCEPT ![p] = stage'[p]]
    BY <1>2, AcquireEffect DEF Acquire
  <2>2. QED
    BY <1>2, <2>1 DEF Acquire
<1>3. CASE Release(p)
  BY <1>3 DEF Release, Detach, ReleaseSlot
<1>4. CASE Exit(p)
  BY <1>4 DEF Exit, StampEject
<1>5. CASE Kill(p) \/ End(p)
  BY <1>5 DEF Kill, End, Gone, Terminate
<1>6. CASE FindNone(p)
  BY <1>6 DEF FindNone, WorkAt
<1>7. CASE \E w \in Worker : TakeRecord(p, w)
  BY <1>7 DEF TakeRecord, WorkAt
<1>8. CASE \E w \in Worker : Audit(p, w)
  BY <1>8 DEF Audit, WorkAt
<1>9. QED
  BY <1>1, <1>2, <1>3, <1>4, <1>5, <1>6, <1>7, <1>8 DEF Life, Crash

(* A process that is gone has nothing left.                                *)
LEMMA GoneIsUnused ==
  ASSUME AuditTypes, NEW p \in Proc, Gone(p)
  PROVE  p \notin alive' /\ Unused(p)' /\ p \notin mingled'
BY DEF AuditTypes, Gone, Unused, Blank

(* Only a process that lives and was injected has threads at work.         *)
LEMMA LivesStep ==
  TypeInv /\ AuditTypes /\ Lives /\ [AuditNext]_avars => Lives'
<1> SUFFICES ASSUME TypeInv, AuditTypes, Lives, [AuditNext]_avars
             PROVE  Lives'
  OBVIOUS
<1> DEFINE L(q) == /\ q \notin alive => stage[q] = "absent"
                   /\ q \notin alive \/ ~Settled(q) => Unused(q)
<1>0. TypeOK /\ stage \in [Proc -> Stage] /\ \A q \in Proc : L(q)
  BY DEF TypeInv, TypeOK, Lives
<1>1. ASSUME NEW q \in Proc, Same(q) PROVE L(q)'
  BY <1>0, <1>1 DEF Same, Settled, Unused
<1>2. ASSUME UNCHANGED <<vars, local2, past>>, NEW q \in Proc PROVE L(q)'
  BY <1>1, <1>2 DEF vars, local, local2, past, Same
<1>3. ASSUME NEW p \in Proc, Life(p) PROVE L(p)'
  <2> USE <1>0 DEF Settled, Goto, vars, local, notes, past, local2, Stage,
                   Acquiring
  <2>1. CASE Begin(p)
    BY <2>1 DEF Begin, Attach, Unused, AuditTypes
  <2>2. CASE Acquire(p)
    <3>1. AcquireStep(p) /\ ~Settled(p) /\ p \in alive
      BY <2>2, AcquireEffect DEF Acquire
    <3>2. stage'[p] \in Acquiring \cup {"running"} /\ p \in alive'
      BY <2>2, <3>1, AcquireEffect DEF Acquire
    <3>3. CASE WriteRecord(p)
      BY <3>2, <3>3 DEF WriteRecord, TypeOK
    <3>4. CASE UNCHANGED pinned
      BY <2>2, <3>1, <3>2, <3>4 DEF Acquire, Unused
    <3>5. QED
      BY <3>1, <3>3, <3>4, AcquireEffect
  <2>3. CASE Release(p)
    BY <2>3 DEF Release, Detach, ReleaseSlot, Unused
  <2>4. CASE Exit(p)
    BY <2>4 DEF Exit, StampEject, Vanish, Unused
  <2>5. CASE Kill(p) \/ End(p)
    BY <2>5, GoneIsUnused DEF Kill, End, Terminate, Vanish
  <2>6. CASE FindNone(p)
    BY <2>6 DEF FindNone, Ready
  <2>7. CASE \E w \in Worker : TakeRecord(p, w)
    BY <2>7 DEF TakeRecord, Ready
  <2>8. CASE \E w \in Worker : Audit(p, w)
    BY <2>8 DEF Audit, Unused
  <2>9. QED
    BY <1>3, <2>1, <2>2, <2>3, <2>4, <2>5, <2>6, <2>7, <2>8 DEF Life, Crash
<1>4. CASE Read \/ UNCHANGED avars
  BY <1>2, <1>4 DEF Read, avars, Lives
<1>5. CASE \E p \in Proc : Life(p)
  BY <1>1, <1>3, <1>5, OnlyOwnWork DEF Lives
<1>6. QED
  BY <1>4, <1>5 DEF AuditNext

-----------------------------------------------------------------------------
(* Whose record is whose.                                                  *)

(* A process writes to a blank record that nobody else has drawn.          *)
LEMMA WritesBlank ==
  ASSUME SlotInv, DrawnOnce, Records, ~wrapped, NEW p \in Proc, WriteRecord(p)
  PROVE  /\ p \notin pinned
         /\ idx[p] - 1 \in Record /\ ids[idx[p] - 1] = NoPid
         /\ ids' = [ids EXCEPT ![idx[p] - 1] = p]
         /\ idx[p] \in Nat /\ idx[p] <= count
         /\ \A q \in Proc \ {p} : stage[q] = "write" => idx[q] # idx[p]
<1>1. TypeOK /\ IndexDrawn /\ Fresh
  BY DEF SlotInv, TypeInv
<1>2. stage[p] = "write" /\ p \notin pinned
  BY <1>1 DEF WriteRecord, Fresh, Acquiring
<1>3. idx[p] \in Nat /\ idx[p] >= 1
  BY <1>1, <1>2 DEF TypeOK, IndexDrawn
<1>4. idx[p] < NumRecords /\ idx[p] <= count
  BY <1>2 DEF DrawnOnce, HasIndex, Index
<1>5. idx[p] - 1 \in Record
  BY <1>3, <1>4, SizeAssumption DEF Record
<1>6. ids[idx[p] - 1] = NoPid
  BY <1>2 DEF Records
<1>7. ids' = [ids EXCEPT ![idx[p] - 1] = p]
  BY <1>1, <1>5 DEF WriteRecord, TypeOK
<1>8. \A q \in Proc \ {p} : stage[q] = "write" => idx[q] # idx[p]
  <2> SUFFICES ASSUME NEW q \in Proc \ {p}, stage[q] = "write"
               PROVE  idx[q] # idx[p]
    OBVIOUS
  <2>1. q \notin pinned
    BY <1>1 DEF Fresh, Acquiring
  <2>2. QED
    BY <1>2, <2>1 DEF DrawnOnce, HasIndex, Index
<1>9. QED
  BY <1>2, <1>3, <1>4, <1>5, <1>6, <1>7, <1>8

(* Until the history rolls over the records are only ever added to.        *)
LEMMA RecordsGrow ==
  ASSUME SlotInv, DrawnOnce, Records, [AuditNext]_avars, ~wrapped'
  PROVE  /\ ~wrapped
         /\ \/ UNCHANGED ids
            \/ \E p \in Proc :
                 /\ Acquire(p) /\ WriteRecord(p)
                 /\ idx[p] - 1 \in Record /\ ids[idx[p] - 1] = NoPid
                 /\ ids' = [ids EXCEPT ![idx[p] - 1] = p]
<1>0. TypeOK /\ IndexDrawn
  BY DEF SlotInv, TypeInv
<1>1. CASE Read \/ UNCHANGED avars
  BY <1>1 DEF Read, avars, vars, shared, log, history
<1>2. ASSUME NEW p \in Proc, Acquire(p)
      PROVE  /\ ~wrapped
             /\ \/ UNCHANGED ids
                \/ /\ WriteRecord(p)
                   /\ idx[p] - 1 \in Record /\ ids[idx[p] - 1] = NoPid
                   /\ ids' = [ids EXCEPT ![idx[p] - 1] = p]
  <2>1. ~wrapped
    BY <1>2 DEF Acquire, AcquireStep, ClaimSlot, SkipSlot, Refuse, DrawIndex,
                Rollover, DrawAgain, WriteRecord, history
  <2>2. QED
    BY <1>0, <1>2, <2>1, WritesBlank, AcquireEffect DEF Acquire
<1>3. ASSUME NEW p \in Proc, Life(p), ~Acquire(p)
      PROVE  ~wrapped /\ UNCHANGED ids
  <2> USE DEF vars, shared, log, history
  <2>1. CASE Begin(p)
    BY <2>1 DEF Begin, Attach
  <2>2. CASE Release(p)
    BY <2>2 DEF Release, Detach, ReleaseSlot
  <2>3. CASE Exit(p)
    BY <2>3 DEF Exit, StampEject
  <2>4. CASE Kill(p) \/ End(p)
    BY <2>4 DEF Kill, Terminate, End
  <2>5. CASE FindNone(p) \/ \E w \in Worker : TakeRecord(p, w)
    BY <2>5 DEF FindNone, TakeRecord
  <2>6. CASE \E w \in Worker : Audit(p, w)
    BY <2>6 DEF Audit
  <2>7. QED
    BY <1>3, <2>1, <2>2, <2>3, <2>4, <2>5, <2>6 DEF Life, Crash
<1>4. QED
  BY <1>1, <1>2, <1>3 DEF AuditNext

(* So the records of a process stay the same once it has been injected.    *)
LEMMA MatchingStays ==
  ASSUME SlotInv, DrawnOnce, Records, [AuditNext]_avars, ~wrapped'
  PROVE  /\ \A r \in Record : ids[r] # NoPid => ids'[r] = ids[r]
         /\ \A q \in Proc : Settled(q) => Matching(q)' = Matching(q)
<1>0. TypeOK
  BY DEF SlotInv, TypeInv
<1>1. CASE UNCHANGED ids
  BY <1>1 DEF Matching
<1>2. ASSUME NEW p \in Proc, Acquire(p), WriteRecord(p),
             idx[p] - 1 \in Record, ids[idx[p] - 1] = NoPid,
             ids' = [ids EXCEPT ![idx[p] - 1] = p]
      PROVE  /\ \A r \in Record : ids[r] # NoPid => ids'[r] = ids[r]
             /\ \A q \in Proc : Settled(q) => Matching(q)' = Matching(q)
  <2>1. ~Settled(p)
    BY <1>2 DEF WriteRecord, Settled
  <2>2. \A r \in Record : ids'[r] = IF r = idx[p] - 1 THEN p ELSE ids[r]
    BY <1>0, <1>2 DEF TypeOK
  <2>3. \A r \in Record : ids[r] # NoPid => ids'[r] = ids[r]
    BY <1>2, <2>2
  <2>4. ASSUME NEW q \in Proc, q # p, NEW r \in Record
        PROVE  ids'[r] = q <=> ids[r] = q
    BY <1>2, <2>2, <2>4, NoPidAssumption
  <2>5. QED
    BY <2>1, <2>3, <2>4 DEF Matching
<1>3. QED
  BY <1>1, <1>2, RecordsGrow

(* A record is written only by the process that drew its index.            *)
LEMMA RecordsStep ==
  ASSUME SlotInv, DrawnOnce, AuditTypes, Lives, Records, [AuditNext]_avars
  PROVE  Records'
<1> SUFFICES ASSUME ~wrapped' PROVE Records'
  BY DEF Records
<1>0. /\ TypeInv /\ TypeOK /\ IndexDrawn /\ Fresh /\ ~wrapped
      /\ \A r \in Record : ids[r] # NoPid => ids'[r] = ids[r]
  BY RecordsGrow, MatchingStays DEF SlotInv, TypeInv
<1> USE NoPidAssumption, SizeAssumption
<1>t. /\ ids \in [Record -> Pid] /\ count \in Nat /\ idx \in [Proc -> Nat]
      /\ stage \in [Proc -> Stage] /\ home \in [Proc -> 0 .. NumRecords]
      /\ pinned \subseteq Proc /\ localRecord \in [Proc -> Nat]
      /\ Record = 0 .. NumRecords - 1
  BY <1>0 DEF TypeOK, AuditTypes, Record
<1>p. pinned' \subseteq Proc
  BY <1>0, TypesStep DEF TypeInv, TypeOK
<1> DEFINE Quiet ==
             /\ UNCHANGED <<count, ids>>
             /\ \A q \in Proc :
                  /\ stage'[q] = "write" =>
                       stage[q] = "write" /\ idx'[q] = idx[q]
                  /\ home'[q] \in {home[q], NumRecords}
                  /\ q \in pinned' => /\ q \in pinned /\ home'[q] = home[q]
                                      /\ localRecord'[q] = localRecord[q]
             /\ \A r \in exited' \ exited :
                  r \in Record /\ \E q \in Proc : r = home[q]
<1>1. ASSUME Quiet PROVE Records'
  <2>1. \A q \in Proc : home'[q] \in Record =>
                          home[q] \in Record /\ home'[q] = home[q]
    BY <1>1, <1>t
  <2>2. \A r \in exited' : r \in Record /\ ids[r] # NoPid
    BY <1>0, <1>1 DEF Records
  <2>3. \A q \in Proc : stage'[q] = "write" => ids'[idx'[q] - 1] = NoPid
    BY <1>0, <1>1 DEF Records
  <2>4. \A r \in Record : r >= count' => ids'[r] = NoPid
    BY <1>0, <1>1 DEF Records
  <2>5. \A q \in Proc : home'[q] \in Record => ids'[home'[q]] = q
    BY <1>0, <1>1, <2>1 DEF Records
  <2>6. \A q \in pinned' : home'[q] = localRecord'[q]
    BY <1>0, <1>1, <1>p DEF Records
  <2>7. QED
    BY <1>1, <2>2, <2>3, <2>4, <2>5, <2>6 DEF Records
<1>2. CASE Read \/ UNCHANGED avars
  BY <1>1, <1>2
     DEF Read, avars, vars, shared, log, local, past
<1>3. ASSUME NEW p \in Proc, Begin(p) PROVE Records'
  BY <1>1, <1>3, <1>t DEF Begin, Attach, Goto, shared, log, past
<1>4. ASSUME NEW p \in Proc, Release(p) PROVE Records'
  BY <1>1, <1>4, <1>t DEF Release, Detach, ReleaseSlot, Goto, shared, log, past
<1>5. ASSUME NEW p \in Proc, Exit(p) PROVE Records'
  BY <1>1, <1>5, <1>t DEF Exit, StampEject, Vanish, Goto, log, past
<1>6. ASSUME NEW p \in Proc, Kill(p) \/ End(p) PROVE Records'
  <2>1. stage[p] = "absent" => p \notin pinned
    BY <1>0 DEF Fresh
  <2>2. CASE Kill(p)
    BY <1>1, <2>2, <1>t DEF Kill, Gone, Terminate, Vanish, Goto, shared, log
  <2>3. CASE End(p)
    BY <1>1, <2>1, <2>3, <1>t DEF End, Gone, vars, shared, log, local
  <2>4. QED
    BY <1>6, <2>2, <2>3
<1>7. ASSUME NEW p \in Proc,
             FindNone(p) \/ \E w \in Worker : TakeRecord(p, w) \/ Audit(p, w)
      PROVE  Records'
  <2>1. UNCHANGED <<count, ids, local, home, exited>>
    BY <1>7 DEF FindNone, TakeRecord, Audit, vars, shared, log, past
  <2>2. QED
    BY <1>1, <2>1 DEF local
<1>8. ASSUME NEW p \in Proc, Acquire(p) PROVE Records'
  <2>1. ~Rollover(p) /\ ~DrawAgain(p)
    BY <1>0 DEF Rollover, DrawAgain, DrawnOnce
  <2>2. CASE ClaimSlot(p) \/ SkipSlot(p) \/ Refuse(p)
    <3>1. /\ UNCHANGED <<count, ids, idx, localRecord, pinned, exited, home>>
          /\ stage'[p] # "write"
          /\ \A q \in Proc \ {p} : stage'[q] = stage[q]
      BY <1>8, <2>2, <1>t DEF Acquire, ClaimSlot, SkipSlot, Refuse, Goto,
                              shared, log
    <3>2. QED
      BY <1>1, <3>1
  <2>3. CASE DrawIndex(p)
    BY <1>0, <1>8, <2>3, <1>t
       DEF Records, Acquire, DrawIndex, Increment, HistoryFull, Goto, log
  <2>4. CASE WriteRecord(p)
    <3> DEFINE r == idx[p] - 1
    <3>1. /\ p \notin pinned /\ r \in Record /\ ids[r] = NoPid
          /\ ids' = [ids EXCEPT ![r] = p]
          /\ idx[p] \in Nat /\ idx[p] <= count
          /\ \A q \in Proc \ {p} : stage[q] = "write" => idx[q] # idx[p]
      BY <1>0, <2>4, WritesBlank
    <3>2. /\ localRecord' = [localRecord EXCEPT ![p] = r]
          /\ stage' = [stage EXCEPT ![p] = "running"]
          /\ pinned' = pinned \cup {p}
          /\ UNCHANGED <<count, idx, exited>>
      BY <1>8, <2>4 DEF Acquire, WriteRecord, Goto
    <3>3. home' = [home EXCEPT ![p] = r]
      BY <1>8, <1>t, <3>1, <3>2 DEF Acquire
    <3>4. \A i \in Record : ids'[i] = IF i = r THEN p ELSE ids[i]
      BY <1>t, <3>1
    <3>5. \A q \in Proc : stage'[q] = "write" => ids'[idx'[q] - 1] = NoPid
      BY <1>0, <1>t, <3>1, <3>2 DEF Records
    <3>6. \A i \in Record : i >= count' => ids'[i] = NoPid
      BY <1>0, <1>t, <3>1, <3>2, <3>4 DEF Records
    <3>7. \A i \in exited' : i \in Record /\ ids'[i] # NoPid
      BY <1>0, <3>2, <3>4 DEF Records
    <3>8. \A q \in Proc : home'[q] \in Record => ids'[home'[q]] = q
      BY <1>0, <1>t, <3>3, <3>4, <3>1 DEF Records
    <3>9. \A q \in pinned' : home'[q] = localRecord'[q]
      BY <1>0, <1>t, <3>2, <3>3 DEF Records
    <3>10. QED
      BY <3>5, <3>6, <3>7, <3>8, <3>9 DEF Records
  <2>5. QED
    BY <1>8, <2>1, <2>2, <2>3, <2>4 DEF Acquire, AcquireStep
<1>9. QED
  BY <1>2, <1>3, <1>4, <1>5, <1>6, <1>7, <1>8 DEF AuditNext, Life, Crash

(* Nobody is turned away unless it is noted.                               *)
LEMMA RefusedStays ==
  ASSUME [AuditNext]_avars, ~refused'
  PROVE  ~refused /\ \A p \in Proc : Acquire(p) => ~Refuse(p)
<1>1. \A p \in Proc : Acquire(p) => ~refused /\ ~Refuse(p)
  BY DEF Acquire, AcquireStep, ClaimSlot, SkipSlot, Refuse, DrawIndex,
         Rollover, DrawAgain, WriteRecord, history
<1>2. CASE Read \/ UNCHANGED avars
  BY <1>1, <1>2 DEF Read, avars, vars, history
<1>3. ASSUME NEW p \in Proc, Life(p) PROVE ~refused
  <2> USE DEF vars, history
  <2>1. CASE Begin(p)
    BY <2>1 DEF Begin, Attach
  <2>2. CASE Release(p)
    BY <2>2 DEF Release, Detach, ReleaseSlot
  <2>3. CASE Exit(p)
    BY <2>3 DEF Exit, StampEject
  <2>4. CASE Kill(p) \/ End(p)
    BY <2>4 DEF Kill, Terminate, End
  <2>5. CASE FindNone(p) \/ \E w \in Worker : TakeRecord(p, w)
    BY <2>5 DEF FindNone, TakeRecord
  <2>6. CASE \E w \in Worker : Audit(p, w)
    BY <2>6 DEF Audit
  <2>7. QED
    BY <1>1, <1>3, <2>1, <2>2, <2>3, <2>4, <2>5, <2>6 DEF Life, Crash
<1>4. QED
  BY <1>1, <1>2, <1>3 DEF AuditNext

(* A process that was not turned away has a record of its own, which is    *)
(* there when it asks for it.                                              *)
LEMMA HomesStep ==
  ASSUME SlotInv, DrawnOnce, AuditTypes, Lives, Records, Homes,
         [AuditNext]_avars
  PROVE  Homes'
<1> SUFFICES ASSUME ~wrapped', ~refused' PROVE Homes'
  BY DEF Homes
<1> DEFINE H(q) == /\ q \in alive /\ Settled(q) => home[q] \in Record
                   /\ stage[q] \in {"running", "release"} => q \in pinned
                   /\ q \in misled =>
                        \E r \in Record : r # home[q] /\ ids[r] = q
<1>0. /\ TypeInv /\ TypeOK /\ Fresh /\ ~wrapped /\ ~refused
      /\ \A r \in Record : ids[r] # NoPid => ids'[r] = ids[r]
  BY RecordsGrow, MatchingStays, RefusedStays DEF SlotInv, TypeInv
<1> USE NoPidAssumption, SizeAssumption
<1>t. /\ ids \in [Record -> Pid] /\ stage \in [Proc -> Stage]
      /\ home \in [Proc -> 0 .. NumRecords]
      /\ pinned \subseteq Proc /\ misled \subseteq Proc /\ alive \subseteq Proc
  BY <1>0 DEF TypeOK, AuditTypes
<1>a. (alive \subseteq Proc)' /\ (misled \subseteq Proc)'
  BY <1>0, TypesStep DEF AuditTypes
<1>b. (\A q \in Proc : H(q)') => Homes'
  BY <1>a DEF Homes
<1>c. \A q \in Proc : H(q)
  BY <1>0 DEF Homes
<1>1. ASSUME NEW q \in Proc,
             q \in alive' /\ Settled(q)' => q \in alive /\ Settled(q),
             stage'[q] \in {"running", "release"} =>
               stage[q] \in {"running", "release"} /\ q \in pinned',
             q \in alive' \/ q \in misled' => home'[q] = home[q],
             q \in misled' => q \in misled
      PROVE  H(q)'
  BY <1>0, <1>1, <1>c
<1>2. ASSUME NEW q \in Proc, Same(q), q \in pinned' <=> q \in pinned
      PROVE  H(q)'
  BY <1>1, <1>2, <1>c DEF Same, Settled
<1>3. CASE Read \/ UNCHANGED avars
  BY <1>b, <1>2, <1>3
     DEF Read, avars, vars, local, local2, past, Same
<1>4. ASSUME NEW p \in Proc, Life(p), NEW q \in Proc \ {p}
      PROVE  q \in pinned' <=> q \in pinned
  <2> USE DEF vars, local
  <2>1. CASE Begin(p)
    BY <2>1 DEF Begin, Attach
  <2>2. CASE Acquire(p)
    BY <1>0, <2>2, AcquireEffect DEF Acquire, WriteRecord
  <2>3. CASE Release(p)
    BY <2>3 DEF Release, Detach, ReleaseSlot
  <2>4. CASE Exit(p)
    BY <2>4 DEF Exit, StampEject, Vanish
  <2>5. CASE Kill(p) \/ End(p)
    BY <2>5 DEF Kill, Terminate, Vanish, End
  <2>6. CASE FindNone(p) \/ \E w \in Worker : TakeRecord(p, w) \/ Audit(p, w)
    BY <2>6 DEF FindNone, TakeRecord, Audit
  <2>7. QED
    BY <1>4, <2>1, <2>2, <2>3, <2>4, <2>5, <2>6 DEF Life, Crash
<1>5. ASSUME NEW p \in Proc, Life(p) PROVE H(p)'
  <2> USE DEF Settled, Goto, vars, local, past
  <2>1. CASE Begin(p)
    BY <1>1, <1>t, <2>1 DEF Begin, Attach, Lives, Unused
  <2>2. CASE Acquire(p)
    <3>1. p \notin misled /\ p \notin misled' /\ ~Settled(p)
      BY <1>0, <2>2, AcquireEffect DEF Acquire, Lives, Unused, Acquiring
    <3>2. CASE WriteRecord(p)
      <4>1. p \notin pinned /\ idx[p] - 1 \in Record
        BY <1>0, <3>2, WritesBlank
      <4>2. localRecord'[p] = idx[p] - 1 /\ pinned' = pinned \cup {p}
        BY <1>0, <3>2 DEF WriteRecord, TypeOK
      <4>3. home'[p] = idx[p] - 1
        BY <1>t, <2>2, <4>1, <4>2 DEF Acquire
      <4>4. QED
        BY <3>1, <4>1, <4>2, <4>3
    <3>3. CASE ~WriteRecord(p)
      <4>1. ~Settled(p)'
        BY <1>0, <1>t, <2>2, <3>3, RefusedStays
           DEF Acquire, AcquireStep, ClaimSlot, SkipSlot, DrawIndex,
               Rollover, DrawAgain, Acquiring
      <4>2. QED
        BY <3>1, <4>1
    <3>4. QED
      BY <3>2, <3>3
  <2>3. CASE Release(p)
    BY <1>1, <1>t, <1>c, <2>3 DEF Release, Detach, ReleaseSlot, local2
  <2>4. CASE Exit(p)
    BY <1>1, <1>t, <2>4 DEF Exit, StampEject, Vanish, local2
  <2>5. CASE Kill(p) \/ End(p)
    BY <1>1, <1>t, <2>5 DEF Kill, End, Terminate, Vanish, Gone
  <2>6. CASE FindNone(p)
    <3>1. home[p] \in Record /\ ids[home[p]] = p
      BY <1>0, <1>c, <2>6 DEF FindNone, Ready, Records
    <3>2. QED
      BY <2>6, <3>1 DEF FindNone, Matching
  <2>7. ASSUME NEW w \in Worker, TakeRecord(p, w) PROVE H(p)'
    <3>1. First(Matching(p)) \in Record /\ ids[First(Matching(p))] = p
      BY <2>7, FirstIs DEF TakeRecord, Matching
    <3>2. /\ UNCHANGED <<vars, alive, home>>
          /\ misled' = IF First(Matching(p)) = home[p] THEN misled
                       ELSE misled \cup {p}
      BY <2>7 DEF TakeRecord
    <3>3. ids' = ids
      BY <3>2 DEF shared, log
    <3>4. QED
      BY <1>c, <1>t, <3>1, <3>2, <3>3
  <2>8. ASSUME NEW w \in Worker, Audit(p, w) PROVE H(p)'
    BY <1>1, <1>c, <2>8 DEF Audit
  <2>9. QED
    BY <1>5, <2>1, <2>2, <2>3, <2>4, <2>5, <2>6, <2>7, <2>8 DEF Life, Crash
<1>6. CASE \E p \in Proc : Life(p)
  BY <1>0, <1>b, <1>2, <1>4, <1>5, <1>6, OnlyOwnWork
<1>7. QED
  BY <1>3, <1>6 DEF AuditNext

-----------------------------------------------------------------------------
(* What a thread takes and what it writes back.                            *)

(* It takes the first record of its id, as it is, and notes its own.       *)
LEMMA TakesFirst ==
  ASSUME TypeOK, AuditTypes, NEW p \in Proc, NEW w \in Worker,
         TakeRecord(p, w)
  PROVE  \E r \in Record, e \in Entry :
           /\ OwnFirst(p, r) /\ ids[r] = p
           /\ e.id = p /\ e.ejected = ejected[r]
           /\ e.appId = IF w = "init" THEN p ELSE appId[r]
           /\ e.title = IF w = "init" THEN title[r] ELSE p
           /\ mirror' = [mirror EXCEPT ![p][r] = e]
           /\ pointer' = [pointer EXCEPT ![p][w] = r]
           /\ work' = [work EXCEPT ![p][w] = "taken"]
<1> DEFINE r == First(Matching(p))
           e == Note(p, w, Shared(r))
<1>1. r \in Record /\ ids[r] = p /\ OwnFirst(p, r)
  BY FirstIs DEF TakeRecord, Matching, OwnFirst
<1>2. e \in Entry
  BY <1>1, EntryFacts
<1>3. /\ e.id = p /\ e.ejected = ejected[r]
      /\ e.appId = IF w = "init" THEN p ELSE appId[r]
      /\ e.title = IF w = "init" THEN title[r] ELSE p
  BY <1>1 DEF Note, Shared
<1>4. /\ mirror' = [mirror EXCEPT ![p][r] = e]
      /\ pointer' = [pointer EXCEPT ![p][w] = r]
      /\ work' = [work EXCEPT ![p][w] = "taken"]
  BY DEF TakeRecord, WorkAt, Loaded
<1> HIDE DEF r, e
<1>5. QED
  BY <1>1, <1>2, <1>3, <1>4

(* It finds this record again by the id in its copy, for it has a copy of  *)
(* no other, and writes back what it took.                                 *)
LEMMA WritesBack ==
  ASSUME TypeOK, AuditTypes, Mirrors, ~wrapped,
         NEW p \in Proc, NEW w \in Worker, Audit(p, w)
  PROVE  \E r \in Record, d \in Entry :
           /\ r = pointer[p][w] /\ d = mirror[p][r]
           /\ OwnFirst(p, r) /\ ids[r] = p /\ d.id = p
           /\ ejected' = [ejected EXCEPT ![r] = d.ejected]
           /\ appId' = [appId EXCEPT ![r] = d.appId]
           /\ title' = [title EXCEPT ![r] = d.title]
           /\ mirror' = mirror
           /\ work' = [work EXCEPT ![p][w] = "done"]
<1> DEFINE r == pointer[p][w]
           d == mirror[p][r]
           R == {i \in Record : mirror[p][i].id = Named(p, w)}
<1>1. r \in Record /\ d \in Entry
  BY DEF AuditTypes
<1>2. Taken(p, w) /\ OwnFirst(p, r) /\ d.id = p
  BY DEF Audit, Taken, Mirrors, MirrorOf
<1>3. Named(p, w) = p
  BY <1>2 DEF Named
<1>4. ids[r] = p
  <2>1. First(Matching(p)) \in Matching(p)
    BY <1>2, FirstIs DEF OwnFirst, Matching
  <2>2. QED
    BY <1>2, <2>1 DEF OwnFirst, Matching
<1>5. R = {r}
  <2>1. r \in R
    BY <1>1, <1>2, <1>3
  <2>2. ASSUME NEW i \in R PROVE i = r
    <3>1. mirror[p][i].id = p /\ p # NoPid
      BY <1>3, NoPidAssumption
    <3>2. OwnFirst(p, i)
      BY <3>1 DEF Mirrors, MirrorOf
    <3>3. QED
      BY <1>2, <3>2 DEF OwnFirst
  <2>3. QED
    BY <2>1, <2>2
<1>6. First(R) = r
  BY <1>1, <1>5, FirstIs
<1>7. /\ ejected' = [ejected EXCEPT ![r] = d.ejected]
      /\ appId' = [appId EXCEPT ![r] = d.appId]
      /\ title' = [title EXCEPT ![r] = d.title]
      /\ mirror' = [mirror EXCEPT ![p][r] = [d EXCEPT !.id = ids[r]]]
      /\ work' = [work EXCEPT ![p][w] = "done"]
  BY <1>5, <1>6 DEF Audit, WorkAt, NewTitle
<1>8. mirror' = mirror
  <2>1. [d EXCEPT !.id = ids[r]] = d
    BY <1>1, <1>2, <1>4 DEF Entry
  <2> HIDE DEF r
  <2>2. QED
    BY <1>1, <1>7, <2>1 DEF AuditTypes
<1>9. r = pointer[p][w] /\ d = mirror[p][r]
  OBVIOUS
<1> HIDE DEF r, d
<1>10. QED
  BY <1>1, <1>2, <1>4, <1>7, <1>8, <1>9

(* A copy stays one of the first record of its id, since this record stays *)
(* the first.                                                              *)
LEMMA MirrorsStep ==
  ASSUME SlotInv, DrawnOnce, AuditTypes, Lives, Records, Mirrors,
         [AuditNext]_avars
  PROVE  Mirrors'
<1> SUFFICES ASSUME ~wrapped' PROVE Mirrors'
  BY DEF Mirrors
<1>a. ~wrapped /\ \A q \in Proc : Settled(q) => Matching(q)' = Matching(q)
  BY RecordsGrow, MatchingStays
<1>0. /\ TypeInv /\ TypeOK
      /\ \A q \in Proc : MirrorOf(q)
  BY <1>a DEF SlotInv, TypeInv, Mirrors
<1>1. ASSUME NEW q \in Proc, mirror'[q] = mirror[q], pointer'[q] = pointer[q],
             \A w \in Worker : Taken(q, w)' => Taken(q, w)
      PROVE  MirrorOf(q)'
  <2>1. CASE Settled(q)
    <3>1. \A r : OwnFirst(q, r)' <=> OwnFirst(q, r)
      BY <1>a, <2>1 DEF OwnFirst
    <3>2. QED
      BY <1>0, <1>1, <3>1 DEF MirrorOf
  <2>2. CASE ~Settled(q)
    BY <1>1, <2>2 DEF Lives, Unused, Taken, MirrorOf
  <2>3. QED
    BY <2>1, <2>2
<1>2. ASSUME NEW q \in Proc, Same(q) PROVE MirrorOf(q)'
  BY <1>1, <1>2 DEF Same, Taken
<1>3. CASE Read \/ UNCHANGED avars
  BY <1>1, <1>3 DEF Read, avars, local2, Taken, Mirrors
<1>4. ASSUME NEW p \in Proc, Life(p) PROVE MirrorOf(p)'
  <2>1. CASE Begin(p) \/ Acquire(p) \/ Release(p) \/ Exit(p)
    BY <1>1, <2>1 DEF Begin, Acquire, Release, Exit, local2, Taken
  <2>2. CASE Kill(p) \/ End(p)
    BY <2>2, GoneIsUnused DEF Kill, End, Unused, Taken, MirrorOf
  <2>3. CASE FindNone(p)
    BY <1>1, <2>3 DEF FindNone, WorkAt, AuditTypes, Taken
  <2>4. ASSUME NEW w \in Worker, TakeRecord(p, w) PROVE MirrorOf(p)'
    <3>1. PICK r \in Record, e \in Entry :
            /\ OwnFirst(p, r) /\ e.id = p
            /\ mirror' = [mirror EXCEPT ![p][r] = e]
            /\ pointer' = [pointer EXCEPT ![p][w] = r]
            /\ work' = [work EXCEPT ![p][w] = "taken"]
      BY <1>0, <2>4, TakesFirst
    <3>2. \A i : OwnFirst(p, i)' <=> OwnFirst(p, i)
      BY <1>a, <2>4 DEF TakeRecord, Ready, Settled, OwnFirst
    <3>3. /\ mirror'[p] = [mirror[p] EXCEPT ![r] = e]
          /\ pointer'[p] = [pointer[p] EXCEPT ![w] = r]
          /\ work'[p] = [work[p] EXCEPT ![w] = "taken"]
      BY <3>1 DEF AuditTypes
    <3>4. ASSUME NEW i \in Record, mirror'[p][i].id # NoPid
          PROVE  mirror'[p][i].id = p /\ OwnFirst(p, i)'
      BY <1>0, <3>1, <3>2, <3>3, <3>4 DEF AuditTypes, MirrorOf
    <3>5. ASSUME NEW v \in Worker, Taken(p, v)'
          PROVE  (/\ OwnFirst(p, pointer[p][v])
                  /\ mirror[p][pointer[p][v]].id = p)'
      <4> DEFINE i == pointer'[p][v]
      <4>1. \/ i = r
            \/ i = pointer[p][v] /\ Taken(p, v)
        BY <3>1, <3>3, <3>5 DEF AuditTypes, Taken
      <4>2. OwnFirst(p, i) /\ i \in Record
        BY <1>0, <3>1, <4>1 DEF AuditTypes, MirrorOf
      <4>3. mirror'[p][i].id = p
        BY <1>0, <3>1, <3>3, <4>1, <4>2 DEF AuditTypes, MirrorOf
      <4>4. QED
        BY <3>2, <4>2, <4>3
    <3>6. QED
      BY <3>4, <3>5 DEF MirrorOf
  <2>5. ASSUME NEW w \in Worker, Audit(p, w) PROVE MirrorOf(p)'
    <3>1. mirror' = mirror /\ work' = [work EXCEPT ![p][w] = "done"]
      BY <1>0, <1>a, <2>5, WritesBack
    <3>2. pointer' = pointer
      BY <2>5 DEF Audit
    <3>3. QED
      BY <1>1, <3>1, <3>2 DEF AuditTypes, Taken
  <2>6. QED
    BY <1>4, <2>1, <2>2, <2>3, <2>4, <2>5 DEF Life, Crash
<1>5. CASE \E p \in Proc : Life(p)
  <2>1. PICK p \in Proc : Life(p)
    BY <1>5
  <2>2. ASSUME NEW q \in Proc PROVE MirrorOf(q)'
    BY <1>0, <1>2, <1>4, <2>1, OnlyOwnWork
  <2>3. QED
    BY <2>2 DEF Mirrors
<1>6. QED
  BY <1>3, <1>5 DEF AuditNext

(* The first record of its id bears its id.                                *)
LEMMA OwnFirstIs ==
  ASSUME NEW p, NEW r, OwnFirst(p, r)
  PROVE  r \in Record /\ ids[r] = p
<1>1. First(Matching(p)) \in Matching(p)
  BY FirstIs DEF OwnFirst, Matching
<1>2. QED
  BY <1>1 DEF OwnFirst, Matching

(* The shared notes are written by audits only, each in its own record.    *)
LEMMA NotesStay ==
  ASSUME TypeOK, AuditTypes, Mirrors, ~wrapped, NEW p \in Proc, Life(p),
         NEW q \in Proc \ {p}, NEW r, OwnFirst(q, r)
  PROVE  appId'[r] = appId[r] /\ title'[r] = title[r]
<1>1. r \in Record /\ ids[r] = q
  BY OwnFirstIs
<1>2. ASSUME NEW w \in Worker, Audit(p, w)
      PROVE  appId'[r] = appId[r] /\ title'[r] = title[r]
  <2>1. PICK i \in Record, d \in Entry :
          /\ ids[i] = p
          /\ appId' = [appId EXCEPT ![i] = d.appId]
          /\ title' = [title EXCEPT ![i] = d.title]
    BY <1>2, WritesBack
  <2>2. QED
    BY <1>1, <2>1 DEF AuditTypes
<1>3. CASE ~ \E w \in Worker : Audit(p, w)
  BY <1>3 DEF Life, Begin, Acquire, Release, Exit, Kill, End, Gone, FindNone,
              Crash, TakeRecord, notes
<1>4. QED
  BY <1>2, <1>3

(* A copy that is taken while no other is out has all notes made so far.   *)
LEMMA NotedStep ==
  ASSUME SlotInv, DrawnOnce, AuditTypes, Lives, Records, Mirrors, Noted,
         [AuditNext]_avars
  PROVE  Noted'
<1> SUFFICES ASSUME ~wrapped' PROVE Noted'
  BY DEF Noted
<1>a. ~wrapped /\ \A q \in Proc : Settled(q) => Matching(q)' = Matching(q)
  BY RecordsGrow, MatchingStays
<1>0. /\ TypeInv /\ TypeOK
      /\ \A q \in Proc \ mingled : NotedBy(q)
  BY <1>a DEF SlotInv, TypeInv, Noted
<1>1. ASSUME NEW q \in Proc, q \notin mingled,
             mirror'[q] = mirror[q], work'[q] = work[q],
             \A r : OwnFirst(q, r) =>
                      appId'[r] = appId[r] /\ title'[r] = title[r]
      PROVE  NotedBy(q)'
  <2>1. CASE Settled(q)
    <3>1. \A r : OwnFirst(q, r)' <=> OwnFirst(q, r)
      BY <1>a, <2>1 DEF OwnFirst
    <3>2. AtWork(q)' <=> AtWork(q)
      BY <1>1 DEF AtWork, Taken
    <3>3. QED
      BY <1>0, <1>1, <3>1, <3>2 DEF NotedBy, Done, Taken
  <2>2. CASE ~Settled(q)
    BY <1>1, <2>2 DEF Lives, Unused, NotedBy, AtWork, Done, Taken, Worker
  <2>3. QED
    BY <2>1, <2>2
<1>2. CASE Read \/ UNCHANGED avars
  BY <1>1, <1>2 DEF Read, avars, local2, notes, past, Noted
<1>3. ASSUME NEW p \in Proc, Life(p), p \notin mingled' PROVE NotedBy(p)'
  <2>1. CASE Begin(p) \/ Acquire(p) \/ Release(p) \/ Exit(p)
    BY <1>1, <1>3, <2>1
       DEF Begin, Acquire, Release, Exit, local2, notes, past
  <2>2. CASE Kill(p) \/ End(p)
    BY <2>2, GoneIsUnused
       DEF Kill, End, Unused, NotedBy, AtWork, Done, Taken, Worker
  <2>3. CASE FindNone(p)
    <3>1. \A r : ~OwnFirst(p, r)'
      BY <1>a, <2>3 DEF FindNone, Ready, Settled, OwnFirst
    <3>2. work'[p]["init"] = "done" /\ "init" \in Worker
      BY <2>3 DEF FindNone, WorkAt, AuditTypes, Worker
    <3>3. QED
      BY <3>1, <3>2 DEF NotedBy, Taken
  <2>4. ASSUME NEW w \in Worker, TakeRecord(p, w) PROVE NotedBy(p)'
    <3>1. PICK r \in Record, e \in Entry :
            /\ OwnFirst(p, r)
            /\ e.appId = IF w = "init" THEN p ELSE appId[r]
            /\ e.title = IF w = "init" THEN title[r] ELSE p
            /\ mirror' = [mirror EXCEPT ![p][r] = e]
            /\ work' = [work EXCEPT ![p][w] = "taken"]
      BY <1>0, <2>4, TakesFirst
    <3>2. \A i : OwnFirst(p, i)' => i = r
      BY <1>a, <2>4, <3>1 DEF TakeRecord, Ready, Settled, OwnFirst
    <3>3. /\ p \notin mingled /\ \A v \in Worker : ~Taken(p, v)
          /\ UNCHANGED <<appId, title>>
      BY <1>3, <2>4 DEF TakeRecord, Taken, notes
    <3>4. NotedBy(p)
      BY <1>0, <3>3
    <3>5. mirror'[p][r] = e
      BY <3>1 DEF AuditTypes
    <3>6. /\ work'[p][w] = "taken"
          /\ \A v \in Worker \ {w} :
               work'[p][v] = work[p][v] /\ work[p][v] \in {"idle", "done"}
      BY <3>1, <3>3 DEF AuditTypes, Taken
    <3>7. CASE w = "init"
      BY <3>1, <3>2, <3>3, <3>4, <3>5, <3>6, <3>7
         DEF NotedBy, Done, Taken, Worker
    <3>8. CASE w = "window"
      BY <3>1, <3>2, <3>3, <3>4, <3>5, <3>6, <3>8
         DEF NotedBy, Done, Taken, Worker
    <3>9. QED
      BY <3>7, <3>8 DEF Worker
  <2>5. ASSUME NEW w \in Worker, Audit(p, w) PROVE NotedBy(p)'
    <3>1. PICK r \in Record, d \in Entry :
            /\ OwnFirst(p, r) /\ d = mirror[p][r]
            /\ appId' = [appId EXCEPT ![r] = d.appId]
            /\ title' = [title EXCEPT ![r] = d.title]
            /\ mirror' = mirror
            /\ work' = [work EXCEPT ![p][w] = "done"]
      BY <1>0, <1>a, <2>5, WritesBack
    <3>2. \A i : OwnFirst(p, i)' => i = r
      BY <2>5, <3>1 DEF Audit, Matching, OwnFirst
    <3>3. Taken(p, w) /\ NotedBy(p)
      BY <1>0, <1>3, <2>5 DEF Audit, Taken, past
    <3>4. appId'[r] = d.appId /\ title'[r] = d.title
      BY <3>1 DEF AuditTypes
    <3>5. /\ work'[p][w] = "done"
          /\ \A v \in Worker \ {w} :
               work'[p][v] = work[p][v] /\ ~Taken(p, v)
      BY <3>1, <3>3 DEF AuditTypes, NotedBy, Taken, Worker
    <3>6. ~AtWork(p)' /\ "init" \in Worker /\ "window" \in Worker
      BY <3>5 DEF AtWork, Taken, Worker
    <3>7. /\ Done(p, "init")' => d.appId = p
          /\ Done(p, "window")' => d.title = p
      BY <3>1, <3>3, <3>5, <3>6 DEF NotedBy, AtWork, Done, Taken
    <3>8. QED
      BY <3>2, <3>4, <3>6, <3>7 DEF NotedBy, AtWork
  <2>6. QED
    BY <1>3, <2>1, <2>2, <2>3, <2>4, <2>5 DEF Life, Crash
<1>4. CASE \E p \in Proc : Life(p)
  <2>1. PICK p \in Proc : Life(p)
    BY <1>4
  <2>2. ASSUME NEW q \in Proc, q # p, q \notin mingled' PROVE NotedBy(q)'
    <3>1. Same(q)
      BY <1>0, <2>1, <2>2, OnlyOwnWork
    <3>2. q \notin mingled /\ mirror'[q] = mirror[q] /\ work'[q] = work[q]
      BY <2>2, <3>1 DEF Same
    <3>3. \A r : OwnFirst(q, r) => appId'[r] = appId[r] /\ title'[r] = title[r]
      BY <1>0, <1>a, <2>1, <2>2, NotesStay
    <3>4. QED
      BY <1>1, <3>2, <3>3
  <2>3. QED
    BY <1>3, <2>1, <2>2 DEF Noted
<1>5. QED
  BY <1>2, <1>4 DEF AuditNext

(* Only an orderly exit stamps a record, its own; a copy that was taken    *)
(* before is known to be.                                                  *)
LEMMA StampedStep ==
  ASSUME SlotInv, DrawnOnce, AuditTypes, Lives, Records, Homes, Mirrors,
         Stamped, [AuditNext]_avars
  PROVE  Stamped'
<1> SUFFICES ASSUME ~wrapped', ~refused' PROVE Stamped'
  BY DEF Stamped
<1>a. /\ ~wrapped /\ ~refused
      /\ \A r \in Record : ids[r] # NoPid => ids'[r] = ids[r]
  BY RecordsGrow, MatchingStays, RefusedStays
<1>b. Mirrors' /\ AuditTypes'
  BY MirrorsStep, TypesStep DEF SlotInv
<1>0. /\ TypeInv /\ TypeOK /\ Fresh /\ Exits
      /\ \A q \in Proc, v \in Worker : Taken(q, v) => Carried(q, pointer[q][v])
      /\ \A q \in Proc, v \in Worker : Taken(q, v) =>
           OwnFirst(q, pointer[q][v])
  BY <1>a DEF SlotInv, TypeInv, Stamped, Mirrors, MirrorOf
<1> USE NoPidAssumption
<1> DEFINE C(q) == \A v \in Worker : Taken(q, v) => Carried(q, pointer[q][v])
<1>1. ASSUME UNCHANGED ejected, exited' = exited, exposed' = exposed
      PROVE  Exits'
  BY <1>0, <1>1, <1>a DEF Exits, Records
<1>2. ASSUME NEW q \in Proc,
             mirror'[q] = mirror[q], pointer'[q] = pointer[q],
             work'[q] = work[q], exposed \subseteq exposed',
             \A v \in Worker : Taken(q, v) =>
               ejected'[pointer[q][v]] = ejected[pointer[q][v]]
      PROVE  C(q)'
  BY <1>0, <1>2 DEF Carried, Taken
<1>3. CASE Read \/ UNCHANGED avars
  BY <1>1, <1>2, <1>3
     DEF Read, avars, vars, shared, log, local2, past, Stamped
<1>4. ASSUME NEW p \in Proc, Begin(p) \/ Acquire(p) \/ Release(p)
      PROVE  Stamped'
  <2>1. UNCHANGED <<ejected, mirror, pointer, work, exited, exposed>>
    <3>1. CASE Begin(p)
      BY <3>1 DEF Begin, Attach, shared, log, past
    <3>2. CASE Acquire(p)
      BY <1>0, <3>2, AcquireEffect DEF Acquire, local2
    <3>3. CASE Release(p)
      BY <3>3 DEF Release, Detach, ReleaseSlot, shared, log, local2, past
    <3>4. QED
      BY <1>4, <3>1, <3>2, <3>3
  <2>2. QED
    BY <1>1, <1>2, <2>1 DEF Stamped
<1>5. ASSUME NEW p \in Proc, Exit(p) PROVE Stamped'
  <2> DEFINE h == home[p]
  <2>1. /\ stage[p] = "release" /\ UNCHANGED <<ids, local2>>
        /\ ejected' = [r \in Record |-> IF r = localRecord[p] THEN p
                                        ELSE ejected[r]]
        /\ exited' = exited \cup ({h} \cap Record)
        /\ exposed' = IF \E w \in Worker : Taken(p, w)
                      THEN exposed \cup {h} ELSE exposed
    BY <1>5 DEF Exit, StampEject, EjectRecord, Taken
  <2>2. h \in Record /\ localRecord[p] = h /\ ids[h] = p
    BY <1>a, <2>1 DEF Lives, Homes, Records, Settled
  <2>3. Exits'
    <3>1. \A r \in Record : ejected'[r] \in {NoPid, ids'[r]}
      BY <1>0, <2>1, <2>2 DEF Exits
    <3>2. \A r \in exited' \ exposed' : ejected'[r] = ids'[r]
      BY <1>0, <1>a, <2>1, <2>2 DEF Exits, Records
    <3>3. QED
      BY <3>1, <3>2 DEF Exits
  <2>4. ASSUME NEW q \in Proc, NEW v \in Worker, Taken(q, v)
        PROVE  Carried(q, pointer[q][v])'
    <3> DEFINE r == pointer[q][v]
    <3>1. r \in Record /\ ids[r] = q /\ Carried(q, r)
      BY <1>0, <2>4, OwnFirstIs
    <3>2. CASE r = h
      BY <2>1, <2>2, <2>4, <3>1, <3>2 DEF Carried, local2
    <3>3. CASE r # h
      BY <2>1, <2>2, <3>1, <3>3 DEF Carried, local2
    <3>4. QED
      BY <3>2, <3>3
  <2>5. QED
    BY <2>1, <2>3, <2>4 DEF Stamped, Taken, local2
<1>6. ASSUME NEW p \in Proc, Kill(p) \/ End(p) PROVE Stamped'
  <2>1. UNCHANGED <<ejected, exited, exposed>>
    BY <1>6 DEF Kill, Terminate, End, Gone, vars, shared, log
  <2>2. C(p)'
    BY <1>6, GoneIsUnused DEF Kill, End, Unused, Taken
  <2>3. ASSUME NEW q \in Proc \ {p} PROVE Same(q)
    BY <1>0, <1>6, OnlyOwnWork DEF Life
  <2>4. QED
    BY <1>1, <1>2, <2>1, <2>2, <2>3 DEF Same, Stamped
<1>7. ASSUME NEW p \in Proc, FindNone(p) PROVE Stamped'
  <2>1. UNCHANGED <<ejected, mirror, pointer, exited, exposed>>
    BY <1>7 DEF FindNone, vars, shared, log
  <2>2. \A q \in Proc, v \in Worker : Taken(q, v)' => Taken(q, v)
    BY <1>7 DEF FindNone, WorkAt, Taken, AuditTypes
  <2>3. QED
    BY <1>0, <1>1, <2>1, <2>2 DEF Carried, Stamped
<1>8. ASSUME NEW p \in Proc, NEW w \in Worker, TakeRecord(p, w)
      PROVE  Stamped'
  <2>1. PICK r \in Record, e \in Entry :
          /\ OwnFirst(p, r) /\ ids[r] = p /\ e.ejected = ejected[r]
          /\ mirror' = [mirror EXCEPT ![p][r] = e]
          /\ pointer' = [pointer EXCEPT ![p][w] = r]
          /\ work' = [work EXCEPT ![p][w] = "taken"]
    BY <1>0, <1>8, TakesFirst
  <2>2. UNCHANGED <<ejected, exited, exposed>>
    BY <1>8 DEF TakeRecord, vars, shared, log
  <2>3. ASSUME NEW v \in Worker, Taken(p, v)'
        PROVE  Carried(p, pointer[p][v])'
    <3>1. pointer'[p][v] = r
      BY <1>0, <2>1, <2>3 DEF AuditTypes, Taken, OwnFirst
    <3>2. mirror'[p][r].ejected = ejected[r] /\ ejected[r] \in {NoPid, p}
      BY <1>0, <2>1 DEF AuditTypes, Exits
    <3>3. QED
      BY <2>2, <3>1, <3>2 DEF Carried
  <2>4. ASSUME NEW q \in Proc \ {p} PROVE Same(q)
    BY <1>0, <1>8, OnlyOwnWork DEF Life
  <2>5. QED
    BY <1>1, <1>2, <2>2, <2>3, <2>4 DEF Same, Stamped
<1>9. ASSUME NEW p \in Proc, NEW w \in Worker, Audit(p, w) PROVE Stamped'
  <2>1. PICK r \in Record, d \in Entry :
          /\ r = pointer[p][w] /\ d = mirror[p][r]
          /\ OwnFirst(p, r) /\ ids[r] = p
          /\ ejected' = [ejected EXCEPT ![r] = d.ejected]
          /\ mirror' = mirror
          /\ work' = [work EXCEPT ![p][w] = "done"]
    BY <1>0, <1>a, <1>9, WritesBack
  <2>2. UNCHANGED <<ids, pointer, exited, exposed>>
    BY <1>9 DEF Audit, past
  <2>3. Carried(p, r)
    BY <1>0, <1>9, <2>1 DEF Audit, Taken
  <2>4. /\ ejected'[r] = d.ejected
        /\ \A i \in Record \ {r} : ejected'[i] = ejected[i]
    BY <1>0, <2>1 DEF TypeOK
  <2>5. Exits'
    <3>1. \A i \in Record : ejected'[i] \in {NoPid, ids'[i]}
      BY <1>0, <2>1, <2>2, <2>3, <2>4 DEF Exits, Carried
    <3>2. \A i \in exited' \ exposed' : ejected'[i] = ids'[i]
      BY <1>0, <1>a, <2>1, <2>2, <2>3, <2>4 DEF Exits, Carried, Records
    <3>3. QED
      BY <3>1, <3>2 DEF Exits
  <2>6. ASSUME NEW q \in Proc, NEW v \in Worker, Taken(q, v)'
        PROVE  Carried(q, pointer[q][v])'
    <3> DEFINE i == pointer[q][v]
    <3>1. Taken(q, v)
      BY <2>1, <2>6 DEF AuditTypes, Taken
    <3>2. OwnFirst(q, i) /\ i \in Record /\ ids[i] = q /\ Carried(q, i)
      BY <1>0, <3>1, OwnFirstIs
    <3>3. CASE i = r
      BY <2>1, <2>2, <2>4, <3>2, <3>3 DEF Carried
    <3>4. CASE i # r
      BY <2>1, <2>2, <2>4, <3>2, <3>4 DEF Carried
    <3>5. QED
      BY <3>3, <3>4
  <2>7. QED
    BY <2>5, <2>6 DEF Stamped
<1>10. QED
  BY <1>3, <1>4, <1>5, <1>6, <1>7, <1>8, <1>9 DEF AuditNext, Life, Crash

-----------------------------------------------------------------------------
(* The invariant of processes and threads.                                 *)

(* The inductive invariant: that of the table and its indices, and the     *)
(* parts above.                                                            *)
AuditInv == /\ SlotInv /\ DrawnOnce /\ AuditTypes /\ Lives /\ Records
            /\ Homes /\ Mirrors /\ Noted /\ Stamped

(* It holds when nobody was injected.                                      *)
LEMMA AuditInvInit == AuditInit => AuditInv
<1> SUFFICES ASSUME AuditInit PROVE AuditInv
  OBVIOUS
<1> USE SizeAssumption, NoPidAssumption DEF AuditInit
<1>1. SlotInv /\ DrawnOnce
  BY RecordInvInit DEF RecordInv
<1>2. AuditTypes
  <2>1. 0 \in Record /\ NumRecords \in 0 .. NumRecords
    BY DEF Record
  <2>2. Blank \in Entry
    BY DEF Blank, Entry, Pid
  <2>3. QED
    BY <2>1, <2>2 DEF AuditTypes, Pid
<1>3. \A p \in Proc : Unused(p) /\ stage[p] = "absent"
  BY DEF Unused, Init, Blank
<1>4. /\ \A p \in Proc, w \in Worker : work[p][w] = "idle"
      /\ \A p \in Proc, r \in Record : mirror[p][r].id = NoPid
      /\ \A p \in Proc : home[p] \notin Record
  BY DEF Blank, Record
<1>5. Records /\ Homes
  BY <1>3, <1>4 DEF Records, Homes, Init
<1>6. Mirrors /\ Noted
  BY <1>4 DEF Mirrors, MirrorOf, Noted, NotedBy, AtWork, Taken, Done, Worker
<1>7. Stamped
  BY <1>4 DEF Stamped, Exits, Taken, Init
<1>8. QED
  BY <1>1, <1>2, <1>3, <1>5, <1>6, <1>7 DEF AuditInv, Lives

(* Every step of a process and of the reader keeps it.                     *)
LEMMA AuditInvStep == AuditInv /\ [AuditNext]_avars => AuditInv'
<1> SUFFICES ASSUME AuditInv, [AuditNext]_avars PROVE AuditInv'
  OBVIOUS
<1>0. /\ SlotInv /\ DrawnOnce /\ AuditTypes /\ Lives /\ Records
      /\ Homes /\ Mirrors /\ Noted /\ Stamped
  BY DEF AuditInv
<1>1. TypeInv /\ TypeInv' /\ AuditTypes'
  BY <1>0, TypesStep DEF SlotInv
<1>2. SlotInv' /\ DrawnOnce'
  <2>1. CASE [Next]_vars
    BY <1>0, <2>1, SlotInvStep, DrawnOnceStep
  <2>2. CASE \E p \in Proc, w \in Worker : Audit(p, w)
    <3>1. UNCHANGED <<hookedPIDs, count, ids, local, history>>
      BY <2>2 DEF Audit
    <3>2. SlotInv'
      BY <1>0, <1>1, <3>1
         DEF SlotInv, Fresh, SlotOwned, Enlisted, OnlyTerminationLeaks,
             HasSlot, ReleasedSoFar, ScannedTaken, local, history
    <3>3. DrawnOnce'
      BY <1>0, <3>1 DEF DrawnOnce, HasIndex, Index, local, history
    <3>4. QED
      BY <3>2, <3>3
  <2>3. QED
    BY <2>1, <2>2, AuditIsApart
<1>3. Lives'
  BY <1>0, <1>1, LivesStep
<1>4. Records' /\ Homes' /\ Mirrors'
  BY <1>0, RecordsStep, HomesStep, MirrorsStep
<1>5. Noted' /\ Stamped'
  BY <1>0, NotedStep, StampedStep
<1>6. QED
  BY <1>1, <1>2, <1>3, <1>4, <1>5 DEF AuditInv

(* So it always holds.                                                     *)
LEMMA AuditInvariant == AuditSpec => []AuditInv
BY AuditInvInit, AuditInvStep, PTL DEF AuditSpec

(* injection.cpp, GetRecord: before the history rolls over a process that  *)
(* was not turned away is shown the record it was given, unless another    *)
(* record bears its id.                                                    *)
THEOREM ShownItsRecord == AuditSpec => []RecordFound
<1>1. AuditInv => RecordFound
  <2> SUFFICES ASSUME AuditInv, ~wrapped, ~refused, NEW p \in misled
               PROVE  Cardinality(Matching(p)) > 1
    BY DEF RecordFound
  <2>1. p \in Proc /\ p \in alive /\ Settled(p)
    BY DEF AuditInv, AuditTypes, Lives, Unused
  <2>2. home[p] \in Record /\ ids[home[p]] = p
    BY <2>1 DEF AuditInv, Homes, Records
  <2>3. PICK r \in Record : r # home[p] /\ ids[r] = p
    BY DEF AuditInv, Homes
  <2>4. {r, home[p]} \subseteq Matching(p)
    BY <2>2, <2>3 DEF Matching
  <2>5. IsFiniteSet(Matching(p))
    <3>1. IsFiniteSet(Record)
      BY SizeAssumption, FS_Interval DEF Record
    <3>2. QED
      BY <3>1, FS_Subset DEF Matching
  <2>6. Cardinality({r, home[p]}) = 2
    <3>1. IsFiniteSet({r}) /\ Cardinality({r}) = 1
      BY FS_Singleton
    <3>2. Cardinality({r} \cup {home[p]}) = 2
      BY <2>3, <3>1, FS_AddElement
    <3>3. {r} \cup {home[p]} = {r, home[p]}
      OBVIOUS
    <3>4. QED
      BY <3>2, <3>3
  <2>7. Cardinality({r, home[p]}) <= Cardinality(Matching(p))
    BY <2>4, <2>5, FS_Subset
  <2>8. Cardinality(Matching(p)) \in Nat
    BY <2>5, FS_CardinalityType
  <2>9. QED
    BY <2>6, <2>7, <2>8
<1>2. QED
  BY <1>1, AuditInvariant, PTL

(* core.cpp and window.cpp: what one of the two threads has noted is there *)
(* when both are done, unless they had a copy of the record at once.       *)
THEOREM NotesAreKept == AuditSpec => []BothNoted
<1>1. AuditInv => BothNoted
  <2> SUFFICES ASSUME AuditInv, ~wrapped, NEW p \in alive \ mingled,
                      \A w \in Worker : work[p][w] = "done", Matching(p) # {}
               PROVE  LET r == First(Matching(p))
                      IN  appId[r] = p /\ title[r] = p
    BY DEF BothNoted
  <2>1. p \in Proc /\ NotedBy(p)
    BY DEF AuditInv, AuditTypes, Noted
  <2>2. OwnFirst(p, First(Matching(p)))
    BY DEF OwnFirst
  <2>3. First(Matching(p)) \in Record
    BY <2>2, OwnFirstIs
  <2>4. QED
    BY <2>1, <2>2, <2>3 DEF NotedBy, Done, Worker
<1>2. QED
  BY <1>1, AuditInvariant, PTL

(* injection.cpp, ReleaseProcess against AuditRecord: an exit stays on its *)
(* record and on no other, unless a copy of it was out at the time.        *)
THEOREM ExitIsKept == AuditSpec => []ExitKept
<1>1. AuditInv => ExitKept
  BY DEF AuditInv, Stamped, Exits, ExitKept
<1>2. QED
  BY <1>1, AuditInvariant, PTL

-----------------------------------------------------------------------------
(* The reader of the table.                                                *)

(* The reader has everybody in its list whose slot it has passed, if he    *)
(* was there when it began and is there still.                             *)
LEMMA ListedStep ==
  TypeInv /\ TypeInv' /\ Listed /\ [AuditNext]_avars => Listed'
<1> SUFFICES ASSUME TypeInv, TypeInv', Listed, [AuditNext]_avars
             PROVE  Listed'
  OBVIOUS
<1> USE SizeAssumption, CapacityAssumption DEF Slot
<1>0. hookedPIDs \in [Slot -> Pid]
  BY DEF TypeInv, TypeOK
<1>1. CASE UNCHANGED avars
  BY <1>1 DEF Listed, avars, vars, shared, reader
<1>2. CASE Read /\ TestSlot
  <2>1. UNCHANGED <<hookedPIDs, list>>
    BY <1>2 DEF Read, TestSlot, vars, shared
  <2>2. /\ pos \in Slot /\ steady' \subseteq Slot
        /\ \A i \in steady' : hookedPIDs[i] # NoPid
        /\ pos = 0 \/ steady' = steady
    BY <1>2 DEF TestSlot, Listed
  <2>a. \A i \in steady' : i < pos => i \in steady
    BY <2>2
  <2>b. Capacity > NumSlots =>
          \A i \in steady' : i < pos => Contains(list, hookedPIDs[i])
    BY <2>a DEF Listed
  <2>3. CASE hookedPIDs[pos] # NoPid
    BY <1>2, <2>1, <2>2, <2>b, <2>3 DEF TestSlot, Listed
  <2>4. CASE hookedPIDs[pos] = NoPid
    <3>1. pos' = pos + 1 /\ tested' = FALSE
      BY <1>2, <2>4 DEF TestSlot, Listed
    <3>2. \A i \in steady' : i < pos' => i < pos
      BY <2>2, <2>4, <3>1
    <3>3. list \in Seq(Pid) /\ Len(list) \in Nat /\ Len(list) <= pos
      BY DEF Listed
    <3>4. pos' \in 0 .. NumSlots /\ Len(list) <= pos'
      BY <2>2, <3>1, <3>3
    <3>5. QED
      BY <2>1, <2>2, <2>b, <3>1, <3>2, <3>3, <3>4 DEF Listed
  <2>5. QED
    BY <2>3, <2>4
<1>3. CASE Read /\ ReadSlot
  <2>1. /\ UNCHANGED <<hookedPIDs, steady>>
        /\ pos \in Slot /\ pos' = pos + 1 /\ tested' = FALSE
    BY <1>3 DEF Read, ReadSlot, Listed, vars, shared
  <2>2. hookedPIDs[pos] \in Pid /\ list \in Seq(Pid) /\ Len(list) <= pos
    BY <1>0, <2>1 DEF Listed
  <2>3. CASE Room(Len(list))
    <3>1. list' = Append(list, hookedPIDs[pos])
      BY <1>3, <2>3 DEF ReadSlot
    <3>2. list' \in Seq(Pid) /\ Len(list') = Len(list) + 1
      BY <2>2, <3>1
    <3>3. Contains(list', hookedPIDs[pos])
      BY <2>2, <3>1, <3>2 DEF Contains
    <3>4. \A e : Contains(list, e) => Contains(list', e)
      BY <2>2, <3>1, <3>2 DEF Contains
    <3>5. \A i \in steady : i < pos' => i < pos \/ i = pos
      BY <2>1 DEF Listed
    <3>6. pos' \in 0 .. NumSlots /\ Len(list') <= pos'
      BY <2>1, <2>2, <3>2
    <3>7. Capacity > NumSlots =>
            \A i \in steady : i < pos' => Contains(list', hookedPIDs[i])
      BY <3>3, <3>4, <3>5 DEF Listed
    <3>8. QED
      BY <2>1, <3>2, <3>6, <3>7 DEF Listed
  <2>4. CASE ~Room(Len(list))
    <3>1. ~(Capacity > NumSlots) /\ list' = list
      BY <1>3, <2>1, <2>2, <2>4 DEF ReadSlot, Room
    <3>2. pos' \in 0 .. NumSlots /\ Len(list') <= pos'
      BY <2>1, <2>2, <3>1
    <3>3. QED
      BY <2>1, <2>2, <3>1, <3>2 DEF Listed
  <2>5. QED
    BY <2>3, <2>4
<1>4. CASE /\ steady' = {i \in steady : hookedPIDs'[i] = hookedPIDs[i]}
           /\ UNCHANGED reader
  BY <1>4 DEF Listed, reader
<1>5. QED
  BY <1>1, <1>2, <1>3, <1>4 DEF AuditNext, Read

(* injection.cpp, GetInjectedPIDs: who is in the table all the while is in *)
(* the list, if the caller's buffer has room for the table.                *)
THEOREM NobodyIsMissed == AuditSpec => []ListComplete
<1>1. AuditInit => TypeInv /\ AuditTypes /\ Listed
  <2>1. AuditInit => AuditInv
    BY AuditInvInit
  <2>2. AuditInit => Listed
    <3> SUFFICES ASSUME AuditInit PROVE Listed
      OBVIOUS
    <3>1. list \in Seq(Pid) /\ Len(list) = 0
      BY DEF AuditInit
    <3>2. pos = 0 /\ 0 \in 0 .. NumSlots /\ tested = FALSE /\ steady = {}
      BY SizeAssumption DEF AuditInit
    <3>3. pos \in 0 .. NumSlots /\ Len(list) <= pos
      BY <3>1, <3>2
    <3>4. \A i \in steady : FALSE
      BY <3>2
    <3>5. QED
      BY <3>1, <3>2, <3>3, <3>4 DEF Listed
  <2>3. QED
    BY <2>1, <2>2 DEF AuditInv, SlotInv
<1>2. TypeInv /\ AuditTypes /\ Listed /\ [AuditNext]_avars
        => (TypeInv /\ AuditTypes /\ Listed)'
  BY TypesStep, ListedStep
<1>3. Listed => ListComplete
  <2> SUFFICES ASSUME Listed, pos = NumSlots, Capacity > NumSlots,
                      NEW i \in steady
               PROVE  Contains(list, hookedPIDs[i])
    BY DEF ListComplete
  <2>1. i < pos
    BY SizeAssumption DEF Listed, Slot
  <2>2. QED
    BY <2>1 DEF Listed
<1>4. QED
  BY <1>1, <1>2, <1>3, PTL DEF AuditSpec
=============================================================================
