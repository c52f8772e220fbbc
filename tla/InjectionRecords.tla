-------------------------- MODULE InjectionRecords --------------------------
(***************************************************************************)
(* Global injection bookkeeping (src/injection/injection.cpp).             *)
(*                                                                         *)
(* Every process the CBT hook drags SpecialK into shares the data segment  *)
(* .SK_Hooks: a table of process ids (g_sHookedPIDs) whose slots are taken *)
(* and given back with a compare-and-swap, and a ring of injection records *)
(* whose next index is an interlocked counter.  No lock guards either, and *)
(* a process may be terminated between any two instructions, after which   *)
(* the operating system may hand its id to a new process.                  *)
(*                                                                         *)
(* An action is one access to the shared segment.                          *)
(***************************************************************************)
EXTENDS Naturals, FiniteSets

CONSTANTS Proc,       \* the process ids the operating system hands out
          NoPid,      \* the empty slot, 0 in the code
          NumSlots,   \* MAX_INJECTED_PROCS
          NumRecords, \* MAX_INJECTED_PROC_HISTORY
          MaxStarts   \* bound on the number of processes ever injected

ASSUME NoPidAssumption == NoPid \notin Proc
ASSUME SizeAssumption  == /\ NumSlots \in Nat \ {0}
                          /\ NumRecords \in Nat \ {0, 1}
                          /\ MaxStarts \in Nat

Slot   == 0 .. NumSlots - 1
Record == 0 .. NumRecords - 1
Pid    == Proc \cup {NoPid}

(* AcquireProcess runs from claim to write, ReleaseProcess is release.      *)
Acquiring == {"claim", "count", "rollover", "recount", "write"}
Stage     == Acquiring \cup {"absent", "running", "release"}

VARIABLES
  hookedPIDs,  \* g_sHookedPIDs
  count,       \* SK_InjectionRecord_s::count
  rollovers,   \* SK_InjectionRecord_s::rollovers
  ids,         \* __SK_InjectionHistory_ids
  injected,    \* __SK_InjectionHistory_inject
  clock,       \* the time _time64 returns; it passes from write to write
  ejected,     \* __SK_InjectionHistory_eject: whose exit is stamped
  stage,       \* where each process stands
  scan,        \* the slot a process's loop over g_sHookedPIDs looks at
  idx,         \* injection_idx
  localRecord, \* local_record
  pinned,      \* the processes whose hModHookInstance holds a reference
  starts,      \* how many processes were injected (bounded by MaxStarts)
  \* History variables: read by the properties only.
  leaked,      \* ids a process was terminated with while they sat in a slot
  freed,       \* processes that saw another free a slot during their scan
  wrapped,     \* some process found the history full
  raced,       \* an index was drawn while another process was rolling over
  refused      \* some process found no free slot

log     == <<ids, injected, clock, ejected>>
shared  == <<hookedPIDs, count, rollovers, log>>
local   == <<stage, scan, idx, localRecord, pinned>>
history == <<starts, leaked, freed, wrapped, raced, refused>>
vars    == <<shared, local, history>>

Init ==
  /\ hookedPIDs  = [i \in Slot |-> NoPid]
  /\ count       = 0
  /\ rollovers   = 0
  /\ ids         = [r \in Record |-> NoPid]
  /\ injected    = [r \in Record |-> 0]
  /\ clock       = 0
  /\ ejected     = [r \in Record |-> NoPid]
  /\ stage       = [p \in Proc |-> "absent"]
  /\ scan        = [p \in Proc |-> 0]
  /\ idx         = [p \in Proc |-> 0]
  /\ localRecord = [p \in Proc |-> 0]
  /\ pinned      = {}
  /\ starts      = 0
  /\ leaked      = {}
  /\ freed       = {}
  /\ wrapped     = FALSE
  /\ raced       = FALSE
  /\ refused     = FALSE

HasSlot(p) == \E i \in Slot : hookedPIDs[i] = p

Goto(p, s) == stage' = [stage EXCEPT ![p] = s]

(* The process ends, and its own copy of the DLL's data with it.           *)
Vanish(p) ==
  /\ Goto(p, "absent")
  /\ scan'        = [scan EXCEPT ![p] = 0]
  /\ idx'         = [idx EXCEPT ![p] = 0]
  /\ localRecord' = [localRecord EXCEPT ![p] = 0]
  /\ pinned'      = pinned \ {p}
  /\ freed'       = freed \ {p}

-----------------------------------------------------------------------------
(* The decisions the two loops take.  The operators named ...Slip are      *)
(* plausible mistakes the properties below are there to catch; no action   *)
(* uses them.                                                              *)

EverySecondSlip(i)  == i + 2
NextSlot(i)         == i + 1

LastSlotSlip(p, i)  == hookedPIDs[i] = p /\ i # NumSlots - 1
AnyIdSlip(p, i)     == TRUE     \* the id is not compared
GivesBack(p, i)     == hookedPIDs[i] = p

UnboundedSlip(n)    == FALSE    \* the end of the history is not noticed
HistoryFull(n)      == n >= NumRecords

FromZeroSlip        == 0
FirstIndex          == 1

UncountedSlip       == count    \* the counter is read, not incremented
Increment           == count + 1

EjectRecord(p)      == localRecord[p]

-----------------------------------------------------------------------------
(* SK_Inject_AcquireProcess, called at the end of DLL_PROCESS_ATTACH.      *)

(* A process with id p starts and is injected.                             *)
Attach(p) ==
  /\ stage[p] = "absent"
  /\ starts < MaxStarts
  /\ Goto(p, "claim")
  /\ starts' = starts + 1
  /\ UNCHANGED <<shared, scan, idx, localRecord, pinned,
                 leaked, freed, wrapped, raced, refused>>

(* CAS (slot, pid, 0) finds the slot empty.                                *)
ClaimSlot(p) ==
  /\ stage[p] = "claim"
  /\ scan[p] \in Slot
  /\ hookedPIDs[scan[p]] = NoPid
  /\ hookedPIDs' = [hookedPIDs EXCEPT ![scan[p]] = p]
  /\ Goto(p, "count")
  /\ UNCHANGED <<count, rollovers, log, scan, idx, localRecord,
                 pinned, history>>

(* The CAS fails and the loop goes on.                                     *)
SkipSlot(p) ==
  /\ stage[p] = "claim"
  /\ scan[p] \in Slot
  /\ hookedPIDs[scan[p]] # NoPid
  /\ scan' = [scan EXCEPT ![p] = NextSlot(@)]
  /\ UNCHANGED <<shared, stage, idx, localRecord, pinned, history>>

(* The loop ends without a slot: no record and no reference to the DLL.    *)
Refuse(p) ==
  /\ stage[p] = "claim"
  /\ scan[p] = NumSlots
  /\ Goto(p, "running")
  /\ refused' = TRUE
  /\ UNCHANGED <<shared, scan, idx, localRecord, pinned,
                 starts, leaked, freed, wrapped, raced>>

RollingOver(p) == stage[p] \in {"rollover", "recount"}

(* InterlockedIncrement (&count) and the test for a full history.          *)
DrawIndex(p) ==
  /\ stage[p] = "count"
  /\ count' = Increment
  /\ idx'   = [idx EXCEPT ![p] = count + 1]
  /\ Goto(p, IF HistoryFull(count + 1) THEN "rollover" ELSE "write")
  /\ raced' = (raced \/ \E q \in Proc \ {p} : RollingOver(q))
  /\ UNCHANGED <<hookedPIDs, rollovers, log, scan, localRecord,
                 pinned, starts, leaked, freed, wrapped, refused>>

(* CAS (count, 0, idx): the code takes the old value, not success, for the *)
(* answer, so any count but zero means "rolled over".                      *)
Rollover(p) ==
  /\ stage[p] = "rollover"
  /\ count' = IF count = idx[p] THEN 0 ELSE count
  /\ IF count # 0
     THEN /\ idx' = [idx EXCEPT ![p] = FirstIndex]
          /\ rollovers' = rollovers + 1
          /\ Goto(p, "write")
     ELSE Goto(p, "recount") /\ UNCHANGED <<idx, rollovers>>
  /\ wrapped' = TRUE
  /\ UNCHANGED <<hookedPIDs, log, scan, localRecord,
                 pinned, starts, leaked, freed, raced, refused>>

(* Another process reset the counter first: draw again, with no new test.  *)
DrawAgain(p) ==
  /\ stage[p] = "recount"
  /\ count' = count + 1
  /\ idx'   = [idx EXCEPT ![p] = count + 1]
  /\ Goto(p, "write")
  /\ UNCHANGED <<hookedPIDs, rollovers, log, scan, localRecord,
                 pinned, history>>

(* The record is filled in and GetModuleHandleEx takes a reference to the  *)
(* DLL.  An index past the array writes what lies behind it, which is no   *)
(* record.                                                                 *)
WriteRecord(p) ==
  LET r == idx[p] - 1 IN
  /\ stage[p] = "write"
  /\ localRecord' = [localRecord EXCEPT ![p] = r]
  /\ ids' = [i \in Record |-> IF i = r THEN p ELSE ids[i]]
  /\ injected' = [i \in Record |-> IF i = r THEN clock + 1 ELSE injected[i]]
  /\ clock'    = clock + 1
  /\ pinned' = pinned \cup {p}
  /\ Goto(p, "running")
  /\ UNCHANGED <<hookedPIDs, count, rollovers, ejected, scan, idx,
                 starts, leaked, freed, wrapped, raced, refused>>

-----------------------------------------------------------------------------
(* SK_Inject_ReleaseProcess, called by SK_Detach on DLL_PROCESS_DETACH.    *)

Detach(p) ==
  /\ stage[p] = "running"
  /\ Goto(p, "release")
  /\ scan' = [scan EXCEPT ![p] = 0]
  /\ UNCHANGED <<shared, idx, localRecord, pinned, history>>

(* CAS (slot, 0, pid), tried on every slot.                                *)
ReleaseSlot(p) ==
  /\ stage[p] = "release"
  /\ scan[p] \in Slot
  /\ scan' = [scan EXCEPT ![p] = NextSlot(@)]
  /\ IF GivesBack(p, scan[p])
     THEN /\ hookedPIDs' = [hookedPIDs EXCEPT ![scan[p]] = NoPid]
          /\ freed' = freed \cup {q \in Proc : stage[q] = "claim"}
     ELSE UNCHANGED <<hookedPIDs, freed>>
  /\ UNCHANGED <<count, rollovers, log, stage, idx, localRecord,
                 pinned, starts, leaked, wrapped, raced, refused>>

(* The exit time, api, frame count and crash flag go to local_record,      *)
(* whether or not the process ever was given one; the process is gone.     *)
StampEject(p) ==
  /\ stage[p] = "release"
  /\ scan[p] = NumSlots
  /\ ejected' = [r \in Record |-> IF r = EjectRecord(p) THEN p ELSE ejected[r]]
  /\ leaked'  = leaked \ {p}
  /\ Vanish(p)
  /\ UNCHANGED <<hookedPIDs, count, rollovers, ids, injected, clock,
                 starts, wrapped, raced, refused>>

(* The process is terminated; nothing in the shared segment is undone.     *)
Terminate(p) ==
  /\ stage[p] # "absent"
  /\ Vanish(p)
  /\ leaked' = IF HasSlot(p) THEN leaked \cup {p} ELSE leaked \ {p}
  /\ UNCHANGED <<shared, starts, wrapped, raced, refused>>

-----------------------------------------------------------------------------
AcquireStep(p) ==
  \/ ClaimSlot(p) \/ SkipSlot(p) \/ Refuse(p)
  \/ DrawIndex(p) \/ Rollover(p) \/ DrawAgain(p) \/ WriteRecord(p)

Step(p) == AcquireStep(p) \/ ReleaseSlot(p) \/ StampEject(p)

Next == \E p \in Proc : Attach(p) \/ Step(p) \/ Detach(p) \/ Terminate(p)

(* The loader runs DllMain to its end: a process inside Acquire or Release *)
(* keeps taking steps.  Nothing obliges one to start, exit or be killed.   *)
Fairness == \A p \in Proc : WF_vars(Step(p))

Spec == Init /\ [][Next]_vars /\ Fairness

-----------------------------------------------------------------------------
(* Every variable stays in its range.  An index drawn for a record may lie *)
(* past the history: see SequentialInBounds.                               *)
TypeOK ==
  /\ hookedPIDs  \in [Slot -> Pid]
  /\ count       \in Nat
  /\ rollovers   \in Nat
  /\ ids         \in [Record -> Pid]
  /\ injected    \in [Record -> Nat]
  /\ clock       \in Nat
  /\ ejected     \in [Record -> Pid]
  /\ stage       \in [Proc -> Stage]
  /\ scan        \in [Proc -> 0 .. NumSlots]
  /\ idx         \in [Proc -> Nat]
  /\ localRecord \in [Proc -> Nat]
  /\ pinned      \subseteq Proc
  /\ starts      \in Nat
  /\ leaked      \subseteq Proc
  /\ freed       \subseteq Proc
  /\ wrapped     \in BOOLEAN
  /\ raced       \in BOOLEAN
  /\ refused     \in BOOLEAN

(* The process has claimed a slot and not begun to give it back.           *)
Enlisted(p) == \/ stage[p] \in Acquiring \ {"claim"}
               \/ stage[p] = "running" /\ p \in pinned

(* A process that holds a reference to the DLL because it claimed a slot   *)
(* still sits in a slot until it detaches: no concurrent Acquire, and no   *)
(* Release of another process, ever takes its slot away.                   *)
SlotOwned == \A p \in Proc : Enlisted(p) => HasSlot(p)

(* The slots of an id nobody runs under are exactly those a terminated     *)
(* process left behind; an orderly exit clears every slot with its id,     *)
(* also the one an earlier, killed process of the same id leaked.          *)
OnlyTerminationLeaks ==
  \A p \in Proc : stage[p] = "absent" => (HasSlot(p) <=> p \in leaked)

(* A process is turned away only from a full table, unless a slot it had   *)
(* already passed was freed behind it.                                     *)
RefusedOnlyWhenFull ==
  \A p \in Proc \ freed :
    stage[p] = "claim" /\ scan[p] = NumSlots
      => \A i \in Slot : hookedPIDs[i] # NoPid

(* Until the history rolls over, no two live processes share a record and  *)
(* each finds its own id in its record.                                    *)
OwnRecord ==
  ~wrapped =>
    \A p \in pinned : /\ localRecord[p] \in Record
                      /\ ids[localRecord[p]] = p
                      /\ \A q \in pinned \ {p} :
                           localRecord[q] # localRecord[p]

(* An index outside the history needs a race: as long as no process draws  *)
(* an index while another one rolls over, every write hits a record.       *)
SequentialInBounds ==
  ~raced => \A p \in Proc : stage[p] = "write" => idx[p] - 1 \in Record

RegistryStatus ==
  [p \in Proc |-> CASE stage[p] = "absent"                   -> "out"
                    [] stage[p] = "claim"                    -> "joining"
                    [] Enlisted(p)                           -> "member"
                    [] stage[p] = "running" /\ p \notin pinned -> "guest"
                    [] stage[p] = "release"                   -> "leaving"]

Registry == INSTANCE PidRegistry
              WITH held     <- {p \in Proc : HasSlot(p)},
                   status   <- RegistryStatus,
                   Capacity <- NumSlots

(* The slots, scans and interlocked operations implement a bounded         *)
(* registry of ids: membership begins with one CAS and ends by the         *)
(* process's own hand only; whatever the others do a process gets through  *)
(* Acquire, and one that detaches is gone in the end (or terminated).      *)
ImplementsRegistry == Registry!Spec

=============================================================================
