--------------------------- MODULE InjectionAudit ---------------------------
(***************************************************************************)
(* What a process writes to its injection record after it was injected,    *)
(* and who reads the table of processes (src/injection/injection.cpp).     *)
(*                                                                         *)
(* Each process keeps a private mirror of the shared records.  GetRecord   *)
(* copies the first record that bears an id to the mirror and returns a    *)
(* pointer into it; the caller changes a field there; AuditRecord finds    *)
(* the record by the mirror's id and writes all fields back.  Two threads  *)
(* do so once each, without a lock: the one that initialises the core      *)
(* (DllThread in src/core.cpp) notes the game's AppId, and the one that    *)
(* makes the game's window (SK_InstallWindowHook in src/window.cpp) notes  *)
(* its title.  An orderly exit may stamp the record while they are at it,  *)
(* since SK_SelfDestruct does not stop them.                               *)
(***************************************************************************)
EXTENDS InjectionRecords, Sequences, SequencesExt

CONSTANTS Games,   \* the processes that get as far as these two threads
          Capacity \* of the list a caller of SKX_GetInjectedPIDs passes

ASSUME GamesAssumption    == Games \subseteq Proc
ASSUME CapacityAssumption == Capacity \in Nat \ {0}

Worker == {"init", "window"}

VARIABLES
  appId,   \* __SK_InjectionHistory_AppId: who noted it
  title,   \* __SK_InjectionHistory_win_title: likewise
  mirror,  \* each process's __SK_InjectionHistory
  pointer, \* the record of the mirror each thread works on
  work,    \* where each thread stands
  alive,   \* processes with threads: an exit is stamped before they end
  pos,     \* the slot the reader of the table looks at
  tested,  \* it found the slot taken and will read it again
  list,    \* what it has read
  \* History variables.
  home,    \* the record each process was given; NumRecords if none
  misled,  \* processes that were shown another record, or none
  mingled, \* processes whose threads audited at the same time
  exited,  \* records of processes that made an orderly exit
  exposed, \* those that a thread of the process had taken before
  steady   \* slots taken, by the same process, since the reader began

notes  == <<appId, title>>
local2 == <<mirror, pointer, work, alive>>
reader == <<pos, tested, list>>
past   == <<home, misled, mingled, exited, exposed>>
avars  == <<vars, notes, local2, reader, past, steady>>

Blank == [id |-> NoPid, injected |-> 0, ejected |-> NoPid,
          appId |-> NoPid, title |-> NoPid]

AuditInit ==
  /\ Init
  /\ appId = [r \in Record |-> NoPid] /\ title = [r \in Record |-> NoPid]
  /\ mirror = [p \in Proc |-> [r \in Record |-> Blank]]
  /\ pointer = [p \in Proc |-> [w \in Worker |-> 0]]
  /\ work = [p \in Proc |-> [w \in Worker |-> "idle"]]
  /\ alive = {}
  /\ pos = 0 /\ tested = FALSE /\ list = <<>>
  /\ home = [p \in Proc |-> NumRecords]
  /\ misled = {} /\ mingled = {} /\ exited = {} /\ exposed = {}
  /\ steady = {}

(* The process is gone, and its mirror with it.                            *)
Gone(p) ==
  /\ alive'   = alive \ {p}
  /\ mirror'  = [mirror EXCEPT ![p] = [r \in Record |-> Blank]]
  /\ pointer' = [pointer EXCEPT ![p] = [w \in Worker |-> 0]]
  /\ work'    = [work EXCEPT ![p] = [w \in Worker |-> "idle"]]
  /\ home'    = [home EXCEPT ![p] = NumRecords]
  /\ misled'  = misled \ {p}
  /\ mingled' = mingled \ {p}
  /\ UNCHANGED <<notes, exited, exposed>>

WorkAt(p, w, s) == work' = [work EXCEPT ![p][w] = s]

-----------------------------------------------------------------------------
(* Operators named ...Slip are plausible mistakes the properties below are *)
(* there to catch; no action uses them.                                    *)

FromOneSlip(p)  == {r \in Record \ {0} : ids[r] = p}
Matching(p)     == {r \in Record : ids[r] = p}

Shared(r) == [id |-> ids[r], injected |-> injected[r],
              ejected |-> ejected[r], appId |-> appId[r], title |-> title[r]]

UnreadSlip(p, r) == [mirror[p][r] EXCEPT !.id = ids[r]]
Loaded(p, r)     == Shared(r)

OldTitleSlip(d, r) == title[r]
NewTitle(d, r)     == d.title

ShortSlip(n)    == n < Capacity - 2
Room(n)         == n < Capacity - 1

First(R) == CHOOSE r \in R : \A q \in R : r <= q

-----------------------------------------------------------------------------
(* SK_Inject_GetRecord for the own id, and the assignment to a field of    *)
(* what it returns.  Without a record the first thread leaves it at that.  *)

Note(p, w, d) == IF w = "init" THEN [d EXCEPT !.id = p, !.appId = p]
                               ELSE [d EXCEPT !.title = p]

Ready(p, w) == /\ p \in alive \cap Games
               /\ stage[p] \in {"running", "release", "absent"}
               /\ work[p][w] = "idle"

TakeRecord(p, w) ==
  LET r == First(Matching(p)) IN
  /\ Ready(p, w) /\ Matching(p) # {}
  /\ mirror' = [mirror EXCEPT ![p][r] = Note(p, w, Loaded(p, r))]
  /\ pointer' = [pointer EXCEPT ![p][w] = r]
  /\ WorkAt(p, w, "taken")
  /\ misled' = IF r = home[p] THEN misled ELSE misled \cup {p}
  /\ mingled' = IF \E v \in Worker : work[p][v] = "taken"
                THEN mingled \cup {p} ELSE mingled
  /\ UNCHANGED <<vars, notes, alive, home, exited, exposed>>

FindNone(p) ==
  /\ Ready(p, "init") /\ Matching(p) = {}
  /\ WorkAt(p, "init", "done")
  /\ misled' = misled \cup {p}
  /\ UNCHANGED <<vars, notes, mirror, pointer, alive, home, mingled, exited,
                 exposed>>

(* SK_Inject_AuditRecord.  The first thread names its own id, the second   *)
(* the one in the mirror.                                                  *)
Named(p, w) == IF w = "init" THEN p ELSE mirror[p][pointer[p][w]].id

Audit(p, w) ==
  LET d == mirror[p][pointer[p][w]]
      R == {r \in Record : mirror[p][r].id = Named(p, w)}
      t == First(R)
  IN
  /\ p \in alive /\ work[p][w] = "taken"
  /\ WorkAt(p, w, "done")
  /\ IF R = {}
     THEN UNCHANGED <<injected, ejected, notes, mirror>>
     ELSE /\ injected' = [injected EXCEPT ![t] = d.injected]
          /\ ejected' = [ejected EXCEPT ![t] = d.ejected]
          /\ appId' = [appId EXCEPT ![t] = d.appId]
          /\ title' = [title EXCEPT ![t] = NewTitle(d, t)]
          /\ mirror' = [mirror EXCEPT ![p][t] = [d EXCEPT !.id = ids[t]]]
  /\ UNCHANGED <<hookedPIDs, count, rollovers, ids, clock, local, history,
                 pointer, alive, past>>

-----------------------------------------------------------------------------
(* The steps of InjectionRecords, as far as they concern the threads.      *)

Begin(p) ==
  /\ p \notin alive /\ Attach(p)
  /\ alive' = alive \cup {p}
  /\ UNCHANGED <<notes, mirror, pointer, work, past>>

Acquire(p) ==
  /\ AcquireStep(p)
  /\ home' = IF p \in pinned' \ pinned /\ localRecord'[p] \in Record
             THEN [home EXCEPT ![p] = localRecord'[p]] ELSE home
  /\ UNCHANGED <<notes, local2, misled, mingled, exited, exposed>>

Release(p) ==
  /\ Detach(p) \/ ReleaseSlot(p)
  /\ UNCHANGED <<notes, local2, past>>

Exit(p) ==
  /\ StampEject(p)
  /\ exited' = exited \cup ({home[p]} \cap Record)
  /\ exposed' = IF \E w \in Worker : work[p][w] = "taken"
                THEN exposed \cup {home[p]} ELSE exposed
  /\ UNCHANGED <<notes, local2, home, misled, mingled>>

Kill(p) == Terminate(p) /\ Gone(p)

(* The remaining threads of a process that has stamped its exit end.       *)
End(p) == p \in alive /\ stage[p] = "absent" /\ Gone(p) /\ UNCHANGED vars

(* SK_InstallWindowHook uses what it gets without a test.                  *)
Crash(p) ==
  /\ Ready(p, "window") /\ Matching(p) = {}
  /\ Kill(p) \/ End(p)

Life(p) == \/ Begin(p) \/ Acquire(p) \/ Release(p) \/ Exit(p) \/ Kill(p)
           \/ End(p) \/ FindNone(p) \/ Crash(p)
           \/ \E w \in Worker : TakeRecord(p, w) \/ Audit(p, w)

-----------------------------------------------------------------------------
(* SKX_GetInjectedPIDs, called by a tool: each slot is tested and read.    *)

TestSlot ==
  /\ pos \in Slot /\ ~tested
  /\ IF hookedPIDs[pos] # NoPid
     THEN tested' = TRUE /\ UNCHANGED pos
     ELSE pos' = pos + 1 /\ UNCHANGED tested
  /\ steady' = IF pos = 0 THEN {i \in Slot : hookedPIDs[i] # NoPid}
                          ELSE steady
  /\ UNCHANGED list

ReadSlot ==
  /\ tested /\ tested' = FALSE
  /\ list' = IF Room(Len(list)) THEN Append(list, hookedPIDs[pos]) ELSE list
  /\ pos' = pos + 1
  /\ UNCHANGED steady

Read == /\ TestSlot \/ ReadSlot
        /\ UNCHANGED <<vars, notes, local2, past>>

AuditNext ==
  \/ Read
  \/ /\ \E p \in Proc : Life(p)
     /\ steady' = {i \in steady : hookedPIDs'[i] = hookedPIDs[i]}
     /\ UNCHANGED reader

AuditSpec == AuditInit /\ [][AuditNext]_avars

-----------------------------------------------------------------------------
(* Until the history rolls over, a process that was given a record is      *)
(* shown this one and no other when it asks for it, and never none, which  *)
(* the window's thread would take for one; except if an earlier process    *)
(* had the same id, or a process was turned away from the table.           *)
RecordFound ==
  ~wrapped /\ ~refused => \A p \in misled : Cardinality(Matching(p)) > 1

(* Both threads write the whole record back.  Neither takes away what the  *)
(* other has noted, unless they are at it at the same time.                *)
BothNoted ==
  ~wrapped =>
    \A p \in alive \ mingled :
      (\A w \in Worker : work[p][w] = "done") /\ Matching(p) # {}
        => LET r == First(Matching(p)) IN appId[r] = p /\ title[r] = p

(* The exit of a process stays on its record, and on no other, though its  *)
(* threads write the record back after that; except if one had taken the   *)
(* record before, or a process was turned away.                            *)
ExitKept ==
  ~wrapped /\ ~refused =>
    /\ \A r \in exited \ exposed : ejected[r] = ids[r]
    /\ \A r \in Record : ejected[r] \in {NoPid, ids[r]}

(* A process that sits in its slot all the while is in the list, whoever   *)
(* comes and goes.  A zero may stand before it, read from a slot that was  *)
(* left between the test and the second look; how many entries there are   *)
(* tells the value that is returned.                                       *)
ListComplete ==
  pos = NumSlots /\ Capacity > NumSlots =>
    \A i \in steady : Contains(list, hookedPIDs[i])
=============================================================================
