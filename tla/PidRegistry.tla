----------------------------- MODULE PidRegistry -----------------------------
(***************************************************************************)
(* What the table of hooked process ids promises, without slots, scans or  *)
(* interlocked operations: a bounded set of ids from which nobody removes  *)
(* an id but the process that runs under it, and which a process leaves    *)
(* before it is gone unless it is terminated.                              *)
(***************************************************************************)
EXTENDS Naturals, FiniteSets

CONSTANTS Proc, Capacity

VARIABLES held,   \* the ids in the registry
          status  \* each process: out, joining, member, guest or leaving

vars == <<held, status>>

Move(p, from, to) == status[p] \in from /\ status' = [status EXCEPT ![p] = to]

Init == held = {} /\ status = [p \in Proc |-> "out"]

Arrive(p)   == Move(p, {"out"}, "joining") /\ UNCHANGED held
Join(p)     == /\ Move(p, {"joining"}, "member")
               /\ held' = held \cup {p}
               /\ Cardinality(held') <= Capacity
TurnAway(p) == Move(p, {"joining"}, "guest") /\ UNCHANGED held
Leave(p)    == Move(p, {"member", "guest"}, "leaving") /\ UNCHANGED held
Remove(p)   == /\ status[p] = "leaving"
               /\ held' = held \ {p}
               /\ UNCHANGED status
Depart(p)   == p \notin held /\ Move(p, {"leaving"}, "out") /\ UNCHANGED held
Die(p)      == Move(p, {"joining", "member", "guest", "leaving"}, "out")
               /\ UNCHANGED held

Next == \E p \in Proc : \/ Arrive(p) \/ Join(p) \/ TurnAway(p)
                        \/ Leave(p) \/ Remove(p) \/ Depart(p) \/ Die(p)

Step(p) == Join(p) \/ TurnAway(p) \/ Remove(p) \/ Depart(p)

(* Joining and leaving are never given up half-way.                        *)
Spec == Init /\ [][Next]_vars /\ \A p \in Proc : WF_vars(Step(p))
=============================================================================
