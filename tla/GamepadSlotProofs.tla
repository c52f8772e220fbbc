-------------------------- MODULE GamepadSlotProofs --------------------------
(***************************************************************************)
(* Proofs about GamepadSlot, for every value of its constants: what a game *)
(* that looks at the packet number alone can miss of what it is told.      *)
(*                                                                         *)
(* The argument is in Told: the number the game was given is never above   *)
(* the journal's, so a counted packet always exceeds it, and a packet that *)
(* is not counted either has the number of the packet the game has, from   *)
(* this connection or an earlier one, or replaces an answer of the         *)
(* placeholder whose number was at least one.                              *)
(***************************************************************************)
EXTENDS GamepadSlot, SequenceTheorems, TLAPS

(* What the game has, against the journal.                                 *)
Told ==
  /\ number <= journal.current /\ journal.last <= journal.current
  /\ content.from \in Nat    => journal.last = content.packet
  /\ content.from = Virtual =>
       journal.last = 0 /\ number >= 1 /\ content.packet = 0

(* Only the game's thread begins a hold, and it does not read under one;   *)
(* a hold that no uncounted call began, or that was noted, is one the game *)
(* was told of.                                                            *)
Holds ==
  /\ call # "none" /\ step = "read" => ~holding
  /\ was => call = "state" /\ step = "place"
  /\ (holding \/ was) /\ ~byCaps => content.from = Virtual

IInv == TypeOK /\ Told /\ Holds

-----------------------------------------------------------------------------
(* The operators on the journal.                                           *)

Journal == [real : Nat, last : Nat, current : Nat]

(* What is raised keeps its counts.                                        *)
LEMMA RaisedBounds ==
  ASSUME NEW j \in Journal
  PROVE  /\ Raised(j) \in Journal /\ Raised(j).last = j.last
         /\ Raised(j).current >= j.current /\ Raised(j).current >= j.last
BY DEF Journal, Raised, Max2

(* The driver's packet is noted, and gets a number above all before it.    *)
LEMMA RealPacketCounts ==
  ASSUME NEW j \in Journal, NEW n \in Nat
  PROVE  /\ RealPacket(j, n) \in Journal /\ RealPacket(j, n).last = n
         /\ RealPacket(j, n).current >= j.current + 1
         /\ RealPacket(j, n).current >= n
<1> DEFINE k == [j EXCEPT !.last = n, !.real = @ + 1, !.current = @ + 1]
<1> DEFINE a == [j EXCEPT !.last = n]
           b == [a EXCEPT !.real = @ + 1]
           c == [b EXCEPT !.current = @ + 1]
<1>1. k = c
  OBVIOUS
<1>2. a \in Journal /\ a.last = n /\ a.current = j.current
  BY DEF Journal
<1> HIDE DEF a
<1>3. b \in Journal /\ b.last = n /\ b.current = j.current
  BY <1>2 DEF Journal
<1> HIDE DEF b
<1>4. c \in Journal /\ c.last = n /\ c.current = j.current + 1
  BY <1>3 DEF Journal
<1>5. k \in Journal /\ k.last = n /\ k.current = j.current + 1
  BY <1>1, <1>4
<1>6. RealPacket(j, n) = Raised(k)
  BY DEF RealPacket
<1> HIDE DEF k
<1>7. QED
  BY <1>5, <1>6, RaisedBounds

(* The placeholder's packet gets a number above all before it.             *)
LEMMA VirtualPacketCounts ==
  ASSUME NEW j \in Journal
  PROVE  /\ VirtualPacket(j) \in Journal
         /\ VirtualPacket(j).current >= j.current + 1
<1> DEFINE k == [j EXCEPT !.current = @ + 1]
<1>1. k \in Journal /\ k.current = j.current + 1
  BY DEF Journal
<1>2. VirtualPacket(j) = Raised(k)
  BY DEF VirtualPacket
<1> HIDE DEF k
<1>3. QED
  BY <1>1, <1>2, RaisedBounds

(* What came with a number, and the placeholder's packet for each kind of  *)
(* hold.                                                                   *)
LEMMA ContentFacts ==
  /\ \A k, m : Packet(k, m).from = k /\ Packet(k, m).packet = m
  /\ \A k : Answer(k).from = k /\ Answer(k).packet = 0
  /\ {NotYet, Virtual, Uncounted} \cap Nat = {}
  /\ NotYet # Virtual /\ Virtual # Uncounted
BY DEF Packet, Answer, NotYet, Virtual, Uncounted

LEMMA ContentTypes ==
  LET Contents == [from : Nat \cup {NotYet, Virtual, Uncounted},
                   packet : Nat]
  IN  /\ \A k, m \in Nat : Packet(k, m) \in Contents
      /\ \A k \in {NotYet, Virtual, Uncounted} : Answer(k) \in Contents
BY DEF Packet, Answer

-----------------------------------------------------------------------------
(* Typing.                                                                 *)

LEMMA TypeOKInit == Init => TypeOK
<1> SUFFICES ASSUME Init PROVE TypeOK
  OBVIOUS
<1> USE BoundAssumption DEF Init, Poller, NotYet
<1>1. {plugged, holding, was, throttled, patient, settled, notify, coldEvent,
       byCaps, missed} \subseteq BOOLEAN
  OBVIOUS
<1>2. journal \in Journal /\ {raw, number, plugs} \subseteq Nat
      /\ level \in 0 .. Doublings
  BY DEF Journal
<1>3. poll \in [Poller -> {"idle", "ask", "found", "failed"}]
      /\ posted \in Seq({"arrival", "removal"})
  OBVIOUS
<1>4. QED
  BY <1>1, <1>2, <1>3, ContentTypes DEF TypeOK, Journal

LEMMA TypeOKStep == TypeOK /\ [Next]_vars => TypeOK'
<1> SUFFICES ASSUME TypeOK, [Next]_vars PROVE TypeOK'
  OBVIOUS
<1> USE BoundAssumption
    DEF TypeOK, Poller, NotYet, Virtual, Uncounted, Returns, Enter, vars,
        device, heldBy, told, calling, polling, hotThread, coldOnes
<1>1. CASE UNCHANGED vars
  BY <1>1
<1>2. CASE Call
  <2>1. level' \in 0 .. Doublings
    BY <1>2 DEF Call, Doubled
  <2>2. QED
    BY <1>2, <2>1 DEF Call
<1>3. CASE ReadFails
  BY <1>3 DEF ReadFails
<1>4. CASE ReadState
  <2>1. journal \in Journal /\ raw \in Nat
    BY DEF Journal
  <2>2. RealPacket(journal, raw) \in Journal
    BY <2>1, RealPacketCounts
  <2>3. journal' \in Journal /\ number' \in Nat
    BY <1>4, <2>1, <2>2 DEF ReadState, Journal
  <2>4. content' \in [from : Nat \cup {NotYet, Virtual, Uncounted},
                    packet : Nat]
    BY <1>4, ContentTypes DEF ReadState
  <2>5. QED
    BY <1>4, <2>3, <2>4 DEF ReadState, Journal
<1>5. CASE ReadCaps
  BY <1>5 DEF ReadCaps
<1>6. CASE NoteHolding
  BY <1>6 DEF NoteHolding
<1>7. ASSUME Hold PROVE holding' \in BOOLEAN /\ missed' \in BOOLEAN
                        /\ byCaps' \in BOOLEAN
  BY <1>7 DEF Hold, Unknown, Awaited
<1>8. CASE PlaceHoldState
  <2>1. journal' \in Journal /\ number' \in Nat
    <3> DEFINE packet == IF was THEN journal ELSE VirtualPacket(journal)
    <3>1. packet \in Journal
      BY VirtualPacketCounts DEF Journal
    <3> HIDE DEF packet
    <3>2. journal' = [packet EXCEPT !.last = 0] /\ number' = packet.current
      BY <1>8 DEF PlaceHoldState, packet
    <3>3. QED
      BY <3>1, <3>2 DEF Journal
  <2>2. /\ content' \in {Answer(Virtual), Answer(Uncounted)}
        /\ content' \in [from : Nat \cup {NotYet, Virtual, Uncounted},
                         packet : Nat]
    BY <1>8, ContentTypes DEF PlaceHoldState
  <2>3. QED
    BY <1>7, <1>8, <2>1, <2>2 DEF PlaceHoldState, Journal
<1>9. CASE PlaceHoldCaps
  BY <1>7, <1>9 DEF PlaceHoldCaps
<1>10. ASSUME NEW k \in Poller, PollStep(k) PROVE TypeOK'
  <2>1. CASE AskDriver(k)
    BY <2>1 DEF AskDriver, ShouldRecheck
  <2>2. CASE Throttle(k)
    BY <2>2 DEF Throttle
  <2>3. CASE StopHolding(k)
    BY <2>3 DEF StopHolding, AfterPoll, Unknown
  <2>4. QED
    BY <1>10, <2>1, <2>2, <2>3 DEF PollStep
<1>11. CASE HotPlugStep
  <2>1. CASE Arrival
    <3>1. posted' \in Seq({"arrival", "removal"})
      BY <2>1, HeadTailProperties DEF Arrival
    <3>2. QED
      BY <2>1, <3>1, ZenonT(30) DEF Arrival
  <2>2. CASE ArrivalDone
    BY <2>2 DEF ArrivalDone, SetColdEvent
  <2>3. CASE Removal
    <3>1. posted' \in Seq({"arrival", "removal"})
      BY <2>3, HeadTailProperties DEF Removal
    <3>2. QED
      BY <2>3, <3>1 DEF Removal, SetColdEvent
  <2>4. CASE Refresh
    BY <2>4 DEF Refresh
  <2>5. CASE RefreshDone
    BY <2>5 DEF RefreshDone
  <2>6. QED
    BY <1>10, <1>11, <2>1, <2>2, <2>3, <2>4, <2>5 DEF HotPlugStep
<1>12. CASE ColdStep
  <2>1. CASE ColdStarts
    BY <2>1 DEF ColdStarts
  <2>2. CASE ColdPolls
    BY <2>2 DEF ColdPolls
  <2>3. CASE ColdEnds
    BY <2>3 DEF ColdEnds
  <2>4. QED
    BY <1>10, <1>12, <2>1, <2>2, <2>3 DEF ColdStep
<1>13. CASE TimePasses
  BY <1>13 DEF TimePasses
<1>14. CASE Plug
  <2>1. posted' \in Seq({"arrival", "removal"})
    BY <1>14, AppendProperties DEF Plug
  <2>2. QED
    BY <1>14, <2>1 DEF Plug
<1>15. CASE Unplug
  <2>1. posted' \in Seq({"arrival", "removal"})
    BY <1>15, AppendProperties DEF Unplug
  <2>2. QED
    BY <1>15, <2>1 DEF Unplug
<1>16. CASE Input
  BY <1>16 DEF Input
<1>17. QED
  BY <1>1, <1>2, <1>3, <1>4, <1>5, <1>6, <1>8, <1>9, <1>11, <1>12, <1>13,
     <1>14, <1>15, <1>16 DEF Next

(* Every variable stays in its range, whatever the bounds.                 *)
THEOREM TypeCorrect == Spec => []TypeOK
<1>1. QED
  BY TypeOKInit, TypeOKStep, PTL DEF Spec

-----------------------------------------------------------------------------
(* What the game is told.                                                  *)

(* The steps of Special K's threads and of the controller tell the game    *)
(* nothing, and never begin a hold.                                        *)
LEMMA Elsewhere ==
  ASSUME TypeOK, HotPlugStep \/ ColdStep \/ TimePasses \/ Plug \/ Unplug
                 \/ Input
  PROVE  /\ UNCHANGED <<told, calling>>
         /\ \/ UNCHANGED <<holding, byCaps>>
            \/ ~holding' /\ byCaps' = (byCaps /\ was)
<1> USE DEF told, calling, heldBy
<1>1. ASSUME NEW k \in Poller, PollStep(k)
      PROVE  /\ UNCHANGED <<told, calling>>
             /\ \/ UNCHANGED <<holding, byCaps>>
                \/ ~holding' /\ byCaps' = (byCaps /\ was)
  BY <1>1 DEF PollStep, AskDriver, Throttle, StopHolding, AfterPoll, Unknown
<1>2. CASE HotPlugStep
  BY <1>1, <1>2 DEF HotPlugStep, Poller, Arrival, ArrivalDone, Removal,
                    Refresh, RefreshDone
<1>3. CASE ColdStep
  BY <1>1, <1>3 DEF ColdStep, Poller, ColdStarts, ColdPolls, ColdEnds
<1>4. CASE TimePasses
  BY <1>4 DEF TimePasses
<1>5. CASE Plug \/ Unplug \/ Input
  BY <1>5 DEF Plug, Unplug, Input
<1>6. QED
  BY <1>2, <1>3, <1>4, <1>5

LEMMA IInvInit == Init => IInv
<1> SUFFICES ASSUME Init PROVE IInv
  OBVIOUS
<1>1. Told
  BY ContentFacts DEF Init, Told
<1>2. Holds
  BY DEF Init, Holds
<1>3. QED
  BY <1>1, <1>2, TypeOKInit DEF IInv

(* A packet of the driver: new, with a number above all the game has had,  *)
(* or that of the packet it has already, or zero after a placeholder.      *)
LEMMA ReadStateTells ==
  ASSUME IInv, ReadState
  PROVE  /\ ~holding /\ Told'
         /\ \/ number' > number
            \/ content.from \in Nat /\ content.packet = raw
            \/ content.from = Virtual /\ number' = 0 /\ number >= 1
            \/ content.from \in {NotYet, Uncounted}
<1> USE DEF IInv, TypeOK, Told, Virtual, NotYet, Uncounted
<1>1. journal \in Journal /\ raw \in Nat /\ number \in Nat /\ plugs \in Nat
      /\ content'.from = plugs /\ content'.packet = raw
  <2>1. journal \in Journal /\ {raw, number, plugs} \subseteq Nat
    BY DEF Journal
  <2>2. content' = Packet(plugs, raw)
    BY DEF ReadState
  <2>3. QED
    BY <2>1, <2>2, ContentFacts
<1>2. ~holding
  BY DEF ReadState, Holds
<1>3. CASE journal.last # raw
  <2>1. /\ journal' = RealPacket(journal, raw) /\ number' = journal'.current
    BY <1>3 DEF ReadState
  <2>2. /\ journal' \in Journal /\ journal'.last = raw
        /\ journal'.current >= journal.current + 1
        /\ journal'.current >= raw
    BY <1>1, <2>1, RealPacketCounts
  <2>3. QED
    BY <1>1, <1>2, <2>1, <2>2 DEF Journal
<1>4. CASE journal.last = raw
  <2>1. UNCHANGED journal /\ number' = raw
    BY <1>4 DEF ReadState
  <2>2. QED
    BY <1>1, <1>2, <1>4, <2>1 DEF Journal
<1>5. QED
  BY <1>3, <1>4

(* The placeholder's packet: counted, with a number above all the game has *)
(* had, or one more of the same kind, or under an uncounted hold.          *)
LEMMA PlaceHoldTells ==
  ASSUME IInv, PlaceHoldState
  PROVE  /\ Told'
         /\ \/ number' > number
            \/ content.from = Virtual /\ content' = Answer(Virtual)
            \/ content'.from = Uncounted
<1> USE DEF IInv, TypeOK, Told, Virtual, NotYet, Uncounted
<1> DEFINE packet == IF was THEN journal ELSE VirtualPacket(journal)
<1>1. journal \in Journal /\ number \in Nat
  BY DEF Journal
<1>2. /\ packet \in Journal /\ packet.current >= journal.current
      /\ ~was => packet.current >= journal.current + 1
  <2>1. /\ VirtualPacket(journal) \in Journal
        /\ VirtualPacket(journal).current >= journal.current + 1
    BY <1>1, VirtualPacketCounts
  <2>2. journal.current \in Nat /\ VirtualPacket(journal).current \in Nat
    BY <1>1, <2>1 DEF Journal
  <2>3. CASE was
    <3>1. packet = journal
      BY <2>3
    <3>2. QED
      BY <1>1, <2>2, <2>3, <3>1
  <2>4. CASE ~was
    <3>1. packet = VirtualPacket(journal)
      BY <2>4
    <3>2. QED
      BY <2>1, <2>2, <2>4, <3>1
  <2>5. QED
    BY <2>3, <2>4
<1>3. /\ content' = Answer(IF Unknown THEN Uncounted ELSE Virtual)
      /\ content'.packet = 0
      /\ content'.from = IF Unknown THEN Uncounted ELSE Virtual
  BY ContentFacts DEF PlaceHoldState
<1> HIDE DEF packet
<1>4. journal' = [packet EXCEPT !.last = 0] /\ number' = packet.current
  BY DEF PlaceHoldState, packet
<1>5. /\ journal'.last = 0 /\ journal'.current = packet.current
      /\ packet.current \in Nat /\ journal.current \in Nat
      /\ journal.last \in Nat
  BY <1>1, <1>2, <1>4 DEF Journal
<1>6. was /\ ~Unknown => content.from = Virtual
  BY DEF Unknown, Holds
<1>7. number <= packet.current /\ (~was => number < packet.current)
  BY <1>1, <1>2, <1>5
<1>8. number' = packet.current /\ number' \in Nat
  BY <1>4, <1>5
<1>9. Told'
  <2>1. number' <= journal'.current /\ journal'.last <= journal'.current
    BY <1>5, <1>8
  <2>2. content'.from = Virtual => number' >= 1
    BY <1>1, <1>3, <1>6, <1>7, <1>8
  <2>3. QED
    BY <1>3, <1>5, <2>1, <2>2
<1>10. QED
  BY <1>1, <1>3, <1>6, <1>7, <1>8, <1>9

LEMMA ToldStep == IInv /\ [Next]_vars => Told'
<1> SUFFICES ASSUME IInv, [Next]_vars PROVE Told'
  OBVIOUS
<1>1. CASE ReadState
  BY <1>1, ReadStateTells
<1>2. CASE PlaceHoldState
  BY <1>2, PlaceHoldTells
<1>3. CASE UNCHANGED told
  BY <1>3 DEF IInv, Told, told
<1>4. CASE Call \/ ReadFails \/ ReadCaps \/ NoteHolding \/ PlaceHoldCaps
  BY <1>3, <1>4 DEF Call, ReadFails, ReadCaps, NoteHolding, PlaceHoldCaps
<1>5. CASE HotPlugStep \/ ColdStep \/ TimePasses \/ Plug \/ Unplug \/ Input
  BY <1>3, <1>5, Elsewhere DEF IInv
<1>6. QED
  BY <1>1, <1>2, <1>3, <1>4, <1>5 DEF Next, vars

LEMMA HoldsStep == IInv /\ [Next]_vars => Holds'
<1> SUFFICES ASSUME IInv, [Next]_vars PROVE Holds'
  OBVIOUS
<1> USE DEF IInv, Holds, Returns, heldBy, told, calling, Virtual, NotYet,
            Uncounted
<1>1. {holding, byCaps, was} \subseteq BOOLEAN
  BY DEF TypeOK
<1>2. CASE UNCHANGED vars
  BY <1>2 DEF vars
<1>3. CASE Call
  BY <1>1, <1>3 DEF Call
<1>4. CASE ReadFails
  BY <1>1, <1>4 DEF ReadFails
<1>5. CASE ReadCaps
  BY <1>1, <1>5 DEF ReadCaps
<1>6. CASE ReadState
  BY <1>1, <1>6, ReadStateTells DEF ReadState
<1>7. CASE NoteHolding
  BY <1>1, <1>7 DEF NoteHolding
<1>8. CASE PlaceHoldState
  <2>1. Hold /\ Returns
        /\ content'.from = IF Unknown THEN Uncounted ELSE Virtual
    BY <1>8, ContentFacts DEF PlaceHoldState
  <2>2. holding' /\ ~byCaps' => ~Unknown
    BY <2>1 DEF Hold, Unknown
  <2>3. holding' /\ ~byCaps' => content'.from = Virtual
    BY <2>1, <2>2
  <2>4. QED
    BY <2>1, <2>3
<1>9. CASE PlaceHoldCaps
  <2>1. Hold /\ Returns /\ call = "caps" /\ content' = content
    BY <1>9 DEF PlaceHoldCaps
  <2>2. holding' /\ ~byCaps' => holding /\ ~byCaps
    BY <2>1 DEF Hold
  <2>3. holding' /\ ~byCaps' => content'.from = Virtual
    BY <2>1, <2>2
  <2>4. QED
    BY <2>1, <2>3
<1>10. CASE HotPlugStep \/ ColdStep \/ TimePasses \/ Plug \/ Unplug \/ Input
  BY <1>1, <1>10, Elsewhere
<1>11. QED
  BY <1>2, <1>3, <1>4, <1>5, <1>6, <1>7, <1>8, <1>9, <1>10 DEF Next

(* IInv holds for as long as the game runs.                                *)
THEOREM Invariance == Spec => []IInv
<1>1. IInv /\ [Next]_vars => IInv'
  BY TypeOKStep, ToldStep, HoldsStep DEF IInv
<1>2. QED
  BY IInvInit, <1>1, PTL DEF Spec

(* A game that looks at the packet number alone notices every change of    *)
(* what it is told, except under an uncounted hold, and except that a      *)
(* packet has the number of the one read last from an earlier connection.  *)
THEOREM NoChangeMissed == Spec => ChangeNoticed
<1> DEFINE Noticed ==
      /\ content' # content
      /\ {content.from, content'.from} \cap {NotYet, Uncounted} = {}
      => number' # number \/ Alike(content, content')
<1>1. IInv /\ [Next]_vars => [Noticed]_vars
  <2> SUFFICES ASSUME IInv, Next, content' # content,
                      content.from \notin {NotYet, Uncounted},
                      content'.from \notin {NotYet, Uncounted}
               PROVE  number' # number \/ Alike(content, content')
    OBVIOUS
  <2>t. /\ number \in Nat /\ number' \in Nat /\ {plugs, raw} \subseteq Nat
        /\ content \in [from : Nat \cup {NotYet, Virtual, Uncounted},
                        packet : Nat]
    BY TypeOKStep DEF IInv, TypeOK
  <2>1. CASE ReadState
    <3>1. content' = Packet(plugs, raw)
      BY <2>1 DEF ReadState
    <3>2. content'.from = plugs /\ content'.packet = raw
      BY <3>1 DEF Packet
    <3>3. ASSUME content.from \in Nat, content.packet = raw
          PROVE  Alike(content, content')
      <4>1. content = Packet(content.from, content.packet)
        BY <2>t DEF Packet
      <4>2. content.from # plugs
        BY <3>1, <3>3, <4>1
      <4>3. QED
        BY <2>t, <3>2, <3>3, <4>2 DEF Alike, Virtual
    <3>4. QED
      BY <2>1, <2>t, <3>3, ReadStateTells
  <2>2. CASE PlaceHoldState
    <3>1. ASSUME content.from = Virtual, content' = Answer(Virtual)
          PROVE  FALSE
      <4>1. journal.last = 0 /\ content = Packet(Virtual, content.packet)
        BY <2>t, <3>1 DEF IInv, Told, Packet
      <4>2. content.packet = 0
        BY <3>1 DEF IInv, Told
      <4>3. QED
        BY <3>1, <4>1, <4>2 DEF Answer
    <3>2. QED
      BY <2>2, <2>t, <3>1, PlaceHoldTells
  <2>3. CASE UNCHANGED told
    BY <2>3 DEF told
  <2>4. CASE Call \/ ReadFails \/ ReadCaps \/ NoteHolding \/ PlaceHoldCaps
    BY <2>3, <2>4 DEF Call, ReadFails, ReadCaps, NoteHolding, PlaceHoldCaps
  <2>5. CASE HotPlugStep \/ ColdStep \/ TimePasses \/ Plug \/ Unplug \/ Input
    BY <2>3, <2>5, Elsewhere DEF IInv
  <2>6. QED
    BY <2>1, <2>2, <2>4, <2>5 DEF Next
<1>2. QED
  BY Invariance, <1>1, PTL DEF Spec, ChangeNoticed
=============================================================================
