----------------------------- MODULE GamepadSlot -----------------------------
(***************************************************************************)
(* One XInput slot whose controller may come and go while the game never   *)
(* sees it leave (src/input/xinput_hotplug.cpp, xinput_core.cpp).          *)
(*                                                                         *)
(* When a call of the game fails, a placeholder answers instead, and while *)
(* the slot is held that way the driver is not asked.  Packet numbers of   *)
(* the driver and of the placeholder go through one journal.  Special K's  *)
(* own polls end the hold: those of the hot-plug thread when Windows tells *)
(* of a device, and those of a cold thread, once a frame, until the first  *)
(* such message.  Nothing here is locked.                                  *)
(*                                                                         *)
(* One thread of the game calls: for the state, or for something that has  *)
(* no packet number (capabilities, battery, vibration).                    *)
(***************************************************************************)
EXTENDS Integers, Sequences

CONSTANTS Doublings,   \* how often the recheck interval of 133 ms is doubled
                       \*   before it is set to the time of day: for good
          FirstPacket, \* the number of a controller's first packet
          MaxPlugs,    \* bound on the times a controller is plugged in
          MaxInputs,   \* bound on the packets of the driver from then on
          MaxNumber    \* bound on the packet number at which the game stops
                       \*   to call

ASSUME BoundAssumption ==
  /\ Doublings \in Nat /\ FirstPacket \in Nat
  /\ MaxPlugs \in Nat /\ MaxInputs \in Nat /\ MaxNumber \in Nat

Poller == {"hotplug", "cold"}

(* What the game was last told: nothing yet, a packet of the driver, told  *)
(* by the connection it is from and its number, the placeholder's, or the  *)
(* placeholder's under a hold that the journal does not know of.           *)
NotYet    == -1
Virtual   == -2
Uncounted == -3
Packet(connection, n) == [from |-> connection, packet |-> n]
Answer(kind)          == Packet(kind, 0)

VARIABLES
  plugged,   \* a controller is there
  raw,       \* the driver's packet number
  holding,   \* placeholders[slot].holding
  level,     \* placeholders[slot].RecheckInterval, in doublings
  journal,   \* xinput_packets[slot]
  call,      \* what the game is calling for: state, caps, nothing
  step,      \* where the call stands
  was,       \* was_holding of SK_XInput_PlaceHold
  number,    \* the packet number the game was last given
  content,   \* and what came with it
  throttled, \* last_poll[slot] is recent, not zero
  patient,   \* SK_XInput_RefreshTime is still 7.5 s
  settled,   \* or it was set long enough ago to let a poll pass
  poll,      \* each poller's place in SK_XInput_PollController
  hot,       \* the hot-plug thread: wait, arrival, refresh
  notify,    \* SK_XInputHot_NotifyEvent is set
  posted,    \* the device messages of its window
  cold,      \* the cold thread: off, wait, last, ended
  coldEvent, \* SK_XInputCold_DecommisionEvent is set
  \* History variables.
  plugs,     \* the connections so far, and so the name of this one
  byCaps,    \* a call without a packet number began the hold
  missed     \* a hold that nobody is going to end

device    == <<plugged, raw, plugs>>
heldBy    == <<holding, level, byCaps>>
told      == <<journal, number, content>>
calling   == <<call, step, was>>
polling   == <<throttled, patient, settled, poll>>
hotThread == <<hot, notify, posted>>
coldOnes  == <<cold, coldEvent>>
vars == <<device, heldBy, told, calling, polling, hotThread, coldOnes,
          missed>>

(* The event to notify is created set, to refresh after a late injection.  *)
Init ==
  /\ plugged \in BOOLEAN /\ raw = FirstPacket
  /\ holding = FALSE /\ level = 0
  /\ journal = [real |-> 0, last |-> 0, current |-> 0]
  /\ call = "none" /\ step = "read" /\ was = FALSE
  /\ number = 0 /\ content = Answer(NotYet)
  /\ throttled = FALSE /\ patient = TRUE /\ settled = TRUE
  /\ poll = [k \in Poller |-> "idle"]
  /\ hot = "wait" /\ notify = TRUE /\ posted = << >>
  /\ cold = "off" /\ coldEvent = FALSE
  /\ plugs = 0
  /\ byCaps = FALSE /\ missed = FALSE

-----------------------------------------------------------------------------
(* Pieces of the handlers.  The operators named ...Slip are plausible      *)
(* mistakes the properties below are there to catch; no action uses them.  *)

Max2(a, b) == IF a >= b THEN a ELSE b

TimesTwoSlip == level + 1
Doubled      == IF level < Doublings THEN level + 1 ELSE level

Raised(j) == [j EXCEPT !.current = Max2(@, Max2(j.real, j.last))]

UnsteppedSlip(j, n) == Raised([j EXCEPT !.last = n, !.real = @ + 1])
RealPacket(j, n)    == Raised([j EXCEPT !.last = n, !.real = @ + 1,
                                        !.current = @ + 1])

VirtualPacket(j) == Raised([j EXCEPT !.current = @ + 1])

StillHeldSlip       == holding
AfterPoll           == FALSE

Returns     == call' = "none" /\ step' = "read" /\ was' = FALSE
Enter(k, s) == poll' = [poll EXCEPT ![k] = s]

-----------------------------------------------------------------------------
(* The calls of the game: XInputGetState and the ones without a packet.    *)

(* SK_XInput_Holding                                                       *)
Call ==
  /\ call = "none" /\ call' \in {"state", "caps"}
  /\ journal.current < MaxNumber
  /\ IF holding THEN level' = Doubled /\ step' = "was"
                ELSE level' = 0       /\ UNCHANGED step
  /\ UNCHANGED <<device, holding, byCaps, told, was, polling, hotThread,
                 coldOnes, missed>>

(* The driver is asked.                                                    *)
ReadFails ==
  /\ call # "none" /\ step = "read" /\ ~plugged
  /\ step' = "was"
  /\ UNCHANGED <<device, heldBy, told, call, was, polling, hotThread, coldOnes,
                 missed>>

ReadCaps ==
  /\ call = "caps" /\ step = "read" /\ plugged
  /\ Returns
  /\ UNCHANGED <<device, heldBy, told, polling, hotThread, coldOnes, missed>>

(* SK_XInput_PacketJournalize: a packet that was seen already keeps the    *)
(* driver's number.                                                        *)
ReadState ==
  /\ call = "state" /\ step = "read" /\ plugged
  /\ IF journal.last # raw
     THEN journal' = RealPacket(journal, raw) /\ number' = journal'.current
     ELSE number' = raw /\ UNCHANGED journal
  /\ content' = Packet(plugs, raw)
  /\ Returns
  /\ UNCHANGED <<device, heldBy, polling, hotThread, coldOnes, missed>>

(* SK_XInput_PlaceHold: was_holding, read once before anything else.       *)
NoteHolding ==
  /\ call = "state" /\ step = "was"
  /\ was' = holding
  /\ step' = "place"
  /\ UNCHANGED <<device, heldBy, told, call, polling, hotThread, coldOnes,
                 missed>>

(* The state call under way will not count the hold it takes for granted.  *)
Unknown == byCaps /\ was

(* A message of the controller's arrival is on its way.                    *)
Awaited == \/ \E i \in DOMAIN posted : posted[i] = "arrival"
           \/ hot = "arrival" /\ poll["hotplug"] \in {"ask", "found"}

(* The hold begins, or goes on, or is given up for a recheck because its   *)
(* interval is over.                                                       *)
Hold ==
  \/ /\ ~holding /\ holding' = TRUE
     /\ missed' = (missed \/ (plugged /\ ~Awaited))
     /\ byCaps' = (call = "caps" \/ Unknown)
  \/ /\ holding /\ UNCHANGED <<holding, missed, byCaps>>
  \/ /\ holding /\ level < Doublings
     /\ holding' = FALSE
     /\ byCaps' = Unknown
     /\ UNCHANGED missed

PlaceHoldCaps ==
  /\ call = "caps" /\ step = "was"
  /\ Hold
  /\ Returns
  /\ UNCHANGED <<device, level, told, polling, hotThread, coldOnes>>

PlaceHoldState ==
  LET packet == IF was THEN journal ELSE VirtualPacket(journal) IN
  /\ call = "state" /\ step = "place"
  /\ Hold
  /\ number' = packet.current
  /\ content' = Answer(IF Unknown THEN Uncounted ELSE Virtual)
  /\ journal' = [packet EXCEPT !.last = 0]
  /\ Returns
  /\ UNCHANGED <<device, level, polling, hotThread, coldOnes>>

-----------------------------------------------------------------------------
(* SK_XInput_PollController.  It asks the driver unless a recent failure   *)
(* says not to: within 7.5 s at first, and for ever once the refresh time  *)
(* has been set to the time of day.                                        *)
ShouldRecheck == ~throttled /\ (patient \/ settled)

AskDriver(k) ==
  /\ poll[k] = "ask"
  /\ Enter(k, IF ~ShouldRecheck THEN "idle"
              ELSE IF plugged   THEN "found" ELSE "failed")
  /\ missed' = (missed \/ (hot = "arrival" /\ k = "hotplug"
                           /\ plugged /\ ~ShouldRecheck))
  /\ UNCHANGED <<device, heldBy, told, calling, throttled, patient, settled,
                 hotThread, coldOnes>>

Throttle(k) ==
  /\ poll[k] = "failed" /\ Enter(k, "idle")
  /\ throttled' = TRUE
  /\ UNCHANGED <<device, heldBy, told, calling, patient, settled, hotThread,
                 coldOnes, missed>>

StopHolding(k) ==
  /\ poll[k] = "found" /\ Enter(k, "idle")
  /\ throttled' = FALSE
  /\ holding' = AfterPoll /\ byCaps' = Unknown
  /\ UNCHANGED <<device, level, told, calling, patient, settled, hotThread,
                 coldOnes, missed>>

PollStep(k) == AskDriver(k) \/ Throttle(k) \/ StopHolding(k)

-----------------------------------------------------------------------------
(* The hot-plug thread.                                                    *)

SetColdEvent == coldEvent' = (coldEvent \/ cold \notin {"off", "ended"})

(* A controller that is gone again is not asked.                           *)
Arrival ==
  /\ hot = "wait" /\ posted # << >> /\ Head(posted) = "arrival"
  /\ posted' = Tail(posted)
  /\ IF plugged
     THEN hot' = "arrival" /\ throttled' = FALSE /\ Enter("hotplug", "ask")
     ELSE UNCHANGED <<hot, throttled, poll>>
  /\ UNCHANGED <<device, heldBy, told, calling, patient, settled, notify,
                 coldOnes, missed>>

ArrivalDone ==
  /\ hot = "arrival" /\ poll["hotplug"] = "idle"
  /\ hot' = "wait"
  /\ SetColdEvent
  /\ UNCHANGED <<device, heldBy, told, calling, polling, notify, posted, cold,
                 missed>>

Removal ==
  /\ hot = "wait" /\ posted # << >> /\ Head(posted) = "removal"
  /\ posted' = Tail(posted)
  /\ notify' = TRUE
  /\ SetColdEvent
  /\ UNCHANGED <<device, heldBy, told, calling, polling, hot, cold, missed>>

(* SK_XInput_RefreshControllers, once a frame; then the event is reset.    *)
Refresh ==
  /\ hot = "wait" /\ notify
  /\ hot' = "refresh" /\ throttled' = FALSE /\ Enter("hotplug", "ask")
  /\ UNCHANGED <<device, heldBy, told, calling, patient, settled, notify,
                 posted, coldOnes, missed>>

RefreshDone ==
  /\ hot = "refresh" /\ poll["hotplug"] = "idle"
  /\ hot' = "wait" /\ notify' = FALSE
  /\ UNCHANGED <<device, heldBy, told, calling, polling, posted, coldOnes,
                 missed>>

HotPlugStep == \/ Arrival \/ ArrivalDone \/ Removal \/ Refresh \/ RefreshDone
               \/ PollStep("hotplug")

-----------------------------------------------------------------------------
(* SK_XInput_DeferredStatusChecks: the cold thread, started by the first   *)
(* frame, polls on every frame, and once more when it is decommissioned.   *)

ColdStarts ==
  /\ cold = "off" /\ cold' = "wait"
  /\ UNCHANGED <<device, heldBy, told, calling, polling, hotThread,
                 coldEvent, missed>>

ColdPolls ==
  /\ cold = "wait" /\ poll["cold"] = "idle" /\ Enter("cold", "ask")
  /\ cold' \in IF coldEvent THEN {"wait", "last"} ELSE {"wait"}
  /\ UNCHANGED <<device, heldBy, told, calling, throttled, patient, settled,
                 hotThread, coldEvent, missed>>

ColdEnds ==
  /\ cold = "last" /\ poll["cold"] = "idle"
  /\ cold' = "ended" /\ coldEvent' = FALSE
  /\ patient' = FALSE /\ settled' = FALSE
  /\ UNCHANGED <<device, heldBy, told, calling, throttled, poll, hotThread,
                 missed>>

ColdStep == ColdStarts \/ ColdPolls \/ ColdEnds \/ PollStep("cold")

(* Time passes: 7.5 s since a failure, or 250 ms for each slot before this *)
(* one since the refresh time was set.                                     *)
TimePasses ==
  /\ IF patient THEN throttled /\ throttled' = FALSE /\ UNCHANGED settled
                ELSE ~settled /\ settled' = TRUE /\ UNCHANGED throttled
  /\ UNCHANGED <<device, heldBy, told, calling, patient, poll, hotThread,
                 coldOnes, missed>>

-----------------------------------------------------------------------------
(* The controller.  One that is plugged in again counts packets anew.      *)

Plug ==
  /\ ~plugged /\ plugged' = TRUE
  /\ plugs < MaxPlugs /\ plugs' = plugs + 1
  /\ posted' = Append(posted, "arrival")
  /\ UNCHANGED <<raw, heldBy, told, calling, polling, hot, notify,
                 coldOnes, missed>>

Unplug ==
  /\ plugged /\ plugged' = FALSE /\ raw' = FirstPacket
  /\ posted' = Append(posted, "removal")
  /\ UNCHANGED <<plugs, heldBy, told, calling, polling, hot,
                 notify, coldOnes, missed>>

Input ==
  /\ plugged /\ raw' = raw + 1
  /\ raw < FirstPacket + MaxInputs
  /\ UNCHANGED <<plugged, plugs, heldBy, told, calling, polling, hotThread,
                 coldOnes, missed>>

Next ==
  \/ Call \/ ReadFails \/ ReadState \/ ReadCaps
  \/ NoteHolding \/ PlaceHoldState \/ PlaceHoldCaps
  \/ HotPlugStep \/ ColdStep \/ TimePasses
  \/ Plug \/ Unplug \/ Input

(* Special K's threads run and time passes; the game need not call.        *)
Spec == /\ Init /\ [][Next]_vars
        /\ WF_vars(HotPlugStep) /\ WF_vars(ColdStep) /\ WF_vars(TimePasses)

-----------------------------------------------------------------------------
(* Every variable stays in its range.                                      *)
TypeOK ==
  /\ {plugged, holding, was, throttled, patient, settled, notify, coldEvent,
      byCaps, missed} \subseteq BOOLEAN
  /\ {raw, number, plugs} \subseteq Nat
  /\ level \in 0 .. Doublings
  /\ journal \in [real : Nat, last : Nat, current : Nat]
  /\ call \in {"none", "state", "caps"} /\ step \in {"read", "was", "place"}
  /\ content \in [from : Nat \cup {NotYet, Virtual, Uncounted},
                 packet : Nat]
  /\ poll \in [Poller -> {"idle", "ask", "found", "failed"}]
  /\ hot \in {"wait", "arrival", "refresh"}
  /\ posted \in Seq({"arrival", "removal"})
  /\ cold \in {"off", "wait", "last", "ended"}

(* Packets of two connections that happen to have the same number.         *)
Alike(c, d) == c.from # d.from /\ c.packet = d.packet
               /\ Virtual \notin {c.from, d.from}

(* What a game misses that looks at the packet number alone: when what it  *)
(* is told changes, from one packet of the driver to another or to and     *)
(* from the placeholder, so does the number.  There are two exceptions.  A *)
(* hold that a call without a packet number began is not journalled.  And  *)
(* the journal knows the last packet by its number: a controller that came *)
(* back between two calls is not noticed if its packet has the number of   *)
(* the one that was read last before it left.                              *)
ChangeNoticed ==
  [][/\ content' # content
     /\ {content.from, content'.from} \cap {NotYet, Uncounted} = {}
     => number' # number \/ Alike(content, content')]_vars

(* A controller that stays is read again, by way of the hot-plug thread,   *)
(* unless its arrival was missed: the poll it caused came too soon after   *)
(* the cold thread ended, or a call that had failed before the arrival     *)
(* began to hold the slot after it.                                        *)
ReadUnlessMissed ==
  []~missed => (plugged /\ holding ~> ~holding \/ ~plugged)

(* xinput_hotplug.cpp:604: the journal is there to "make sure that virtual *)
(* and physical controllers always return monotonic results": the packet   *)
(* numbers the game gets never go down.                                    *)
NumbersMonotonic == [][number' >= number]_vars
=============================================================================
