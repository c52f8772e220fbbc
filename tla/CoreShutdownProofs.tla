------------------------- MODULE CoreShutdownProofs -------------------------
(***************************************************************************)
(* The end of Special K in a game, for any number of monitors, of threads  *)
(* that draw and of readers of the GPU's sensors.                          *)
(*                                                                         *)
(* The slot in the table of injected processes is given back exactly once, *)
(* or not at all if the thread that was about to do so was stopped; a      *)
(* monitor has one thread at most and its event is closed once, though     *)
(* starters and the shutdown race with it, except in the two windows the   *)
(* code leaves open; the GPU's buffers outlive those who may publish them; *)
(* and no monitor waits for a WMI server that nobody starts.  Each part    *)
(* has an inductive invariant of its own, and all rest on the types and on *)
(* SlotInv, which says that nothing is shut down before the end.           *)
(***************************************************************************)
EXTENDS CoreShutdown, FiniteSetTheorems, TLAPS

Range1 ==
  /\ attached \in BOOLEAN /\ released \in Nat
  /\ caller = [c \in Caller |-> caller[c]]

(* Nothing has begun before somebody said so.                              *)
NotBegun == ~ending => phase = "off"

(* The slot is given back between the exchange of __SK_DLL_Attached and    *)
(* the steps that follow, unless the end of the process falls in between.  *)
Given ==
  /\ attached => released = 0 /\ phase \in {"off", "detach"}
  /\ ~attached => released = IF phase = "release" \/ halted = "release"
                             THEN 0 ELSE 1
  /\ halted = "release" => ~attached /\ phase # "release"

(* Once the process ends, the thread that ends it is alone.                *)
Alone ==
  IF caller["exit"] \in {"alone", "gone"}
  THEN runner = "exit" /\ caller["window"] = "dead"
  ELSE halted = "off"

AllDone == caller["exit"] = "gone" => phase = "done" /\ ~attached

SlotInv == Range1 /\ NotBegun /\ Given /\ Alone /\ AllDone

(* At the start nothing has begun.                                         *)
LEMMA SlotInvInit == Init => SlotInv
BY DEF Init, PerfInit, GpuInit, SlotInv, Range1, NotBegun, Given, Alone,
       AllDone, Caller

(* The invariant implies the property.                                     *)
LEMMA SlotInvSuffices == SlotInv => SlotGivenBack
BY DEF SlotInv, Range1, Given, AllDone, SlotGivenBack

(* What a step of the other threads leaves alone.                          *)
LEMMA OthersKeep ==
  ASSUME MonitorPart \/ GpuPart
  PROVE  UNCHANGED <<ending, cvars>>
<1>1. CASE GpuPart
  BY <1>1 DEF GpuPart, pvars
<1>2. CASE MonitorPart
  <2>1. ASSUME NEW s \in Starter, StarterStep(s) PROVE ending' = ending
    BY <2>1 DEF StarterStep, StartPerfMon, Pass, Claim, Create, Store,
                InitWmi
  <2>2. ASSUME ServerStep PROVE ending' = ending
    BY <2>2 DEF ServerStep, Connect, ConnectFails, Disconnect
  <2>3. ASSUME NEW t \in Thread, MonitorStep(t) PROVE ending' = ending
    BY <2>3 DEF MonitorStep, SeeInit, Enter, CreateSignal, WmiFails,
                SeeSignal, Query, Refresh, CloseSignal, Leave, Others
  <2>4. QED
    BY <1>2, <2>1, <2>2, <2>3 DEF MonitorPart
<1>3. QED
  BY <1>1, <1>2

LEMMA StopKeeps ==
  ASSUME NEW m \in Monitor, StopStep(m)
  PROVE  ending' = ending
BY DEF StopStep, BeginStop, Join, GiveUp, Kill, Forget, DropSignal, Apart

(* A step that begins, or ends, with the shutdown already past the release *)
(* changes nothing that matters.                                           *)
LEMMA PastRelease ==
  ASSUME SlotInv,
         phase \notin {"off", "detach", "release", "done"},
         phase' \notin {"off", "detach", "release", "done"},
         UNCHANGED <<ending, runner, caller, attached, released, halted>>
  PROVE  SlotInv'
BY DEF SlotInv, Range1, NotBegun, Given, Alone, AllDone

(* Each step of the shutdown keeps the account of the slot.                *)
LEMMA SlotInvStep == SlotInv /\ [Next]_vars => SlotInv'
<1> SUFFICES ASSUME SlotInv, [Next]_vars PROVE SlotInv'
  OBVIOUS
<1>1. CASE UNCHANGED vars
  BY <1>1 DEF vars, pvars, cvars, SlotInv, Range1, NotBegun, Given, Alone,
              AllDone
<1>2. ASSUME NEW c \in Caller, SelfDestruct(c) PROVE SlotInv'
  <2>1. c # "exit" \/ caller["exit"] = "live"
    BY <1>2 DEF SelfDestruct
  <2>2. caller["exit"] # "gone" /\ caller["exit"] # "alone"
    BY <1>2 DEF SelfDestruct, SlotInv, Alone, Caller
  <2>3. /\ caller' = [caller EXCEPT ![c] = caller'[c]]
        /\ caller'[c] \in {"back", "inside"}
    BY <1>2 DEF SelfDestruct, SlotInv, Range1
  <2>4. caller'["exit"] \notin {"alone", "gone"}
    BY <2>2, <2>3 DEF SlotInv, Range1, Caller
  <2>5. UNCHANGED <<attached, released, halted>>
    BY <1>2 DEF SelfDestruct
  <2>6. CASE ending
    BY <1>2, <2>2, <2>3, <2>4, <2>5, <2>6
    DEF SelfDestruct, SlotInv, Range1, NotBegun, Given, Alone, AllDone
  <2>7. CASE ~ending
    BY <1>2, <2>2, <2>3, <2>4, <2>5, <2>7
    DEF SelfDestruct, SlotInv, Range1, NotBegun, Given, Alone, AllDone
  <2>8. QED
    BY <2>6, <2>7
<1>3. CASE EndProcess
  <2>1. /\ caller'["exit"] = "alone" /\ caller'["window"] = "dead"
        /\ caller' = [k \in Caller |-> caller'[k]]
    BY <1>3 DEF EndProcess, Caller
  <2>2. /\ phase' = "detach" /\ runner' = "exit" /\ ending'
        /\ UNCHANGED <<attached, released>>
        /\ halted' = IF phase \in {"off", "done"} THEN halted ELSE phase
        /\ caller["exit"] \in {"live", "back"}
    BY <1>3 DEF EndProcess
  <2>3. halted = "off"
    BY <2>2 DEF SlotInv, Alone
  <2>4. QED
    BY <2>1, <2>2, <2>3 DEF SlotInv, Range1, NotBegun, Given, Alone, AllDone
<1>4. CASE ShutdownStep
  <2>1. CASE Detach
    <3>1. caller' = [k \in Caller |-> caller'[k]]
      BY <2>1 DEF Detach, Return, SlotInv, Range1
    <3>2. CASE attached
      BY <2>1, <3>1, <3>2
      DEF Detach, FirstDetach, pvars, SlotInv, Range1, NotBegun, Given,
          Alone, AllDone
    <3>3. CASE ~attached
      <4>1. /\ phase = "detach" /\ phase' = "done" /\ Return
            /\ UNCHANGED <<ending, attached, released, runner, halted>>
        BY <2>1, <3>3 DEF Detach, FirstDetach, pvars, SlotInv, Range1
      <4>2. Alone'
        BY <4>1 DEF Return, SlotInv, Range1, Alone, AllDone, Caller
      <4>3. QED
        BY <3>1, <3>3, <4>1, <4>2
        DEF SlotInv, Range1, NotBegun, Given, AllDone
    <3>4. QED
      BY <3>2, <3>3
  <2>2. CASE ReleaseProcess
    BY <2>2 DEF ReleaseProcess, pvars, SlotInv, Range1, NotBegun, Given,
                Alone, AllDone
  <2>3. CASE SetTeardown
    BY <2>3, PastRelease DEF SetTeardown
  <2>4. CASE EndPolling
    BY <2>4, PastRelease DEF EndPolling, pvars
  <2>5. CASE StopMonitors
    BY <2>5, PastRelease, StopKeeps DEF StopMonitors
  <2>6. CASE ShutdownWmi
    <3>1. /\ phase = "wmi" /\ phase' = "done" /\ Return
          /\ UNCHANGED <<ending, attached, released, runner, halted>>
      BY <2>6 DEF ShutdownWmi
    <3>2. caller' = [k \in Caller |-> caller'[k]]
      BY <3>1 DEF Return, SlotInv, Range1
    <3>3. Alone'
      BY <3>1 DEF Return, SlotInv, Range1, Alone, AllDone, Caller
    <3>4. QED
      BY <3>1, <3>2, <3>3 DEF SlotInv, Range1, NotBegun, Given, AllDone
  <2>7. QED
    BY <1>4, <2>1, <2>2, <2>3, <2>4, <2>5, <2>6 DEF ShutdownStep
<1>5. CASE MonitorPart \/ GpuPart
  BY <1>5, OthersKeep DEF cvars, SlotInv, Range1, NotBegun, Given, Alone,
                          AllDone
<1>6. QED
  BY <1>1, <1>2, <1>3, <1>4, <1>5 DEF Next

(* However the callers of SK_SelfDestruct and the end of the process       *)
(* overlap, SK_Inject_ReleaseProcess runs once at most, and not at all     *)
(* only if the thread that was about to run it was stopped right there.    *)
THEOREM SlotGivenBackOnce == Spec => []SlotGivenBack
<1>1. Init => SlotInv
  BY SlotInvInit
<1>2. SlotInv /\ [Next]_vars => SlotInv'
  BY SlotInvStep
<1>3. SlotInv => SlotGivenBack
  BY SlotInvSuffices
<1>4. QED
  BY <1>1, <1>2, <1>3, PTL DEF Spec

-----------------------------------------------------------------------------
(* Types.                                                                  *)

(* What TypeOK says of the monitors, of the GPU's thread, and of those who *)
(* shut down.                                                              *)
MonitorTypes ==
  /\ ending \in BOOLEAN /\ teardown \in BOOLEAN
  /\ once \in BOOLEAN /\ told \in BOOLEAN
  /\ hThread \in [Monitor -> Starter \cup {Invalid, Null}]
  /\ hSignal \in [Monitor -> Starter \cup {Invalid}]
  /\ open \subseteq Thread /\ signalled \subseteq open
  /\ at \in [Thread -> Holding \cup {"off", "spin", "enter", "loop", "query",
                                     "finish"}]
  /\ lock \in Thread \cup {Nobody}
  /\ server \in {"none", "starting", "serving", "off"} /\ init \in {0, 1}
  /\ call \in [Starter -> {"idle", "visit", "create", "store", "wmi", "dead"}
                            \X Monitor]
  /\ stop \in [Monitor -> {"todo", "wait", "kill", "forget", "signal",
                           "done"}]
  /\ late \subseteq Monitor /\ cut \subseteq Monitor /\ twice \subseteq Monitor
  /\ shown \in Configurations /\ calls \in 0 .. MaxCalls[shown]

GpuTypes ==
  /\ asked \in BOOLEAN /\ shutdown \in BOOLEAN /\ buffers \in BOOLEAN
  /\ stats \in BOOLEAN /\ abrupt \in BOOLEAN /\ crossed \in BOOLEAN
  /\ events \in {"unset", "open", "closed"}
  /\ handle \in {"unset", "open", "closed"}
  /\ poll \in {"none", "start", "ready", "wait", "leave", "off"}
  /\ read \in [Reader -> {"idle", "events", "thread", "attach", "use",
                          "dead"}]
  /\ finish \in {"todo", "wait", "kill", "close", "free", "done"}
  /\ overtaken \subseteq Reader

CallerTypes ==
  /\ attached \in BOOLEAN /\ released \in Nat
  /\ {phase, halted} \subseteq {"off", "detach", "release", "signal", "gpu",
                               "monitors", "wmi", "done"}
  /\ runner \in Caller \cup {"nobody"}
  /\ caller \in [Caller -> {"live", "inside", "back", "alone", "gone",
                            "dead"}]

(* TypeOK is these three.                                                  *)
LEMMA TypesSplit == TypeOK <=> MonitorTypes /\ GpuTypes /\ CallerTypes
BY DEF TypeOK, MonitorTypes, GpuTypes, CallerTypes

(* A starter goes on to the next monitor, or is through.                   *)
LEMMA AfterType ==
  /\ Idle \in {"idle"} \X Monitor
  /\ \A m \in Monitor : After(m) \in {"idle", "visit"} \X Monitor
<1>1. 1 \in Monitor
  BY MonitorAssumption DEF Monitor
<1>2. ASSUME NEW m \in Monitor, m # NumMonitors PROVE m + 1 \in Monitor
  BY <1>2, MonitorAssumption DEF Monitor
<1>3. QED
  BY <1>1, <1>2 DEF Idle, After

(* A step of the monitors, their starters, the server, or of a stop.       *)
LEMMA MonitorTypesStep ==
  ASSUME MonitorTypes,
         \/ \E s \in Starter : StarterStep(s)
         \/ ServerStep
         \/ \E t \in Thread : MonitorStep(t)
         \/ \E m \in Monitor : StopStep(m)
  PROVE  MonitorTypes'
<1>c. \A s \in Starter : call[s][2] \in Monitor
  BY DEF MonitorTypes
<1>d. \A t \in Thread : /\ t[1] \in Monitor /\ t[2] \in Starter
                      /\ t = <<t[1], t[2]>>
  BY DEF Thread
<1>e. \A m \in Monitor, s \in Starter : <<m, s>> \in Thread
  BY DEF Thread
<1> USE DEF MonitorTypes, Goto, CallAt, StopAt, In, threads, wmi, overlaps,
            Holding, Others, Apart
<1>1. ASSUME NEW s \in Starter, StartPerfMon(s) PROVE MonitorTypes'
  <2>1. <<"visit", 1>> \in {"visit"} \X Monitor
    BY MonitorAssumption DEF Monitor
  <2>2. calls + 1 \in 0 .. MaxCalls[shown]
    BY <1>1, ConfigurationAssumption DEF StartPerfMon
  <2>3. QED
    BY <1>1, <2>1, <2>2 DEF StartPerfMon
<1>2. ASSUME NEW s \in Starter, Pass(s) PROVE MonitorTypes'
  BY <1>c, <1>2, AfterType DEF Pass, Advance
<1>3. ASSUME NEW s \in Starter, Claim(s) PROVE MonitorTypes'
  BY <1>c, <1>3 DEF Claim
<1>4. ASSUME NEW s \in Starter, Create(s) PROVE MonitorTypes'
  BY <1>c, <1>e, <1>4 DEF Create
<1>5. ASSUME NEW s \in Starter, Store(s) PROVE MonitorTypes'
  <2>1. call' \in [Starter -> {"idle", "visit", "create", "store", "wmi",
                              "dead"} \X Monitor]
    BY <1>c, <1>5, AfterType DEF Store, Advance
  <2>2. once' \in BOOLEAN
        /\ hThread' \in [Monitor -> Starter \cup {Invalid, Null}]
    BY <1>c, <1>5 DEF Store
  <2>3. QED
    BY <1>5, <2>1, <2>2 DEF Store
<1>6. ASSUME NEW s \in Starter, InitWmi(s) PROVE MonitorTypes'
  BY <1>c, <1>6, AfterType DEF InitWmi, Advance
<1>7. CASE Connect
  BY <1>7 DEF Connect
<1>8. CASE ConnectFails
  BY <1>8 DEF ConnectFails
<1>9. CASE Disconnect
  BY <1>9 DEF Disconnect
<1>10. ASSUME NEW t \in Thread, SeeInit(t) PROVE MonitorTypes'
  BY <1>10 DEF SeeInit
<1>11. ASSUME NEW t \in Thread, Enter(t) PROVE MonitorTypes'
  BY <1>11 DEF Enter
<1>12. ASSUME NEW t \in Thread, CreateSignal(t) PROVE MonitorTypes'
  BY <1>d, <1>12 DEF CreateSignal, Unlocked
<1>13. ASSUME NEW t \in Thread, WmiFails(t) PROVE MonitorTypes'
  BY <1>13 DEF WmiFails
<1>14. ASSUME NEW t \in Thread, SeeSignal(t) PROVE MonitorTypes'
  BY <1>14 DEF SeeSignal
<1>15. ASSUME NEW t \in Thread, Query(t) PROVE MonitorTypes'
  BY <1>15 DEF Query
<1>16. ASSUME NEW t \in Thread, Refresh(t) PROVE MonitorTypes'
  BY <1>d, <1>16 DEF Refresh, Unlocked
<1>17. ASSUME NEW t \in Thread, CloseSignal(t) PROVE MonitorTypes'
  BY <1>d, <1>17 DEF CloseSignal, CloseEvent, Event
<1>18. ASSUME NEW t \in Thread, Leave(t) PROVE MonitorTypes'
  BY <1>d, <1>18 DEF Leave, Unlocked, Cleared
<1>19. ASSUME NEW m \in Monitor, BeginStop(m) PROVE MonitorTypes'
  BY <1>19 DEF BeginStop, Usable, Event
<1>20. ASSUME NEW m \in Monitor, Join(m) PROVE MonitorTypes'
  BY <1>20 DEF Join
<1>21. ASSUME NEW m \in Monitor, GiveUp(m) PROVE MonitorTypes'
  BY <1>21 DEF GiveUp
<1>22. ASSUME NEW m \in Monitor, Kill(m) PROVE MonitorTypes'
  <2>1. at' \in [Thread -> Holding \cup {"off", "spin", "enter", "loop",
                                       "query", "finish"}]
    BY <1>e, <1>22 DEF Kill
  <2>2. late' \subseteq Monitor /\ cut' \subseteq Monitor
    BY <1>22 DEF Kill
  <2>3. QED
    BY <1>22, <2>1, <2>2 DEF Kill
<1>23. ASSUME NEW m \in Monitor, Forget(m) PROVE MonitorTypes'
  BY <1>23 DEF Forget
<1>24. ASSUME NEW m \in Monitor, DropSignal(m) PROVE MonitorTypes'
  BY <1>24 DEF DropSignal, CloseEvent, Event
<1>25. QED
  BY <1>1, <1>2, <1>3, <1>4, <1>5, <1>6, <1>7, <1>8, <1>9, <1>10, <1>11,
     <1>12, <1>13, <1>14, <1>15, <1>16, <1>17, <1>18, <1>19, <1>20, <1>21,
     <1>22, <1>23, <1>24
     DEF StarterStep, ServerStep, MonitorStep, StopStep

(* A step of the GPU's readers, of its thread, or of its end.              *)
LEMMA GpuTypesStep ==
  ASSUME GpuTypes,
         \/ \E r \in Reader : Ask(r) \/ TakePointer(r) \/ ReaderStep(r)
         \/ PollerStep \/ NoDevice \/ Sample \/ EndStep
  PROVE  GpuTypes'
<1> USE DEF GpuTypes, ReadAt, PollerRest, EnderRest
<1>1. ASSUME NEW r \in Reader, Ask(r) PROVE GpuTypes'
  BY <1>1 DEF Ask
<1>2. ASSUME NEW r \in Reader, MakeEvents(r) PROVE GpuTypes'
  BY <1>2, ZenonT(30) DEF MakeEvents
<1>3. ASSUME NEW r \in Reader, MakeThread(r) PROVE GpuTypes'
  BY <1>3 DEF MakeThread
<1>4. ASSUME NEW r \in Reader, AttachThread(r) PROVE GpuTypes'
  BY <1>4 DEF AttachThread
<1>5. ASSUME NEW r \in Reader, TakePointer(r) PROVE GpuTypes'
  BY <1>5 DEF TakePointer
<1>6. ASSUME NEW r \in Reader, Use(r) PROVE GpuTypes'
  BY <1>6 DEF Use
<1>7. CASE Publish
  BY <1>7 DEF Publish
<1>8. CASE NoDevice
  BY <1>8 DEF NoDevice
<1>9. CASE AwaitPoll
  BY <1>9 DEF AwaitPoll
<1>10. CASE Sample
  BY <1>10 DEF Sample
<1>11. CASE SeeShutdown
  BY <1>11 DEF SeeShutdown
<1>12. CASE EndThread
  BY <1>12 DEF EndThread, TakenBack
<1>13. CASE BeginEnd
  BY <1>13, ZenonT(30) DEF BeginEnd
<1>14. CASE JoinPoller
  BY <1>14 DEF JoinPoller
<1>15. CASE GiveUpPoller
  BY <1>15 DEF GiveUpPoller
<1>16. CASE KillPoller
  BY <1>16, ZenonT(30) DEF KillPoller
<1>17. CASE CloseHandles
  BY <1>17 DEF CloseHandles
<1>18. CASE FreeBuffers
  BY <1>18 DEF FreeBuffers
<1>19. QED
  BY <1>1, <1>2, <1>3, <1>4, <1>5, <1>6, <1>7, <1>8, <1>9, <1>10, <1>11,
     <1>12, <1>13, <1>14, <1>15, <1>16, <1>17, <1>18
     DEF ReaderStep, PollerStep, EndStep

(* A call of SK_SelfDestruct, and the end of the process.                  *)
LEMMA CallerTypesStep ==
  ASSUME MonitorTypes, GpuTypes, CallerTypes,
         EndProcess \/ \E c \in Caller : SelfDestruct(c)
  PROVE  MonitorTypes' /\ GpuTypes' /\ CallerTypes'
<1>1. ASSUME NEW c \in Caller, SelfDestruct(c)
      PROVE  MonitorTypes' /\ GpuTypes' /\ CallerTypes'
  <2>1. MonitorTypes'
    BY <1>1 DEF SelfDestruct, MonitorTypes, threads, wmi, overlaps
  <2>2. GpuTypes'
    BY <1>1 DEF SelfDestruct, GpuTypes, gvars
  <2>3. CallerTypes'
    BY <1>1 DEF SelfDestruct, CallerTypes
  <2>4. QED
    BY <2>1, <2>2, <2>3
<1>2. CASE EndProcess
  <2>1. <<"dead", 1>> \in {"dead"} \X Monitor
    BY MonitorAssumption DEF Monitor
  <2>2. {t[1] : t \in {u \in Thread : at[u] = "clear"}} \subseteq Monitor
    BY DEF Thread
  <2>3. MonitorTypes'
    BY <1>2, <2>1, <2>2 DEF EndProcess, MonitorTypes
  <2>4. GpuTypes'
    BY <1>2 DEF EndProcess, GpuTypes
  <2>5. /\ caller' \in [Caller -> {"dead", "alone"}] /\ runner' \in Caller
        /\ phase' = "detach" /\ UNCHANGED <<attached, released>>
    BY <1>2 DEF EndProcess, Caller
  <2>6. halted' \in {phase, halted}
    BY <1>2 DEF EndProcess
  <2>7. CallerTypes'
    BY <2>5, <2>6 DEF CallerTypes
  <2>8. QED
    BY <2>3, <2>4, <2>7
<1>3. QED
  BY <1>1, <1>2

(* Whatever is done, every variable keeps its type.                        *)
LEMMA TypeStep == TypeOK /\ [Next]_vars => TypeOK'
<1> SUFFICES ASSUME MonitorTypes, GpuTypes, CallerTypes, [Next]_vars
             PROVE  MonitorTypes' /\ GpuTypes' /\ CallerTypes'
  <2>1. TypeOK' <=> MonitorTypes' /\ GpuTypes' /\ CallerTypes'
    BY DEF TypeOK, MonitorTypes, GpuTypes, CallerTypes
  <2>2. QED
    BY <2>1, TypesSplit
<1>p. ASSUME UNCHANGED pvars PROVE MonitorTypes'
  BY <1>p DEF pvars, MonitorTypes, threads, wmi, overlaps
<1>g. ASSUME UNCHANGED gvars PROVE GpuTypes'
  BY <1>g DEF gvars, GpuTypes
<1>c. ASSUME UNCHANGED cvars PROVE CallerTypes'
  BY <1>c DEF cvars, CallerTypes
<1>1. CASE UNCHANGED vars
  BY <1>1, <1>p, <1>g, <1>c DEF vars
<1>2. CASE MonitorPart
  BY <1>2, <1>g, <1>c, MonitorTypesStep DEF MonitorPart
<1>3. CASE GpuPart
  BY <1>3, <1>p, <1>c, GpuTypesStep DEF GpuPart
<1>4. CASE ShutdownStep
  <2>1. CASE Detach \/ ReleaseProcess
    <3>1. caller' \in [Caller -> {"live", "inside", "back", "alone", "gone",
                                 "dead"}]
      BY <2>1 DEF Detach, ReleaseProcess, Return, CallerTypes
    <3>2. /\ phase' \in {"release", "signal", "done"}
          /\ attached' \in BOOLEAN /\ released' \in Nat
          /\ UNCHANGED <<runner, halted>>
      <4>1. CASE Detach
        BY <4>1 DEF Detach, CallerTypes
      <4>2. CASE ReleaseProcess
        BY <4>2 DEF ReleaseProcess, CallerTypes
      <4>3. QED
        BY <2>1, <4>1, <4>2
    <3>3. CallerTypes'
      BY <3>1, <3>2 DEF CallerTypes
    <3>4. QED
      BY <1>p, <1>g, <2>1, <3>3 DEF Detach, ReleaseProcess
  <2>2. CASE SetTeardown
    BY <1>g, <2>2
       DEF SetTeardown, MonitorTypes, CallerTypes, threads, wmi, overlaps
  <2>3. CASE EndPolling
    BY <1>p, <2>3, GpuTypesStep DEF EndPolling, CallerTypes
  <2>4. CASE StopMonitors
    BY <1>g, <2>4, MonitorTypesStep DEF StopMonitors, CallerTypes
  <2>5. CASE ShutdownWmi
    <3>1. CallerTypes'
      BY <2>5 DEF ShutdownWmi, Return, CallerTypes
    <3>2. MonitorTypes'
      BY <2>5 DEF ShutdownWmi, MonitorTypes, threads, overlaps
    <3>3. QED
      BY <1>g, <2>5, <3>1, <3>2 DEF ShutdownWmi
  <2>6. QED
    BY <1>4, <2>1, <2>2, <2>3, <2>4, <2>5 DEF ShutdownStep
<1>5. QED
  BY <1>1, <1>2, <1>3, <1>4, CallerTypesStep DEF Next

(* Every variable of the shutdown, of the monitors and of the GPU's thread *)
(* stays in its range.                                                     *)
THEOREM ShutdownTypes == Spec => []TypeOK
<1>1. Init => MonitorTypes /\ GpuTypes /\ CallerTypes
  <2> SUFFICES ASSUME Init PROVE MonitorTypes /\ GpuTypes /\ CallerTypes
    OBVIOUS
  <2>1. /\ calls \in 0 .. MaxCalls[shown] /\ shown \in Configurations
        /\ call \in [Starter -> {"idle"} \X Monitor]
    BY AfterType, ConfigurationAssumption DEF Init, PerfInit
  <2>2. /\ open = {} /\ signalled = {} /\ lock = Nobody /\ server = "none"
        /\ ~ending /\ ending \in BOOLEAN /\ teardown \in BOOLEAN
        /\ once \in BOOLEAN /\ told \in BOOLEAN /\ init = 0
        /\ late = {} /\ cut = {} /\ twice = {}
        /\ hThread \in [Monitor -> {Invalid}]
        /\ hSignal \in [Monitor -> {Invalid}]
        /\ at \in [Thread -> {"off"}] /\ stop \in [Monitor -> {"todo"}]
    BY DEF Init, PerfInit
  <2>3. MonitorTypes
    BY <2>1, <2>2 DEF MonitorTypes
  <2>4. GpuTypes
    BY DEF Init, GpuInit, GpuTypes
  <2>5. CallerTypes
    BY DEF Init, CallerTypes, Caller
  <2>6. QED
    BY <2>3, <2>4, <2>5
<1>2. QED
  BY <1>1, TypesSplit, TypeStep, PTL DEF Spec

-----------------------------------------------------------------------------
(* The GPU's sensors.                                                      *)

(* The GPU's sensors: nothing is there before somebody asks for it, and    *)
(* unless the polling thread ended in the wrong moment, its buffers last   *)
(* as long as it may publish them, and it has taken them back before they  *)
(* are freed.                                                              *)
SensorInv ==
  /\ ~asked => /\ poll = "none" /\ handle # "open" /\ ~stats
               /\ \A r \in Reader : read[r] \in {"idle", "dead"}
  /\ ~abrupt /\ ~crossed =>
       /\ stats \/ poll \in {"ready", "wait"} => buffers
       /\ \A r \in Reader : read[r] = "use" /\ ~buffers => r \in overtaken
       /\ poll = "off" => ~stats
       /\ finish \in {"close", "free", "done"} =>
            poll \in {"none", "off"} /\ ~stats

(* A step of the readers, of the polling thread or of SK_EndGPUPolling.    *)
LEMMA SensorStep ==
  ASSUME GpuTypes, SensorInv,
         \/ \E r \in Reader : Ask(r) \/ TakePointer(r) \/ ReaderStep(r)
         \/ PollerStep \/ NoDevice \/ Sample \/ EndStep
  PROVE  SensorInv'
<1> USE DEF GpuTypes, SensorInv, ReadAt, PollerRest, EnderRest
<1>1. ASSUME NEW r \in Reader, Ask(r) PROVE SensorInv'
  BY <1>1 DEF Ask
<1>2. ASSUME NEW r \in Reader, MakeEvents(r) PROVE SensorInv'
  BY <1>2, ZenonT(30) DEF MakeEvents
<1>3. ASSUME NEW r \in Reader, MakeThread(r) PROVE SensorInv'
  BY <1>3 DEF MakeThread
<1>4. ASSUME NEW r \in Reader, AttachThread(r) PROVE SensorInv'
  BY <1>4 DEF AttachThread
<1>5. ASSUME NEW r \in Reader, TakePointer(r) PROVE SensorInv'
  BY <1>5 DEF TakePointer
<1>6. ASSUME NEW r \in Reader, Use(r) PROVE SensorInv'
  BY <1>6 DEF Use
<1>7. CASE Publish
  BY <1>7 DEF Publish
<1>8. CASE NoDevice
  BY <1>8 DEF NoDevice
<1>9. CASE AwaitPoll
  BY <1>9 DEF AwaitPoll
<1>10. CASE Sample
  BY <1>10 DEF Sample
<1>11. CASE SeeShutdown
  BY <1>11 DEF SeeShutdown
<1>12. CASE EndThread
  BY <1>12 DEF EndThread, TakenBack
<1>13. CASE BeginEnd
  BY <1>13, ZenonT(30) DEF BeginEnd
<1>14. CASE JoinPoller
  BY <1>14 DEF JoinPoller
<1>15. CASE GiveUpPoller
  BY <1>15 DEF GiveUpPoller
<1>16. CASE KillPoller
  BY <1>16, ZenonT(30) DEF KillPoller
<1>17. CASE CloseHandles
  BY <1>17 DEF CloseHandles
<1>18. CASE FreeBuffers
  BY <1>18 DEF FreeBuffers
<1>19. QED
  BY <1>1, <1>2, <1>3, <1>4, <1>5, <1>6, <1>7, <1>8, <1>9, <1>10, <1>11,
     <1>12, <1>13, <1>14, <1>15, <1>16, <1>17, <1>18
     DEF ReaderStep, PollerStep, EndStep

(* So does the whole program: only the end of the process, which clears    *)
(* the condition, touches the GPU's variables besides.                     *)
LEMMA SensorInvStep == TypeOK /\ SensorInv /\ [Next]_vars => SensorInv'
<1> SUFFICES ASSUME GpuTypes, SensorInv, [Next]_vars PROVE SensorInv'
  BY TypesSplit
<1>g. CASE UNCHANGED gvars
  BY <1>g DEF gvars, SensorInv
<1>1. CASE EndProcess
  BY <1>1 DEF EndProcess, SensorInv, GpuTypes
<1>2. CASE GpuPart \/ EndPolling
  BY <1>2, SensorStep DEF GpuPart, EndPolling
<1>3. QED
  BY <1>g, <1>1, <1>2
     DEF Next, vars, SelfDestruct, MonitorPart, ShutdownStep, Detach,
         ReleaseProcess, SetTeardown, StopMonitors, ShutdownWmi

(* gpu_monitor.cpp: whoever reads the sensors reads buffers that exist,    *)
(* unless it took the pointer before they were freed; but for a polling    *)
(* thread that was terminated or found no device, or began to live as it   *)
(* was ended.                                                              *)
THEOREM SensorsAreValid == Spec => []SensorsValid
<1>1. Init => SensorInv
  BY DEF Init, GpuInit, SensorInv
<1>2. SensorInv => SensorsValid
  BY DEF SensorInv, SensorsValid
<1>3. QED
  BY <1>1, <1>2, SensorInvStep, ShutdownTypes, PTL DEF Spec

-----------------------------------------------------------------------------
(* WMI.                                                                    *)

(* WMI: while there is no server, no monitor has got past waiting for it,  *)
(* and whoever found that it was not started is about to start it, until   *)
(* the process stops all threads, those that wait included.                *)
WmiInv ==
  /\ \A t \in Thread : t[1] \notin Wmi =>
       at[t] \notin {"spin", "enter", "query", "finish"}
  /\ server = "none" =>
       /\ init = 0 /\ lock = Nobody
       /\ \A t \in Thread : t[1] \in Wmi => at[t] \in {"off", "spin"}
  /\ ~once => \/ server # "none"
              \/ \E s \in Starter : In(s, "wmi")
              \/ \A s \in Starter : In(s, "dead")
  /\ \A t \in Thread : at[t] = "spin" =>
       /\ ~In(t[2], "dead")
       /\ ~once \/ \E s \in Starter : In(s, "store") /\ NeedsWmi(call[s][2])

(* A step of the monitors, their starters or the server.                   *)
LEMMA WmiStep ==
  ASSUME MonitorTypes, WmiInv,
         \/ \E s \in Starter : StarterStep(s)
         \/ ServerStep
         \/ \E t \in Thread : MonitorStep(t)
  PROVE  WmiInv'
<1>c. \A s \in Starter : call[s][2] \in Monitor
  BY DEF MonitorTypes
<1>d. \A t \in Thread : t[1] \in Monitor /\ t[2] \in Starter
  BY DEF Thread
<1>e. \A m \in Monitor, s \in Starter : <<m, s>> \in Thread
  BY DEF Thread
<1>f. \A m \in Monitor : /\ Idle[1] = "idle"
                         /\ After(m)[1] \in {"idle", "visit"}
  BY DEF Idle, After
<1> USE <1>c, <1>d, <1>e, <1>f
    DEF MonitorTypes, WmiInv, Goto, CallAt, In, NeedsWmi, threads, wmi,
        overlaps, Holding, Others
<1>1. ASSUME NEW s \in Starter, StartPerfMon(s) PROVE WmiInv'
  BY <1>1 DEF StartPerfMon
<1>2. ASSUME NEW s \in Starter, Pass(s) PROVE WmiInv'
  BY <1>2 DEF Pass, Advance
<1>3. ASSUME NEW s \in Starter, Claim(s) PROVE WmiInv'
  BY <1>3 DEF Claim
<1>4. ASSUME NEW s \in Starter, Create(s) PROVE WmiInv'
  BY <1>4 DEF Create
<1>5. ASSUME NEW s \in Starter, Store(s) PROVE WmiInv'
  <2> DEFINE m == call[s][2]
  <2>1. /\ In(s, "store") /\ UNCHANGED <<ending, at, lock, server, init>>
        /\ \A u \in Starter \ {s} : call'[u] = call[u]
    BY <1>5 DEF Store, Advance
  <2>2. CASE NeedsWmi(m) /\ once
    <3>1. once' = FALSE /\ call'[s] = <<"wmi", m>>
      BY <1>5, <2>2 DEF Store
    <3>2. QED
      BY <2>1, <3>1
  <2>3. CASE ~(NeedsWmi(m) /\ once)
    <3>1. once' = once /\ call'[s][1] \in {"idle", "visit"}
      BY <1>5, <2>3 DEF Store, Advance
    <3>2. \A u \in Starter : /\ In(u, "dead")' <=> In(u, "dead")
                             /\ In(u, "wmi") => In(u, "wmi")'
      BY <2>1, <3>1
    <3>3. ~once \/ ~NeedsWmi(m)
      BY <2>3
    <3>4. \A u \in Starter :
            once /\ In(u, "store") /\ NeedsWmi(call[u][2])
              => (In(u, "store") /\ NeedsWmi(call[u][2]))'
      BY <2>1, <3>3
    <3>5. QED
      BY <2>1, <3>1, <3>2, <3>4
  <2>4. QED
    BY <2>2, <2>3
<1>6. ASSUME NEW s \in Starter, InitWmi(s) PROVE WmiInv'
  BY <1>6 DEF InitWmi, Advance
<1>7. CASE Connect
  BY <1>7 DEF Connect
<1>8. CASE ConnectFails
  BY <1>8 DEF ConnectFails
<1>9. CASE Disconnect
  BY <1>9 DEF Disconnect
<1>10. ASSUME NEW t \in Thread, SeeInit(t) PROVE WmiInv'
  BY <1>10 DEF SeeInit
<1>11. ASSUME NEW t \in Thread, Enter(t) PROVE WmiInv'
  BY <1>11 DEF Enter
<1>12. ASSUME NEW t \in Thread, CreateSignal(t) PROVE WmiInv'
  BY <1>12 DEF CreateSignal, Unlocked
<1>13. ASSUME NEW t \in Thread, WmiFails(t) PROVE WmiInv'
  BY <1>13 DEF WmiFails
<1>14. ASSUME NEW t \in Thread, SeeSignal(t) PROVE WmiInv'
  BY <1>14 DEF SeeSignal
<1>15. ASSUME NEW t \in Thread, Query(t) PROVE WmiInv'
  BY <1>15 DEF Query
<1>16. ASSUME NEW t \in Thread, Refresh(t) PROVE WmiInv'
  BY <1>16 DEF Refresh, Unlocked
<1>17. ASSUME NEW t \in Thread, CloseSignal(t) PROVE WmiInv'
  BY <1>17 DEF CloseSignal
<1>18. ASSUME NEW t \in Thread, Leave(t) PROVE WmiInv'
  BY <1>18 DEF Leave, Unlocked
<1>19. QED
  BY <1>1, <1>2, <1>3, <1>4, <1>5, <1>6, <1>7, <1>8, <1>9, <1>10, <1>11,
     <1>12, <1>13, <1>14, <1>15, <1>16, <1>17, <1>18
     DEF StarterStep, ServerStep, MonitorStep

(* The shutdown begins only once the process is ending.                    *)
LEMMA WmiInvStep == TypeOK /\ SlotInv /\ WmiInv /\ [Next]_vars => WmiInv'
<1> SUFFICES ASSUME MonitorTypes, SlotInv, WmiInv, [Next]_vars PROVE WmiInv'
  BY TypesSplit
<1>p. CASE UNCHANGED <<ending, at, lock, once, server, init, call>>
  BY <1>p DEF WmiInv, In
<1>1. CASE MonitorPart
  BY <1>1, WmiStep DEF MonitorPart
<1>2. ASSUME NEW c \in Caller, SelfDestruct(c) PROVE WmiInv'
  BY <1>2 DEF SelfDestruct, WmiInv, threads, wmi, In
<1>3. CASE EndProcess
  BY <1>3 DEF EndProcess, WmiInv, In
<1>4. CASE ShutdownWmi
  <2>1. ending /\ UNCHANGED <<ending, at, lock, once, server, call>>
    BY <1>4 DEF ShutdownWmi, threads, SlotInv, NotBegun
  <2>2. init' \in {0, init}
    BY <1>4 DEF ShutdownWmi
  <2>3. QED
    BY <2>1, <2>2 DEF WmiInv, MonitorTypes, In
<1>5. ASSUME NEW m \in Monitor, StopStep(m), StopMonitors PROVE WmiInv'
  <2>1. ending /\ UNCHANGED <<ending, once, server, init, call, lock>>
    BY <1>5
       DEF StopMonitors, SlotInv, NotBegun, StopStep, BeginStop, Join,
           GiveUp, Kill, Forget, DropSignal, Apart, wmi, threads
  <2>2. \A t \in Thread : at'[t] \in {"off", at[t]}
    BY <1>5
       DEF StopStep, BeginStop, Join, GiveUp, Kill, Forget, DropSignal,
           threads, Goto, MonitorTypes
  <2>3. QED
    BY <2>1, <2>2 DEF WmiInv, In
<1>6. QED
  BY <1>p, <1>1, <1>2, <1>3, <1>4, <1>5
     DEF Next, vars, pvars, threads, wmi, GpuPart, ShutdownStep, Detach,
         ReleaseProcess, SetTeardown, EndPolling, StopMonitors

(* com_util.cpp: a monitor that waits for WMI waits for a server that was  *)
(* started, or that somebody is about to start.                            *)
THEOREM WmiIsUnderWay == Spec => []WmiUnderWay
<1>1. Init => WmiInv
  BY DEF Init, PerfInit, WmiInv
<1>2. WmiInv => WmiUnderWay
  BY DEF WmiInv, WmiUnderWay, Thread
<1>3. QED
  BY <1>1, <1>2, WmiInvStep, SlotInvInit, SlotInvStep, ShutdownTypes, PTL
     DEF Spec

-----------------------------------------------------------------------------
(* The monitors' threads and events.                                       *)

(* Who is on the way to make m's thread.                                   *)
Making(s, m) == call[s] \in {<<"create", m>>, <<"store", m>>}

(* What the cell hThread of a monitor says of its threads, unless a start  *)
(* overlapped the shutdown: if it is invalid there is none and nobody who  *)
(* makes one; if it is null there is one who does; otherwise there is none *)
(* but the one it stands for.                                              *)
OneThread(m) ==
  /\ hThread[m] # Null => \A s \in Starter : ~Making(s, m)
  /\ \A s, u \in Starter : Making(s, m) /\ Making(u, m) => s = u
  /\ \A s \in Starter : Running(<<m, s>>) =>
       IF hThread[m] = Null THEN call[s] = <<"store", m>>
                            ELSE hThread[m] = s
  /\ stop[m] = "wait" => hThread[m] \in Starter
  /\ stop[m] = "forget" => /\ hThread[m] \in Starter
                           /\ ~Running(<<m, hThread[m]>>)
  /\ stop[m] \in {"signal", "done"} => hThread[m] = Invalid

(* The event of a monitor is that of its only thread, and exists unless    *)
(* that thread has closed it and is about to say so.                       *)
OneSignal(m) ==
  /\ hThread[m] = Invalid /\ ~ending => hSignal[m] = Invalid
  /\ hThread[m] = Null =>
       \A s \in Starter : Making(s, m) =>
         hSignal[m] \in {Invalid} \cup (IF In(s, "store") THEN {s} ELSE {})
  /\ hThread[m] \in Starter => hSignal[m] \in {Invalid, hThread[m]}

Closed(m) ==
  hSignal[m] # Invalid /\ Event(m) \notin open => at[Event(m)] = "clear"

MonitorInv ==
  /\ \A m \in Monitor : stop[m] # "todo" => ending
  /\ \A m \in Monitor \ late : OneThread(m) /\ OneSignal(m)
  /\ \A m \in Monitor \ (late \cup cut) : Closed(m)
  /\ twice \subseteq late \cup cut

(* A starter that moves on at another monitor.                             *)
LEMMA Elsewhere ==
  ASSUME NEW n \in Monitor, NEW s \in Starter, OneThread(n), OneSignal(n),
         ~Making(s, n), ~Making(s, n)',
         \A u \in Starter \ {s} : call'[u] = call[u],
         hThread'[n] = hThread[n], UNCHANGED <<ending, hSignal, at, stop>>
  PROVE  (OneThread(n) /\ OneSignal(n))'
<1>1. \A u \in Starter :
        Making(u, n) \/ Making(u, n)' => call'[u] = call[u]
  BY DEF Making
<1>2. \A u \in Starter : Making(u, n)' <=> Making(u, n)
  BY <1>1 DEF Making
<1>3. \A u \in Starter : Running(<<n, u>>)' <=> Running(<<n, u>>)
  BY DEF Running
<1>4. \A u \in Starter :
        call[u] = <<"store", n>> => call'[u] = <<"store", n>>
  BY <1>1 DEF Making
<1>5. OneThread(n)'
  <2>1. \A u \in Starter : Running(<<n, u>>)' =>
          IF hThread'[n] = Null THEN call'[u] = <<"store", n>>
                                ELSE hThread'[n] = u
    BY <1>3, <1>4 DEF OneThread
  <2>2. stop'[n] = "forget" => /\ hThread'[n] \in Starter
                               /\ ~Running(<<n, hThread[n]>>)'
    BY <1>3 DEF OneThread
  <2>3. QED
    BY <1>2, <2>1, <2>2 DEF OneThread
<1>6. OneSignal(n)'
  BY <1>1, <1>2 DEF OneSignal, In
<1>7. QED
  BY <1>5, <1>6

(* What a step of anyone means for one monitor that no start overlaps.     *)
LEMMA OneThreadStep ==
  ASSUME MonitorTypes, NEW n \in Monitor, n \notin late', OneThread(n),
         OneSignal(n), stop[n] # "todo" => ending,
         \/ \E s \in Starter : StarterStep(s)
         \/ ServerStep
         \/ \E t \in Thread : MonitorStep(t)
         \/ \E m \in Monitor : StopStep(m) /\ ending
  PROVE  (OneThread(n) /\ OneSignal(n))'
<1>c. \A s \in Starter : /\ call[s][2] \in Monitor
                        /\ call[s] = <<call[s][1], call[s][2]>>
  BY DEF MonitorTypes
<1>d. \A t \in Thread : /\ t[1] \in Monitor /\ t[2] \in Starter
                      /\ t = <<t[1], t[2]>>
  BY DEF Thread
<1>e. \A m \in Monitor, s \in Starter : <<m, s>> \in Thread
  BY DEF Thread
<1>f. \A m \in Monitor : /\ Idle[1] = "idle"
                         /\ After(m)[1] \in {"idle", "visit"}
  BY DEF Idle, After
<1> USE <1>c, <1>d, <1>e, <1>f, HandleAssumption
    DEF MonitorTypes, OneThread, OneSignal, Making, Running, Goto, CallAt,
        StopAt, In, threads, wmi, overlaps, Holding, Others, Apart
<1>1. ASSUME NEW s \in Starter, StartPerfMon(s)
      PROVE  (OneThread(n) /\ OneSignal(n))'
  BY <1>1 DEF StartPerfMon
<1>2. ASSUME NEW s \in Starter, Pass(s) PROVE (OneThread(n) /\ OneSignal(n))'
  BY <1>2 DEF Pass, Advance
<1>3. ASSUME NEW s \in Starter, Claim(s)
      PROVE  (OneThread(n) /\ OneSignal(n))'
  <2> DEFINE m == call[s][2]
  <2>1. /\ hThread' = [hThread EXCEPT ![m] = Null] /\ hThread[m] = Invalid
        /\ call' = [call EXCEPT ![s] = <<"create", m>>] /\ In(s, "visit")
        /\ UNCHANGED <<ending, hSignal, at, stop>>
        /\ late' = IF ending THEN late \cup {m} ELSE late
    BY <1>3 DEF Claim, MayClaim
  <2>2. CASE m # n
    <3>1. hThread'[n] = hThread[n] /\ ~Making(s, n) /\ ~Making(s, n)'
      BY <2>1, <2>2
    <3>2. \A u \in Starter \ {s} : call'[u] = call[u]
      BY <2>1
    <3>3. QED
      BY <2>1, <3>1, <3>2, Elsewhere
  <2>3. CASE m = n
    <3>1. ~ending /\ stop[n] = "todo" /\ hSignal[n] = Invalid
      BY <2>1, <2>3
    <3>2. \A u \in Starter : ~Making(u, n) /\ ~Running(<<n, u>>)
      BY <2>1, <2>3
    <3>3. hThread'[n] = Null /\ \A u \in Starter : Making(u, n)' => u = s
      BY <2>1, <2>3, <3>2
    <3>4. QED
      BY <2>1, <2>3, <3>1, <3>2, <3>3
  <2>4. QED
    BY <2>2, <2>3
<1>4. ASSUME NEW s \in Starter, Create(s)
      PROVE  (OneThread(n) /\ OneSignal(n))'
  BY <1>4 DEF Create
<1>5. ASSUME NEW s \in Starter, Store(s)
      PROVE  (OneThread(n) /\ OneSignal(n))'
  <2> DEFINE m == call[s][2]
  <2>1. /\ hThread' = [hThread EXCEPT ![m] = s] /\ call[s] = <<"store", m>>
        /\ call'[s][1] \in {"wmi", "idle", "visit"}
        /\ \A u \in Starter \ {s} : call'[u] = call[u]
        /\ UNCHANGED <<ending, hSignal, at, stop>>
    BY <1>5 DEF Store, Advance
  <2>2. CASE m # n
    <3>1. hThread'[n] = hThread[n] /\ ~Making(s, n) /\ ~Making(s, n)'
      BY <2>1, <2>2
    <3>2. \A u \in Starter \ {s} : call'[u] = call[u]
      BY <2>1
    <3>3. UNCHANGED <<ending, hSignal, at, stop>>
      BY <2>1
    <3> HIDE DEF OneThread, OneSignal, Making, MonitorTypes, Running, In
    <3>4. QED
      BY <3>1, <3>2, <3>3, Elsewhere
  <2>3. CASE m = n
    <3>1. hThread[n] = Null /\ hThread'[n] = s /\ Making(s, n)
      BY <2>1, <2>3
    <3>2. \A u \in Starter : ~Making(u, n)'
      BY <2>1, <2>3, <3>1
    <3>3. \A u \in Starter : Running(<<n, u>>)' => u = s
      BY <2>1, <2>3, <3>1
    <3>4. hSignal'[n] \in {Invalid, s}
      BY <2>1, <2>3, <3>1
    <3>5. stop'[n] \notin {"wait", "forget", "signal", "done"}
      BY <2>1, <3>1
    <3>6. QED
      BY <2>1, <3>1, <3>2, <3>3, <3>4, <3>5
  <2>4. QED
    BY <2>2, <2>3
<1>6. ASSUME NEW s \in Starter, InitWmi(s)
      PROVE  (OneThread(n) /\ OneSignal(n))'
  BY <1>6 DEF InitWmi, Advance
<1>7. CASE Connect
  BY <1>7 DEF Connect
<1>8. CASE ConnectFails
  BY <1>8 DEF ConnectFails
<1>9. CASE Disconnect
  BY <1>9 DEF Disconnect
<1>10. ASSUME NEW t \in Thread, SeeInit(t)
      PROVE  (OneThread(n) /\ OneSignal(n))'
  BY <1>10 DEF SeeInit
<1>11. ASSUME NEW t \in Thread, Enter(t)
      PROVE  (OneThread(n) /\ OneSignal(n))'
  BY <1>11 DEF Enter
<1>12. ASSUME NEW t \in Thread, CreateSignal(t)
      PROVE  (OneThread(n) /\ OneSignal(n))'
  <2>1. /\ at[t] = "setup" /\ at' = [at EXCEPT ![t] = "loop"]
        /\ hSignal' = [hSignal EXCEPT ![t[1]] = t[2]]
        /\ UNCHANGED <<ending, hThread, call, stop>>
    BY <1>12 DEF CreateSignal
  <2>2. \A u \in Starter : Running(<<n, u>>)' <=> Running(<<n, u>>)
    BY <2>1
  <2>3. CASE t[1] # n
    BY <2>1, <2>2, <2>3
  <2>4. CASE t[1] = n
    <3>1. t[2] \in Starter /\ Running(<<n, t[2]>>) /\ hSignal'[n] = t[2]
      BY <2>1, <2>4
    <3>2. OneThread(n)'
      BY <2>1, <2>2
    <3>3. IF hThread[n] = Null THEN call[t[2]] = <<"store", n>>
                               ELSE hThread[n] = t[2]
      BY <3>1
    <3>4. QED
      BY <2>1, <3>1, <3>2, <3>3
  <2>5. QED
    BY <2>3, <2>4
<1>13. ASSUME NEW t \in Thread, WmiFails(t)
      PROVE  (OneThread(n) /\ OneSignal(n))'
  BY <1>13 DEF WmiFails
<1>14. ASSUME NEW t \in Thread, SeeSignal(t)
      PROVE  (OneThread(n) /\ OneSignal(n))'
  BY <1>14 DEF SeeSignal
<1>15. ASSUME NEW t \in Thread, Query(t)
      PROVE  (OneThread(n) /\ OneSignal(n))'
  BY <1>15 DEF Query
<1>16. ASSUME NEW t \in Thread, Refresh(t)
      PROVE  (OneThread(n) /\ OneSignal(n))'
  BY <1>16 DEF Refresh
<1>17. ASSUME NEW t \in Thread, CloseSignal(t)
      PROVE  (OneThread(n) /\ OneSignal(n))'
  BY <1>17 DEF CloseSignal
<1>18. ASSUME NEW t \in Thread, Leave(t)
      PROVE  (OneThread(n) /\ OneSignal(n))'
  BY <1>18 DEF Leave, Cleared
<1>19. ASSUME ending, NEW m \in Monitor, BeginStop(m)
      PROVE  (OneThread(n) /\ OneSignal(n))'
  BY <1>19 DEF BeginStop
<1>20. ASSUME ending, NEW m \in Monitor, Join(m)
      PROVE  (OneThread(n) /\ OneSignal(n))'
  <2>1. /\ hThread' = [hThread EXCEPT ![m] = Invalid]
        /\ stop' = [stop EXCEPT ![m] = "signal"] /\ stop[m] = "wait"
        /\ ~Running(<<m, hThread[m]>>)
        /\ UNCHANGED <<ending, hSignal, at, call>>
    BY <1>20 DEF Join
  <2>2. CASE m # n
    BY <2>1, <2>2
  <2>3. CASE m = n
    <3>1. hThread[n] \in Starter /\ hThread'[n] = Invalid /\ ending'
      BY <1>20, <2>1, <2>3
    <3>2. \A u \in Starter : ~Making(u, n) /\ ~Running(<<n, u>>)
      BY <2>1, <2>3, <3>1
    <3>3. QED
      BY <2>1, <2>3, <3>1, <3>2
  <2>4. QED
    BY <2>2, <2>3
<1>21. ASSUME ending, NEW m \in Monitor, GiveUp(m)
      PROVE  (OneThread(n) /\ OneSignal(n))'
  BY <1>21 DEF GiveUp
<1>22. ASSUME ending, NEW m \in Monitor, Kill(m)
      PROVE  (OneThread(n) /\ OneSignal(n))'
  <2>1. /\ stop' = [stop EXCEPT ![m] = "forget"] /\ stop[m] = "kill"
        /\ UNCHANGED <<ending, hThread, hSignal, call>>
        /\ hThread[m] \in Starter =>
             at' = [at EXCEPT ![<<m, hThread[m]>>] = "off"]
        /\ hThread[m] \notin Starter =>
             at' = at /\ late' = late \cup {m}
    BY <1>22 DEF Kill
  <2>2. CASE m # n
    BY <2>1, <2>2
  <2>3. CASE m = n
    <3>1. hThread[n] \in Starter /\ ~Running(<<n, hThread[n]>>)'
      BY <2>1, <2>3
    <3>2. \A u \in Starter : Running(<<n, u>>)' => Running(<<n, u>>)
      BY <2>1, <2>3, <3>1, ZenonT(30)
    <3>3. QED
      BY <2>1, <2>3, <3>1, <3>2
  <2>4. QED
    BY <2>2, <2>3
<1>23. ASSUME ending, NEW m \in Monitor, Forget(m)
      PROVE  (OneThread(n) /\ OneSignal(n))'
  <2>1. /\ stop[m] = "forget" /\ hThread' = [hThread EXCEPT ![m] = Invalid]
        /\ stop' = [stop EXCEPT ![m] = "signal"]
        /\ UNCHANGED <<ending, hSignal, at, call>>
    BY <1>23 DEF Forget
  <2>2. CASE m # n
    BY <2>1, <2>2
  <2>3. CASE m = n
    <3>1. \A u \in Starter : ~Running(<<n, u>>) /\ ~Making(u, n)
      BY <2>1, <2>3
    <3>2. QED
      BY <1>23, <2>1, <2>3, <3>1
  <2>4. QED
    BY <2>2, <2>3
<1>24. ASSUME ending, NEW m \in Monitor, DropSignal(m)
      PROVE  (OneThread(n) /\ OneSignal(n))'
  BY <1>24 DEF DropSignal
<1>25. QED
  BY <1>1, <1>2, <1>3, <1>4, <1>5, <1>6, <1>7, <1>8, <1>9, <1>10, <1>11,
     <1>12, <1>13, <1>14, <1>15, <1>16, <1>17, <1>18, <1>19, <1>20, <1>21,
     <1>22, <1>23, <1>24
     DEF StarterStep, ServerStep, MonitorStep, StopStep

(* The thread that closes the event of a monitor, and the shutdown when it *)
(* drops it, find it open.                                                 *)
LEMMA EventStep ==
  ASSUME MonitorTypes, NEW n \in Monitor, n \notin cut', OneThread(n),
         OneSignal(n), Closed(n), n \notin twice,
         \/ \E s \in Starter : StarterStep(s)
         \/ ServerStep
         \/ \E t \in Thread : MonitorStep(t)
         \/ \E m \in Monitor : StopStep(m)
  PROVE  (Closed(n) /\ n \notin twice)'
<1>d. \A t \in Thread : /\ t[1] \in Monitor /\ t[2] \in Starter
                      /\ t = <<t[1], t[2]>>
  BY DEF Thread
<1>e. \A m \in Monitor, s \in Starter : <<m, s>> \in Thread
  BY DEF Thread
<1>g. hSignal[n] # Invalid => hSignal[n] \in Starter
  BY DEF MonitorTypes
<1>s. ASSUME UNCHANGED <<hSignal, open, at, twice>>
      PROVE  (Closed(n) /\ n \notin twice)'
  BY <1>s DEF Closed, Event
<1>w. ASSUME NEW t \in Thread, NEW x, at[t] # "clear", Goto(t, x),
             UNCHANGED <<hSignal, open, twice>>
      PROVE  (Closed(n) /\ n \notin twice)'
  BY <1>e, <1>g, <1>w DEF Closed, Event, Goto, MonitorTypes
<1>1. ASSUME NEW s \in Starter, StarterStep(s), ~Create(s)
      PROVE  UNCHANGED <<hSignal, open, at, twice>>
  BY <1>1 DEF StarterStep, StartPerfMon, Pass, Claim, Store, InitWmi,
              threads, overlaps
<1>2. ASSUME NEW s \in Starter, Create(s)
      PROVE  (Closed(n) /\ n \notin twice)'
  <2> DEFINE m == call[s][2]
             t == <<m, s>>
  <2>1. /\ m \in Monitor /\ call[s] = <<"create", m>>
        /\ Goto(t, IF m \in Wmi THEN "spin" ELSE "setup")
        /\ UNCHANGED <<hSignal, open, twice>>
    BY <1>2 DEF Create, In, MonitorTypes, overlaps
  <2>2. CASE m # n
    BY <2>1, <2>2, <1>e, <1>g DEF Closed, Event, Goto, MonitorTypes
  <2>3. CASE m = n
    <3>1. Making(s, n) /\ call[s] # <<"store", n>>
      BY <2>1, <2>3 DEF Making
    <3>2. ~Running(t)
      BY <3>1, <2>3 DEF OneThread
    <3>3. t \in Thread /\ at[t] # "clear"
      BY <3>2, <2>1, <1>e DEF Running
    <3>4. QED
      BY <3>3, <2>1, <1>w
  <2>4. QED
    BY <2>2, <2>3
<1>3. CASE ServerStep
  BY <1>3, <1>s DEF ServerStep, Connect, ConnectFails, Disconnect, threads,
                    overlaps
<1>4. ASSUME NEW t \in Thread, MonitorStep(t)
      PROVE  (Closed(n) /\ n \notin twice)'
  <2>1. CASE \/ SeeInit(t) \/ Enter(t) \/ WmiFails(t) \/ SeeSignal(t)
             \/ Query(t) \/ Refresh(t)
    <3>1. /\ at[t] # "clear" /\ UNCHANGED <<hSignal, open, twice>>
          /\ \E x : Goto(t, x)
      BY <2>1 DEF SeeInit, Enter, WmiFails, SeeSignal, Query, Refresh,
                  overlaps
    <3>2. QED
      BY <3>1, <1>w
  <2>2. CASE CreateSignal(t)
    <3>1. /\ at[t] = "setup" /\ at' = [at EXCEPT ![t] = "loop"]
          /\ hSignal' = [hSignal EXCEPT ![t[1]] = t[2]]
          /\ open' = open \cup {t} /\ twice' = twice
      BY <2>2 DEF CreateSignal, Goto, overlaps
    <3>2. CASE t[1] = n
      <4>1. hSignal'[n] = t[2]
        BY <3>1, <3>2 DEF MonitorTypes
      <4>2. Event(n)' = t /\ t \in open'
        BY <4>1, <3>1, <3>2, <1>d DEF Event
      <4>3. QED
        BY <4>2, <3>1 DEF Closed
    <3>3. CASE t[1] # n
      <4>1. hSignal'[n] = hSignal[n]
        BY <3>1, <3>3 DEF MonitorTypes
      <4>2. at'[<<n, hSignal[n]>>] = at[<<n, hSignal[n]>>]
            \/ hSignal[n] = Invalid
        BY <3>1, <3>3, <1>d, <1>e, <1>g DEF MonitorTypes
      <4>3. QED
        BY <4>1, <4>2, <3>1 DEF Closed, Event
    <3>4. QED
      BY <3>2, <3>3
  <2>3. CASE CloseSignal(t)
    <3>1. /\ at[t] = "clean" /\ at' = [at EXCEPT ![t] = "clear"]
          /\ hSignal[t[1]] # Invalid /\ hSignal' = hSignal
          /\ open' = open \ {Event(t[1])}
          /\ twice' = IF Event(t[1]) \in open THEN twice
                                             ELSE twice \cup {t[1]}
      BY <2>3 DEF CloseSignal, CloseEvent, Goto, Others
    <3>2. CASE t[1] = n
      <4>1. Running(<<n, t[2]>>) /\ t[2] \in Starter /\ t = <<n, t[2]>>
        BY <3>1, <3>2, <1>d DEF Running
      <4>2. IF hThread[n] = Null THEN call[t[2]] = <<"store", n>>
                                 ELSE hThread[n] = t[2]
        BY <4>1 DEF OneThread
      <4>3. hSignal[n] = t[2]
        BY <4>1, <4>2, <3>1, <3>2 DEF OneSignal, Making, In
      <4>4. Event(n) = t /\ Event(n)' = t
        BY <4>1, <4>3, <3>1 DEF Event
      <4>5. Event(n) \in open
        BY <4>4, <3>1, <3>2 DEF Closed
      <4>6. twice' = twice /\ at'[t] = "clear"
        BY <4>5, <3>1, <3>2 DEF MonitorTypes
      <4>7. QED
        BY <4>4, <4>6 DEF Closed
    <3>3. CASE t[1] # n
      <4>1. Event(t[1]) # Event(n) /\ Event(n)' = Event(n)
        BY <3>1, <3>3 DEF Event
      <4>2. at'[Event(n)] = at[Event(n)] \/ hSignal[n] = Invalid
        BY <3>1, <3>3, <1>d, <1>e, <1>g DEF MonitorTypes, Event
      <4>3. n \notin twice'
        BY <3>1, <3>3
      <4>4. QED
        BY <4>1, <4>2, <4>3, <3>1 DEF Closed
    <3>4. QED
      BY <3>2, <3>3
  <2>4. CASE Leave(t)
    <3>1. /\ at' = [at EXCEPT ![t] = "off"] /\ UNCHANGED <<open, twice>>
          /\ \/ /\ at[t] = "clear"
                /\ hSignal' = [hSignal EXCEPT ![t[1]] = Invalid]
             \/ at[t] = "clean" /\ hSignal' = hSignal
      BY <2>4 DEF Leave, Cleared, Goto, overlaps
    <3>2. CASE at[t] = "clean"
      BY <3>1, <3>2, <1>w DEF Goto
    <3>3. CASE at[t] = "clear" /\ t[1] = n
      BY <3>1, <3>3 DEF Closed, MonitorTypes
    <3>4. CASE at[t] = "clear" /\ t[1] # n
      <4>1. hSignal'[n] = hSignal[n]
        BY <3>1, <3>4 DEF MonitorTypes
      <4>2. at'[<<n, hSignal[n]>>] = at[<<n, hSignal[n]>>]
            \/ hSignal[n] = Invalid
        BY <3>1, <3>4, <1>d, <1>e, <1>g DEF MonitorTypes
      <4>3. QED
        BY <4>1, <4>2, <3>1 DEF Closed, Event
    <3>5. QED
      BY <3>1, <3>2, <3>3, <3>4
  <2>5. QED
    BY <1>4, <2>1, <2>2, <2>3, <2>4 DEF MonitorStep
<1>5. ASSUME NEW m \in Monitor, StopStep(m)
      PROVE  (Closed(n) /\ n \notin twice)'
  <2>1. CASE BeginStop(m) \/ Join(m) \/ GiveUp(m) \/ Forget(m)
    BY <2>1, <1>s DEF BeginStop, Join, GiveUp, Forget, threads, overlaps
  <2>2. CASE Kill(m)
    <3> DEFINE t == <<m, hThread[m]>>
    <3>1. UNCHANGED <<hSignal, open, twice>>
      BY <2>2 DEF Kill
    <3>2. CASE hThread[m] \notin Starter
      BY <3>1, <3>2, <2>2, <1>s DEF Kill
    <3>3. CASE hThread[m] \in Starter
      <4>1. /\ t \in Thread /\ Goto(t, "off")
            /\ cut' = IF at[t] = "clear" THEN cut \cup {m} ELSE cut
        BY <3>3, <2>2, <1>e DEF Kill
      <4>2. CASE at[t] # "clear"
        BY <4>1, <4>2, <3>1, <1>w
      <4>3. CASE at[t] = "clear"
        <5>1. m # n
          BY <4>1, <4>3
        <5>2. at'[<<n, hSignal[n]>>] = at[<<n, hSignal[n]>>]
              \/ hSignal[n] = Invalid
          BY <5>1, <4>1, <1>e, <1>g DEF MonitorTypes, Goto
        <5>3. QED
          BY <5>2, <3>1 DEF Closed, Event
      <4>4. QED
        BY <4>2, <4>3
    <3>4. QED
      BY <3>2, <3>3
  <2>3. CASE DropSignal(m)
    <3>1. at' = at /\ stop[m] = "signal"
      BY <2>3 DEF DropSignal
    <3>2. CASE hSignal[m] = Invalid
      BY <2>3, <3>2, <1>s DEF DropSignal
    <3>3. CASE hSignal[m] # Invalid
      <4>1. /\ open' = open \ {Event(m)}
            /\ twice' = IF Event(m) \in open THEN twice
                                            ELSE twice \cup {m}
            /\ hSignal' = [hSignal EXCEPT ![m] = Invalid]
        BY <2>3, <3>3 DEF DropSignal, CloseEvent
      <4>2. CASE m = n
        <5>1. hThread[n] = Invalid
          BY <3>1, <4>2 DEF OneThread
        <5>2. ~Running(<<n, hSignal[n]>>)
          BY <5>1, <4>2, <3>3, <1>g, HandleAssumption DEF OneThread
        <5>3. Event(n) \in open
          BY <5>2, <3>3, <4>2 DEF Closed, Running, Event
        <5>4. hSignal'[n] = Invalid
          BY <4>1, <4>2 DEF MonitorTypes
        <5>5. QED
          BY <5>3, <5>4, <4>1, <4>2 DEF Closed
      <4>3. CASE m # n
        <5>1. hSignal'[n] = hSignal[n]
          BY <4>1, <4>3 DEF MonitorTypes
        <5>2. Event(n)' = Event(n) /\ Event(m) # Event(n)
          BY <5>1, <4>3 DEF Event
        <5>3. QED
          BY <5>1, <5>2, <3>1, <4>1, <4>3 DEF Closed
      <4>4. QED
        BY <4>2, <4>3
    <3>4. QED
      BY <3>2, <3>3
  <2>4. QED
    BY <1>5, <2>1, <2>2, <2>3 DEF StopStep
<1>6. QED
  BY <1>s, <1>1, <1>2, <1>3, <1>4, <1>5

(* What is said of a monitor that was started too late, or terminated too  *)
(* soon, is never taken back; and nobody stops monitors before the end.    *)
LEMMA HistoryGrows ==
  ASSUME MonitorTypes,
         \A m \in Monitor : stop[m] # "todo" => ending,
         \/ \E s \in Starter : StarterStep(s)
         \/ ServerStep
         \/ \E t \in Thread : MonitorStep(t)
         \/ \E m \in Monitor : StopStep(m) /\ ending
  PROVE  /\ late \subseteq late' /\ cut \subseteq cut'
         /\ \A m \in Monitor : stop'[m] # "todo" => ending'
<1> USE DEF threads, wmi, overlaps, Others, Apart
<1>1. ASSUME NEW s \in Starter, StarterStep(s)
      PROVE  late \subseteq late' /\ UNCHANGED <<cut, stop, ending>>
  BY <1>1 DEF StarterStep, StartPerfMon, Pass, Claim, Create, Store, InitWmi
<1>2. CASE ServerStep
  BY <1>2 DEF ServerStep, Connect, ConnectFails, Disconnect
<1>3. ASSUME NEW t \in Thread, MonitorStep(t)
      PROVE  UNCHANGED <<late, cut, stop, ending>>
  BY <1>3 DEF MonitorStep, SeeInit, Enter, CreateSignal, WmiFails, SeeSignal,
              Query, Refresh, CloseSignal, Leave
<1>4. ASSUME NEW m \in Monitor, StopStep(m), ending
      PROVE  late \subseteq late' /\ cut \subseteq cut' /\ ending'
  BY <1>4 DEF StopStep, BeginStop, Join, GiveUp, Kill, Forget, DropSignal
<1>5. QED
  BY <1>1, <1>2, <1>3, <1>4

(* For every monitor at once, and for those who end the process.           *)
LEMMA MonitorInvStep ==
  TypeOK /\ SlotInv /\ MonitorInv /\ [Next]_vars => MonitorInv'
<1> SUFFICES ASSUME MonitorTypes, SlotInv, MonitorInv, [Next]_vars
             PROVE  MonitorInv'
  BY TypesSplit
<1>p. CASE UNCHANGED <<ending, hThread, hSignal, open, at, call, stop, late,
                       cut, twice>>
  BY <1>p DEF MonitorInv, OneThread, OneSignal, Closed, Making, Running, In,
              Event
<1>1. CASE \/ \E s \in Starter : StarterStep(s)
           \/ ServerStep
           \/ \E t \in Thread : MonitorStep(t)
           \/ \E m \in Monitor : StopStep(m) /\ ending
  <2>1. /\ late \subseteq late' /\ cut \subseteq cut'
        /\ \A m \in Monitor : stop'[m] # "todo" => ending'
    BY <1>1, HistoryGrows DEF MonitorInv
  <2>2. ASSUME NEW n \in Monitor \ late'
        PROVE  (OneThread(n) /\ OneSignal(n))'
    <3>1. OneThread(n) /\ OneSignal(n) /\ (stop[n] # "todo" => ending)
      BY <2>1 DEF MonitorInv
    <3>2. QED
      BY <3>1, <1>1, OneThreadStep
  <2>3. ASSUME NEW n \in Monitor \ (late' \cup cut')
        PROVE  (Closed(n) /\ n \notin twice)'
    <3>1. OneThread(n) /\ OneSignal(n) /\ Closed(n) /\ n \notin twice
      BY <2>1 DEF MonitorInv
    <3>2. QED
      BY <3>1, <1>1, EventStep
  <2>4. twice' \subseteq Monitor
    BY <1>1, MonitorTypesStep DEF MonitorTypes
  <2>5. QED
    BY <2>1, <2>2, <2>3, <2>4 DEF MonitorInv
<1>2. ASSUME NEW c \in Caller, SelfDestruct(c) PROVE MonitorInv'
  <2>1. UNCHANGED <<hThread, hSignal, open, at, call, stop, late, cut, twice>>
        /\ (ending => ending')
    BY <1>2 DEF SelfDestruct, threads, overlaps
  <2>2. QED
    BY <2>1 DEF MonitorInv, OneThread, OneSignal, Closed, Making, Running, In,
                Event
<1>3. CASE EndProcess
  <2>1. /\ UNCHANGED <<hThread, hSignal, open, stop, late, twice>> /\ ending'
        /\ at' = [t \in Thread |-> "off"]
        /\ call' = [s \in Starter |-> <<"dead", 1>>]
        /\ cut' = cut \cup {t[1] : t \in {u \in Thread : at[u] = "clear"}}
    BY <1>3 DEF EndProcess
  <2>2. \A m \in Monitor, s \in Starter :
          ~Making(s, m)' /\ ~Running(<<m, s>>)'
    BY <2>1 DEF Making, Running, Thread
  <2>3. ASSUME NEW n \in Monitor \ late
        PROVE  (OneThread(n) /\ OneSignal(n))'
    <3>1. OneThread(n) /\ OneSignal(n)
      BY DEF MonitorInv
    <3>2. QED
      BY <2>1, <2>2, <3>1 DEF OneThread, OneSignal
  <2>4. ASSUME NEW n \in Monitor \ (late \cup cut')
        PROVE  Closed(n)'
    <3>1. Closed(n) /\ (hSignal[n] # Invalid => Event(n) \in Thread)
      BY <2>1 DEF MonitorInv, MonitorTypes, Event, Thread
    <3>2. Event(n) \in Thread => at[Event(n)] # "clear"
      <4> SUFFICES ASSUME Event(n) \in Thread, at[Event(n)] = "clear"
                   PROVE  FALSE
        OBVIOUS
      <4>1. Event(n)[1] \in cut'
        BY <2>1
      <4>2. QED
        BY <4>1 DEF Event
    <3>3. QED
      BY <2>1, <3>1, <3>2 DEF Closed, Event
  <2>5. QED
    BY <2>1, <2>3, <2>4 DEF MonitorInv
<1>4. CASE StopMonitors
  BY <1>1, <1>4 DEF StopMonitors, SlotInv, NotBegun
<1>5. CASE MonitorPart
  BY <1>1, <1>5 DEF MonitorPart
<1>6. QED
  BY <1>p, <1>2, <1>3, <1>4, <1>5
     DEF Next, vars, pvars, threads, wmi, overlaps, GpuPart, ShutdownStep,
         Detach, ReleaseProcess, SetTeardown, EndPolling, ShutdownWmi

(* At the start there is no monitor thread, no event and no handle.        *)
LEMMA MonitorInvInit == Init => MonitorInv
<1>1. ASSUME Init, NEW m \in Monitor
      PROVE  OneThread(m) /\ OneSignal(m) /\ Closed(m) /\ stop[m] = "todo"
  <2>1. /\ hThread[m] = Invalid /\ hSignal[m] = Invalid /\ stop[m] = "todo"
        /\ \A s \in Starter : ~Making(s, m) /\ ~Running(<<m, s>>)
    BY <1>1 DEF Init, PerfInit, Making, Running, Thread, Idle
  <2>2. QED
    BY <2>1, HandleAssumption DEF OneThread, OneSignal, Closed
<1>2. QED
  BY <1>1 DEF MonitorInv, Init, PerfInit

(* A set whose members are all the same has one at most.                   *)
LEMMA AtMostOne ==
  ASSUME NEW S, \A s, u \in S : s = u
  PROVE  Cardinality(S) <= 1
<1>1. CASE S = {}
  <2>1. Cardinality(S) = 0
    BY <1>1, FS_EmptySet, Zenon
  <2>2. QED
    BY <2>1
<1>2. CASE S # {}
  <2>1. PICK s : S = {s}
    BY <1>2
  <2>2. Cardinality(S) = 1
    BY <2>1, FS_Singleton, Zenon
  <2>3. QED
    BY <2>2
<1>3. QED
  BY <1>1, <1>2

(* SK_StartPerfMonThreads and ShutdownWMIThread: threads that draw start   *)
(* monitors at any time and the shutdown terminates them, and still each   *)
(* has one thread at most, and none once the shutdown is done with it,     *)
(* unless somebody was starting it just then.                              *)
THEOREM OneThreadAtMost == Spec => []OneThreadThenNone
<1>1. MonitorInv => OneThreadThenNone
  <2> SUFFICES ASSUME MonitorInv, NEW m \in Monitor \ late,
                      NEW running,
                      running = {s \in Starter : Running(<<m, s>>)}
               PROVE  /\ Cardinality(running) <= 1
                      /\ stop[m] = "done" => running = {}
    BY DEF OneThreadThenNone
  <2>1. OneThread(m)
    BY DEF MonitorInv
  <2>2. \A s, u \in running : s = u
    BY <2>1 DEF OneThread, Making
  <2>3. Cardinality(running) <= 1
    BY <2>2, AtMostOne
  <2>4. stop[m] = "done" => running = {}
    BY <2>1, HandleAssumption DEF OneThread
  <2>5. QED
    BY <2>3, <2>4
<1>2. QED
  BY <1>1, MonitorInvInit, MonitorInvStep, SlotInvInit, SlotInvStep,
     ShutdownTypes, PTL DEF Spec

(* The monitor and the shutdown both close the monitor's event, and close  *)
(* it twice only if the monitor was terminated between closing it and      *)
(* saying so, or somebody was starting it just then.                       *)
THEOREM EventClosedOnce == Spec => []SignalClosedOnce
<1>1. MonitorInv => SignalClosedOnce
  BY DEF MonitorInv, SignalClosedOnce
<1>2. QED
  BY <1>1, MonitorInvInit, MonitorInvStep, SlotInvInit, SlotInvStep,
     ShutdownTypes, PTL DEF Spec
=============================================================================
