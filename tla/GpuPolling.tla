----------------------------- MODULE GpuPolling -----------------------------
(***************************************************************************)
(* GPU sensors (src/performance/gpu_monitor.cpp).  The first thread that   *)
(* asks for them creates two events and a polling thread, which publishes  *)
(* a set of buffers in gpu_stats; those that ask later read through that   *)
(* pointer.  SK_EndGPUPolling, called by SK_ShutdownCore, ends the thread  *)
(* or terminates it after 125 ms, closes the handles and frees the         *)
(* buffers.                                                                *)
(*                                                                         *)
(* The handles begin as INVALID_HANDLE_VALUE, which the test for nullptr   *)
(* in SK_EndGPUPolling lets pass.                                          *)
(***************************************************************************)
CONSTANT Reader \* the threads that ask

VARIABLES
  asked,    \* init: somebody has begun to create the thread
  events,   \* hPollEvent and hShutdownEvent: unset, open or closed
  shutdown, \* hShutdownEvent is set
  handle,   \* hPollThread: unset, open or closed
  poll,     \* where the polling thread stands
  buffers,  \* gpu_stats_buffers are allocated
  stats,    \* gpu_stats points to them
  read,     \* where each reader stands
  finish,   \* where SK_EndGPUPolling stands
  \* History variables.
  overtaken, \* readers with a pointer from before the buffers were freed
  abrupt,    \* the polling thread ended and left gpu_stats as it was
  crossed    \* it was created, or came to life, while polling was ended

gvars == <<asked, events, shutdown, handle, poll, buffers, stats, read,
           finish, overtaken, abrupt, crossed>>

GpuInit ==
  /\ asked = FALSE /\ events = "unset" /\ shutdown = FALSE
  /\ handle = "unset" /\ poll = "none"
  /\ buffers = FALSE /\ stats = FALSE
  /\ read = [r \in Reader |-> "idle"]
  /\ finish = "todo"
  /\ overtaken = {} /\ abrupt = FALSE /\ crossed = FALSE

ReadAt(r, s) == read' = [read EXCEPT ![r] = s]

-----------------------------------------------------------------------------
(* Operators named ...Slip are plausible mistakes the properties below are *)
(* there to catch; no action uses them.                                    *)

LeftBehindSlip == stats  \* the pointer is not taken back
TakenBack      == FALSE

-----------------------------------------------------------------------------
(* SK_PollGPU.                                                             *)

Ask(r) ==
  /\ read[r] = "idle" /\ ~asked
  /\ asked' = TRUE
  /\ ReadAt(r, "events")
  /\ UNCHANGED <<events, shutdown, handle, poll, buffers, stats, finish,
                 overtaken, abrupt, crossed>>

MakeEvents(r) ==
  /\ read[r] = "events"
  /\ events' = "open" /\ shutdown' = FALSE
  /\ ReadAt(r, "thread")
  /\ UNCHANGED <<asked, handle, poll, buffers, stats, finish, overtaken,
                 abrupt, crossed>>

MakeThread(r) ==
  /\ read[r] = "thread"
  /\ poll' = "start"
  /\ ReadAt(r, "attach")
  /\ crossed' = (crossed \/ finish # "todo")
  /\ UNCHANGED <<asked, events, shutdown, handle, buffers, stats, finish,
                 overtaken, abrupt>>

AttachThread(r) ==
  /\ read[r] = "attach"
  /\ handle' = "open"
  /\ ReadAt(r, "idle")
  /\ UNCHANGED <<asked, events, shutdown, poll, buffers, stats, finish,
                 overtaken, abrupt, crossed>>

(* The pointer is read here and used in Use.  A reader gives up after 16   *)
(* tries to find one.                                                      *)
TakePointer(r) ==
  /\ read[r] = "idle" /\ asked /\ stats
  /\ ReadAt(r, "use")
  /\ UNCHANGED <<asked, events, shutdown, handle, poll, buffers, stats, finish,
                 overtaken, abrupt, crossed>>

Use(r) ==
  /\ read[r] = "use"
  /\ ReadAt(r, "idle")
  /\ overtaken' = overtaken \ {r}
  /\ UNCHANGED <<asked, events, shutdown, handle, poll, buffers, stats, finish,
                 abrupt, crossed>>

ReaderStep(r) == MakeEvents(r) \/ MakeThread(r) \/ AttachThread(r) \/ Use(r)

-----------------------------------------------------------------------------
(* SK_GPUPollingThread.                                                    *)

PollerRest == <<asked, events, shutdown, handle, read, finish, overtaken>>

(* SK_GPU_InitSensorData.                                                  *)
Publish ==
  /\ poll = "start" /\ poll' = "ready"
  /\ buffers' = TRUE /\ stats' = TRUE
  /\ crossed' = (crossed \/ finish \in {"close", "free", "done"})
  /\ UNCHANGED <<PollerRest, abrupt>>

(* NvAPI finds no device: the thread ends and leaves gpu_stats.            *)
NoDevice ==
  /\ poll = "ready" /\ poll' = "off"
  /\ abrupt' = TRUE
  /\ UNCHANGED <<PollerRest, buffers, stats, crossed>>

(* WaitForMultipleObjects fails if the handles are closed.                 *)
AwaitPoll ==
  /\ poll = "ready"
  /\ poll' = IF events = "open" THEN "wait" ELSE "leave"
  /\ UNCHANGED <<PollerRest, abrupt, buffers, stats, crossed>>

(* The wait ends for a sample, or because the shutdown event is set.  A    *)
(* thread that waits while the events are closed waits for ever.           *)
Sample ==
  /\ poll = "wait" /\ events = "open"
  /\ poll' = "ready" /\ stats' = TRUE
  /\ UNCHANGED <<PollerRest, abrupt, buffers, crossed>>

SeeShutdown ==
  /\ poll = "wait" /\ events = "open" /\ shutdown
  /\ poll' = "leave"
  /\ UNCHANGED <<PollerRest, abrupt, buffers, stats, crossed>>

EndThread ==
  /\ poll = "leave" /\ poll' = "off"
  /\ stats' = TakenBack
  /\ UNCHANGED <<PollerRest, abrupt, buffers, crossed>>

PollerStep == Publish \/ AwaitPoll \/ SeeShutdown \/ EndThread

-----------------------------------------------------------------------------
(* SK_EndGPUPolling.                                                       *)

EnderRest == <<asked, poll, stats, read>>

BeginEnd ==
  /\ finish = "todo"
  /\ IF events = "open" /\ handle = "open"
     THEN shutdown' = TRUE /\ finish' = "wait"
     ELSE UNCHANGED shutdown /\ finish' = "kill"
  /\ UNCHANGED <<EnderRest, events, handle, buffers, overtaken, abrupt,
                 crossed>>

JoinPoller ==
  /\ finish = "wait" /\ poll = "off"
  /\ finish' = "close"
  /\ UNCHANGED <<EnderRest, events, shutdown, handle, buffers, overtaken,
                 abrupt, crossed>>

(* 125 ms pass.                                                            *)
GiveUpPoller ==
  /\ finish = "wait" /\ poll # "off"
  /\ finish' = "kill"
  /\ UNCHANGED <<EnderRest, events, shutdown, handle, buffers, overtaken,
                 abrupt, crossed>>

(* The handle is closed here, and its value closed once more below.        *)
KillPoller ==
  /\ finish = "kill"
  /\ IF handle = "open"
     THEN /\ poll' = "off" /\ handle' = "closed" /\ abrupt' = TRUE
          /\ UNCHANGED crossed
     ELSE crossed' = (crossed \/ asked) /\ UNCHANGED <<poll, handle, abrupt>>
  /\ finish' = "close"
  /\ UNCHANGED <<asked, stats, read, events, shutdown, buffers, overtaken>>

CloseHandles ==
  /\ finish = "close"
  /\ events' = IF events = "open" THEN "closed" ELSE events
  /\ handle' = IF handle = "open" THEN "closed" ELSE handle
  /\ finish' = "free"
  /\ UNCHANGED <<EnderRest, shutdown, buffers, overtaken, abrupt, crossed>>

(* delete gpu_stats_buffers.                                               *)
FreeBuffers ==
  /\ finish = "free"
  /\ buffers' = FALSE
  /\ overtaken' = {r \in Reader : read[r] = "use"}
  /\ finish' = "done"
  /\ UNCHANGED <<EnderRest, events, shutdown, handle, abrupt, crossed>>

EndStep == BeginEnd \/ JoinPoller \/ GiveUpPoller \/ KillPoller
           \/ CloseHandles \/ FreeBuffers
=============================================================================
