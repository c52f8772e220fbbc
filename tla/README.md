# Verification of Special K

This directory holds TLA+ specifications of parts of Special K (`src/`), the TLC
configurations that model-check them, and TLAPS proofs. It says what each module
stands for in the code, what was checked within which bounds, what is proved for
every value of the constants, and what is left out.

Special K is a DLL that is loaded into games, either as a wrapper of a graphics
API or by a global Windows hook that maps it into every process on the desktop.
Once inside it hooks the graphics, input and platform calls of the game. Most of
its code talks to one driver or one API and has no protocol of its own. What has
one, and what no test can reach, is the part where processes and threads meet
without a lock: the *global injection*, the end of the program, when all its
threads are stopped or left behind, and the cache of textures, which several
threads of a game share. The project covers these first.

## Inventory

Paths are relative to `src/src/`.

| Component | State | Operations | Interacts through | Hard behaviour | What makes it correct |
|---|---|---|---|---|---|
| Process table and injection records (`injection/injection.cpp`) | shared segment `.SK_Hooks`: `g_sHookedPIDs[32]`, a ring of records, its counter | Acquire at DLL attach, Release at detach, GetRecord, AuditRecord | interlocked operations on shared memory, across processes | no lock; processes are terminated anywhere; ids are reused; the ring rolls over | slots are owned and given back; an exit is stamped on the right record; the DLL is referenced; what a thread notes on the record stays there |
| Lazily mapped shared memory (same file) | `hMapShared`, `_pSharedMemoryView`, their 32-bit twins | get handle, get view, clean up | compare-and-swap between threads, a named section between processes | races of first callers; clean-up through the lazy getter | no leak, one view for everybody |
| CBT hook (same file, `SpecialK.cpp`, `process.cpp`) | `hHookCBT`, `dwHookPID`, `injected_procs`, `hooked_pids`, the teardown event | install, remove, listener thread, sweep of suspended processes | shared segment, named event, the loader's reference counts | two removers, kills, suspension, late threads | games keep the DLL, bystanders lose it, nobody is locked out |
| White- and blacklists (same file) | shared arrays of patterns and their counts | parse, watch, clear, search | plain shared memory | readers overlap writers | a search answers as the files say |
| ETW sessions (same file, `render/present_mon/`, `widgets/frame_pacing.cpp`, `core.cpp`) | table of five sessions, mutex `SK_EtwMutex0`, the worker thread | register, start, retry, stop, unregister | mapped memory, named mutex, named tracing sessions | abandoned mutex, crash, timeout | a game traces under a name of its own and leaves nothing behind |
| Attach, detach, roles (`SpecialK.cpp`, `utility.cpp`) | `__SK_DLL_Refs`, `__SK_DLL_Attached`, `__SK_DLL_Ending` | `DllMain`, `SK_Attach`, `SK_Detach`, `SK_SelfDestruct` | the loader, the window's thread, the detour of `ExitProcess` | several callers, partial attach, the process's end in the midst | each is done once, in order |
| Core start-up and shutdown (`core.cpp`) | init mutex, worker threads, the teardown event | `SK_InitCore`, `SK_ShutdownCore` | events, terminated threads | timeouts of 66 and 125 ms, locks of terminated threads | threads are gone before their data; the shutdown returns |
| Performance monitors (`performance/`, `core.cpp`, `com_util.cpp`) | `hThread` and `hShutdownSignal` of each monitor, `wmi_cs`, the WMI server, the GPU's buffers | start what is missing, query, end | cells written by starter, monitor and shutdown; events; a critical section | starts during the shutdown, a monitor that ends as it is stopped, pointers taken before a free | one thread each and then none; events closed once; no pointer to freed buffers |
| Texture resampler (`render/d3d11/tex_mgr/d3d11_tex_resampler.cpp`) | two queues, worker count, an auto-reset event | post a job, work, finish | queue and event between threads | none: nothing in the build posts a job | not modelled |
| Texture managers (`.../d3d11_tex_mgr.cpp`, `render/d3d9/d3d9_texmgr.cpp`) | hash maps, reference counts | find, enter, update, purge; inject, dump | a lock that not everybody takes, reference counts | eviction against use, entries that are never erased, addresses used again | what is found is what was asked for; no texture is used after its release, none is leaked |
| XInput hot-plug and placeholders (`input/xinput_hotplug.cpp`, `input/xinput_core.cpp`) | placeholders and packet journals per slot, poll times, two events | the game's calls, arrival and removal messages, refresh, polls | unlocked cells between the game's thread, the hot-plug thread and the polling thread | stale failures, throttled polls, merged packet numbers | no change goes unnoticed, packet numbers never go back, a controller that stays is read |
| Steam, achievements, storefronts | pump thread, callbacks | start, stop, pump | client libraries | start and stop races | callbacks run once |
| Frame limiter (`framerate.cpp`), scheduler, threads, TLS | clocks, per-thread slots | wait, tick, once-initialisation | events, spin waits | waiters on a slow initialiser | initialised once, nobody waits for ever |
| Updater (`update/`) | files on disk | download, unpack, swap | file system | interruption | old or new files, never a mixture |
| Configuration, console, log, display, plug-ins, diagnostics | files and drawing state | parse, format, draw | none to speak of | sequential | not a matter of protocols |
| `depends/`, `imgui/`, PresentMon consumers | third party | | | | not modelled |

`PROJECT.json` lists these as components with their files, and the hazards with
the line each bites at.

## Modules

| Module | Stands for |
|---|---|
| `PidRegistry` | abstract: a bounded set of process ids |
| `InjectionRecords` | `SK_Inject_AcquireProcess`, `SK_Inject_ReleaseProcess`, terminations, reuse of ids; refines `PidRegistry` |
| `SharedMemoryView` | `SK_Inject_GetSharedMemory`, `SK_Inject_GetViewOfSharedMemory`, `SK_Inject_CleanupSharedMemory` |
| `SharedMemoryViewProofs` | proofs that the races leak nothing and agree on one view |
| `HookLifecycle` | `SKX_InstallCBTHook`, `SKX_RemoveCBTHook`, the listener in `CBTProc`, the tool's loop, sweep of suspended processes |
| `HookLifecycleProofs` | proofs about the handle, the references and the count |
| `EtwSessions` | `SK_Etw_RegisterSession`, `SK_Etw_UnregisterSession`, the PresentMon worker and its shutdown |
| `EtwSessionsProofs` | proofs that the mutex guards the table, and what a shutdown leaves |
| `PatternLists` | parsing, watching, searching and clearing the white- and blacklist |
| `PatternListsProofs` | proof that a search nobody disturbs is right |
| `GamepadSlot` | one XInput slot: placeholder, packet journal, hot-plug and polling threads |
| `GamepadSlotProofs` | proofs about it |
| `InjectionAudit` | on top of `InjectionRecords`: a process's mirror of the records, the two threads that write to its record, `SKX_GetInjectedPIDs` |
| `InjectionProofs` | proofs about `InjectionRecords`, and on top of these about `InjectionAudit` |
| `PerfMonitors` | the processor, disk and page file monitors, the WMI server, `ShutdownWMIThread` |
| `GpuPolling` | the GPU's polling thread, those that read its buffers, `SK_EndGPUPolling` |
| `CoreShutdown` | composes these two with `SK_SelfDestruct`, `SK_Detach`, `SK_ShutdownCore` and the end of the process |
| `CoreShutdownProofs` | proofs about the slot, the monitors, their events, the sensors and WMI |
| `TextureCache` | the D3D11 texture cache: `getTexture2D`, `refTexture2D`, `SK_D3D11_RemoveTexFromCache`, `reset`, and their callers |
| `TextureCacheProofs` | proofs about it |
| `MC...` | the same modules with values for TLC, which are in the `.cfg` files |

Every module declares its parameters as constants with named assumptions, has
one action per operation or per access to shared state, and keeps history
variables (listed last under `VARIABLES`) apart from what the code stores.
Operators named `...Slip` stand next to the definition they are a mistaken
version of. No action uses them; substituted for their neighbours they show
that the properties can fail.

### InjectionRecords

A process id is a process as far as the table knows, so `Proc` is the set of
ids, and a new process may get the id of a terminated one. Each access to the
shared segment is an action: `ClaimSlot` and `SkipSlot` are one compare-and-swap
of the scan, `Refuse` its end, `DrawIndex` the interlocked increment, `Rollover`
the store of zero when the history looks full, `DrawAgain` the case that it was
not, `WriteRecord` the writes to one record, `Detach` and `ReleaseSlot` the two
halves of the release, `Terminate` an end anywhere. The writes to one record
are one action since nothing the properties ask for reads them half-done.

### SharedMemoryView

The stages of a thread are the gaps between the open, create, map and
compare-and-swap calls. Handles and views are values that may be handed out
again after they are closed. `elsewhere` says that another process keeps the
section alive. The clean-up runs in
`DLL_PROCESS_DETACH`, when the other threads are gone. Cleaning up calls the
lazy getter, which maps the section again and publishes it: the view it maps
last stays published and mapped, together with a handle. The process ends then,
so nothing is asked of it.

### HookLifecycle

`refs[g]` is what keeps the DLL mapped in a process: the hook itself, the
listener's reference and the reference a game takes for good (`pin`, taken by
`SK_Inject_AcquireProcess`). Windows loads the DLL on a message and lets go of
it some time after the hook is gone. `removal` walks the steps of
`SKX_RemoveCBTHook` for the tool and for `rundll32` at once. The tool's own
listener is one of the bystanders. The shared segment is taken to stay mapped
as long as any process has the DLL, and one tool installs at a time; a second
`Install` call in one tool would start a second waiting thread, and is left out.

### EtwSessions

Every game has a worker thread and the thread that shuts it down. The named
mutex is never released by the code: closing the last handle deletes it, and a
thread that ends with it abandons it, so a waiter gets in as its creator or is
told `WAIT_ABANDONED` and skips its business. Starting, failing, retrying,
stopping, the 500 ms wait of the shutdown and a crash are actions. The table's
names are never written by the code, so a reused slot gives an empty name.

### PatternLists

The parser stores each pattern and afterwards the count, and a search reads the
count and then one pattern at a time; these accesses are the actions, since
readers and writers overlap freely. A pattern is a member of a small set with
`Blank` for a line without a letter, `Torn` for one that is read while it is
written and `Invalid` for those that are no regular expression: the search that
comes to one throws and has no answer (`"thrown"`). A torn line may match, not
match or throw, so the run, whose files have no invalid line, has such searches.
The directory is watched only after the first parse, as in the code; from then
on a change is kept for the next wait, also one that falls in a parse
(`Signalled`).

### GamepadSlot

One slot that has a placeholder, is not the slot the user interface uses, and
is polled by one thread of the game. `Call` is `SK_XInput_Holding`, `ReadState`
and `ReadFails` the driver's answer with `SK_XInput_PacketJournalize`,
`NoteHolding` and `PlaceHoldState` the two reads of `holding` in
`SK_XInput_PlaceHold`; the variants without a packet are `ReadCaps` and
`PlaceHoldCaps`. The pollers walk through `SK_XInput_PollController` (`AskDriver`,
`Throttle`, `StopHolding`) for the hot-plug thread (`Arrival`, `Removal`,
`Refresh`) and the polling thread (`ColdStarts`, `ColdPolls`, `ColdEnds`). Times
are abstracted to what is compared: an interval that is doubled a few times and
then set to the time of day, which never comes due; a last failure that is
recent or not; a refresh time that is 7.5 s, or the time of day, short or long
ago. Packet numbers do not wrap. `content`, a history variable, is what the game was
last told: the driver's packet with the connection it belongs to, or a
placeholder's answer, since a controller that comes back may use a number
again. The count of virtual packets is shown to the
user and read by nothing else, so it is left out.

### InjectionAudit

`SK_Inject_GetRecord` copies the first record with the wanted id to a private
mirror and hands out a pointer into it; the caller assigns to a field, and
`SK_Inject_AuditRecord` finds the record by the mirror's id and stores all
fields. `TakeRecord` and `Audit` are these two, with the gap between them, in the
thread that initialises the core and in the one that makes the window. `FindNone`
and `Crash` are what the two do without a record. The steps of
`InjectionRecords` go on around them: an exit by `SK_SelfDestruct` stamps the
record while these threads live. A reader in another process walks over the
table with `TestSlot` and `ReadSlot`, the two reads of a slot in the code.

### PerfMonitors, GpuPolling, CoreShutdown

`Claim`, `Create` and `Store` are the exchange of a monitor's `hThread` for null,
the creation of its thread and the store of the handle, all in the thread that
draws; `InitWmi` is the once-only start of the WMI server under `wmi_cs`. A
monitor creates its event under that lock, queries under it and closes its
event under it. The handle is the creator's name, so a stale handle and a fresh
one can be told apart. `StopStep` is `ShutdownWMIThread` step by step; `GiveUp` is
the end of its wait, which may come at any time, and `Kill` leaves the lock taken.

In `GpuPolling` the reader's steps are those of `SK_PollGPU` and
`SK_GPU_CurrentSensorData`: the first caller makes events and thread, and every
caller tests and uses the pointer `gpu_stats`. `EndStep` is `SK_EndGPUPolling`.

`CoreShutdown` adds the callers: the window's thread and the thread that ends the
process may both call `SK_SelfDestruct`, of which one gets in; and the process may
end at any moment (`EndProcess`), which stops all threads but one, wherever they
stand, and makes that one run `SK_Detach` from `DllMain`. Critical sections are
taken to be passed freely by that last thread, as Windows does then, and as
Special K's own variant does once `__SK_DLL_Ending` is set.

### TextureCache

The cache keeps two hash tables, from a tag (a hash of the data and the
texture's description) to a texture and back, and a map of descriptors, which
are never erased: one whose `crc32c` is zero is a *zombie*. It holds each texture
by a reference. `cache_cs` is held by those who enter a texture they created and
by the purge; those who ask take no lock, and those who update take none.

Actors are threads that load textures and the one that renders, which updates
them and purges after a frame. `Look`, `Read`, `Judge`, `AddRef`, `Expel` and
`Forget` are the accesses of `SK_D3D11_TexMgr::getTexture2D`; `Admit`, `LinkBack` and
`Insert` those of `refTexture2D`, after `Create` and `Lock`, or after `Retire` and
`Write` in `UpdateSubresource`; `Collect`, `Evict` and `ReleaseEvicted` those of
`reset`. What the driver and the game do is external: a texture is made at a free
address (`MakeTexture`), the game gives a reference back (`GameRelease`) and writes
where the cache does not look (`WriteUnseen`: copies, parts of a texture, formats
that are not compressed).

`content` is what a texture holds; equal data has equal tags. A load and an
update hash different descriptions (an update strips it), so the two have tags
of their own. All textures have one number of mipmaps and are of a kind the
cache takes. How much a purge frees depends on sizes and limits: it may stop
after any texture unless it must free all, and take any that qualifies next.
A thread that touches a freed texture ends the run (`fault`).

The configuration is the default one: no staging textures (`AllowStaging`), no
residency management, nothing injected or dumped.

## Runs

| Run | Configuration | Outcome | Bounds |
|---|---|---|---|
| `records` | `InjectionRecords.cfg` | holds, 70 thousand states | 3 ids, 2 slots, 2 records, 3 processes ever |
| `audit` | `InjectionAudit.cfg` | holds, 1.3 million | 2 ids, one of a game, 2 slots, 4 records, 3 processes ever |
| `memory_view` | `SharedMemoryView.cfg` | holds, 50 thousand | 3 threads, 4 handles, 3 views |
| `hook` | `HookLifecycle.cfg` | holds, 499 thousand | a game and a bystander, 2 installations, a removal by request, 2 loads |
| `hook_suspended` | `HookSuspended.cfg` | violated | one installation |
| `etw` | `EtwSessions.cfg` | holds, 213 thousand | 2 games, one elevated, 2 slots, 2 starts, a start that fails |
| `etw_orphans` | `EtwOrphans.cfg` | violated | the same with 3 starts and none that fails |
| `lists` | `PatternLists.cfg` | holds, 868 thousand | a process, 2 lists of at most 2 lines, a start, 2 edits, a removal, of these three at most 2 |
| `gamepad` | `GamepadSlot.cfg` | holds, 1.2 million | 2 doublings, one plugging-in after the start, 1 further packet, packet numbers to 3 |
| `gamepad_monotonic` | `GamepadMonotonic.cfg` | violated | the same, packets counted from 1 |
| `shutdown` | `CoreShutdown.cfg` | holds, 400 thousand | 3 monitors and the GPU, 2 threads that draw, four sets of what is switched on |
| `cache` | `TextureCache.cfg` | holds, 1.2 million | 2 addresses, 2 contents, 2 loaders, 3 textures loaded or made, 2 updates, 2 purges; symmetric in all three sets |

None of the systems has to go on for ever (games stop calling, bounds run out),
so deadlock is not checked; that nobody waits for ever is stated where it
matters (`ImplementsRegistry`, `ToolLeaves`, `ShutdownEnds`, `ShutdownReturns`).

Why the bounds are enough to be worth something:

- `records`: with three processes and two slots the table is full and somebody
  is turned away, two scans overlap a release, an id leaks and is reused, and
  with two records the history rolls over, also in two processes at once.
- `memory_view`: three threads give a winner and two losers of each of the three
  races; four handles let every thread hold one next to the published one.
- `hook`: two installations let a new hook meet the removal of an old one, and
  two loads let a process be loaded, unloaded and loaded again.
- `audit`: three starts of two ids let an id be used twice, next to another
  process, before or after it; four records take them all without a rollover,
  so that what the properties except for a rollover excuses nothing here.
  One process has the two threads, since the records of two touch each other
  only through reuse and rollover. The constraint `ReadsApart` keeps the reader
  of the table, which looks at the slots only, apart from the two threads, which
  never do.
- `etw`: two games at once, or one twice, and a failed start that takes a
  further slot. Three starts let a process id run twice next to another game,
  which is what `etw_orphans` takes for a slot to change hands twice.
- `lists`: two lines let one pattern be overwritten while the other is read,
  a second edit falls in the parse that the first one caused, and an edit and a
  removal make a second parse and a clear overlap. All three changes in
  one execution (`MaxChanges`) would bring together no two that do not meet
  already.
- `gamepad`: an initial controller can leave and come back, and one that is
  missing can come and leave, with the hold that its interval ends, the one a
  poll ends and the one that nobody ends.
- `shutdown`: what is shown is the GPU's display alone, the processor's, the
  disks', or both of WMI's. These are the sets that can meet: the processor's
  monitor and the GPU's thread share nothing with the others, and the two of WMI
  share a lock and a server. Threads that draw make two calls each in total with
  one monitor, and one with two, so that two starters meet, and one starts again
  what the shutdown has ended.
- `cache`: with two addresses and three loads an address is used a second time
  while another texture lives; two loaders meet the same zombie, and a purge
  follows that releases what they left, and a second one that meets it freed;
  two updates make the second find a tag blacklisted or its copy in the cache.
  Addresses, contents and loaders are interchangeable, and what is asked for
  are invariants and an action property, which treat them alike, and no
  liveness, so the symmetry is sound.

### Fairness

Threads that can take a step eventually take it: weak fairness of the steps of
`DllMain` (`InjectionRecords`), of tool, remover, listener and the loader's delayed unmapping (`HookLifecycle`), of the
worker and the closing thread (`EtwSessions`), of parser, clearer and searcher
(`PatternLists`) of Special K's two gamepad threads and the clock (`GamepadSlot`), and of the
thread that runs the shutdown (`CoreShutdown`), where nothing is assumed of
monitors, server, readers or the threads that draw: the shutdown has to return
whatever they do. `InjectionAudit`, `SharedMemoryView` and `TextureCache` ask for no
liveness and assume none. Windows schedules every ready thread, and none of these spins
on a condition that comes and goes, so no strong fairness is needed. In
`GamepadSlot` the hot-plug thread refreshes once a frame, so its fairness also
stands for a game that goes on drawing. Nothing obliges anybody to start a
process, to install or remove a hook, to edit a file, to call, or to terminate
a process. `HookLifecycle` has no fairness for a suspended process, and
`PatternLists` none that makes the tool start.

## What the properties say

Beside a type invariant where proofs are built on one or the module's state is
not plain (`InjectionRecords`, `HookLifecycle`, `GamepadSlot`, `CoreShutdown`):

- `SlotOwned`, `OnlyTerminationLeaks`, `RefusedOnlyWhenFull`: the table of ids,
  without a lock, is never emptied by others, leaks only with terminated
  processes, and turns nobody away while it has room, except by a race that is
  named. `ImplementsRegistry` puts the same as a refinement, which includes that
  joining and leaving end.
- `OwnRecord`, `SequentialInBounds`: until the history rolls over the records are
  right, and while no process draws an index as another one rolls over, every
  index is in the history. The race itself is excused. What it may lead to, an
  index outside of the history, takes two processes that roll over at once and
  a third that draws in between, five starts with two records.
- `RecordFound`, `BothNoted`, `ExitKept`: a process sees its own record, its two
  threads keep each other's notes and the exit that was stamped, unless an id is
  reused, a process was turned away, or they are at it at the same time.
- `ListComplete`: who lists the table misses nobody that stays. A zero may stand
  before him, if somebody left just then: a caller that stops there, rather than
  at the number of entries it is told, misses him.
- `NoLeak`, `SharedViewStays`: the races for the section and its view.
- `ListenersCounted`, `HandleTellsHook`, `TargetStaysMapped`, `BystanderUnloads`,
  `ToolLeaves`: games keep the DLL, others lose it, the count and the handle
  stay right with two removers at once.
- `TableGuarded`, `OwnSessionUnlessStolen`, `ShutdownUnregisters`, `StopsOnce`,
  `ShutdownEnds`: a mutex that is never released still guards; what a game
  leaves behind, and when.
- `QuietSearchRight`, `FreshInTheEnd`: what a search may rely on.
- `ChangeNoticed`, `ReadUnlessMissed`: a game that compares packet numbers
  notices every change, except a hold that was not counted, and a controller
  that came back with the number that was read last (`Alike`); a controller is read again unless its arrival was
  missed in one of the ways the history variable `missed` names.
- `OneThreadThenNone`, `SignalClosedOnce`, `WmiUnderWay`: a monitor has one thread
  at a time, and none after the shutdown; nobody closes an event a second time;
  nobody waits for a server that no one will start (one that fails to connect
  leaves its monitors spinning).
- `SensorsValid`: no pointer to the GPU's sensors outlives the buffers.
- `SlotGivenBack`, `ShutdownReturns`: however window, exit and end of the process
  overlap, the slot is given back once, and the shutdown gets to its end.
- `LiveHeld`: a descriptor that is no zombie is backed by a reference of the cache.
- `LeaksNamed`: and the cache holds no other, so that a texture is freed when game
  and cache are done with it, unless its address had a descriptor already, or an
  update found its tag blacklisted.
- `FoundAsAsked`: the texture a thread is handed holds, at that step, the data it
  asked for, though textures are updated, freed and addresses used again. The
  exceptions are a write where the cache does not look, the copy of another
  cached texture, a reverse entry that was lost, and a texture that was dropped
  between the thread's find and its `AddRef`, whose address may belong to another
  by then.
- `NothingFreedTouched`: no freed texture is touched, and no reference of the game
  given back, unless a texture was dropped between a thread's test and its
  `AddRef`, or lost its reverse entry to a thread that expelled a zombie.

Exceptions are written into the properties by history variables (`freed`,
`leaked`, `stolen`, `timedOut`, `skipped`, `spoiled`, `missed`, `late`, `cut`,
`abrupt`, `crossed`, `mingled`, `written`, `shadowed`, `kept`, `orphaned`, `overtaken`,
...). A property that names an exception describes that interleaving and does not
rule it out: the code does lose a note, a controller, a reference or an event
there, and the property says that nothing else leads to the loss. The hazards
in `PROJECT.json` say in a note where that is so. The exceptions are as narrow as
the code allows. All but four were seen to be needed: without
them the run finds a violation. The four are not met within its bounds, and
stand there for the proofs, which have no bounds: `raced` in
`SequentialInBounds` (with five starts TLC finds the index outside of the
history), `stolen` in `OwnSessionUnlessStolen` (three starts, as in `etw_orphans`),
`orphaned` in `FoundAsAsked`, and for a thread that asks in `NothingFreedTouched`
(both four loads). And the properties of `audit` except for a rollover, which its
records leave no room for.

## What is proved

Every invariant and every `[][A]_vars` property of a passing run is a theorem. The theorems hold for all values of the
constants that the modules' named assumptions allow. These say that sentinels
are not values (no process has the id that stands for an empty slot, no handle
is the null handle), that sizes are numbers and not zero where an array cannot
be empty, and, for the texture cache, that there are finitely many loading
threads (`ThreadAssumption`), without which references on their way could not be
counted. No property of the code is assumed.

An invariant that a run checks is seldom inductive. For each module it follows
what had to be added, and why.

**`InjectionProofs`**, about `InjectionRecords` (`NoPidAssumption`, `SizeAssumption`):

- `TypeCorrect`: `TypeOK`. It needs `IndexDrawn` beside it, since `WriteRecord`
  subtracts one from an index.
- `SlotsKept`, `OrderlyExitLeavesNothing`, `NoSpuriousRefusal`: `SlotOwned`,
  `OnlyTerminationLeaks`, `RefusedOnlyWhenFull`. `SlotInv` adds that an id which is
  not there is not marked in the other history variables (`Fresh`), that a
  process which is releasing holds no slot its loop has passed (`ReleasedSoFar`),
  and that the slots a scan has passed are taken unless one was freed behind it
  (`ScannedTaken`).
- `RecordsDisjoint`: `OwnRecord`. The interlocked counter hands an index out once
  (`DrawnOnce`): whoever drew one has one at most the counter, and no other has
  the same.
- `UnracedInBounds`: `SequentialInBounds`. While one process at a time is rolling
  over (`OneRollsOver`), the counter passes the size of the history by one only.
- `TableIsRegistry`: the safety half of `ImplementsRegistry`. Initial states map to
  initial states of `PidRegistry`, and every step, by the action it is, to joining,
  leaving or a stutter; `SlotInv` is what makes a claim a joining that has room.

About `InjectionAudit` (`GamesAssumption`, `CapacityAssumption` beside them). `AuditInv` has `SlotInv` and `DrawnOnce` in it, since all but the
audits are steps of `InjectionRecords`, which touch what the audits do not.

- `ShownItsRecord`: `RecordFound`. Until the history rolls over a record that bears
  an id is given to nobody else (`Records`, `RecordsGrow`), so the records of a
  process stay the same once it was injected (`MatchingStays`) and so does the
  first of them; and a process that was not turned away has one (`Homes`).
- `NotesAreKept`: `BothNoted`. A process has a copy of no record but the first of
  its id (`Mirrors`), so an audit finds again what `TakeRecord` took; and a copy
  taken while no other is out has every note made so far (`Noted`).
- `ExitIsKept`: `ExitKept`. A copy that may still be written back has the stamp its
  record has, unless the stamp is known to have come in between (`Stamped`).
- `NobodyIsMissed`: `ListComplete`. The reader has in its list everybody who was
  there when it began, is there still, and sits in a slot it has passed (`Listed`).

**`SharedMemoryViewProofs`** (`NoneAssumption`): `NoRaceLeaks` and `ViewShared`, that
is `NoLeak` and `SharedViewStays`. `RaceInv` says that a handle is open because it
is published or because exactly one thread is about to publish it, that the
thread which stores the handle a second time stores what is there, and the same
of views. All of it holds until the clean-up, which breaks it on purpose.

**`HookLifecycleProofs`** (`GameAssumption`, `BoundAssumption`):

- `HookTypes`: `TypeOK`, together with the bounds of the counters (`Bounded`).
- `HandleIsHook`: `HandleTellsHook`. Between the unhooking and the clearing of the
  handle one remover, and only one, is on its way to clear it (`HandleFollows`);
  and the tool does not leave its hook behind unless it is terminated
  (`ToolCleansUp`).
- `TargetsStayMapped`: the action property `TargetStaysMapped`. A process that is
  worked in has the reference it takes for good while it has any (`Pinned`).
- `ListenersAreCounted`: `ListenersCounted`, an equation between the counter and the
  cardinality of a set, for which the set has to be finite although the number
  of processes is not bounded (`CountInv`): it gains and loses one at a time.

**`EtwSessionsProofs`** (`ProcAssumption`, `SizeAssumption`):

- `MutexGuards`: `TableGuarded`. A thread keeps its handle open while it waits or is
  at the table (`MutexInv`); then the mutex can neither disappear nor be abandoned
  under it.
- `StopsOnlyOnce`: `StopsOnce`. Once the closing thread has waited, the worker has
  ended, unless the wait timed out (`ShutdownInv`).
- `ShutdownLeavesNoSlot`: `ShutdownUnregisters`, by way of `Cleared`, which says it of
  whoever of the two is through with unregistering.
- `StopsNoLiveSession`: the action property `OwnSessionUnlessStolen`. Whose session
  runs under a name has the slot of that name, and so has the worker that is
  about to use it (`SessionInv`), until somebody is hasty or a slot is stolen.

**`PatternListsProofs`** (`PatternAssumption`, `ContentAssumption`, `CapacityAssumption`):
`QuietSearchesAreRight`, the action property `QuietSearchRight`, for files of any
content. `ListInv` says that a list which is not spoiled has behind its count what
it should hold, and that its count keeps searches out while it is parsed, when
it has the patterns among the lines that were read (`Filled`); `SearchInv` that a
search which was let alone has met nothing that matches. What a list should
hold is the set of the patterns, so that no induction over the lines is needed.

**`GamepadSlotProofs`** (`BoundAssumption`): `TypeCorrect`, `Invariance` (the inductive
`IInv`) and `NoChangeMissed`, the action property `ChangeNoticed`. The
invariant relates the last number and content the game was given to the
journal (`Told`) and says when a hold can be one the game was not told of
(`Holds`): only the game's own thread begins a hold, so it never reads the
driver under one.

**`CoreShutdownProofs`** (the assumptions of `PerfMonitors`, of which the proofs use
`HandleAssumption`), for any number of monitors, starters and readers:

- `SlotGivenBackOnce`: `SlotGivenBack`. The invariant says that nothing
  has begun before `__SK_DLL_Ending` is set (`NotBegun`), relates
  `__SK_DLL_Attached`, the phase of the shutdown and the place at which the end of
  the process stopped it to the number of releases (`Given`), and that the thread
  that ends the process is alone from then on (`Alone`) and done when it returns
  (`AllDone`). `PastRelease` and `OthersKeep` show that none of the steps in
  between, which are those of the composed modules, has a say in it.
- `ShutdownTypes`: `TypeOK`, in three parts that the steps of the monitors, of the
  GPU's thread and of the callers disturb one at a time.
- `SensorsAreValid`: `SensorsValid`. Unless the polling thread ended in the wrong
  moment its buffers last as long as it may publish them, and it has taken them
  back before they are freed (`SensorInv`).
- `WmiIsUnderWay`: `WmiUnderWay`. While there is no server no monitor has got past
  waiting for it, and whoever found it was not started is about to start it
  (`WmiInv`), until the end of the process stops all of them together with those
  that wait.
- `OneThreadAtMost`, `EventClosedOnce`: `OneThreadThenNone` and `SignalClosedOnce`. The
  cell `hThread` tells what threads there are and who makes one (`OneThread`), its
  event is that thread's (`OneSignal`), and exists unless that thread has closed
  it and is about to say so (`Closed`).

**`TextureCacheProofs`** (`ThreadAssumption`, `AddrAssumption`, `BoundsAssumption`).
`ShapeInv` types the state, says who looks at what, and that an address which
never had a descriptor belongs to one texture on its way in at most
(`NewAddresses`).

- `VouchedIsHeld`: `LiveHeld`. A tag leads to a texture for a reason
  (`EntriesExplained`), a live descriptor has its reverse entry unless that was
  lost to an expelled zombie (`LiveLinked`), and who is to enter a texture at an
  address that has a descriptor finds a zombie there (`EnteredDead`).
- `FindersGetWhatTheyAskFor`: the action property `FoundAsAsked`. A texture is
  entered with the tag of what it holds (`EnteredTagged`), so that live descriptors
  tell the content (`TagTellsContent`); and what a thread has found is live and has
  the thread's tag until it is dropped (`FoundLive`).
- `LeaksAreKnown`: `LeaksNamed`. The cache has no more references than are on their
  way and the one a live descriptor stands for (`Within`, `LoadedUnheld`), which
  takes counting the threads at one address.
- `NothingFreedIsTouched`: `NothingFreedTouched`. While no reverse entry was lost,
  whatever is about to be released is still held (`HeldUnlessLost`), and what a
  thread has found is live or was dropped (`FoundLive`).

Each of these invariants was a run's invariant before it was proved.

Only model-checked are, since the prover does not reach them, liveness under
fairness and `ENABLED`: that joining and leaving end (the other half of
`ImplementsRegistry`), `BystanderUnloads`, `ToolLeaves`, `ShutdownEnds`,
`ShutdownReturns`, `FreshInTheEnd`, `ReadUnlessMissed`. `FreshInTheEnd` also speaks of
the lines of a file in their order, which would take an induction over them.

## Where code and comments disagree

`PROJECT.json` lists them as findings, each with the run whose trace shows it:

1. `hook_suspended`: `SK_Process_IsSuspended` never answers yes, so a removal
   resumes nobody.
2. `etw_orphans`: a process that may not be opened counts as dead, and a game's
   running session may be stopped by another game.
3. `gamepad_monotonic`: a packet that is read twice gets the journal's number
   first and the driver's smaller one the second time.

Met on the way and not listed, because no line of the repository promises the
opposite or no model shows it: the reference that is to keep the DLL in a game is
taken only by a process that finds a free slot; a terminated tool leaves the shared handle set;
the thread that waits in the tool resets the teardown event when it starts,
which may erase a removal's request; `dwHookPID` keeps its value when
`SetWindowsHookEx` fails; a process exit can wait in `SK_Etw_UnregisterSession`
as long as another game runs; each failed start of a tracing session consumes a
further slot; 500 ms after its shutdown began a game may stop its session from
two threads; clearing the lists during a search makes it try an empty pattern,
which matches everything; a line that is no regular expression makes every
search that comes to it throw, which nobody catches; a game misses the change
when a controller comes back with a packet that has the number it read last;
more than 128 patterns overflow their array; a game
that polls every frame doubles the placeholder's interval at every poll until
it is set to the time of day and never comes due, so that only Special K's own
polls end the hold; a call that had failed before a controller arrived puts the
placeholder back after the arrival ended it; once the polling thread has
retired, the polls of a slot are refused for 250 ms times its number.

On records and table: a rollover resets the counter to zero although record 0
has just been given out, so the next process overwrites the newest record, where
a comment (`injection.cpp:543`) speaks of the oldest; two threads of a game can undo each other's note; the exit
stamp is erased by a thread that took the record before; the title and AppId of
a record's former owner stay until they are overwritten; the window's thread
(`window.cpp:6512`) uses the record it is given without a test; a zero read
between the two looks at a slot ends the list of processes early.

On textures: an address has one life in the map of descriptors, so the second
texture entered at it, and one that was updated, is a zombie from the start,
whose reference is never given back; `null_desc` of `refTexture2D` is static, so
after one update of a cached texture that was used in the last frames no new
texture is entered at all, until one that is cached and was not used lately is
entered again; an update that is served by a copy returns before the texture is
retired, which keeps its old tag; the slower of two threads that meet a zombie
takes the reverse entry of the texture the faster one has entered, and each
purge then releases that texture once more; a purge may free a texture between
another thread's test and its `AddRef`; the blacklist holds tags and is searched
for checksums; `iter` in `TexCacheCheckpoint` is not static, so its periodic check
never runs.

On the shutdown: the loop of `SK_WMI_Shutdown` that should wait for the server
waits for the cell it has just reset; a server that is still connecting is never
told; a monitor claimed while the shutdown passes survives it; the processor's
monitor, when it ends by itself, leaves its handle, so that nobody starts it
again; `SK_EndGPUPolling` closes the thread's handle twice after a termination,
takes handles that were never made for valid ones, and closes events under a
thread that waits for them; the polling thread, when it finds no device or is
terminated, leaves `gpu_stats` pointing to buffers that are freed; the pointer
is tested and read again; a process that ends before `SK_Inject_ReleaseProcess`
was reached leaves its id in the table.

## What is not modelled

`PROJECT.json` names every component with its reason. Left out of modelled
components are: the debug and shell hooks and the passing on to the other
bitness; the control panel's walk over all records; the event consumers behind a
tracing session; the HID event lists and slot assignment of the gamepads, and a
game that polls one slot from two threads (the journal has no lock). Left out of
the shutdown: the unloading by `FreeLibrary`, the crash handler's shorter way,
the ends of the Steam pump, the budget thread and the frame limiter, which come
before or after the modelled part and share no state with it, and the end of the
tracing session, which is in `EtwSessions`. Of start-up only the monitors are
modelled. Left out of the texture cache are texture injection and dumping,
uploads through `Map` and staging textures (off by default), residency management
(off by default), copies between textures as a way into the cache, and the
control panel's texture browser. Memory is sequentially consistent in all models, which x86 and the
interlocked operations justify for the cells modelled.


## Plan

Done, in order of importance: the process table and its records with their
proofs, the lazily mapped section, the hook's life, the ETW sessions, the
pattern lists, the gamepad slot, the audit of records and the readers of the
table, the shutdown with the monitors and the GPU's thread, the D3D11 texture
cache. Next:

1. A composition of `InjectionRecords` and `HookLifecycle` along
   `SK_Attach` (`SpecialK.cpp`): which `DllMain` may run when, what a partial
   attach gives back, the reference as one state instead of two.
2. Start-up of the core (`core.cpp`, `thread.cpp`): the init mutex,
   once-initialisation and its spinning waiters.
3. The Steam pump: start, stop and idle time.
4. The D3D9 texture manager, the older twin of `TextureCache`, and uploads
   through `Map`.
5. The updater's file protocol with interruptions.

Theorems to prove next: the steps of the liveness arguments that are safety, such
as that every phase of the shutdown but the last has a step that no lock of a
terminated monitor blocks, and that the count of a list, when its parse is
published, is the number of the file's lines with a letter.
