# TLA+ models of the core Flight System

This directory holds TLA+ specifications of the services at the centre of the core Flight System:
the cFE executive (`src/cFS/cfe`) and the operating-system layer below it (`src/cFS/osal`).  They
say what tasks share through these services, in which steps they touch it, and what must stay true
whatever the order of those steps.  TLC checks every specification on small instances; for six of
them the most important properties are proved with TLAPS for every value of the parameters.

The code is a library of services called by many tasks at once.  Almost everything that is hard in
it comes from one pattern: a call takes a lock, marks a table entry, *gives the lock up* to do
something slow (create a queue, load a module, read a file), and takes it again to finish.  Unit
tests run these sections one after the other; the models run them in every order.  The second
source of trouble is memory that outlives a reset (the critical data store, the event log): a
processor reset can come between any two writes, and what is found afterwards is believed.

## 1. Inventory

| Part | State it keeps | Operations | What makes it correct |
|---|---|---|---|
| **SB**, software bus (`modules/sb`) | pipe table, routes with their lists of destinations, reference-counted buffers, statistics | create, delete, subscribe, unsubscribe, pipe options, allocate, release, transmit, receive, enable/disable a route, clean up an application | a buffer is not freed while somebody holds it, and is when nobody does, but for messages that are written too late to a pipe being deleted; a route never names a dead pipe; limits never stay exhausted; half-made pipes are never shared or lost |
| **SBR**, routing map (`modules/sbr`) | message ID to route; hash or direct map | add, get, set | a map from message IDs, full at a bound |
| **Resource IDs** (`modules/resourceid`) | none: ID, serial and index arithmetic | FindNext, ToIndex | an ID leads to the slot it was issued for; a stale ID matches nothing |
| **ES applications** (`modules/es/.../cfe_es_apps.c`, `cfe_es_api.c`, `cfe_es_resource.c`) | application and task tables, control requests, kill timers | create, enter, run loop, exit, child tasks, restart/reload/delete, table scan, clean-up | slots and names are neither shared nor lost; a task finds its application; the last request is carried out; nothing is left behind |
| **ES start-up, reset, exceptions** | system state, reset area, exception log | start script, WaitForSystemState, ResetCFE, exception scan | synchronisation ends; a processor reset keeps what it should |
| **ES critical data store** (`cfe_es_cds.c`, `cfe_es_cds_mempool.c`) | registry of names, in memory and in the store; blocks with their CRCs | validate, clear, register, resize, copy, restore, delete, reset | a name keeps the image it was given, over resets, and no other name's |
| **ES memory pools** (`cfe_es_generic_pool.c`, `cfe_es_mempool.c`) | descriptors between the blocks, one list per bucket | get, put, rebuild after a reset | blocks never overlap; every block is in use or on one list |
| **ES logs** | system log ring, performance log, reset log | append, set mode, dump | the ring starts at a message boundary |
| **EVS** (`modules/evs`) | an entry per application with its filters and squelch tokens; the local event log | register, clean up, send, reset filters, commands on types, filters and the log | flooding is cut off, is told of, and recovers; the log is a ring that survives a reset |
| **FS** (`modules/fs`) | queue of background file writes | request, background dump | a request is queued once and written once |
| **TBL** (`modules/tbl`) | registry, access descriptors, own and shared buffers, dump control blocks, validation results | register, share, load, validate, update, modify, get/release address, dump, commands, clean-up | a reader never sees its table change under it; buffers are neither lost nor shared; only validated images become active; a critical table comes back |
| **TIME** (`modules/time`) | ring of time references, tone latch, flywheel state, callbacks | reference update, reference read, tone, 1 Hz, commands | a reader gets one reference whole, without a lock; time neither runs ahead nor loses a second when the tone does |
| **MSG** (`modules/msg`) | none: header bit fields | get/set a field | encoding only |
| **OSAL object table** (`osal/.../osapi-idmap.c`) | per type: records with ID, name, reference count; one mutex; last ID issued | allocate, look up by ID or name, convert a token, finalize, delete, iterate | exclusive holders are alone; counts are exact; a record is never reserved for ever; the mutex is released |
| **OSAL queues, semaphores, timers, tasks, files** | tables above the operating system | create, delete, use | see the object table |
| **PSP** (`psp`) | reset area, stored exceptions, hardware | | platform code |
| **Applications and tools** (`apps`, `tools`) | none shared | | users of the services |

`PROJECT.json` lists these as components, with what is modelled of each.

### How they interact

* Every cFE service protects its tables with one mutex (`CFE_xx_LockSharedData`).  SB, ES and TBL
  call OSAL with the mutex released.  The OSAL object table has one mutex for each object type.
* ES owns the identity of applications and tasks.  The other services ask it who is calling, and ES
  calls the clean-up function of each of them (`CFE_SB_CleanUpApp`, `CFE_TBL_CleanUpApp`,
  `CFE_EVS_CleanUpApp`) when it deletes an application, before it deletes the application's tasks.
* A message is a buffer of SB's memory pool.  Its address goes through an OSAL queue for every
  destination.  The sender and the receivers raise and lower the use count under SB's mutex, in
  sections of their own.
* A critical table is kept in the critical data store of ES; its owner finds the image there when it
  registers again.
* Requests of the ground reach TBL as commands of its own task, which leaves requests in the record
  of a table; the owner of the table carries them out when it calls `CFE_TBL_Manage`, and the task
  collects the results at the next housekeeping request.
* TIME's main task updates the time reference, and every task reads it with no lock at all.
* The entry of an application in EVS is written by the tasks of that application and by EVS's task
  without a lock; only the squelch and the log are under EVS's mutex.

### What is hard

Two-phase operations with the lock given up in between; results of a check used after the lock was
released; deletion while others are inside a call; IDs and slots used again at once; counters
changed by several tasks; failure of the middle step; a task deleted between two steps; optimistic
reads; a reset between two writes to memory that survives it.  The hazards are listed, each with its
line and the properties that cover it, under `hazards` in `PROJECT.json`; those of parts not yet
modelled are there too, with a note.  Seen in the code, and not in that list:
`CFE_SB_GetPipeIdByName` can return the reserved ID of a half-made pipe (`cfe_sb_api.c:779`);
`StopRecurseFlags` holds one bit per task slot, which a deleted task leaves set
(`cfe_sb_priv.c:315`); `CFE_SB_ResetCounters` clears statistics without the lock
(`cfe_sb_task.c:329`); `CFE_FS_BackgroundFileDumpRequest` tests `IsPending` before it takes the lock
(`cfe_fs_api.c:859`); a second validation request for a table forgets the block of the first
(`cfe_tbl_task_cmds.c`, action `ValidateCmd`); a block of the CDS is lost when a reset comes between
its creation and the save of the registry (`cfe_es_cds.c`, actions `RegisterGet` and `RegisterSave`).

## 2. What is modelled, and how

| Module | Models | Extended or used by |
|---|---|---|
| `SB` | the software bus, with the part of ES's clean-up that meets it | `MCSB`, `SBProofs` |
| `IdMap` | the OSAL object table and its lock modes | `MCIdMap`, `IdMapProofs` |
| `AtomicRef` | the abstract promise of TIME's reference: one value, read whole | refined by `TimeRef` |
| `TimeRef` | the ring of reference buffers, its update and its lock-free readers | `MCTimeRef`, `TimeRefProofs` |
| `TimeTone` | TIME's tone, 1 Hz state machine and flywheel | `TimeToneProofs` |
| `ESApps` | the life of an application and of its tasks in ES | `ESAppsProofs` |
| `TBL` | table services: the calls of applications and the commands of the ground | `MCTBL`, `TBLProofs`, `TBLImageProofs` |
| `GenPool` | the bucket allocator of ES, as operators | `CDS` |
| `CDSStore` | the abstract promise of the critical data store: a name keeps one image | refined by `CDS` |
| `CDS` | the critical data store, write by write, with resets | `MCCDS` |
| `EVSLog` | the ring of the event log, as operators | `EVS` |
| `EventLog` | the abstract promise of the event log: a bounded sequence | refined by `EVS` |
| `EVS` | event services from the call to the log, commands, resets | `MCEVS`, `EVSProofs` |

In all of them **one action is one section that the code runs under its lock**, from the lock call
to the unlock call, or one stretch or OSAL call made with the lock released, cut wherever another
task can make a difference.  Where a call has several sections, what its C function keeps in local
variables is per-task state, and a program counter (`pc`, `step`, `phase`, `at`) says which section
is next.  Names of tables and fields are those of the code, shortened.  An ID is a number; its slot
is the remainder by the size of the table, as in `CFE_ResourceId_ToIndex`.  `FREE` (or `UNDEFINED`)
and `RESERVED` are the two IDs that mean "no object" and "an object being made or unmade".  Operators
whose comment begins with "Mutant of" are wrong versions of the operator after them: they belong to
no specification, and are there to show that a property notices the mistake they stand for
(section 6).

### SB

Pipe table: `pipeId`, `pipeApp`, `ignoreMine`, `curDepth`, `lastBuf`, by slot.  Routes: `routes`
(the message IDs that have one) and `dest` (the destination list of each: pipe, limit, active,
count).  Buffers: `use`, `bufApp`, `bufMsg` and `list`, the tracking list the buffer is on.  Queues:
`qcap` and `queue`.  Statistics: `pipesInUse`, `subsInUse`, `bufsInUse`.  `lost` is history, which nothing else reads: the
messages that were on the queue of a pipe when it was deleted.

* `CFE_SB_CreatePipe` is `CreateReserve` (a slot becomes `RESERVED`), `CreateQueue` (OSAL, outside
  the lock, may fail) and `CreateFinish` or `CreateAbort`.
* `CFE_SB_DeletePipe` is `DeleteBegin` (with `TearDown`: off every route, slot reserved, `LastBuffer`
  released), then `DrainGet`/`DrainRelease` until the queue is empty, `QueueDelete`, which throws away
  what has been written since, and `DeleteFinish`.
* `CFE_SB_TransmitMsg` is `AllocateBegin`, `Allocate`, `FindDestinations` (the list of destinations
  is copied, counts and the use count are raised), one `QueuePut` per destination outside the lock,
  `UndoPut` after a full or vanished queue, `TransmitDone`.  `CFE_SB_TransmitBuffer` begins with
  `TransmitBuffer`, which takes a zero-copy buffer over.
* `CFE_SB_ReceiveBuffer` is `ReceiveBegin` (gives the last buffer back), `QueueGet`,
  `ExportReference` (counts lowered, the buffer becomes `LastBuffer`), then `ReceiveAccept` or, when
  the message does not verify, `ReceiveReject`; `ReceiveNothing` is the empty queue.
* Clean-up by ES is `CleanUpBegin`, `CleanUpList`, `CleanUpPipe`, `CleanUpZeroCopy`, `CleanUpTasks`.

### IdMap

One type of objects.  `active`, `name` and `refcount` are `OS_common_record_t`, `lock` is the mutex
of the type, `tok` the token of the call each task is in.  `Convert` is `OS_ObjectIdConvertToken`:
it succeeds, waits (`Retry`, after `OS_WaitForStateChange`), or fails; its callers, `AllocateNew`,
`GetById`, `GetBySearch` and the iterator, keep or release the mutex as they do in the code, the
error paths that forget to do so included.  `Operate` is the work a caller does with the record,
`TransactionFinish` the end of it.  Serial numbers wrap at `IndexMask`; `Probe` lists, in closed form, what
the loop of `OS_ObjectIdFindNextFree` tries, which passes the mask once at most when the table is at most
half its size (an assumption; the code has 65,535 serial numbers).

### TimeRef and AtomicRef

One action is one field read or written, since nothing is locked.  `StartReferenceUpdate`,
`CarryOver`, `Assign`, `FinishReferenceUpdate` are the update; `Begin`, `Look`, `ReadField`, `Retry`,
`Return` are `CFE_TIME_GetReference`.  A field's value is the version that assigned it, so any mixture
of two references is visible.  The refinement maps the abstract value to the buffer that the last
finished version is in.  `seen` and `first` are history, which nothing else reads.

Two assumptions are in the model.  There is one writer: in the configuration that is built by
default every update is made by TIME's main task.  And memory is sequentially consistent: the
structure is accessed through `volatile`, without barriers, so the results say nothing of a
multiprocessor that reorders reads.  `CFE_TIME_GetReference` tests its retry count once more after
its loop (`cfe_time_utils.c:595`), so that a read which succeeds with no retry left is reported as
failed; `Return` does the same.

### TimeTone

`met`, `latch` and `fly` are the reference, taken as a whole; `virtualMET` the count of good tones;
`pipe` the messages TIME sends itself.  The local 1 Hz timer (`Tick`) wakes `Local1HzTask`, whose message
makes the main task run `OneHzCmd`: the state machine (`StateMachine`), then the handler of the faked
tone.  A good tone wakes `Tone1HzTask`, which asks for the data packet (`ToneSendCmd`); its arrival
(`ToneDataCmd`) is matched with the tone (`Matched`) and updates the reference (`ToneUpdate`).
`SetStateFlywheel`, `SetStateOther`, `SetMET` and `SendHkCmd` are the commands that touch these variables;
`ProcessorReset` starts TIME again from what `SendHkCmd` saved.  Time is in units of a fraction of a
second and passes between handlers, as far as `KeptUp` lets it: a message is handled within `ToneDelay`
or `Delay` of its timer.  `limit`, `calm` and `isSet` are history.

### ESApps

Application table: `appId`, `appName`, `appState` (the states before RUNNING are one, `init`),
`request`, `timer`, `mainTask`.  Task table: `taskId`, `taskApp`.  OSAL's tasks: `phase`, `born` (the
application a task was made for) and `creator`.

* `CFE_ES_AppCreate` is `Reserve`, `LoadModule` (may fail), `TaskCreate` (OSAL; may fail; from here on
  the new task runs), `TaskRecord`, `AppCreateEnd`.  The same middle steps serve
  `CFE_ES_CreateChildTask`, whose first section is the action of that name.
* A new task polls for its record (`GetTaskFunction`, `GiveUp`), then runs application code: any
  call of `RunLoop`, `ExitApp`, `CreateChildTask`, `DeleteChildTask`, `ExitChildTask`; when ES does not
  find its context those calls fail and it returns (`EntryReturns`).
* `ControlRequest` is `CFE_ES_DeleteApp`, `RestartApp` and `ReloadApp`, from any task.
* The background task: `Scan` counts the kill timers down; `ProcessControlRequest` copies the request;
  `CleanUpBegin` reserves the records; `Swept`, `DeleteOwned`, `DeleteTask` are
  `CFE_ES_CleanupTaskResources` for each task, children first; `CleanUpEnd` frees the records;
  `Restart` creates the application again under the name it had.

### TBL

`reg` is the registry: of each record the ID, name, owner, the identifiers of the active buffer, of
the one before it and of the load in progress (`next`), and the requests of the ground.  `hnd` is the
access descriptors, `buf` the buffers where they stand (one or two in each record, and the shared
ones), each with the identifier it was reserved under, the record it is for, its contents and whether
it was validated.  `dmp` and `val` are the control blocks of dumps and validations, `cds` what the
store holds of the critical tables, `lock` the registry's mutex.  A buffer is named twice in this
code, by an identifier and by where it stands (`Place`); whether the two still agree is `IsMatch`,
and most of the hard behaviour is in what is done when they do not.

* Calls that hold the mutex throughout are one action: `Register` (with `RegisterFails`, which leaves
  a record in use behind), `Share`, `Unregister`, `ReleaseAddress`; `GetAddress` holds it to
  `AddressStatus`, which reads and clears the notice.
* `CFE_TBL_Load` holds no lock while it works: `Load` (takes a working buffer), `LoadWrite`,
  `LoadCheck` (the validation function), then `CFE_TBL_UpdateInternal` as `Reserve`, `Copy`,
  `Activate`, `Notify`, `PickActive` and `Save` for a critical table, and `Discard`.
  `CFE_TBL_Update` runs the same steps under the mutex.
* `Modified` is the write of the application and `CFE_TBL_Modified`.  `Manage` decides under the lock
  what to do and does it after: `Validate` with `ValidateFunction`, `Update`, or `DumpToBuffer`.
* The task of TBL: `FindTable` finds the record of a command under the lock; `LoadCmd`/`ReadFile`,
  `AbortLoadCmd`, `ValidateCmd` use it afterwards; `DumpCmd` takes a control block and `PrepareDump`
  a buffer; `SendHkCmd` writes what was dumped and frees block and buffer.
* `Exit` and `CleanUpHandle` are `CFE_TBL_CleanUpApp`, one transaction for each descriptor, and
  `CleanUpEnd` the start of the application that is made again.

`seen` is what a table showed its user when it was locked: history, for one property.

### GenPool, CDS and CDSStore

`GenPool` gives the bucket allocator as operators on two values, because they are kept in two
places: the descriptors, which lie in the managed memory and survive a reset, and the record of the
pool with its lists, which does not.  `GetDescs`/`GetPool` and `PutDescs`/`PutPool` are
`CFE_ES_GenPoolGetBlock` and `PutBlock`; `RebuiltDescs`/`RebuiltPool` the walk of
`CFE_ES_GenPoolRebuild`.

In `CDS`, `sig`, `sized`, `stored`, `desc` and `mem` are in the store and survive a processor reset;
`reg`, `lastId`, `pool` and the handles do not.  A call holds the mutex throughout, so calls do not
overlap; but each writes to the store several times, and **one action is one such write**.  `call`
is the call between two of its writes.  `ValidateCDS`, `ClearCDS`, `InitCDSSignatures`,
`InitCDSRegistry` are `CFE_ES_CDS_EarlyInit`; `RegisterAgain`, `RegisterResize` and `RegisterNew` with
`RegisterGet` and `RegisterSave` are `CFE_ES_RegisterCDSEx`; `CopyHeader` and `CopyData` are
`CFE_ES_CDSBlockWrite`; `DeleteCDS` and `DeleteSave` are `CFE_ES_DeleteCDS`; `BlockRead` is what a
restore gives.  `ProcessorReset` keeps the store and loses the rest, `PowerOnReset` also takes the
signatures away.  The refinement maps what a name keeps in `CDSStore` to what a restore would give
now, or after the reset that is under way.

### EVSLog, EVS and EventLog

`EVSLog` holds the ring (`Next`, `LogCount`, `LogFullFlag`, `LogMode`, `LogEntry`) and the operators that
change it: `AddLog` in its five writes, `ClearLog`, the order in which a file is written (`Entries`),
and what `CFE_EVS_EarlyInit` makes of what it finds (`Restored`).

In `EVS`, `data` is the entry of each application: registered or not, switches, tokens, the time since
the last credit, filters with their counts.  `log` is the ring.  An event is `SendEvent` (the
switches and the filter, without a lock), `Count` (the filter's count is raised, from the value read
before or from the one there now: `++` on shared memory), `Squelch` under the mutex, `LogEvent` under
the mutex again.  Events of EVS itself, which are not squelched, are `SendOwn`, from within the call
that causes them.  Registration is `RegisterBegin`, which clears the entry before the arguments are
looked at, and `RegisterEnd` or `RegisterRefused`.  Commands find the entry first
(`GetApplicationInfo`) and use it afterwards, whoever has it by then.  `Tick` is a millisecond.

`meter`, `muted` and `told` are history: `meter` is what an application may still send by the documented
rate (a token bucket that knows nothing of EVS's tokens), `muted` whether its last event was
squelched, `told` how many notices of that were sent since one was not.

## 3. What TLC checks

Sizes are for complete searches; times are of two workers on one machine.

| Run | Distinct states | Question |
|---|---|---|
| `sb_bus` | 443,212, 67 s | Two tasks on two pipes with a queue and a limit of one, zero-copy buffers, an operator who switches routes: is every reference to a buffer accounted for, are routes and the other counts exact, is what a task reads or fills its own, are slots not shared? |
| `sb_cleanup` | 143,000, 175 s | Does clean-up of an application that exits leave anything of its own, does the deletion of a pipe lose more than the writes that came too late, and does every call end? |
| `idmap_all` | 89,652, 30 s | A creator, users and a deleter on two records: exclusive access, counts, serials, and do calls end? |
| `time_ref` | 1,115,539, 45 s | Does the ring of four implement one atomic reference, and what does a repeated read cost? |
| `time_tone` | 8,546,502, 90 s | A tone for nine seconds, messages handled early or late, and any two losses, commands or resets: does the time given run ahead, or back, or stay without the tone? |
| `es_apps` | 706,657, 94 s | Two application and two task slots, three applications and four tasks in the course of a run: slots, names, contexts, counts, requests |
| `tbl_share` | 25,660, 15 s | A critical double-buffered table with a validation function that one application owns and another reads, both leaving and coming back: is a locked table stable, is the active image validated and saved, do calls end? |
| `tbl_served` | 324,127, 100 s | A single-buffered and a dump-only table that their owner loads and serves while the ground loads, validates, aborts and dumps them: are the shared buffers held by one use each, are dumps written? |
| `cds_reset` | 696,531, 89 s | Two names that are registered, resized, copied and deleted, with resets of both kinds: does the store keep what it was given? |
| `evs_flow` | 728,936, 60 s | The main and a child task of one application send, register and reset filters while the ground commands and resets come: is flooding cut off and told of, is the log a ring that survives? |
| `sb_leak`, `idmap_lookup` | until found | The two statements of comments that are violated (section 4) |

### The properties

**SB.**  `UseCountAccounted` counts, from the whole state, the places that hold a reference to a buffer and
the writes of it that went with a deleted queue, and compares the sum with the use count that a dozen
sections raise and lower.  Without the second part it would be `UseCountExact`, what the code says the
count is, and `sb_leak` shows that it is not (section 4).  `CountsExact` does the same
for the depth of a pipe, the message limit of a subscription and the statistics.  `RoutesLive` and
`SlotClaims` are about half-made and dying pipes.  `HoldersKeepBuffers` is what an application relies
on: the message it reads (`HeldIsPinned`) and the buffer it fills (`OwnIsAllocated`) are not recycled.  `CleanedUp`
is the promise of clean-up and of deletion: a reserved slot always has somebody who will finish with it; an
application that is gone has no slot, no message on a queue, no subscription and no zero-copy buffer
(`NothingLeftBehind`); and what goes with a queue is at most one message of each task that sends, however
deep the queue is (`FewLost`), which is to say that the drain leaves nothing else on it.

**Object table.**  `HoldersSafe` says what the lock modes mean: an exclusive holder is alone, and a
record does not change its ID under those that share it.  `RecordsUsable` says that no failure,
retry, refusal or wrap-around of serials leaves a record unusable: reference counts are exact, a
reserved record has somebody creating, deleting or waiting, and an ID leads to its record.

**TIME.**  `ReadsAreAtomic` is the refinement `TimeRef => AtomicRef`.  `RetriesArePaid` says a read is
repeated only if the ring has gone round it: `Depth - 1` updates ended for each repetition.

**TIME, the tone.**  A server has two counts of seconds, the tones (`virtualMET`) and the local clock,
and hands over from one to the other whenever the tone is lost and found.  `GoesBackLittle` says what
a hand-over may cost: nothing but jitter while the tone is there, less than a second when a flight
ends (the computed MET is cut to whole seconds), less than two at the first update after the ground
has set the MET (its fraction, and a tone missed just before).  It would fail if a missed tone were
ever a lost second, or if the local clock rolled over past its latch.  `NeverAhead` bounds the other
side: at most a second more than what was set and the time since.  `Recovers`: four expirations of the
timer after the last disturbance the server does not fly, unless told to.

**ES.**  `RecordsSound` says that a record is reserved exactly while one task creates or deletes in it
(`SlotsOwned`), and that two applications never have one name, though creation, deletion and restart
of the same name overlap (`NamesUnique`); `TasksKnown` that a task of a valid application finds its record and, by it, its
application, although OSAL re-uses the slot of a deleted task before clean-up has released the
record, and that telemetry never forgets a task.  It has one exception, which the attempt to prove it
without one has shown: clean-up deletes the child that a task is creating, OSAL gives the child's slot to
a new task of another application, and the creator, not deleted yet, writes the record of the child
over that of the new task (`cfe_es_apps.c:654`, "this shouldn't fail").  `ContextKept` allows for exactly that record (`Stray`), and
`es_context` in section 4 shows the run.  `LastRequestWins` that the request carried out is
the last that was accepted, though the application exits by itself at the same time.

**TBL.**  `LockedUnchanged`: what a reader sees under its lock stays, whatever is loaded meanwhile; it
holds for double-buffered tables (`tbl_share`) and fails for single-buffered ones (`tbl_locked`).
`DescriptorsLinked`: a descriptor leads to the record it was made for, and a record lasts exactly as
long as it has an owner or a user, although records are used again and clean-up takes descriptors
one by one.  `ActiveValidated`: the active image is one the validation function accepted.
`CriticalSaved`: outside an update the store holds the active image, so an owner that comes back finds
it.  `SharedBuffersHeld`: a shared buffer is in use exactly when one load or one dump has it.
`DumpsWritten`: a dump that was made is written, and its block and buffer come free.

**CDS.**  `PoolExact`: blocks do not overlap, do not go over the end, and each is in use or on one list,
before and after the lists are rebuilt from the descriptors.  `OneOwner`: a block that the registry
names is allocated in that size and named once.  `NamesKeep` is the refinement `CDS => CDSStore`: a name
keeps its image whatever is done to another name, and a processor reset, at any moment except while
the stored registry is behind the pool (`AnyMoment` is FALSE), changes nothing or loses only the
image that was being written.

**EVS.**  `FloodBounded`: against a token bucket that only knows the documented burst and rate, in every
stretch of time an application gets past the squelch at most the burst, the rate, and two events; and
after the silence that the code's comment promises, the next event passes.  `EpisodesTold`: each time
squelching begins it is told of once, with the first event that is lost.  `LogKeeps` is the refinement
`EVS => EventLog`.

`TypeOK`, one per module, is only a guard for the rest.

### Liveness and fairness

`FairSpec` of SB and of IdMap has weak fairness for each task's `Proceed`: a task inside a call
is scheduled until the call is over.  That is what a preemptive operating system gives every task
that is ready; calls themselves are made at will, never out of fairness.  SB's clean-up has weak
fairness of its own, since it is a loop of ES's background task.  `CallsEnd` then says that no call,
and no clean-up, is starved by the others.  In `IdMap` the number of calls a task makes is bounded
(`MaxCalls`): a deletion waits for holders in a bounded number of attempts, so an endless stream of
other calls is not needed to make it fail; and `CallsEnd` excepts the states in which the mutex is
already lost, because two statements in section 4 say how that happens.  `ESApps` has weak fairness of
one thing, that the background task goes on with what it is at: its scan, its clean-up, or the creation it
has begun.  Applications do what they want, so `RequestsEnd` (no request that was accepted, and no exit,
stays undone) holds even if the application never looks at its run status.

In `TBL` a call that has begun has strong fairness (`Continue`): it waits for the registry's mutex,
which comes free again and again, and OSAL gives a mutex to a task that waits for it.  The task of TBL
has weak fairness inside a command (`Carry`, which needs no lock), and strong fairness of `SendHkCmd`:
the housekeeping request comes periodically from the scheduler and waits in the pipe of the task in
turn with the commands.  No application is made to call `CFE_TBL_Manage`.  CDS and EVS have safety
properties only: a call of CDS is never in anybody's way, and EVS makes nobody wait.

Deadlock is not checked, because all instances have bounds on the number of IDs, versions, loads or
calls, at which they stop.

### Bounds

* SB: two or three tasks, one message ID, two buffers, two pipes, queues no deeper than `MaxDepth` = 2 (what
  OSAL allows, 50 in the code); `LastSerial` pipe IDs in a run.
  Two buffers are enough for one to be held as `LastBuffer` while another is queued; two or
  three serials let a slot be used again while a call with the old ID is under way.  Serials stay far
  below their wrap-around, which `IdMap` checks for OSAL instead.
* IdMap: two records, `IndexMask` 3 (serials wrap within a run), two attempts instead of five (one
  wait and one last attempt), up to three calls for each task.
* TimeRef: the real depth of four; `MaxRetries` 1 (four in the code) so that a reader meets one
  repetition and the end of its retries; nine versions, which is what it takes to go round the ring
  twice; two fields, changed together or one alone.  One reader is enough: readers share nothing.
* TimeTone: five units to a second, so that jitter (one unit), the limit of a good tone and the window
  for the packet (two) and a packet that comes too late (three) are apart; a local clock that rolls
  over at seven seconds, flywheel after two, latched again after three, which keeps the order of the
  values in the code (27, 2, 8); nine seconds, which pass the roll-over; two disturbances.
  `ToneDelay` and `Delay` say how late, in its second, the processor may handle a message; `time_late` shows what
  happens when the first reaches the limit of a good tone.  Flywheel after two seconds is the value of
  the code, and what the properties need: with one, a single late tone makes the server fly, and
  `Recovers` is violated; with three, one lost tone passes for a count that is a second behind, and
  `GoesBackLittle` is.
* ESApps: tables of two; three application IDs and four task IDs, so that every slot is used again, and
  one of them while the record of a child that is no more is still to be written (with three tasks
  `ContextKept` would hold without its exception); a kill timer of one scan; two names; one task that creates
  applications besides the background task.
* TBL: one or two tables, two applications with one handle each, one or two shared buffers;
  `LastReg`, `LastHandle`, `LastGen`, `LastLoad`, `LastDump` bound the identifiers, so that each record,
  descriptor and buffer is used at least twice; two images, one of which validation refuses.
* CDS: two names, two sizes, a pool with room for two small blocks or a small and a large one, so that
  a resize needs the memory of another; three IDs in two records; two resets, so that what a reset
  leaves can be damaged by the next.  The descriptor is as large as the smallest block.
* EVS: a log of two entries, one filter of one bit (locked after the first event that is counted), a burst of one
  event and a rate of half an event per tick, so that credits of a part of an event occur; `MaxElapsed`
  is the least that pays any debt, which an assumption states; two calls of registration or command and
  one reset.  Where two applications matter, one of whose tasks sends for the other, the configurations
  of section 4 have them.
* Symmetry is used for buffers of SB only, and only in runs without liveness.

## 4. Where the code and what it says disagree

Two runs are expected to fail, and `PROJECT.json` quotes the statements they refute:

* `sb_leak` (`UseCountExact`): a message that is written between the drain of a pipe and the deletion of
  its queue is lost with the queue, and its buffer keeps a reference that nobody holds.
* `idmap_lookup` (`LockHeldInCall`): a lookup by name that finds a reserved record fails with the
  mutex of the table still held.

The first is the race of a sender with the deletion of a pipe (`cfe_sb_api.c:373`: "With the route removed
there should be no new messages written to this pipe").  The sender copied its list of destinations before the
route went, and its `OS_QueuePut` runs without the lock.  If it falls between the last `OS_QueueGet` of the
drain (409) and `OS_QueueDelete` (417), the write succeeds, the message is thrown away, and the block of the
pool is in use for ever.  `FewLost` bounds what one deletion can lose.

The configurations below are kept beside them.  TLC finds the one property of each violated too:

| Configuration | Property | What the code does, and who says otherwise |
|---|---|---|
| `sb_forced` | `OwnIsAllocated` | an application that has not exited is deleted; its zero-copy buffers go back to the pool while its tasks, deleted only later, still use them |
| `idmap_refused` | `NoSelfWait` | an object refused by the event handler makes its task lock the mutex it holds |
| `idmap_names` | `NamesUnique` | two objects of one type get the same name, which is stored after the mutex was released |
| `time_late` | `GoesBackLittle` | `ToneDelay` = `ToneLimit`: a tone handled late makes the next one too early to be good and to count; the server loses a second without flying |
| `time_packet` | `PacketAgrees` | in flight, the data packet and the reference are computed at two moments, or from two counts, so that time clients get another second than the server (`cfe_time_tone.c:789` says they "came from the same values") |
| `es_context` | `ContextFound` | a task of a living application loses its record to a child that clean-up deleted while it was being created (`cfe_es_apps.c:654`: "As this is a newly-created task, this shouldn't fail") |
| `es_leftovers` | `NothingLeft` | a child task is created by an application that ES is deleting; its record stays |
| `es_entry` | `EntryHasContext` | a new task waits for its own record, not for that of the application, and may enter it before ES knows it |
| `tbl_abort` | `NoFault` | the ground aborts a load that the owner is making; the copy finds no buffer (`CFE_TBL_TxnLoadFromSourceAddr` says the pointer "can never be NULL") |
| `tbl_locked` | `LockedUnchanged` | the first load of a single-buffered table marks the table's own, active buffer as free (`cfe_tbl_internal.c:232`); the next update does not see that somebody has it locked and copies over it (`cfe_tbl_registry.c:191`: "no one will modify it until we are done") |
| `tbl_unvalidated` | `ActiveValidated` | the ground writes a file into the image that waits, validated, to become active |
| `tbl_blocks` | `DumpBlocksServed` | a dump for which no buffer is left keeps its control block for ever |
| `tbl_missed` | `OldAddressTold` | a user that gets an address between the change of the active buffer and the notice has its notice cleared, or never learns that its address is old |
| `tbl_stale` | `CriticalSaved` | `CFE_TBL_Modified` saves a buffer it found before an update changed the active one |
| `tbl_cleanup` | `SharedBuffersHeld` | clean-up of an owner drops the control block of a dump and not its buffer |
| `cds_window` | `OneOwner` | `AnyMoment = TRUE`: a reset after a block was given back and before the registry was saved leaves a name for a free block (`cfe_es_cds.c:397` and `:876`, `cfe_es_cds_mempool.c:180`) |
| `evs_types` | `TypesObeyed` | whether an event type is enabled is asked for the calling application, not for the one the event is sent for (`cfe_evs_utils.c:200`, `cfe_evs_task.c:1317`; `cfe_evs.dox:141`) |
| `evs_latch` | `LockedUntilReset` | two tasks that count in one filter take a locked count over the end, back to zero (`cfe_evs_eventids.h:466`: "Filtering will become locked until the filter is either reset or deleted") |
| `evs_torn` | `DiscardKeeps` | `AnyMoment = TRUE`: a reset in the middle of `EVS_AddLog` leaves a full log whose flag does not say so, and a log in discard mode overwrites (`cfe_evs.dox:390`) |

`ReportTrue` of `EVS` is violated in the same way, without a configuration of its own: the count of the log is
compared after the mutex was released, so that a complete file is reported as failed (`cfe_evs_log.c:190`;
`cfe_evs_eventids.h:62`).  So is `UsedRecordsAreTables` of `TBL`, when `MaxHandles` leaves no descriptor for a
registration: it fails late, and leaves a record in use and without a name.  So is `GroundLoads`: the load
command loads only into a load in progress and never starts one.  And so is `OnlyOthersLoad`, when the
owner of a critical table may stop and come back: the table recovered from the store has a load in progress that
nobody makes, and refuses loads.

One statement is only a matter of words: `internal_cfg.h:80` calls the rate of the squelch the
"Maximum number of events per app per second", and a burst may come on top of it, as
`FloodBounded` says.

Where the same property holds in a listed run and fails here, a constant makes the difference: `Calls`,
`Commands` and `Exits` of TBL name what applications and the ground do, `AnyMoment` is FALSE, `Forced` is
FALSE, `ToneDelay` is below the limit.  Section 3 names the cases that are in.

## 5. What is proved

The proofs hold for every value of the constants that satisfies the named assumptions in the module:
any number of tasks, applications, pipes, routes, destinations, buffers, messages, readers, fields or
object records, any range of serial numbers, rate, burst, cost of an event and size of the log.

**`SBProofs`** proves `TypeOK`, `RoutesLive` and `SlotClaims` invariant.  None is inductive alone.  That the
count of a destination or a depth stays natural needs only the guards, but the type of a route
needs to know that the pipe ID in a task's hands is one (`RunningHasPipe`), and that a sender
has a buffer and a message (`SendingHasBuffer`).  `RoutesLive` needs `SlotClaims`: a pipe may be put on
a route only while its slot carries its ID, and `CreateFinish` writes that ID into a slot which must
still be reserved, by this task and no other, or it would overwrite a live pipe that routes name.
`SlotClaims` in turn is kept because `FindNext` gives out only free slots.  The invariant is

    IInv == TypeOK /\ SendingHasBuffer /\ RunningHasPipe /\ SlotClaims /\ RoutesLive

with one lemma for each action, and helper lemmas on the list operations (`Without`, `DestPtr`,
`CountDown`) they share.

The second part of `SBProofs` goes on to prove `UseCountAccounted`, `HoldersKeepBuffers`, `CleanedUp` and `CountsExact`, and with
them all the invariants that the passing runs of `SB` check, from two hypotheses.
`Orderly` says that ES deletes only applications whose tasks have all called `CFE_ES_ExitApp`; otherwise a
task is deleted wherever it is, and `sb_forced` shows what it takes with it.  `RoomForDests` says that the
destinations of a route fit a use count (16 by default against 32767): `CFE_SB_IncrBufUseCnt` saturates, and
a count that has saturated is not exact.  The invariant has six layers, each proved with those before it:

    BusInv == CallInv /\ QueueInv /\ UseInv /\ HeldOK /\ LostInv /\ CountsExact

`CallInv` says where each call is and what that says of its variables: writes are pending only while
they are made, no task acts once the clean-up of its application has begun, and nobody knows the ID
of a pipe that is still to be made (`FreshOK`), so that a new pipe cannot inherit messages of an old
one.  `QueueInv` is about the queues.  What is on one is on the queue of a pipe that exists or of one a call is
emptying (`Live`, `LiveOK`, `MakersOK`).  A queue that is gone does not come back and loses nothing more
(`GoneOK`), so that `QueueDelete` moves its messages to an empty `lost`.  And once the drain has found the queue
empty, its length and the writes still to be made to it, of which each sender has one at most, are together no
more than the senders (`LateOK`): a write takes from one what it adds to the other, and no new one begins, since
no route leads there.  `UseInv` is `UseCountAccounted` itself with `HandsOK`: a buffer in a task's hands is in no other's, and, until it is
sent, on the zero-copy list of that task's application with a count of one.  The sum has seven parts
(`Part`), each the cardinality of a set, or, for the queues, of two: what is on queues that are, and what was on
those that were; what a step does to each set is a lemma, and the lemmas `Moved`, `SumMoved`
and `SumLess` put the parts together.  `HeldOK` adds that a reader's pipe is there.  `LostInv` says whose each slot is (`OwnersOK`) and,
for the application ES cleans up, that each slot that is still its own is on ES's list or in its hands (`InHand`).
`CountsExact` needs `CallInv` and `UseInv` only.  What is on its way to a pipe is again a sum of
cardinalities (`Outstanding`), over all buffers for the depth of the pipe and over those that hold one message for the limit of
a subscription; a lemma for each step says what it does to the sum for any set of buffers
(`QueuePutOut`, `FindOut`, ...).  Most steps only move a message from one place to another.  A buffer changes the message it
holds when it is allocated or sent, and it is then nowhere else (`Alone`), so that no other sum changes
(`OutElsewhere`).  The depth is exact and the limit only bounded: a subscription that ends and
begins anew counts from zero, while messages of the old one are still in the queue.

**`IdMapProofs`** proves `TypeOK`, `HoldersSafe` and `RecordsUsable`, all the invariants of `IdMap`, with
any number of tasks, attempts and records.  A conversion is decided by what the record is now
(`active_id`, `refcount`) against what the token expects, and the caller may have waited with the mutex
released, so each of the properties needs the others:

    IInv == TypeOK /\ TokensOK /\ Ownership /\ HoldersSafe /\ RecordsUsable

`TokensOK` says that a token fits the place of its task: its ID leads to its record, and it expects
the record reserved only if this task has reserved it.  `Ownership` says that whoever creates or deletes an
object, or waits to, has the record reserved and is the only one (`OneOwner`), and that those who
share a record somebody waits to delete asked for the same ID (`SameId`), which is why giving up the
wait may put that ID back.  An exclusive caller is let in when the count is zero, so that it is alone
follows only if the counts are exact (`RefcountExact`, a cardinality that `CountStep` raises and
lowers).  That the mutex is lost on some failures (section 4) does not weaken any of this.  The lemmas
`Takes`, `Drops` and `Still` keep the invariant for whatever takes a record, lets go of one, or does
neither; one lemma for each action shows which it is.

**`TimeRefProofs`** proves `TypeOK`, `RetriesArePaid` and the refinement `ReadsAreAtomic`.  The key fact is
arithmetic: two versions that share a slot differ by at least `Depth` (`SameSlot`), so a reader whose
version is still in its slot has been overtaken by fewer than `Depth` starts, and nothing has
written to its buffer.  The invariant is

    IInv == TypeOK /\ BuffersOK /\ ReadersOK

`BuffersOK` says the slot of the last version, and of the one being made, carries that version, and
that no slot carries a later one; `ReadersOK` says that as long as the slot of the version a reader
has looked up still carries it, every field copied so far is the one the reader met.  The
step lemmas keep it; `InitImplements` and one lemma per kind of step show that each maps to a step of
`AtomicRef` or to a stutter.

**`EVSProofs`** proves `TypeOK`, `FloodBounded`, `EpisodesTold` and the refinement `LogKeeps`.  The squelch
counts tokens that go below zero and credits whole events only, so nothing of it looks like the token
bucket of the documentation; the invariant relates the two.  For each application, what the meter has
is at least what the balance and the uncredited time are worth, plus `Cost - 1` (a credit is rounded
down once); and an application is muted exactly when its balance is at most `-Cost`, which makes the
band in which the notice is sent one event wide, so that it is met once and only once.  For the log
the invariant (`RingOK`) is that the ring has been filled from its start as far as `LogCount` says,
that `Next` is `LogCount` until it wraps, and that the flag says whether it is full; from this,
`AddLog` on the ring is `Append`, or `Append` to the tail, on the sequence of entries, which needs the
arithmetic of an index that goes round.  `RingIsLog` is proved under `AnyMoment = FALSE`: a reset
comes before or after a change of the log, not within it (`evs_torn` shows why).

**`ESAppsProofs`** proves `TypeOK`, `RecordsSound`, `TasksKnown` and `LastRequestWins`, all the invariants of
`ESApps`, with any number of applications, tasks and names, tables of any size and any kill timer:

    IInv == TypeOK /\ AppsInv /\ TasksInv

`AppsInv` says of the application table that a reserved slot has exactly one owner, a creation or the
clean-up (`CreationsOK`, `ReservedOwned`), that an ID which the background task still holds in a list
belongs to an application that has ended and that nobody can bring back (`ScanOK`; `Dead` is stable,
since IDs are not used twice within the bound), and that a request is the last one accepted, or an exit that came instead.
`TasksInv` says when the record of a task is its own: a child is like its creator (`BornOK`), clean-up works on tasks
of one application (`ListOK`), and a record that is reserved will be freed (`RecordsOK`).  The heart of it is
`RecordingOK`: between `OS_TaskCreate` and the record, the child has not run and is alive, *unless
clean-up is deleting its creator*, which is the case in which a record can be overwritten.  `KeptOK` is
stronger than `ContextKept`: it holds from the reservation of an application's slot on.

**`TimeToneProofs`** proves `TypeOK` and `NeverAhead` of `TimeTone` without any hypothesis on limits, delays or
losses, `Recovers` and the action property `GoesBackLittle` under the conditions they need.  In a state,
what has been latched counts by its age, and one second of messages is a token that is handed on:
`Pending` (the tone of this second is still to come) becomes `Following` (the packet is) becomes neither, and
a loss ends it (`OneAtATime` and the lemmas `...Chain`).

    IInv == TypeOK /\ OneAtATime /\ InTime /\ TonesOK /\ METOK

`TonesOK` says that the count of tones, with the one still to come, is not ahead at the start of
the second.  `METOK` says that the MET is a second behind its limit, or has whole seconds at the tone, none of them
ahead: what a flight rounds off may not be added again.  `NeverAhead` follows.  For `TheToneIsFoundAgain`
the invariant (`Found`) follows the recovery expiration by expiration: the tone, a good successor, a packet that
matches, an update.  It needs `OneToneLate`: the 1 Hz message is handled within the jitter a tone is
allowed, and one late tone is not yet a flight.  For `TheMETGoesBackLittle` the invariant (`Kept`) is that since an update
either every tone was counted, or no update comes before a flight (`TonesCounted`), and that the age of
the reference stays below the range of the local clock (`NoRoll`).  It needs `FliesSoon`: at most one
tone can be missed before the server flies, and the seconds up to the latch of a flight, with one for every
message that may be lost, fit the local clock.  The values of the code (2, 8 and 27 seconds) and of
the run satisfy both conditions; the bounds paragraph in section 3 says what happens without them.

**`TBLProofs`** and **`TBLImageProofs`** prove all safety properties of `TBL`.  The calls that work without the registry's lock are
interleaved with everything else, so the invariant says what each of them may rely on:

    IInv == TypeOK /\ TasksOK /\ JobsOK /\ IdsOK /\ SerialsOK /\ DumpsOK /\ LoadsBounded /\ DescriptorsLinked

`JobsOK` says that a call under way keeps the descriptor it began with, `IdsOK` that an identifier points where its
buffer stands, `SerialsOK` and `DumpsOK` that serial numbers, dump blocks and validations stay in order, and
`LoadsBounded` that the bounds are enough for the identifiers that dumps take.  With `Unmade` (the next
descriptor is new) it is inductive without any hypothesis, and gives `TypeOK` and `DescriptorsLinked`.
The four theorems of `TBLImageProofs` have hypotheses on constants, each one a mode of use.  Where it is said below,
a run shows what happens without them (those in section 4 are not all among the listed runs).

- `LockedKept`, under `LoadsAside` (tables are double-buffered or dump-only, and the ground loads no
  file).  The invariant `LInv` says that the active buffer stands, that a load in progress is beside it, and
  that what an application has locked keeps its identifier, which is not later than that of the active buffer, and
  its data.  A load into a single-buffered table breaks it (`tbl_locked`), and so
  does a file of the ground that is read into a buffer after it became active.
- `SavedKept`, under `LoadsAside` and `LoadsOnly` (no `CFE_TBL_Modified`).  `CInv` adds that a name has one
  record and that a save reads the active buffer.  `CFE_TBL_Modified` breaks it (`tbl_stale`), and a late
  file of the ground again.  That tables are double-buffered is what the proof needs; TLC finds no
  counterexample with a single-buffered one.
- `ValidatedKept`, under both and `ManagedOnly` (`CFE_TBL_Update` is left to `CFE_TBL_Manage`, and no dump-only
  table has a validation function).  `VInv` follows an image: what the store holds was accepted, a
  buffer marked as validated that no load is filling holds an accepted image, and an update under way has
  one.  A load by the ground breaks it (`tbl_unvalidated`).  So does `CFE_TBL_Update`, called by an owner that comes
  back and whose table was never loaded: the load in progress that its registration leaves behind (section 4)
  becomes active without validation.  A dump-only table with a function is active from its registration on.
- `BuffersKept`, under `NoneDropped` (there are no dump-only tables, or applications do not stop).  `HInv`
  says for every shared buffer that it is in use exactly if a load or a dump has it, and then one
  alone (`OneHolder`), that a dump once performed is not performed again (`DumpStates`), and that the load of a record
  leads to a buffer that is there (`SharedLoads`).  Loads and commands of the ground are not restricted.  An application that
  stops while a dump waits for it takes the buffer with it (`tbl_cleanup`).

`tbl_share` satisfies the first three hypotheses and `tbl_served` the last, so TLC checks on small
instances what the theorems say for all.

**Only model-checked**: `CDS`, and all liveness.  Liveness under fairness is outside what the prover's
backends do.  The chains of `GenPool`, on which all properties of `CDS` rest, are defined by recursion over
data of any size and would need induction.

## 6. Mutants

For every property of a passing run, `PROJECT.json` names a definition of the model and a wrong version
of it, such as a dropped guard, a missing reset or a check that looks at the wrong record.  Put in its place,
the wrong version makes TLC find that property violated in that run.

## 7. What is not modelled

* Formatting, event messages, telemetry packets, file headers and the content of messages: no
  property depends on them.
* Error and peak counters of SB (telemetry only, some of it updated without a lock).
* A task of SB or OSAL cancelled inside a locked section.  SB's `CleanUpTasks` stops tasks between
  two sections only.
* In `IdMap`: `OS_LOCK_MODE_NONE` (reads one word and changes nothing), `OS_LOCK_MODE_RESERVED`
  (nobody uses it), the deletion of tasks under the global lock, the repetition of
  `OS_DeleteAllObjects` until nothing is left.
* In `ESApps`: core applications, the start-up script and its synchronisation, libraries, the
  module loader, memory pools, exceptions, and tasks killed inside OSAL.  The pass of
  `OS_ForEachObject` over the objects of a task is repeated until it finds nothing; the code's
  error flag for a pass that deletes nothing is left out, because deleting a task does not fail here.
* In `TBL`: tables at an address of the user, `CFE_TBL_GetInfo`, file formats, CRCs, partial loads,
  the registry's telemetry and dump, deletion of a store by command, several handles of one
  application to one table, and the critical table registry, which is one with the data in `cds`.
* In `GenPool` and `CDS`: sizes that are not multiples of the alignment, statistics, errors of the
  platform's access functions, the flag for critical tables, the pools of `cfe_es_mempool.c`.  A write
  to the store is complete or has not been made.
* In `EVS`: what comes after the log (ports, message format, the bus), telemetry counters and their
  reset, `CFE_EVS_SetTypeEnable`, housekeeping, the file of application data, filters of EVS's own
  events.  An entry is copied whole where the code copies it field by field, and `SendOwn` has one
  unlocked read together with the section that adds to the log.
* In `TimeTone`: STCF, leap seconds and the set state, which do not touch the MET; external sources,
  clients, a tone in hardware and the other order of tone and packet, which are compiled in only by
  other configurations; the callbacks of synchronised applications.  A handler takes no time.
* ES's start-up, logs and exceptions, FS, OSAL's queues, semaphores and
  timers as such: planned below.
* Applications, PSP drivers, ground tools, unit tests: users of the services, hardware access, or
  host programs.

## 8. Plan

1. **TIME clients**: the packet as a client uses it, with the delay, and an external source.
2. **ES start-up and reset**: `WaitForSystemState`, start-up script time-out, reset counts; composed with
   `ESApps`.
3. **ES system log** ring against a reference list of messages; the exception ring of the PSP.
4. **FS** background writes; **OSAL queues, binary semaphores, timers** with deletion while waiting.
5. **SB refines an abstract publish/subscribe**: messages delivered to each subscriber at most once, in
   order per sender.

The number of runs is kept small on purpose: one passing run for each question, several properties in
each, and a failing run for a disagreement that matters.
