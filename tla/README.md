# A formal model of OrcaSlicerNeo

OrcaSlicerNeo is a desktop and web front end of the OrcaSlicer slicing core: a
TypeScript application, a stateful slicer Worker that drives the C++ core
through a native bridge, and an Electron host with utility processes for
printers. The modules of this directory model the parts of it that keep state
across calls and actors, TLC checks them on small instances, and TLAPS proves
the most important invariants for every instance.

Paths below are relative to `src/`. The bridge is
`packages/slicer-wasm/src/`; `PROJECT.json` maps every definition to its lines.

## 1. The system

### 1.1 The two halves that keep state

    renderer (React stores, viewport)           Electron main (host)
      | edits, drags, strokes, slices             | download tasks, stored videos
      v                                           v
    project mutation gate (FIFO, fence)         transfer queue (2 slots, FIFO per printer)
      |                                           |
      v                                           v
    slicer Worker client                        utility processes (Bambu provider)
      | requests and answers in order             | download executor, journal
      v                                           v
    slicer Worker  -- one bridge call at a time   files
      | history timeline, plate registry, painting session
      v
    slice pthread  (one; ends by a message in a mailbox)

*Project half.* The Worker owns the project. Bridge calls run one after the
other on it; the slice pthread is the only thing that runs beside them, and it
touches only the Print it was given and ends by posting a terminal to a mailbox
that the Worker drains. Every mutation goes through the history timeline
(begin, edit, commit or abort) and hands out new input stamps for the plates it
changes, which makes their slice results unreadable. The renderer keeps copies
of all of this in its stores and in the scene, and every one of its actions
awaits the Worker between reading and writing them.

*Host half.* JavaScript code runs each call to its end, so that a call is
atomic, but every `await` is a point where others act. Readers of a printer's
storage (downloads and stored videos) share one admission queue; download tasks
outlive the tickets they hold in it; a download writes a file beside its
destination and keeps a journal from which a later start cleans up after a crash.

### 1.2 Components

| component | state | operations | hard behaviour | what makes it correct |
|---|---|---|---|---|
| History timeline (`TimestampedHistory.cpp`) | cursor, lazily captured snapshots, entries, navigation floor, open operation with rollback root, editing session, saved marker, byte budget | clear, begin/commit/abort (nested), undo, redo, jumps, mark saved, set floor, set budget, begin/compact/close session, rewrite contexts | eviction, truncation and compaction act on the same structures; contexts are refreshed lazily; aborts after renames | a timestamp always restores what was committed there; entries can be navigated; no forks; an unmodified project is the saved one |
| Plate registry and slice job (`plate_runtime_registry.cpp`, `bridge_slicing_pipeline.cpp`) | entry per plate: availability, producer task, stamp, generation, lease; active job, retained request | slice, terminal, drain, cancel, invalidate, reconcile, snapshot/restore availability | terminals arrive after edits, Undo, deletion or recreation of the plate | a readable result is of the current input; one lease; one terminal per request |
| Plate session (`bridge_plate.cpp`) | plates, membership, settings, input stamps | add, delete, move, mutate | one mutation can move instances between plates | every affected plate is stamped |
| History bridge (`bridge_history.cpp`) | open transaction with stamps and availability | begin, commit, abort, restore, rollback of a failed restore | a restore that throws halfway | rolls back to what was there |
| Project lane (`projectMutationGate.ts`, `historyMutation.ts`, `restoreCoordinator.ts`) | FIFO of operations, fence leases, exclusive hold, phase, status | mutate, restore, save, arrange, mesh boolean, reset | drags do not hold the lane; operations fail at each await | the fence covers the projection; each lease released once; honest phase and status |
| Drags (`transformHistory.ts`, `SceneInteractionController.ts`) | pending transactions, the drag on screen | begin, release, cancel, reset | a drag is decided while others publish | a released drag reaches the engine or leaves the screen |
| Slice actions and stores (`sliceActions.ts`, `useSlicerStore.ts`, `plateSessionActions.ts`) | results by plate, active and shown target, session snapshot | slice, cancel, export, select plate, publish edits | the slice is outside the lane; answers come after edits | the store says what the engine has |
| Worker protocol (`client/client.ts`, `client/worker.ts`) | admission flags on both sides, open handlers, the engine's transaction and job | call, receive, dispatch, answer, job end, death | three places refuse for reasons that change on the way | a transaction ends; exclusive work is alone; one answer per call |
| Painting (`PaintingController.ts`, `bridge_painting.cpp`) | phase, session, lane of operations, terminal, display | open, target, press, move, release, cancel, apply, close, project command | input interleaves with every await; the engine ends strokes itself | every stroke ends, what is shown is current, nothing painted is lost |
| Transfer queue (`transferQueue.ts`) | entries, active count, scheduled microtask, closed | enqueue, cancel, retry, continue, stop | cancel, stop and settlement race the microtasks | one reader per printer, slots exact, FIFO, progress |
| Download tasks (`downloadTasks.ts`) | task map, snapshots, tickets | enqueue, cancel, retry, continue, close | callbacks of old tickets and attempts | task and ticket agree; close ends |
| Download execution (`downloads.ts`, `downloadFiles.ts`, `downloadExecutor.ts`) | reader, temporary file, records and owners in the journal | read, write, publish, discard, recover | crashes of either process between any two calls; two starts that overlap | every temporary can be found; results and recovery reports are honest |
| Stored media queue (`storedMediaQueue.ts`) | request table | open, cancel, close, close window | await between request and admission | a cancelled request opens no reader |
| User presets (`bridge_user_presets.cpp`) | preset collections, renames | save, rename, delete, rebind | the history refers to presets by name | contexts follow the rename |
| Operation store and printer service | operation map, providers, synchronization sources | start, acknowledge, watch | updates between two reads | no lost update |
| Printer configuration, preferences, atomic files | documents on disk | load, merge, save | two instances write one file; crash between write and rename | no lost edit; old or new file, never half |
| Bambu provider utility | storage sessions, thumbnail batches, telemetry | open, list, read, submit | configuration changes between authorization steps | a session belongs to one route |
| Host processes | utility process per provider and window | spawn, ready, exit, close | exit races pending requests | each pending request rejected once |
| Profiles, filament, scoped configuration, nozzle mapping, prime tower, geometry, persistence, user interface | data | transformations | sequential | out of scope, see section 8 |

`PROJECT.json` lists every component with its sources and status, and under
"hazards" the lines where something can go wrong that a test would hardly
reach, with the properties that cover each one.

## 2. Modules

| module | role |
|---|---|
| `TimestampedHistory`, `TimestampedHistory_proofs` | the timeline, its caller and a renderer that follows its deltas; theorems about all three |
| `UndoStack` | what the timeline promises: a line of states with a cursor, which `TimestampedHistory` instantiates |
| `MCTimestampedHistory` | instances and symmetry |
| `TransferQueue` | the reader queue; its theorems are in `DownloadTasks_proofs` |
| `DownloadTasks`, `MCDownloadTasks`, `DownloadTasks_proofs` | the download tasks composed with the queue they share with stored videos; theorems about the queue, and that the tasks implement it and agree with it |
| `DownloadOutput`, `MCDownloadOutput`, `DownloadOutput_proofs` | the files of a download, its journal, crashes and recovery; theorems |
| `PlateRuntime`, `MCPlateRuntime`, `PlateRuntime_proofs` | plate registry, slice job, input stamps and history transactions; theorems |
| `ProjectLane`, `MCProjectLane`, `ProjectLane_proofs` | the gate, the fence, restores, saves, arranging, mesh boolean and drags; theorems |
| `SliceSession`, `MCSliceSession`, `SliceSession_proofs` | slicing and exporting as the renderer's stores see them; theorems |
| `WorkerProtocol`, `MCWorkerProtocol`, `WorkerProtocol_proofs` | client, Worker and engine: who refuses what, and how transactions fare; theorems |
| `PaintingSession`, `MCPaintingSession`, `PaintingSession_proofs` | the painting controller against the engine's painting session; theorems |

How they fit: `DownloadTasks` EXTENDS `TransferQueue`, and what the executor
returns to it is what `DownloadOutput` produces. `SliceSession` takes of the
engine what `PlateRuntime` shows it to promise (a slice runs for the stamp it
was admitted with, is asked to stop when that changes, and publishes only under
it). `ProjectLane` is the lane that runs edits one at a time, which
`SliceSession` and `WorkerProtocol` assume of their caller. `TimestampedHistory`
is the history whose restores `PlateRuntime` applies to the plates.

Operators whose name ends in `_Something` under a comment "Mutant" are broken
variants of the definition before the underscore (a dropped guard, a missing
reset). `PROJECT.json` pairs each with the property that has to fail when it
replaces the original.

### 2.1 TimestampedHistory

`history` is the class's `Impl` as one record. Every public operation of the
class copies `Impl`, works on the copy and swaps it in at the end, so that an
operation is one step and one that throws before the swap is a stuttering step.
Each action composes the same helpers the C++ has (`Capture`, `EraseSnapshots`,
`TruncateRedoBranch`, `PruneUnusableEntries`, `EnforceBudget`, `CompactEntries`)
in the same order. `std::optional` is a set of at most one element. Entries are
a set ordered by their `after` timestamp, as the vector is.

The caller is part of the model: `live` is its model and context, changed by
`EditModel` and `EditContext` inside an operation; `rendered` is a scene that
only ever applies the published deltas; `presets` is the repository that
contexts name. `truth`, `savedModel` and `retired` record the past for the
properties and influence nothing.

Bytes are counted by three constants (per snapshot, entry and archive) instead
of the sizes of real buffers; which snapshots an over-full budget evicts depends
on the sum alone. Object version intervals (`rebuild_intervals`) and diagnostics
are derived from the snapshots and left out. `CommitOperation` requires that some
root changed, for otherwise the bridge aborts; `MarkCurrentAsSaved` requires
that no operation is open, as the only caller (`historyMutation.ts`) makes sure.
The floor and the budget are set by the class's tests and not by the
application; they are modelled all the same, for they are public operations.

`UndoStack` says what the user is promised without timestamps, snapshots or
budgets: a line of states with a cursor; an edit adds a place after the cursor and
drops those that could be redone, a move shifts the cursor, the ends may be
forgotten, steps before the cursor may be squashed. The last section of
`TimestampedHistory` maps the timeline to it: the places are the timestamps one
reaches from the cursor, entry by entry.

### 2.2 TransferQueue and DownloadTasks

A ticket is the number of its admission; the array `entries` of the class is the
unfinished tickets in that order. Calls (`Admit`, `Cancel`, `Retry`, `Continue`,
`Stop`) are steps. Microtasks are steps of their own: `Pump`, which `schedule()`
queues once, and `Resume`, the continuation of `execute()` after its `await`,
which comes some steps after `Settle`, the end of the `run` callback. So a
cancellation can fall between the settlement and its handling, as in the
program. An aborted controller is the state "stopping".

`DownloadTasks` EXTENDS the queue: a task is the number of its creation, its
`run` callback is `RunReturns`, with the four results the executor has (saved,
failed, cancelled, interrupted), and `Progress` reports of old executions arrive
late. Requests of the renderer are macrotasks, which start only when no microtask
of the queue is left (`Quiet`; the handlers in the desktop's `main/index.ts` do not
await before the call); admissions and the close of the host come from
microtasks and have no such guard. Stored videos take part as tickets without a
task (`PlayVideo`, `VideoReturns`, `CancelVideo`).

### 2.3 DownloadOutput

A session is one run of the application: its main process and the utility
process it starts. The utility process opens a folder in the journal (folder,
`owner.json`, `records/`), sweeps the folders whose two processes are gone, and
executes downloads. A step of a run is what happens up to an await:
`OpenRecord`, `WriteRecord`, `CreateTemporary`, `NextChunk`, `WriteChunk`,
`ReturnReader`, `SyncTemporary`, `RenameTemporary` or `LinkTemporary`,
`DropTemporary`, `ForgetRecord`, and on the way out `JoinReader`,
`DiscardTemporary`, `DiscardRecord`. The sweep is a walk of its own
(`ListSessions`, `ReadOwner`, `ListRecords`, `ReadRecord`, `RemoveTemporary`,
`RemoveRecord`, then the three removals of the folder).

`disk` is what survives. Every call to the file system may fail, and either
process may die, at any step, as far as `faults` allows (`Calls`, `WorkerDies`,
`ParentEnds`). A record that was opened and not written is torn. `FileAppears`
puts a file of another program at the destination while a run publishes.

Two reductions, neither of which hides an order of file-system calls: the kind of
destination (directory, fresh, confirmed) is chosen where the code first looks
at it, and foreign files appear only while a run publishes. Names and error
texts are left out, and so is a process number that is used again, which only
puts a sweep off. `None` (nothing at a place) and `Foreign` (a file of another
program) are values outside the downloads (`OutsiderAssumption`).

### 2.4 PlateRuntime

A bridge call is one step, for the Worker runs it to its end; `ProcessEnds` is
the pthread and `Drain` the Worker's reading of the mailbox. A plate's registry
entries are numbered by incarnation: a plate that is deleted while its job runs
leaves a tombstone behind, and one that comes back by Undo gets a new entry under
the same id. What a plate holds is one value of `Inputs`: `content` for what a
restore compares, `flags` for printable flags and part types. `Edit` stands for
every operation of `bridge_plate.cpp` and the model bridge that stamps plates:
it takes the set of plates it changes. Mutations, restores, failed restores with
their rollback, and transactions that commit or abort are actions with every
registry call they make. `input` of a job and `sliced` of an entry are ghost
fields: what the Print was given, and what the retained G-code was made from. A
receipt is what the application was told of a result, plate, stamp and generation,
and the ghost `incarnation` under which it was told.

Not in this module: the serial build without threads, the arrangement gate, nested
transactions, loading and clearing of projects, preview buffers.

### 2.5 ProjectLane

`app` is the renderer's side as one record: the gate's queue, the operation that
runs and where it stands, leases of the fence, the exclusive hold, the phase and
the status that enable the buttons, the order of objects the scene shows, and the
drags under way. `native` is the project: a revision, an order of objects, and
whether it is dirty. Objects are addressed by position and identified by their
stable identity, which is what a stale projection confuses. A project has finitely
many objects, finitely many drags are made in it (`FiniteAssumption`), and the gate
takes at least one operation.

An operation goes from stage to stage, one per await (native call, publication,
reconciliation, handlers of a restore); at every stage it may fail, and what
follows (`RestoreFails`, `finish`, the release of its lease) is part of the same
step. `Calm` says that no continuation is due: the few steps between two awaits
that the rest of the program cannot see in between wait for one another. A drag
never holds the lane: it reserves revision and identities, is queued when it is
released, and is checked against both.

### 2.6 SliceSession

`flow` is `sliceRequestedPlate()` from await to await: transforms, plate session,
nozzle mapping, slice, outcome. `lane` is the edit under way, published in one
step or two by its kind (`Kinds`: objects, add, plates, tower, settings, restore,
clear). `discardPlateResults` takes the plates that a publication drops together.
`store` is what `useSlicerStore` and `usePlateSessionStore` hold, and
`engine` the stamps, the job and the results that exist. Slices and cancellations
wait in `outbox`, for the Worker takes them in the order posted.

### 2.7 WorkerProtocol

Five callers (the lane, the slice, the plate picker, the setup catalogue, user
presets) with one call each; `client`, `worker` and `native` carry the admission
flags each place keeps. A request may be refused by the client (`Rejected`,
`AnsweredBusy`), by the Worker on receipt (`Refuses`) or by the engine
(`Admitted`). Before the module is loaded, handlers wait together and start in
order, which is where flags set on receipt and flags read at dispatch differ. Both
engines are initial states: the serial one slices inside the call, the threaded
one answers after acceptance. `Fatal` is the death of the Worker. A call is `Underway`
while its request is on the wire or open in a handler, its slice is a job, or its
answer is posted: `AwaitedOnce` says that this is so once for each call that is awaited
and never for another.

### 2.8 PaintingSession

`ctl` is the `PaintingController` object, `native` the engine's history session,
painting session and stroke. Operations wait in `ctl.lane`; the head runs from
await to await (`ctl.at`), and a call's effect on the engine is in the step that
delivers its answer, for nobody reads in between. A call may be refused as stale,
fail for reasons of its own ("business"), or fail inside so that the engine
cancels the stroke ("internal"). The pending commit or cancellation of a stroke
(`terminal`) is taken by whichever operation is next, which is the code's central
idea and what `Drains` and its users model. Display frames and the previews of
the tools under the pointer are operations of the same lane.

## 3. Runs

State counts are distinct states; times are of a small machine that ran several
checks at once, two workers each.

| run | question | bounds | states, time |
|---|---|---|---|
| `timeline` | is the timeline faithful, navigable, reversible and honest about the saved state while the budget is exceeded, with sessions, compaction and saves; does it implement `UndoStack`? | one object, two versions, timestamps to 4, budgets 3 and 4, two session tokens | 295 000, 75 s |
| `timeline_presets` | do renames reach every retained context and the rollback root; does a renderer that applies only deltas stay in step? | two presets, nested operations, floors, a session, timestamps to 2, budgets 2 and 3 | 1 500 000, 130 s |
| `downloads` | do tasks and tickets agree; one reader per printer; is everybody served; does close end? | two printers, two slots, two tasks, three tickets, batches of two, two attempts | 161 000, 125 s |
| `download_output` | can every temporary be found after any two faults; are results and recovery reports honest; does an abort end? | one download of one chunk, two sessions that may overlap, two faults, one foreign file | 186 000, 135 s |
| `plate_results` | is a readable result of the current input? | two plates, two contents, one slice, two stamps, two incarnations | 348 000, 75 s |
| `plate_requests` | one terminal per request, true receipts; is every request answered? | one plate, two contents, two flags, three requests, two stamps | 376 000, 125 s |
| `painting` | does every stroke end; do both sides agree; is what is shown current and nothing lost? | two targets, two channels, both kinds of failure, one project command at a time | 865 000, 160-225 s |
| `project_lane` | fence, phase, status, leases, drags and the exclusive hold under every command | two objects, all eight commands, two drags, one queued operation, revisions to 2 | 1 740 000, 100 s |
| `slice_session` | do the stores say what the engine has; does a cancel reach its own job? | two plates, seven kinds of edit, two slices, stamps to 2 | 458 000, 70 s |
| `worker_protocol` | do transactions end; is exclusive work alone; is each call answered once? | both engines, five callers, two transactions, one slice that ends | 1 590 000, 75 s |
| `plate_flags` | does Undo of a printable flag withdraw the result? (violated) | one plate, two flags, one slice | - |
| `gesture_orphan` | is every drag that was begun decided? (violated) | two objects, edits and drags only | - |

*Why the bounds are enough for the cases that matter.* Five timestamps (0 to 4)
under a budget of three snapshots have a cursor, both neighbours and something
to evict on either side; two budgets let it shrink and grow in between. Two
tokens show reuse, and with `MaxSessionId` 2 they run out, the boundary the code
guards. Three tickets contain two for one printer and one for another, a retry
under a new ticket, and a video beside two downloads. Three slice requests are a
job, the retained one and its replacement. In `plate_results` two incarnations are a
tombstone and the plate that came back, while its job may still run. (Slices of two
plates with a plate that comes back between them are beyond these bounds; the
theorems of section 6.4 have none.) Two stamps and an abort let one stamp be handed out,
rolled back and handed out again. Two faults are a crash and a failure while
recovering from it; two sessions are a dead one and its sweeper, or two that
are alive. One running and one queued operation of the lane, with a drag that is
released and one that is on screen, are the pairs its checks are written for.
Two painting targets are a switch and the way back.

`CHECK_DEADLOCK FALSE` stands in every cfg: counters have bounds, and a closed
queue really stops. Symmetry is used only in runs that check no liveness, and
only over sets whose members are merely compared.

Not reached within these bounds: two sweepers of one dead journal folder (it takes
three sessions), and with it the branch of `RemoveFolder` that finds the folder gone.

## 4. Properties

Each property is stated in words above its definition.

*Timeline.* `RestoresWhatWasCommitted`, `EntriesNavigable`, `CleanMeansSaved`,
`SessionConfined`, `RendererInStep`, `ContextsResolve` are invariants;
`NavigationReversible` and `NoEffectCloseKeepsRedo` say what a step may never do;
`ImplementsUndoStack` is the refinement.

*Queue and tasks.* `OneReaderPerPrinter`; `TasksConsistent`, which is the type
invariant, that a task says what its ticket does (`TaskFollowsTicket`) and that the
offers to cancel and retry are current (`OffersAreCurrent`); `Served` and
`CloseCompletes` are liveness.

*Download output.* `OutputIsTracked`: every temporary file has a whole record in a
folder that a later start will sweep, and no sweep takes a file of a live run.
`ResultIsHonest`: a run reports "saved" exactly when its whole file got to its
destination, and no file of others is replaced unasked. `RecoveryIsHonest`: a start that reports no
failure has left nothing of the sessions that were dead when it began. `StopsWhenTold`: an aborted run ends.

*Plates.* `PublishedIsCurrent`; `ReceiptsStayTrue`: a receipt stands for one content
for ever, and for one result while the plate stays; `AnsweredOnce`,
`RegistryConsistent` (types, and `LeaseIsTheJob`), `EveryRequestAnswered`.

*Lane.* `FenceCoversProjection`: while the scene shows another order than the
engine has, a lease is held. `RestoringIsHonest`, `StatusInStep`, `LeasesBalance`,
`ExclusiveIsAlone`; `DragsConsistent`: types, and a decided drag at the head of the
pending ones is being carried out.

*Slices.* `KeptIsCurrent`, `StoresConsistent` (types, and "slicing" is shown only for
a slice that is under way), `CancelReachesItsJob` (an action property: a cancellation
never stops a job it was not meant for).

*Worker.* `TransactionsEnd`, `ExclusiveWorkIsAlone`, `AwaitedOnce`.

*Painting.* `StrokeHasAnEnd`, `ClosedIsClosed`, `SessionsConsistent` (types, and
`InStep`), `NothingPaintedIsLost`, `ShownIsCurrent`, and the liveness `StrokesSettle`.

*Fairness.* No user action is fair anywhere.

- `TaskFairness`: weak fairness of the microtasks, for the JavaScript engine runs
  every queued one, and of the end of a `run` callback, for readers have timeouts
  and obey their abort signal (the contract `stop()` relies on; for downloads,
  `StopsWhenTold` is that contract, and `CloseCompletes` needs it only after
  `close()`, which aborts every run). A blocked ticket may stay blocked for ever,
  and `Served` says so.
- `DownloadOutput!FairSpec`: calls to the file system return. A reader has to answer
  only once it is aborted.
- `PlateRuntime!Fairness`: the pthread ends, and the Worker drains a mailbox it is
  woken for.
- `PaintingSession!Fairness`: the operation at the head of the lane goes on, for its
  calls are answered or rejected, and a requested animation frame comes.

## 5. Findings and observations

Two disagreements have a run.

- `plate_flags`. `restore_timestamped_result()` (`bridge_history.cpp:585`) compares
  transforms, painting, configurations, membership and plate settings to find the
  plates a restore affects, and neither printable flags nor part types. Switch a
  flag, slice, Undo: the result sliced with the other flag stays readable.
- `gesture_orphan`. `resetForModel()` (`SceneInteractionController.ts:624`) forgets the
  drag without deciding the transaction that its `begin()` opened. That transaction
  stays the undecided head of the pending ones, and the drags released after it
  never reach the engine.

Observations made while modelling, without a run of their own:

- *Serial engine.* A `slicePlate` posted between `beginHistory` and `commitHistory`
  makes the commit resolve with `slice_busy` (`worker.ts:423-426`): the command is
  reported as done and its transaction stays open, other than
  `spec/Undo and Redo.md:334-336` says. `TransactionsEnd` is therefore stated for the
  threaded engine.
- *Timeline.* Eviction can remove a Redo snapshot in the middle with its two entries;
  after a Redo up to the gap, `truncate_redo_branch()` (`TimestampedHistory.cpp:433`)
  finds no entry at the cursor and returns, and the far part of the old branch stays
  listed after a commit, other than `spec/Undo and Redo.md:137` says. What stays is
  true, and not connected to the present.
- *Receipts.* A plate that was deleted and comes back by Undo starts again at
  generation 0 (`plate_runtime_registry.cpp`), and may be sliced again under its old
  stamp: plate, stamp and generation, which is all that an export checks
  (`bridge_slicing_pipeline.cpp:1143-1166`), then name another run of the same content.
  The receipt also has the slice's task number (`:335-342`), which would tell them
  apart and is not looked at. `ReceiptsStayTrue` therefore says "one content for ever"
  and "one result" only of one incarnation.
- *Documents.* `Per-Plate Print Architecture.md:328` lets Undo withdraw every result,
  while `Undo and Redo.md:288-292` and the code withdraw those of affected plates.
- *Tasks.* `ManagedDownloadTasks.retry()` of a completed task does not look at the limit
  on unfinished tasks that `enqueue()` checks (`downloadTasks.ts:27`).
- *Journal.* A crash between the opening and the syncing of a record, and one between
  the creation of a session folder and its `owner.json`, leave something that every
  later start reports as failed and never removes. Two instances that sweep one
  folder count each other's removals as failures. After a death of the utility
  process alone, its temporaries wait for the next start of the application.
- *Painting.* When the display operation takes a cancellation and its call fails, its
  `catch` (`PaintingController.ts:492`) leaves the phase at "ending" with an error
  shown; a final sample on a stroke that the engine has finished is refused
  (`painting/PaintingSession.cpp:699`).
- *Painting: overlapping project commands.* `commandAllowed` is true while a project
  command is under way (`PaintingController.ts:90`, `:373`), so that a second one joins
  the lane behind it. When the first one's refresh has failed and the phase is "error",
  the second puts "opening" over it, and its own end puts "idle" although it failed
  before it could refresh: the panel then takes input for a session whose revision or
  target is no longer the engine's, or the phase ends at "closed" with a history session
  open in the engine. The comment at `:396-398` says that a failed refresh cannot
  establish a usable painting state. With `MaxProject = 2` TLC finds `SessionsConsistent`,
  `ClosedIsClosed` and `ShownIsCurrent` violated; `NothingPaintedIsLost` is proved for
  any number. The checked run and the other theorems are about one command at a time.
- *Lane.* A gesture rejected at the gate ends as failed without a reconciliation
  (`transformHistory.ts:210-214`). A reservation that was queued behind an edit is read
  after it (`:244-245`). `useProjectStore.reset()` zeroes the count of pending mutations
  while leases are held. `openProjectInput` and `newProject` do not take the FIFO
  (`projectActions.ts:201`, `:287`).
- *Stores.* Undo restores the current plate in the engine (`bridge_history.cpp:353`),
  and the session snapshot that follows (`Workspace.tsx:415`) does not activate that
  plate's result. `setResultExported(true)` after an export (`sliceActions.ts:264`) may
  mark a slice that replaced the exported one.

## 6. Proofs

Every safety property that a passing run checks is a theorem of its module, for all
values of the constants (those of painting for one project command at a time, 6.8), and
so is the refinement of `UndoStack`; section 6.10 names what is not. Each module's
`_proofs` companion (that of the queue is `DownloadTasks_proofs`) follows one plan: the
invariant that is inductive, a lemma for each helper the actions are composed of, a
lemma for each action, one that splits on `Next`, and the theorems. The only other
premises are the named assumptions on constants, which TLC evaluates in every run:
bounds are natural numbers, and a value that stands for "none" is not a value of the
set beside it.

### 6.1 Timeline (`TimestampedHistory_proofs`)

From `BudgetAssumption`, `FloorAssumption`, `BytesAssumption` and `BoundAssumption`
(constants are natural numbers, a floor is an optional timestamp), for any objects,
versions, presets, budgets and bounds.

*What is restored.* `Invariance` proves `Spec => []IInv`, and `TypeCorrect`,
`RestoringIsFaithful`, `EveryEntryNavigable`, `NeverForks`, `SavedMarkerKept` and
`CleanIsSaved` follow.

The checked invariants are not inductive. `EntriesNavigable` needs that entries are
ordered and lie within the timestamps handed out, or a commit could put a new entry in
front of an old one; faithfulness needs the open operation to have begun at the cursor
with its predecessor captured and its rollback root holding the committed model, or an
abort could restore anything; `CleanMeansSaved` needs the saved marker to point at a
timestamp whose truth is the saved model. `IInv` is `TypeOK`, the conjunction `Sound`
of these facts about `history`, and that the live model is that of the cursor while no
operation is open.

The proof has two layers. `Sound(h, committed, saved)` speaks of an arbitrary record
`h`, so each operator of the class gets a lemma of its own (`EvictSound`,
`EnforceSound`, `TruncateSound`, `CompactSound`, `CommitSound`, `AbortSound` ...) that
can be chained in the order in which an action composes them. Then each action has a
step lemma, and `StepInvariant` splits on `Next`. Which snapshots the budget evicts
does not matter to the proof: `EvictSound` holds for every set that spares the cursor.

*What is kept beside it.* `KeptInvariance` proves a second invariant `JInv` on top of
the first: a session's entry is the floor and the tokens of closed ones are spent
(`Confined`), every retained context names a preset that exists (`Resolved`), and an
object that an entry's delta does not name is equal on both sides of the entry
(`DeltasTell`). `SessionsConfined` and `ContextsAlwaysResolve` follow.

`RendererStaysInStep` needs more than an invariant: the renderer gets the union of the
deltas on the way from the cursor to the target, and must learn of every object that
differs between the two. `ChainTells` and `RunTells` argue by contradiction with an
extreme element instead of an induction along the entries: of the timestamps on the way
at which an object already differs there is an earliest (`EarliestOf`, from the
well-foundedness of the subset ordering on a finite set), and the entry that leads to
it names the object. The same argument shows that a merged entry tells what the entries
it replaces told (`CompactKeeps`).

*That it is one line.* `TimelineImplementsUndoStack` proves the refinement. `UndoStack`
has a function from places to states and a cursor; the mapping takes the timestamps one
reaches from the cursor along entries (`Reachable`) and what was committed at them. A
walk is a set of entries (`Chains`), and `Joined(h, a, b)` says there is one. What an
induction along a list would give comes from the order of the timestamps and from
entries that never fork: of two walks to one place the shorter is the end of the longer
(`ChainEnds`, `ChainStarts`), again by an extreme element, so that any two reachable
timestamps are joined (`LineTotal`) and moving the cursor leaves the line as it is
(`LineMoves`). Then: entries that go take the far ends with them (`LineRemains`), and
the budget spares those next to the cursor (`EnforceSpares`); truncation leaves the line
up to the cursor (`TruncateLine`), a commit adds one place to that (`AppendLine`);
merging strokes makes each new entry a walk of old ones (`RunJoins`, `JoinCoarse`), and
the run that ends at the cursor still ends there (`LastRun`), so that Undo has somewhere
to go. All other steps leave the line alone.

`NavigationIsReversible` and `NoEffectCloseIsHarmless` are about what a budget may
take. `Narrows(g, h)` says that `g` has a part of the entries and snapshots of `h`,
each as it was; evicting, truncating and pruning narrow, and `EnforceNarrows` adds that
what is protected stays, and with `preserveRedo` whatever is above the cursor.

### 6.2 Queue and tasks (`DownloadTasks_proofs`)

From `QueueAssumption`, for any printers, slots, tickets, batches and attempts:
`QueueInvariance`, then `QueueTypeCorrect`, `ReadersExclusive`, `SlotsCounted` and
`NobodyPasses` (the action property `HeadOfLine`: a step that starts a ticket finds
every earlier one of its printer finished).

`OneReaderPerPrinter` is not inductive, for nothing in it keeps a waiting ticket from
being started behind a blocked one. `Heads` strengthens it: a ticket that reads, stops
or is blocked has only finished tickets of its printer before it. `BudgetKept` under
`Pump` is a counting argument: the started tickets are those whose rank among the
eligible ones is below the free slots, and a finite set of tickets has a last one
(`LastTicket`), whose rank bounds the size (`StartedFits`).

`TasksImplementQueue` proves `TaskSpec => Spec` of the queue, with the queue's own
variables as the mapping: every action of the tasks is a step of the queue or leaves
its variables alone. That is not by construction, for the actions of the tasks choose
tickets through `ticket` and `owner`; it needs the invariant that every task's ticket
was admitted (`TicketsKnown`). The queue's theorems then hold of the host that runs
downloads, retries and videos together (`TaskReadersExclusive`, `TaskSlotsCounted`,
`TaskNobodyPasses`).

`TasksAgree` is about the tasks themselves. Its invariant `TaskIInv` adds to
`TasksConsistent` that the task owns its ticket and that every earlier ticket of it is
finished (`OldTicketsGone`): without that a late settlement of an old attempt could
change a task that was retried. `Agrees` is the table of the pairs of states that task,
ticket and pending outcome can be in together, and `Offers` that of the offers to
cancel and retry.

### 6.3 Files of a download (`DownloadOutput_proofs`)

From `OutputAssumption` and `OutsiderAssumption`, for any downloads, sessions, faults,
foreign files and lengths: `OutputInvariance`, then `OutputTracked`, `RecoveryHonest`
and `ResultHonest`.

`OutputInv` has four parts beside the types. `PlaceOK` and `FilesOK` say what a run's
place in the code implies: whether its record and its temporary file exist, how long
the file is, and that the folder is whole while there is a record. `LifeOK` and
`SweepOK` say the same of a session: its folder appears step by step; what it sweeps
belongs to sessions that are gone for good, so that no run it meets moves again; a
temporary file goes before its record and the records before the folder, and as long as
the sweep is `clean` whatever is still there is on its list. That last fact is what
makes `RecoveryIsHonest` inductive. `ShelfOK` counts names: a run has at most one file
at its destination, from the call that publishes it on, so that among `Names` names one
is free for everybody; only a confirmed destination is ever replaced.

A step of one run leaves the other runs and all sweeps as they were (`JobMoves`,
`Quiet`), a step of a sweep leaves the living runs as they were, and each action is
shown to be of one of these kinds before the parts are taken one by one.

### 6.4 Plates (`PlateRuntime_proofs`)

From `RuntimeAssumption`, for any plates, contents, flags and bounds:
`RuntimeInvariance`, then `PublishedResultsAreCurrent`, `ReceiptsNameOneResult`,
`RequestsAnsweredOnce` and `RegistryKept`.

`PublishedIsCurrent` compares two stamps, and equal stamps mean equal content only if a
stamp of a plate stands for one content for ever. `StandsFor(p, s, c)` says so of
everything that has ever been handed out: by the plates themselves (`PlatesQuote`), the
sessions the history may restore (`SessionOK`), the open transaction, which may roll
stamps back (`TransactionOK`), the entries, tombstones included, the active job and the
retained request, and the receipts (`SliceOK`). The heart of the proof is that the
steps which change what a plate holds hand out new stamps, and that an abort takes back
the stamps together with whatever quoted them (`StampsStand`). The leases and the
answers are exact: an entry is leased iff the active job is of its incarnation, and a
task is unanswered iff it is that job or the retained request.

### 6.5 Lane and drags (`ProjectLane_proofs`)

From `LaneAssumption` and `NoneAssumption`, for any objects, commands, drags and
bounds: `LaneInvariance` (`Spec => []IInv`), then `FenceCovers`, `RestoringHonest`,
`StatusKept`, `LeasesBalanced` and `ExclusiveAlone`.

`IInv` says what each stage of an operation leaves behind, in six parts: `Typed`;
`LeasesExact`, the leases are one of the running operation and one of the exclusive
caller; `ExclusiveShape`, an exclusive hold leaves only its own operation in the lane;
`FenceShape`, at which stages the scene may differ from the engine; `RestoreShape`, at
which the phase is "restoring"; and `StatusShape`, at which the status may be behind.
Without the stages none of the invariants is inductive: that the scene differs at
"publish" is harmless only because the operation there still has its lease. Steps fall
into three families, with a relation or a lemma each: those outside the running
operation leave everything the invariant speaks of as it was, but for operations that
join the queue (`Follows`); an operation ends, well or not (`Settles`); or it goes on
to its next stage (`Continues`). Each action is shown to be of one of them, and a few
get a lemma of their own.

`DragInvariance` and `DragsAgree` add the drags, with `FiniteAssumption`. `InOrder` is
the bookkeeping between the pending drags and the lane: the reservation or the
transform that the first pending drag waits for is in the lane exactly once, whatever
is in the lane for a drag is for the first one or for one that has left, and a drag
that was released and heads the pending ones is being carried out. With that the
queue's length is bounded by what was asked plus one operation per drag.

### 6.6 Slices and stores (`SliceSession_proofs`)

From `SessionAssumption` and `NoneAssumption`, for any plates, stamps and slices:
`SessionInvariance`, then `StoresKeepTheCurrent`, `StoresStayConsistent` and, as an
action property, `CancellationsAreNotMisled`.

`KeptIsCurrent` is false in the middle of an edit, and what holds there is the
invariant: a result that a store keeps is the engine's present one, or its plate is in
`Pending`, the plates the edit under way has still to withdraw (`KeptOK`). The slice is
followed from await to await: `FlowOK` relates its stage to what the store shows,
`JobOK` and `OutboxOK` say where it is, in the outbox, running or answered, and only
one of them (`AnsweredOK`). That a cancellation behind a slice in the outbox carries
that slice's number is what makes `CancelReachesItsJob` true, for the message itself
names no slice. `Loses` and `Moves` are the two relations most steps are in: results
are only taken from the stores, and the engine forgets the results of the plates an
edit affects.

### 6.7 Worker protocol (`WorkerProtocol_proofs`)

From `ProtocolAssumption`, for any number of transactions and slices, and for both
engines, in three layers.

- `ProtocolTyped` and `CallsAwaitedOnce`: `MessagesOK` says that a caller has one
  message under way at most, over the wire, the open handlers, the slice job and the
  answers, and that it is of the operation the caller awaits. The requests that are
  refused at three places, the job's end and the death of the Worker are the cases.
- `ProtocolAlone` and `ExclusiveWorkStaysAlone`: `AloneOK` follows the epochs. A
  message says how many slices its sender had heard of and how many there had been when
  it was posted; handlers at work come first and one that arranges comes last
  (`HandlersOK`).
- `TransactionsAlwaysEnd`, for the threaded engine: `CallersOK` and `FlagsOK` say which
  handler will clear a flag of either side; `KnownOK`, `NamedOK` and `StageOK` say
  where an open transaction is: its number is in the answer the lane awaits, or the
  lane has it and has still to commit or abort. An aborted transaction whose commit
  failed is the case that needs all of them.

### 6.8 Painting (`PaintingSession_proofs`)

From `PaintingAssumption`, for any targets, channels, faults and bounds on the input.
`Types` (every field has its type, every stage belongs to the operation that holds the
lane) and `PaintIsKept` hold however many project commands overlap. `Invariance`,
`StrokesCanEnd`, `ClosedAgrees`, `SessionsAgree` and `ShownAgrees` are about the
behaviours in which no two project commands overlap, for any `MaxProject`: their premise
is `[]OneProject`, the user gives a project command after the end of the last one.
`BoundedToOne` shows that with the run's bound, `MaxProject = 1`, every behaviour is such
a one. Without the premise three of them are false (*Painting* in section 5), so it is a
statement about the code and not a convenience. A step keeps the invariant if it starts
no second command (`Alone`).

The checked invariants speak of quiet states: no operation is under way. None of them is
inductive, for an operation leaves a quiet state for some of twenty stages and comes back.
`InvAt(s, at, n)` says what holds of controller `s` and engine `n` at stage `at`:

- `LaneOK`: the lane has two operations at most, a display and the one that reserved the
  lane, and the phase is that of the latter (`Holder`);
- `NativeOK`: both sides know the same history session, target, channel and stroke, and
  the engine has no painting session that the controller does not know of;
- `SessionOK`: whether there is a session, and whether its revision is the engine's, by
  phase and stage;
- `StrokeOK`: at which stages a stroke may be open, and who takes its terminal: the
  operation that holds the lane, one of the drains of a display, or the terminal that
  was queued for it;
- `DisplayOK`: a revision that is not on display is dirty, being read, or its reading
  failed.

The stage is a parameter because the code settles a stage and enters the next in one
step: `InvAt` of the old record at the new stage is what most lemmas conclude. There is
a lemma for each helper that changes a part of the record (what it changes, `Same`,
`Like`, `Drawn` say what it does not), one for each operation at each of its awaits, and
one for each input. The display operation is the case with the most of them, for it may
take a terminal three times.

### 6.9 What proving found

`ReceiptsStayTrue` was once stated without the incarnation, and its proof failed: a
plate that comes back counts its generations anew, so that the same plate, stamp and
generation may stand for two runs (see *Receipts* in section 5). The stages of an abort
after a failed commit, and what a sweep that met a failure may still claim (`clean`),
are other places where the checked properties hold for a reason that none of them
mentions, and that the inductive invariants name.

The painting invariants were first tried for any `MaxProject`, and the proof stopped at
a project command that joins one whose refresh has failed: TLC then found the behaviours
of *Painting: overlapping project commands* in section 5. `UndoStack` was
first stated with sequences, and its mapping followed the entries by recursion, about
which nothing can be proved here. Stated with places it says more, for a place keeps its
state as long as it is on the line, and can be proved.

### 6.10 Model-checked only

Liveness (`Served`, `CloseCompletes`, `StopsWhenTold`, `EveryRequestAnswered`,
`StrokesSettle`) is out of the prover's reach. The invariants of painting are checked
and proved for one project command at a time. How bytes are counted, and that
eviction takes the oldest snapshots and no more than it needs, matters to no theorem.

## 7. Plan

Built so far, in the order of the plan: the timeline, the queue with its tasks, the
plates, then the lane, the slice actions, the Worker protocol, the painting session
and the files of a download; proved, all of them. Models that remain:

1. `HistoryBridge`: nested transactions and the rollback of a failed restore over
   `TimestampedHistory` and the stamps of `PlateRuntime`; with it the marks of
   `pending_membership_instance_ids` as state.
2. `StoredMedia`: the request table of `storedMediaQueue.ts` over `TransferQueue`,
   composed with the death of a utility process (`UtilityHost`).
3. `ThumbnailReads` and `StorageSessions`: coalescing and aborts of
   `storageResourceQueue.ts`, routes read twice around an await.
4. `ConfigurationMerge`: `mergePrinterConfigurations` as a pure operator against a
   reference three-way merge; `AtomicFile` with crashes.

## 8. Not modelled

*Not reached.* The host half beside downloads: the merge of two instances that save
one configuration (`printerConfigurationPersistence.ts:41`), atomic replacement of
files (`atomicFile.ts:32`), the ready, exit and close of utility processes
(`slicerUtility.ts:54`, `bambuUtility.ts:112`), thumbnail reads
(`storageResourceQueue.ts:27`), storage sessions (`storageSessions.ts:60`), the table
of stored-video requests (`storedMediaQueue.ts:31`) and the watch protocol of
operations in printer-control. Each has hazards at the lines named here.

*Covered by no property.* Hazards that `PROJECT.json` lists with a note: the
construction of the slice thread that throws (`bridge_slicing_pipeline.cpp:1031`),
the check of the exported file (`:361`), and marks of pending membership that a
snapshot clears (`bridge_model_operations.cpp:1377`).

*Out of scope.* Geometry and slicing itself, file formats, profile inheritance,
filament and nozzle matching, prime tower placement: large sequential computations
on data, without interleaving, which unit tests reach. Telemetry decoding and the
wire formats of printers: data. React components, window and menu code: pure I/O.
The vendored core, resources and native bindings have no state machine of this
project's own.
