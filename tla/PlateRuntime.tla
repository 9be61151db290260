---------------------------- MODULE PlateRuntime ----------------------------
(***************************************************************************)
(* The per-plate slice results of the native bridge, threaded build: the   *)
(* class PlateRuntimeRegistry, the one slice job and its one retained      *)
(* replacement of bridge_slicing_pipeline.cpp, the input stamps that the   *)
(* mutations of bridge_plate.cpp and bridge_history.cpp hand out, and the  *)
(* snapshot of both that an open history transaction rolls back to.        *)
(*                                                                         *)
(* Every bridge call runs on the stateful Worker and is one step; the only *)
(* concurrent actor is the slice pthread, which reads the Print it was     *)
(* given and ends by posting its terminal message.  What a plate slices is *)
(* one value of Inputs: "flags" stands for the printable flags and part    *)
(* types of its objects, "content" for everything that a history restore   *)
(* compares (transforms, painting, configuration, membership, settings).   *)
(*                                                                         *)
(* The incarnations of a plate's registry entry are numbered per plate,    *)
(* and the newest is the live one; one that is destroyed goes back to what *)
(* a new one holds.  Stamps are only ever compared for one plate, so one   *)
(* mutation hands out one.  Not in the code are a job's "input", which is  *)
(* what Print::apply gave its Print, an entry's "sliced", the input its    *)
(* retained G-code was made from, and both with a receipt's "incarnation". *)
(***************************************************************************)
EXTENDS Integers, FiniteSets, Sequences, SequencesExt, Functions, TLC

CONSTANTS
  Plates,           \* plate ids of the session
  Contents, Flags,  \* what a plate may hold to be sliced
  MaxStamps,        \* bound: input stamps allocated
  MaxTasks,         \* bound: slice requests accepted
  MaxIncarnations,  \* bound: registry entries created for one plate
  MaxRetained       \* bound: project states that history retains

ASSUME RuntimeAssumption ==
  /\ Plates # {} /\ Contents # {} /\ Flags # {}
  /\ MaxStamps \in Nat /\ MaxTasks \in Nat /\ MaxIncarnations \in Nat
  /\ MaxRetained \in Nat

VARIABLES
  input,         \* plate of plate_session_plates -> what it holds
  entries,       \* plate -> its registry entries so far: live, retired, destroyed
  revisions,     \* plate -> input stamp, 0 for a plate without one
  nextStamp,     \* next_plate_input_stamp
  job,           \* g_active_slice_task and how its process() went
  pending,       \* g_pending_slice_request
  answers,       \* accepted task -> number of terminals sent for it
  receipts,      \* the results reported as completed
  past,          \* the inputs that history retained
  transaction    \* the snapshots of active_history_transaction

sliceVars == <<job, pending, answers, receipts>>
vars == <<input, entries, revisions, nextStamp, past, transaction, sliceVars>>

plates == DOMAIN input

Inputs == [content : Contents, flags : Flags]

None == 0
NoInput == [content |-> None, flags |-> None]
NoJob == [task |-> None]
NoTransaction == [before |-> <<>>]

-----------------------------------------------------------------------------
(* The registry *)

Presentations == {"invalid", "slicing", "valid"}

NewEntry ==
  [presentation |-> "invalid", completed |-> -1, producer |-> None, generation |-> 0,
   leased |-> FALSE, task |-> None, cancel |-> FALSE, sliced |-> NoInput]

Entry(p) == Last(entries[p])

IsLive(p, incarnation) == p \in plates /\ incarnation = Len(entries[p])

\* is_publishable(): what the readers of a plate's result require.
Publishable(p) ==
  p \in plates /\ Entry(p).presentation = "valid" /\ Entry(p).completed = revisions[p]

\* An entry whose plate is gone: a tombstone while it is leased, else destroyed.
Retired(e) == IF e.leased THEN [e EXCEPT !.presentation = "invalid"] ELSE NewEntry

\* reconcile() with the plate ids ps.
Reconciled(ps) ==
  [p \in Plates |->
     IF p \in plates \ ps THEN [entries[p] EXCEPT ![Len(entries[p])] = Retired(@)]
     ELSE IF p \in ps \ plates THEN Append(entries[p], NewEntry)
     ELSE entries[p]]

\* invalidate_presentations(): a leased entry's job is asked to stop.
Withdrawn(e) == [e EXCEPT !.presentation = "invalid", !.cancel = @ \/ e.leased]

Invalidated(es, ps) ==
  [p \in Plates |-> IF p \in ps THEN [es[p] EXCEPT ![Len(es[p])] = Withdrawn(@)] ELSE es[p]]

\* capture_lifecycle() and restore_lifecycle(): availability returns only to the
\* result, and under the job, it was taken from.
Identity(es) ==
  <<Len(es), Last(es).generation, Last(es).completed, Last(es).producer, Last(es).task>>

Lifecycle ==
  [p \in plates |-> [presentation |-> Entry(p).presentation, identity |-> Identity(entries[p])]]

WithLifecycle(es, snapshot) ==
  [p \in Plates |->
     IF p \in DOMAIN snapshot /\ snapshot[p].identity = Identity(es[p])
     THEN [es[p] EXCEPT ![Len(es[p])].presentation = snapshot[p].presentation]
     ELSE es[p]]

-----------------------------------------------------------------------------
(* Input stamps *)

\* Each plate of ps gets a new stamp, allocated before any is published.
Stamped(ps) == [p \in Plates |-> IF p \in ps THEN nextStamp ELSE revisions[p]]

Allocate(ps) ==
  IF ps = {} THEN UNCHANGED nextStamp
  ELSE nextStamp <= MaxStamps /\ nextStamp' = nextStamp + 1

Init ==
  /\ \E ps \in (SUBSET Plates) \ {{}}, held \in Inputs : input = [p \in ps |-> held]
  /\ entries = [p \in Plates |-> IF p \in plates THEN <<NewEntry>> ELSE <<>>]
  /\ revisions = [p \in Plates |-> 0] /\ nextStamp = 1
  /\ job = NoJob /\ pending = NoJob
  /\ answers = <<>> /\ receipts = {}
  /\ past = {input} /\ transaction = NoTransaction

-----------------------------------------------------------------------------
(* The slice job *)

Answered(ans, t) == [ans EXCEPT ![t] = @ + 1]

WithEntry(es, p, e) == [es EXCEPT ![p] = [@ EXCEPT ![Len(@)] = e]]

\* The entry of a plate when begin_slice() has leased it for task t ...
Begun(e, t) == [e EXCEPT !.presentation = "slicing", !.leased = TRUE, !.task = t,
                         !.cancel = FALSE]
\* Mutant: the early return of a rejected slice keeps the lease.
GivenUp_KeepsLease(e) == [e EXCEPT !.presentation = "invalid", !.leased = TRUE,
                                   !.cancel = FALSE]

\* ... and when the call gave up and its lease was released.
GivenUp(e) == [e EXCEPT !.presentation = "invalid", !.cancel = FALSE]

\* Print::apply() took the input of the plate and validation passed: the pthread
\* starts with what the plate holds now.
LaunchSucceeds(es, t, p, ans) ==
  /\ entries' = WithEntry(es, p, Begun(Last(es[p]), t))
  /\ job' = [task |-> t, plate |-> p, incarnation |-> Len(es[p]),
             revision |-> revisions[p], input |-> input[p], outcome |-> "processing"]
  /\ answers' = ans

\* Configuration, apply or validation fail: the call sends the terminal itself.
LaunchFails(es, t, p, ans) ==
  /\ entries' = WithEntry(es, p, GivenUp(Last(es[p])))
  /\ job' = NoJob
  /\ answers' = Answered(ans, t)

\* slice_for_plate() from begin_slice() on, for task t of the live plate p.
Launch(es, t, p, ans) == LaunchSucceeds(es, t, p, ans) \/ LaunchFails(es, t, p, ans)

\* Mutant: the request that is replaced is forgotten.
Replace_DropsSilently(p) ==
  /\ pending' = [task |-> Len(answers) + 1, plate |-> p, incarnation |-> Len(entries[p])]
  /\ answers' = Append(answers, 0)
  /\ entries' = [entries EXCEPT ![job.plate][job.incarnation].cancel = TRUE]
  /\ UNCHANGED job

\* slice_for_plate() while a job is active: one request is retained, the newest.
Replace(p) ==
  /\ pending' = [task |-> Len(answers) + 1, plate |-> p, incarnation |-> Len(entries[p])]
  /\ answers' = Append(IF pending = NoJob THEN answers ELSE Answered(answers, pending.task), 0)
  /\ entries' = [entries EXCEPT ![job.plate][job.incarnation].cancel = TRUE]
  /\ UNCHANGED job

\* orc_slice_plate() with the current stamp; any other is refused.
Slice(p) ==
  /\ p \in plates /\ Len(answers) < MaxTasks
  /\ IF job = NoJob
     THEN /\ Launch(entries, Len(answers) + 1, p, Append(answers, 0))
          /\ UNCHANGED pending
     ELSE Replace(p)
  /\ UNCHANGED <<input, revisions, nextStamp, past, receipts, transaction>>

\* Print::process() returns or throws on the pthread, which posts its terminal.
ProcessEnds(outcome) ==
  /\ job # NoJob /\ job.outcome = "processing"
  /\ job' = [job EXCEPT !.outcome = outcome]
  /\ UNCHANGED <<input, entries, revisions, nextStamp, past, transaction>>
  /\ UNCHANGED <<pending, answers, receipts>>

\* finalize_slice_task() goes on to materialize a result.
Produces == /\ job.outcome = "completed"
            /\ ~entries[job.plate][job.incarnation].cancel
            /\ revisions[job.plate] = job.revision

\* Mutant: a new result of the entry keeps its generation.
Finalized_SameGeneration(stored) ==
  LET e == [entries[job.plate][job.incarnation] EXCEPT
             !.leased = FALSE, !.task = None, !.cancel = FALSE]
  IN  IF ~IsLive(job.plate, job.incarnation) THEN NewEntry
      ELSE IF Produces /\ stored
      THEN [e EXCEPT !.presentation = "valid", !.sliced = job.input,
                     !.completed = job.revision, !.producer = job.task]
      ELSE [e EXCEPT !.presentation = "invalid"]

\* The entry after finalize_slice_task() and the release of the lease; "stored" is
\* whether the G-code could be exported.  A tombstone never becomes valid and ends.
\* A cancel request is only read under a lease: without one it is kept FALSE.
Finalized(stored) ==
  LET e == [entries[job.plate][job.incarnation] EXCEPT
             !.leased = FALSE, !.task = None, !.cancel = FALSE]
  IN  IF ~IsLive(job.plate, job.incarnation) THEN NewEntry
      ELSE IF Produces /\ stored
      THEN [e EXCEPT !.presentation = "valid", !.generation = @ + 1, !.sliced = job.input,
                     !.completed = job.revision, !.producer = job.task]
      ELSE [e EXCEPT !.presentation = "invalid"]

\* Mutant: the retained request waits for the next explicit Slice.
StartPending_Never(es, ans) ==
  /\ entries' = es /\ answers' = ans /\ job' = NoJob /\ UNCHANGED pending

\* start_pending_slice_if_any(): refused when its entry is gone or cannot be sliced.
StartPending(es, ans) ==
  IF pending = NoJob
  THEN entries' = es /\ answers' = ans /\ job' = NoJob /\ UNCHANGED pending
  ELSE /\ pending' = NoJob
       /\ \/ /\ entries' = es /\ job' = NoJob
             /\ answers' = Answered(ans, pending.task)
          \/ /\ IsLive(pending.plate, pending.incarnation)
             /\ Launch(es, pending.task, pending.plate, ans)

\* orc_drain_async_task_mailbox() reaches the terminal: join, finalize, start the next.
Drain ==
  /\ job # NoJob /\ job.outcome # "processing"
  /\ \E stored \in BOOLEAN :
       LET done == Finalized(stored)
       IN  /\ StartPending([entries EXCEPT ![job.plate][job.incarnation] = done],
                           Answered(answers, job.task))
           /\ receipts' = IF done.presentation = "valid"
                          THEN receipts \cup {[plate |-> job.plate, incarnation |-> job.incarnation,
                                               revision |-> job.revision,
                                               generation |-> done.generation,
                                               input |-> done.sliced]}
                          ELSE receipts
  /\ UNCHANGED <<input, revisions, nextStamp, past, transaction>>

\* orc_cancel() asks the active job to stop; a retained request stays.
CancelSlice ==
  /\ job # NoJob
  /\ entries' = [entries EXCEPT ![job.plate][job.incarnation] = Withdrawn(@)]
  /\ UNCHANGED <<input, revisions, nextStamp, past, transaction>> /\ UNCHANGED sliceVars

-----------------------------------------------------------------------------
(* The mutations *)

\* A mutation outside a transaction is a history entry of its own.
Retain == /\ past' = IF transaction = NoTransaction THEN past \cup {input'} ELSE past
          /\ Cardinality(past') <= MaxRetained

\* Mutant: only one of the plates that changed is stamped and withdrawn.
Edit_StampsOnePlate(ps, v) ==
  LET one == {CHOOSE p \in ps : TRUE}
  IN  /\ ps # {} /\ ps \subseteq plates
      /\ input' = [p \in plates |-> IF p \in ps THEN v ELSE input[p]]
      /\ revisions' = Stamped(one) /\ Allocate(one)
      /\ entries' = Invalidated(entries, one)
      /\ Retain
      /\ UNCHANGED transaction /\ UNCHANGED sliceVars

\* plate_mutation_snapshot(), configuration_mutation_snapshot(), orc_reorder_plates():
\* a mutation of the plates ps.
Edit(ps, v) ==
  /\ ps # {} /\ ps \subseteq plates
  /\ input' = [p \in plates |-> IF p \in ps THEN v ELSE input[p]]
  /\ revisions' = Stamped(ps) /\ Allocate(ps)
  /\ entries' = Invalidated(entries, ps)
  /\ Retain
  /\ UNCHANGED transaction /\ UNCHANGED sliceVars

\* add_plate_mutation_snapshot() and delete_plate_mutation_snapshot(): the plate p
\* that came or went has no stamp, and those the grid moved get a new one.
GridMoved(p, moved) ==
  revisions' = [Stamped(moved) EXCEPT ![p] = 0] /\ Allocate(moved)

\* orc_add_plate(): a new id, a fresh entry, stamp zero; it takes in the instances
\* that stand where it is put, and the grid may move other plates.
AddPlate(p, held, moved) ==
  /\ entries[p] = <<>> /\ moved \subseteq plates
  /\ input' = [q \in plates \cup {p} |-> IF q = p THEN held ELSE input[q]]
  /\ entries' = Invalidated(Reconciled(plates \cup {p}), moved)
  /\ GridMoved(p, moved)
  /\ Retain
  /\ UNCHANGED transaction /\ UNCHANGED sliceVars

\* orc_delete_plate(): a leased entry becomes a tombstone whose job is asked to stop.
DeletePlate(p, moved) ==
  LET survivors == plates \ {p}
  IN  /\ p \in plates /\ survivors # {} /\ moved \subseteq survivors
      /\ input' = Restrict(input, survivors)
      /\ entries' = Invalidated(Reconciled(survivors), moved \cup {p})
      /\ GridMoved(p, moved)
      /\ Retain
      /\ UNCHANGED transaction /\ UNCHANGED sliceVars

-----------------------------------------------------------------------------
(* History *)

\* A restore to "target" withdraws the plates it sees change, or all of them when a
\* project-wide root changes.
Affected(target) ==
  LET ps == DOMAIN target
  IN  {{p \in ps : p \notin plates \/ target[p].content # input[p].content}, ps}

\* restored_plate_revisions.
RestoredStamps(ps, affected) ==
  [p \in Plates |-> IF p \in ps THEN Stamped(affected)[p] ELSE 0]

BoundedEntries == \A p \in Plates : Len(entries'[p]) <= MaxIncarnations

\* The registry follows the restored plates, then the affected results are withdrawn.
RestoredEntries(ps, affected) == Invalidated(Reconciled(ps), affected)

\* orc_history_undo(), orc_history_redo() and orc_history_jump() refuse to navigate
\* inside a transaction.
CanNavigate(target) == transaction = NoTransaction /\ target \in past \ {input}

\* restore_timestamped_result() for Undo, Redo and a jump.
HistoryRestore(target) ==
  /\ CanNavigate(target)
  /\ input' = target
  /\ \E affected \in Affected(target) :
       /\ entries' = RestoredEntries(DOMAIN target, affected)
       /\ revisions' = RestoredStamps(DOMAIN target, affected) /\ Allocate(affected)
  /\ BoundedEntries
  /\ UNCHANGED <<past, transaction>> /\ UNCHANGED sliceVars

\* ... that throws after it withdrew the results: plates, stamps and availability
\* are rolled back, the entries the target had dropped come back empty, and a job
\* that was asked to stop stays asked.  An abort has then ended its transaction.
RestoreFails(dropped, affected) ==
  /\ dropped \subseteq plates /\ dropped # plates
  /\ affected \subseteq plates \ dropped
  /\ entries' = WithLifecycle([p \in Plates |->
                    IF p \in dropped
                    THEN Append(Reconciled(plates \ dropped)[p], NewEntry)
                    ELSE Invalidated(entries, affected)[p]], Lifecycle)
  /\ BoundedEntries
  /\ Allocate(affected)
  /\ transaction' = NoTransaction
  /\ UNCHANGED <<input, revisions, past>> /\ UNCHANGED sliceVars

\* orc_history_begin() keeps the stamps and the availability of the results.
BeginTransaction ==
  /\ transaction = NoTransaction
  /\ transaction' = [before |-> input, revisions |-> revisions, lifecycle |-> Lifecycle]
  /\ UNCHANGED <<input, entries, revisions, nextStamp, past>> /\ UNCHANGED sliceVars

CommitTransaction ==
  /\ transaction # NoTransaction
  /\ transaction' = NoTransaction
  /\ past' = past \cup {input} /\ Cardinality(past') <= MaxRetained
  /\ UNCHANGED <<input, entries, revisions, nextStamp>> /\ UNCHANGED sliceVars

\* orc_history_abort() of a transaction that changed nothing only ends it ...
AbortUnchanged ==
  /\ transaction # NoTransaction
  /\ input = transaction.before
  /\ transaction' = NoTransaction
  /\ UNCHANGED <<input, entries, revisions, nextStamp, past>> /\ UNCHANGED sliceVars

\* ... and otherwise restores the predecessor, and with restore_transaction_runtime_snapshot()
\* its stamps and the availability of its results.
AbortTransaction ==
  /\ transaction # NoTransaction
  /\ input # transaction.before
  /\ input' = transaction.before
  /\ \E affected \in Affected(transaction.before) :
       /\ entries' = WithLifecycle(RestoredEntries(plates', affected), transaction.lifecycle)
       /\ Allocate(affected)
  /\ BoundedEntries
  /\ revisions' = transaction.revisions
  /\ transaction' = NoTransaction
  /\ UNCHANGED past /\ UNCHANGED sliceVars

-----------------------------------------------------------------------------
Next ==
  \/ \E p \in Plates : Slice(p)
  \/ \E outcome \in {"completed", "failed"} : ProcessEnds(outcome)
  \/ Drain
  \/ CancelSlice
  \/ \E target \in past : HistoryRestore(target)
  \/ \E dropped, affected \in SUBSET plates : RestoreFails(dropped, affected)
  \/ BeginTransaction
  \/ CommitTransaction
  \/ AbortUnchanged
  \/ AbortTransaction
  \/ \E ps \in SUBSET plates, v \in Inputs : Edit(ps, v)
  \/ \E p \in Plates, held \in Inputs, moved \in SUBSET plates : AddPlate(p, held, moved)
  \/ \E p \in plates, moved \in SUBSET plates : DeletePlate(p, moved)

Spec == Init /\ [][Next]_vars

\* The pthread ends, and the Worker drains the mailbox it is woken for.
Fairness == /\ WF_vars(\E outcome \in {"completed", "failed"} : ProcessEnds(outcome))
            /\ WF_vars(Drain)

FairSpec == Spec /\ Fairness

-----------------------------------------------------------------------------
(* Properties *)

\* Every variable of the runtime keeps its type.
TypeOK ==
  /\ plates \in (SUBSET Plates) \ {{}} /\ input \in [plates -> Inputs]
  /\ \A p \in Plates : \A i \in DOMAIN entries[p] :
       entries[p][i] \in [presentation : Presentations, completed : -1..MaxStamps,
                          producer : 0..MaxTasks, generation : 0..MaxTasks,
                          leased : BOOLEAN, task : 0..MaxTasks, cancel : BOOLEAN,
                          sliced : Inputs \cup {NoInput}]
  /\ \A p \in plates : entries[p] # <<>>
  /\ revisions \in [Plates -> 0..MaxStamps] /\ nextStamp \in 1..MaxStamps + 1
  /\ \A t \in DOMAIN answers : answers[t] \in Nat

\* A result that Preview, Export and Send may read was made from the content its
\* plate holds now: no edit, Undo, rollback, replacement or late terminal leaves a
\* stale one readable (is_publishable, finalize_slice_task, restore_lifecycle).
PublishedIsCurrent ==
  \A p \in plates : Publishable(p) => Entry(p).sliced.content = input[p].content

\* The same of the printable flags and part types: "Instance/volume changes,
\* transforms, printable state, or membership changes invalidate the owning plate"
\* ("Per-Plate Print Architecture.md" 2.4).
PublishedFlagsAreCurrent ==
  \A p \in plates : Publishable(p) => Entry(p).sliced.flags = input[p].flags

\* A receipt kept by the client names one result: while the plate, stamp and generation
\* it quotes are served, the G-code served has the content it was given for; and unless
\* the plate was deleted and came back, whose generations are counted anew, the same
\* flags too.
ReceiptsStayTrue ==
  \A r \in receipts :
    Publishable(r.plate) /\ revisions[r.plate] = r.revision
      /\ Entry(r.plate).generation = r.generation
    => /\ Entry(r.plate).sliced.content = r.input.content
       /\ r.incarnation = Len(entries[r.plate]) => Entry(r.plate).sliced = r.input

\* The active job holds the only lease: an entry is never left leased by a job that
\* ended, so a later begin_slice() is not refused, and no job runs without one.
LeaseIsTheJob ==
  \A p \in Plates : \A i \in DOMAIN entries[p] :
    entries[p][i].leased <=> (job # NoJob /\ job.plate = p /\ job.incarnation = i)

\* The registry keeps its type, every plate has an entry, and leases are the job's.
RegistryConsistent == TypeOK /\ LeaseIsTheJob

\* Every accepted request gets one terminal, and has none yet exactly while it is
\* the active job or the retained request: replaced, cancelled, stale or failed.
AnsweredOnce ==
  \A t \in 1..Len(answers) :
    answers[t] = IF t \in {job.task, pending.task} THEN 0 ELSE 1

\* A retained request is started or refused in the end, and a job ends.
EveryRequestAnswered ==
  \A t \in 1..MaxTasks : (t \in 1..Len(answers)) ~> (t \in 1..Len(answers) /\ answers[t] = 1)
=============================================================================
