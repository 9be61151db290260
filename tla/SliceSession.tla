---------------------------- MODULE SliceSession ----------------------------
(***************************************************************************)
(* Slicing and exporting as the application sees them: what the stores of  *)
(* the renderer say of each plate's result, beside the engine that edits,  *)
(* undo, the user's plate clicks and one slice at a time all reach.        *)
(*                                                                         *)
(* The slice is not an operation of the project lane: it reads, writes     *)
(* transforms, confirms a nozzle mapping, posts the slice and awaits its   *)
(* outcome while edits come and go.  Neither is a plate click.  Edits and  *)
(* the export take the lane, one at a time.  An edit is its native step    *)
(* and then its publication, which may await in the middle; everything     *)
(* else interleaves there.  The Worker answers in the order it was asked,  *)
(* so an answer that is applied as it arrives is one step with the request *)
(* it answers; the slice and the cancellations wait in the order posted.   *)
(*                                                                         *)
(* A plate's inputs are a stamp that every edit of it advances.  Of the    *)
(* engine there is what PlateRuntime shows it to promise: a slice runs for *)
(* the stamp it was admitted with, is asked to stop when that changes, and *)
(* publishes only under it.  The runtime is the threaded one.  "idle"      *)
(* stands for the statuses idle and error.                                 *)
(***************************************************************************)
EXTENDS Naturals, Sequences, FiniteSets

CONSTANTS
  Plates,      \* identities of plates
  Kinds,       \* kinds of edit, by how they are published
  MaxStamp,    \* bound: stamp of a plate's inputs
  MaxSlices    \* bound: slices ever started

ASSUME SessionAssumption ==
  /\ Kinds \subseteq {"objects", "add", "plates", "tower", "settings", "restore", "clear"}
  /\ MaxStamp \in Nat \ {0} /\ MaxSlices \in Nat

None == "none"
ASSUME NoneAssumption == None \notin Plates

VARIABLES
  engine,   \* plates, stamps, the job and the retained results
  outbox,   \* slices and cancellations posted to the Worker, oldest first
  store,    \* useSlicerStore and usePlateSessionStore
  flow,     \* sliceRequestedPlate()
  lane,     \* the edit under way
  export    \* exportGcode()

vars == <<engine, outbox, store, flow, lane, export>>

Target(p, stamp) == [plate |-> p, stamp |-> stamp]
NoTarget == Target(None, 0)
Receipt(stamp, slice) == [stamp |-> stamp, slice |-> slice]
NoReceipt == Receipt(0, 0)
NoJob == [plate |-> None, stamp |-> 0, slice |-> 0, cancel |-> FALSE]
NoFlow == [at |-> "off", plate |-> None, target |-> NoTarget, asked |-> FALSE, outcome |-> None]
NoEdit == [at |-> "off", kind |-> None, affected |-> {}, session |-> None]

Session(e) == [stamps |-> e.stamps, current |-> e.current, alive |-> e.alive]

Init ==
  \E p \in Plates :
    /\ engine = [stamps |-> [q \in Plates |-> 1], current |-> p, alive |-> Plates,
                 job |-> NoJob, results |-> [q \in Plates |-> NoReceipt]]
    /\ store = [status |-> "idle", target |-> NoTarget, active |-> NoTarget, exported |-> FALSE,
                results |-> [q \in Plates |-> NoReceipt], session |-> Session(engine),
                slices |-> 0]
    /\ outbox = <<>> /\ flow = NoFlow /\ lane = NoEdit /\ export = "off"

-----------------------------------------------------------------------------
(* The stores *)

\* setPlateResult()
setPlateResult(s, target, receipt) ==
  LET kept == [s EXCEPT !.results[target.plate] = receipt]
  IN IF target.plate \in {s.target.plate, s.active.plate}
     THEN [kept EXCEPT !.target = target, !.status = "done", !.exported = FALSE]
     ELSE kept

\* activatePlateResult(): shows the plate's result if it is of this stamp.
activatePlateResult(s, p, stamp) ==
  IF s.results[p] = NoReceipt \/ s.results[p].stamp # stamp
  THEN [s EXCEPT !.target = NoTarget, !.status = "idle", !.exported = FALSE]
  ELSE [s EXCEPT !.target = Target(p, stamp), !.status = "done", !.exported = FALSE]

\* Mutant: the slice under way is forgotten and its status is not.
invalidatePlateResults_KeepsStatus(s, plates) ==
  LET current == s.target.plate \in plates
  IN [s EXCEPT !.results = [p \in Plates |-> IF p \in plates THEN NoReceipt ELSE @[p]],
               !.active = IF @.plate \in plates THEN NoTarget ELSE @,
               !.target = IF current THEN NoTarget ELSE @,
               !.exported = @ /\ ~current,
               !.status = IF current THEN "idle" ELSE @]

\* invalidatePlateResults()
invalidatePlateResults(s, plates) ==
  LET current == s.target.plate \in plates
  IN [s EXCEPT !.results = [p \in Plates |-> IF p \in plates THEN NoReceipt ELSE @[p]],
               !.active = IF @.plate \in plates THEN NoTarget ELSE @,
               !.target = IF current THEN NoTarget ELSE @,
               !.exported = @ /\ ~current,
               !.status = CASE current -> "idle"
                            [] ~current /\ s.active.plate \in plates ->
                                 IF s.target = NoTarget THEN "idle" ELSE "done"
                            [] OTHER -> @]

\* discardPlateResult(), for each of the plates.
discardPlateResults(s, plates) ==
  LET current == s.target.plate \in plates
  IN [s EXCEPT !.results = [p \in Plates |-> IF p \in plates THEN NoReceipt ELSE @[p]],
               !.active = IF @.plate \in plates THEN NoTarget ELSE @,
               !.target = IF current THEN NoTarget ELSE @,
               !.exported = @ /\ ~current,
               !.status = IF current THEN "idle" ELSE @]

\* invalidateSliceResult()
invalidateSliceResult(s) ==
  [s EXCEPT !.status = "idle", !.exported = FALSE, !.target = NoTarget, !.active = NoTarget,
            !.results = [p \in Plates |-> NoReceipt]]

setSnapshot(s, session) == [s EXCEPT !.session = session]
ShowCurrent(s) == activatePlateResult(s, s.session.current, s.session.stamps[s.session.current])

\* applyPlateResultMutation() of an edit that leaves the plates as they are.
applyPlateResultMutation(s, affected) == ShowCurrent(invalidatePlateResults(s, affected))

\* setFailure(): the slice is over; the selected plate is shown if it was another's.
setFailure(s, target) ==
  LET over == [s EXCEPT !.active = NoTarget, !.status = "idle"]
  IN IF target # NoTarget /\ s.session.current # target.plate THEN ShowCurrent(over) ELSE over

-----------------------------------------------------------------------------
(* The engine *)

\* An edit advances the stamps, withdraws the results and stops the job.
Edited(e, affected, alive, current) ==
  [e EXCEPT !.stamps = [p \in Plates |-> IF p \in affected THEN @[p] + 1 ELSE @[p]],
            !.results = [p \in Plates |-> IF p \in affected \/ p \notin alive THEN NoReceipt ELSE @[p]],
            !.alive = alive, !.current = current,
            !.job.cancel = @ \/ e.job.plate \in affected \/ (e.job # NoJob /\ e.job.plate \notin alive)]

Bounded(affected) == \A p \in affected : engine.stamps[p] < MaxStamp

\* Slices and cancellations are executed in the order posted.
AdmitSlice ==
  /\ outbox # <<>> /\ Head(outbox).kind = "slice"
  /\ outbox' = Tail(outbox)
  /\ LET target == flow.target
     IN IF target.plate \in engine.alive /\ engine.stamps[target.plate] = target.stamp /\ engine.job = NoJob
        THEN /\ engine' = [engine EXCEPT !.job = [plate |-> target.plate, stamp |-> target.stamp,
                                                  slice |-> Head(outbox).slice, cancel |-> FALSE]]
             /\ UNCHANGED flow
        ELSE flow' = [flow EXCEPT !.at = "answered", !.outcome = "failed"] /\ UNCHANGED engine
  /\ UNCHANGED <<store, lane, export>>

\* orc_cancel() stops whatever job is active, and fails when none is.
AdmitCancel ==
  /\ outbox # <<>> /\ Head(outbox).kind = "cancel"
  /\ outbox' = Tail(outbox)
  /\ engine' = IF engine.job = NoJob THEN engine ELSE [engine EXCEPT !.job.cancel = TRUE]
  /\ flow' = [flow EXCEPT !.asked = @ /\ ~(engine.job = NoJob /\ Head(outbox).user /\ Head(outbox).slice = store.slices)]
  /\ UNCHANGED <<store, lane, export>>

\* The job ends: it publishes its result unless it was asked to stop.
JobEnds ==
  /\ engine.job # NoJob
  /\ \E outcome \in IF engine.job.cancel THEN {"cancelled"} ELSE {"done", "failed"} :
       /\ flow' = [flow EXCEPT !.at = "answered", !.outcome = outcome]
       /\ engine' = [engine EXCEPT !.job = NoJob,
                       !.results = IF outcome = "done"
                                   THEN [@ EXCEPT ![engine.job.plate] = Receipt(engine.job.stamp, engine.job.slice)]
                                   ELSE @]
  /\ UNCHANGED <<outbox, store, lane, export>>

-----------------------------------------------------------------------------
(* The slice *)

\* Mutant: sliceAdmission is not asked.
SliceAllowed_ByStatus == store.active = NoTarget /\ store.status # "slicing"

\* sliceModel(): one slice at a time, until its outcome has been dealt with.
SliceAllowed == flow.at = "off" /\ store.active = NoTarget /\ store.status # "slicing"

\* The Slice button, or a plate card: the selected plate, or a given one.
sliceModel ==
  /\ SliceAllowed /\ store.slices < MaxSlices
  /\ \E p \in store.session.alive :
       flow' = [NoFlow EXCEPT !.at = "begun", !.plate = p, !.target = Target(p, store.session.stamps[p])]
  /\ store' = [store EXCEPT !.slices = @ + 1]
  /\ UNCHANGED <<engine, outbox, lane, export>>

\* syncModelTransforms() writes what the scene shows, outside the lane.
SyncTransforms ==
  /\ flow.at = "begun"
  /\ \/ \E affected \in SUBSET engine.alive :
          /\ Bounded(affected)
          /\ engine' = Edited(engine, affected, engine.alive, engine.current)
          /\ store' = setSnapshot(
                        activatePlateResult(invalidatePlateResults(store, affected),
                                            engine.current, engine'.stamps[engine.current]),
                        Session(engine'))
          /\ flow' = [flow EXCEPT !.at = "synced"]
     \/ /\ store' = setFailure(store, flow.target) /\ flow' = NoFlow /\ UNCHANGED engine
  /\ UNCHANGED <<outbox, lane, export>>

\* The session is read again: the plate must exist, and hold something valid.
ReadSession ==
  /\ flow.at = "synced"
  /\ LET read == setSnapshot(store, Session(engine))
         target == Target(flow.plate, engine.stamps[flow.plate])
     IN \/ /\ flow.plate \in engine.alive
           /\ store' = read /\ flow' = [flow EXCEPT !.at = "ready", !.target = target]
        \/ /\ store' = setFailure(read, IF flow.plate \in engine.alive THEN target ELSE NoTarget)
           /\ flow' = NoFlow
  /\ UNCHANGED <<engine, outbox, lane, export>>

\* getNozzleMapping(): its revision must be the one the session had.  A mapping
\* that is confirmed is committed as an edit of the plate, and may be declined.
ConfirmMapping ==
  /\ flow.at = "ready"
  /\ \/ /\ engine.stamps[flow.plate] = flow.target.stamp
        /\ flow' = [flow EXCEPT !.at = "confirmed"]
        /\ UNCHANGED <<engine, store>>
     \/ /\ lane.at = "off" /\ export = "off" /\ Bounded({flow.plate})
        /\ flow.plate \in engine.alive /\ engine.stamps[flow.plate] = flow.target.stamp
        /\ engine' = Edited(engine, {flow.plate}, engine.alive, engine.current)
        /\ store' = setSnapshot(invalidatePlateResults(store, {flow.plate}), Session(engine'))
        /\ flow' = [flow EXCEPT !.at = "confirmed", !.target.stamp = engine'.stamps[flow.plate]]
     \/ /\ store' = setFailure(store, flow.target) /\ flow' = NoFlow /\ UNCHANGED engine
     \/ flow' = NoFlow /\ UNCHANGED <<engine, store>>
  /\ UNCHANGED <<outbox, lane, export>>

\* The renderer withdraws what it shows of the plate and posts the slice.
PostSlice ==
  /\ flow.at = "confirmed"
  /\ \/ /\ store' = [invalidatePlateResults(store, {flow.plate}) EXCEPT
                       !.status = "slicing", !.active = flow.target, !.exported = FALSE]
        /\ flow' = [flow EXCEPT !.at = "slicing"]
        /\ outbox' = Append(outbox, [kind |-> "slice", slice |-> store.slices, user |-> FALSE])
     \/ store' = setFailure(store, flow.target) /\ flow' = NoFlow /\ UNCHANGED outbox
  /\ UNCHANGED <<engine, lane, export>>

\* cancelSlice(): once, until it is refused.
cancelSlice ==
  /\ flow.at \in {"slicing", "answered"} /\ ~flow.asked
  /\ flow' = [flow EXCEPT !.asked = TRUE]
  /\ outbox' = Append(outbox, [kind |-> "cancel", slice |-> store.slices, user |-> TRUE])
  /\ UNCHANGED <<engine, store, lane, export>>

\* Mutant: the outcome is taken whatever became of the slice meanwhile.
Superseded_Never == FALSE

\* An edit of the plate has withdrawn the slice meanwhile.
Superseded == store.active # flow.target

\* The outcome of slicePlate() is dealt with.
SliceReturns ==
  /\ flow.at = "answered"
  /\ flow' = NoFlow
  /\ store' =
       LET over == [store EXCEPT !.active = NoTarget]
       IN CASE Superseded -> store
            [] ~Superseded /\ flow.outcome = "failed" -> setFailure(store, flow.target)
            [] ~Superseded /\ flow.outcome = "cancelled" -> ShowCurrent([over EXCEPT !.status = "idle"])
            [] OTHER -> ShowCurrent([setPlateResult(store, flow.target, Receipt(flow.target.stamp, store.slices))
                                       EXCEPT !.active = NoTarget])
  /\ UNCHANGED <<engine, outbox, lane, export>>

-----------------------------------------------------------------------------
(* Edits and plate clicks *)

LaneFree == lane.at = "off" /\ export = "off"

\* What the edit does in the engine, and the session its receipt carries.
Begins(kind, affected, alive, current) ==
  /\ LaneFree /\ kind \in Kinds /\ Bounded(affected)
  /\ engine' = Edited(engine, affected, alive, current)
  /\ lane' = [at |-> IF kind \in {"objects", "add", "restore"} THEN "first" ELSE "last",
              kind |-> kind, affected |-> affected, session |-> Session(engine')]
  /\ UNCHANGED <<outbox, store, flow, export>>

\* Objects change; a shared setting, a prime tower.
Edit ==
  \E kind \in Kinds \ {"plates", "restore", "clear"}, affected \in SUBSET engine.alive :
    /\ kind = "tower" => Cardinality(affected) = 1
    /\ Begins(kind, affected, engine.alive, engine.current)

\* A plate is added or deleted; undo and redo may change all plates.
EditPlates ==
  \E kind \in Kinds \cap {"plates", "restore"}, alive \in (SUBSET Plates) \ {{}}, affected \in SUBSET Plates :
    \E current \in alive :
      LET changed == (alive \ engine.alive) \cup (engine.alive \ alive)
      IN /\ affected \subseteq alive \cup engine.alive
         /\ IF kind = "restore" THEN changed \subseteq affected
            ELSE /\ Cardinality(changed) = 1
                 /\ engine.alive \subseteq alive => current \in changed
                 /\ alive \subseteq engine.alive /\ engine.current \in alive => current = engine.current
                 /\ alive \ engine.alive \subseteq affected /\ affected \subseteq alive
         /\ Begins(kind, affected, alive, current)

\* The scene is cleared.
clearScene ==
  /\ "clear" \in Kinds /\ store.status # "slicing"
  /\ Begins("clear", engine.alive, engine.alive, engine.current)

\* invalidateAffectedPlateResults() also asks the job of an affected plate to stop.
Cancelling(plates) ==
  outbox' = IF store.active.plate \in plates
            THEN Append(outbox, [kind |-> "cancel", slice |-> store.slices, user |-> FALSE])
            ELSE outbox

\* What an edit publishes before it awaits the scene.
PublishFirst ==
  /\ lane.at = "first"
  /\ LET quiet == [store EXCEPT !.status = "idle", !.exported = FALSE]
     IN CASE lane.kind = "objects" -> store' = invalidatePlateResults(quiet, lane.affected) /\ Cancelling(lane.affected)
          [] lane.kind = "add" -> store' = quiet /\ UNCHANGED outbox
          [] lane.kind = "restore" -> store' = invalidatePlateResults(store, lane.affected) /\ Cancelling(lane.affected)
  /\ lane' = [lane EXCEPT !.at = "last"]
  /\ UNCHANGED <<engine, flow, export>>

\* The plates whose results the publication still has to withdraw.
Withdrawn ==
  lane.affected \cup (IF lane.kind = "plates" THEN store.session.alive \ lane.session.alive ELSE {})

\* refreshAfterModelMutation(), applySettledTransformSyncResult(), applyPlateSessionResponse(),
\* applyPrimeTowerMoveMutation(), invalidateAfterSharedConfigurationMutation(), refreshModel().
PublishLast ==
  /\ lane.at = "last"
  /\ LET session == lane.session
         kept == invalidatePlateResults(store, Withdrawn)
     IN CASE lane.kind \in {"objects", "add"} ->
               store' = applyPlateResultMutation(setSnapshot(store, session), Withdrawn) /\ UNCHANGED outbox
          [] lane.kind = "plates" ->
               /\ store' = ShowCurrent(setSnapshot(
                             discardPlateResults(kept, store.session.alive \ session.alive), session))
               /\ Cancelling(Withdrawn)
          [] lane.kind = "tower" ->
               /\ store' = [kept EXCEPT !.session.stamps =
                              [p \in Plates |-> IF p \in lane.affected THEN session.stamps[p] ELSE @[p]]]
               /\ Cancelling(Withdrawn)
          [] lane.kind = "settings" ->
               IF lane.affected = {} THEN store' = setSnapshot(store, session) /\ UNCHANGED outbox
               ELSE store' = setSnapshot(kept, session) /\ Cancelling(Withdrawn)
          [] lane.kind = "restore" -> store' = setSnapshot(store, session) /\ UNCHANGED outbox
          [] lane.kind = "clear" ->
               /\ store' = applyPlateResultMutation(setSnapshot(invalidateSliceResult(store), session), Withdrawn)
               /\ UNCHANGED outbox
  /\ lane' = NoEdit
  /\ UNCHANGED <<engine, flow, export>>

\* selectPlateSession(): a bed or a card is clicked.
selectPlateSession ==
  \E p \in store.session.alive \ {store.session.current} :
    /\ p \in engine.alive
    /\ engine' = [engine EXCEPT !.current = p]
    /\ store' = ShowCurrent([store EXCEPT !.session.current = p])
    /\ UNCHANGED <<outbox, flow, lane, export>>

-----------------------------------------------------------------------------
(* The export *)

\* exportGcode(): what is shown must be the selected plate's and current; the
\* bytes are then offered to the user to save.
exportGcode ==
  /\ LaneFree
  /\ LET p == engine.current
     IN /\ store.target = Target(p, engine.stamps[p])
        /\ store.results[p].stamp = engine.stamps[p] /\ engine.results[p] = store.results[p]
        /\ export' = "saving"
  /\ UNCHANGED <<engine, outbox, store, flow, lane>>

\* The host has saved the file, or the user has declined.
SaveReturns ==
  /\ export = "saving"
  /\ \/ store' = [store EXCEPT !.exported = TRUE]
     \/ UNCHANGED store
  /\ export' = "off"
  /\ UNCHANGED <<engine, outbox, flow, lane>>

Next ==
  \/ AdmitSlice \/ AdmitCancel \/ JobEnds
  \/ sliceModel \/ SyncTransforms \/ ReadSession \/ ConfirmMapping \/ PostSlice
  \/ cancelSlice \/ SliceReturns
  \/ Edit \/ EditPlates \/ clearScene \/ PublishFirst \/ PublishLast
  \/ selectPlateSession \/ exportGcode \/ SaveReturns

Spec == Init /\ [][Next]_vars

-----------------------------------------------------------------------------
(* Properties *)

Targets == [plate : Plates \cup {None}, stamp : 0..MaxStamp]
Receipts == [stamp : 0..MaxStamp, slice : 0..MaxSlices]
Sessions == [stamps : [Plates -> 1..MaxStamp], current : Plates, alive : SUBSET Plates]

\* Type invariant of the session's state.
TypeOK ==
  /\ engine.stamps \in [Plates -> 1..MaxStamp] /\ engine.results \in [Plates -> Receipts]
  /\ engine.current \in engine.alive /\ engine.alive \subseteq Plates
  /\ store.status \in {"idle", "slicing", "done"} /\ store.exported \in BOOLEAN
  /\ store.target \in Targets /\ store.active \in Targets
  /\ store.results \in [Plates -> Receipts] /\ store.session \in Sessions
  /\ flow.at \in {"off", "begun", "synced", "ready", "confirmed", "slicing", "answered"}
  /\ flow.target \in Targets /\ flow.asked \in BOOLEAN
  /\ lane.at \in {"off", "first", "last"} /\ export \in {"off", "saving"}

\* When no edit is waiting to be published, every result the renderer keeps of a
\* plate is one the engine would still export: of the plate's present inputs, and
\* the last the engine made.  What is shown as sliced is one of them.
\* (plateResultLifecycle.ts, sliceRequestedPlate())
KeptIsCurrent ==
  /\ lane.at = "off" =>
       \A p \in engine.alive : store.results[p] # NoReceipt =>
         store.results[p] = engine.results[p] /\ store.results[p].stamp = engine.stamps[p]
  /\ store.target # NoTarget => store.results[store.target.plate].stamp = store.target.stamp

\* Slicing is never shown, nor refused, for a slice nobody awaits: the active
\* target is the one the slice under way posted.  (sliceModel())
SlicingHasItsJob ==
  /\ store.active # NoTarget => flow.at \in {"slicing", "answered"} /\ store.active = flow.target
  /\ store.status = "slicing" => store.active # NoTarget

\* The stores keep their types, the engine shows a plate it has, and no slice is shown
\* that nobody awaits.
StoresConsistent == TypeOK /\ SlicingHasItsJob

\* A cancellation posted for one slice never stops another: orc_cancel() names
\* no task.  (cancelSlice(), invalidateAffectedPlateResults())
CancelReachesItsJob ==
  [][(outbox # <<>> /\ Head(outbox).kind = "cancel" /\ outbox' = Tail(outbox) /\ engine.job # NoJob)
       => engine.job.slice = Head(outbox).slice]_vars

=============================================================================
