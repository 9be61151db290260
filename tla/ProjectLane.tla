---------------------------- MODULE ProjectLane ----------------------------
(***************************************************************************)
(* The lane in which the application changes the project: the gate and its *)
(* queue, the publication fence, undo and redo, saving, arranging, mesh     *)
(* boolean, and the drags of the viewport.                                 *)
(*                                                                         *)
(* An operation of the lane runs from await to await; everything else of   *)
(* the renderer interleaves there.  The code between two awaits is one     *)
(* step, or a few that the rest of the program waits for: "Calm" says that *)
(* no continuation is due.  A drag never holds the lane: it reserves the   *)
(* project's revision and the identity of its targets when it begins, and  *)
(* is checked against both when it is released.                            *)
(*                                                                         *)
(* The project is the order of its objects and a revision: objects are     *)
(* addressed by position and identified by their stable identity.  What is *)
(* shown is an order too, with the drags whose motion is on screen and not *)
(* in the project.  The painting session is closed (PaintingSession models *)
(* it).  Left out: labels, contexts, diagnostics, the filament projection  *)
(* and the plate receipts.                                                 *)
(***************************************************************************)
EXTENDS Naturals, Sequences, SequencesExt, FiniteSets

CONSTANTS
  Entities,     \* objects the model may hold
  Commands,     \* what the user may ask for
  Gestures,     \* identities of drags under way at a time
  MaxQueue,     \* bound: operations queued or running
  MaxRevision   \* bound: revision of the project

Mutations == {"edit", "add", "boolean"}
ASSUME LaneAssumption ==
  /\ Commands \subseteq {"edit", "add", "boolean", "restore", "save", "reset", "read", "arrange"}
  /\ MaxQueue \in Nat \ {0} /\ MaxRevision \in Nat
ASSUME FiniteAssumption == IsFiniteSet(Entities) /\ IsFiniteSet(Gestures)

None == "none"
ASSUME NoneAssumption == None \notin Entities /\ None \notin Gestures

VARIABLES
  app,     \* the renderer: gate, lane, stores and scene
  native   \* the project in the engine

vars == <<app, native>>

Orders == {s \in UNION {[1..n -> Entities] : n \in 0..Cardinality(Entities)} : IsInjective(s)}

Op(kind, gesture) == [kind |-> kind, gesture |-> gesture]
NoOp == Op(None, None)

Init ==
  \E order \in Orders :
    /\ native = [revision |-> 0, order |-> order, dirty |-> FALSE]
    /\ app = [queue |-> <<>>, running |-> NoOp, at |-> "idle", superseded |-> FALSE,
              leases |-> 0, exclusive |-> FALSE, boolean |-> "off", arranging |-> "off",
              shown |-> order, selected |-> {}, drag |-> None, draft |-> {},
              reconciling |-> FALSE, status |-> [revision |-> 0, dirty |-> FALSE], phase |-> "idle", notice |-> None,
              gestures |-> <<>>]

-----------------------------------------------------------------------------
(* The gate *)

Arranging(s) == s.arranging \in {"active", "cancelling"}
Reads == {"read", "reserve"}

\* enqueueProjectMutationOperation(), enqueueProjectReadOperation(): who may enter.
Admitted(s, kind) ==
  IF s.exclusive THEN kind = "boolean"
  ELSE kind \in Reads \/ ~Arranging(s)

Enqueued(s, op) == [s EXCEPT !.queue = Append(@, op)]

\* Mutant: only the fence is asked, which reads do not hold.
LaneIdle_ByLease(s) == ~s.exclusive /\ ~Arranging(s) /\ s.leases = 0

\* runExclusiveProjectOperation(): the lane must be idle.
LaneIdle(s) ==
  /\ ~s.exclusive /\ s.running = NoOp /\ s.queue = <<>>
  /\ ~Arranging(s) /\ s.leases = 0

\* Mutant: a restore joins the lane without the fence.
Started_Unfenced(s, op) ==
  [s EXCEPT !.running = op, !.at = "native", !.superseded = FALSE,
            !.leases = @ + (IF op.kind \in Reads \cup {"restore"} THEN 0 ELSE 1),
            !.arranging = IF op.kind = "arrange" THEN "active" ELSE @,
            !.phase = IF op.kind = "restore" THEN "restoring" ELSE @,
            !.notice = IF op.kind = "restore" /\ @ = "due" THEN "stale" ELSE @]

\* What an operation does before its first await.
Started(s, op) ==
  [s EXCEPT !.running = op, !.at = "native", !.superseded = FALSE,
            !.leases = @ + (IF op.kind \in Reads THEN 0 ELSE 1),
            !.arranging = IF op.kind = "arrange" THEN "active" ELSE @,
            !.phase = IF op.kind = "restore" THEN "restoring" ELSE @,
            !.notice = IF op.kind = "restore" /\ @ = "due" THEN "stale" ELSE @]

\* drainOperations() finds the next operation when the running one has settled.
DrainDue(s) == s.running = NoOp /\ s.queue # <<>>
Drain ==
  /\ DrainDue(app)
  /\ app' = Started([app EXCEPT !.queue = Tail(@)], Head(app.queue))
  /\ UNCHANGED native

\* The operation settles and its finally clause releases the lease.
Settled(s, leased) ==
  [s EXCEPT !.running = NoOp, !.at = "idle", !.superseded = FALSE,
            !.leases = @ - (IF leased THEN 1 ELSE 0)]

-----------------------------------------------------------------------------
(* Drags *)

Position(s, e) == CHOOSE i \in DOMAIN s : s[i] = e
Positions(order, es) == {Position(order, e) : e \in es}
At(order, positions) == {order[i] : i \in positions \cap DOMAIN order}

Dragging(s) == s.drag # None
latestOpenTransaction(s) == SelectLastInSeq(s.gestures, LAMBDA g : g.decision = None)

NoReservation == [state |-> None, revision |-> 0, targets |-> <<>>]

\* startHeadReservation(): only the head reads, through the lane.
startHeadReservation(s) ==
  IF s.gestures = <<>> \/ Head(s.gestures).reservation.state # None THEN s
  ELSE IF Admitted(s, "reserve")
       THEN Enqueued([s EXCEPT !.gestures[1].reservation.state = "asked"],
                     Op("reserve", Head(s.gestures).id))
       ELSE [s EXCEPT !.gestures[1].reservation.state = "refused"]

\* Mutant: the next drag's reservation is not started.
finish_Forgets(s) == [s EXCEPT !.gestures = Tail(@)]

\* finish(): the head leaves.
finish(s) == startHeadReservation([s EXCEPT !.gestures = Tail(@)])

\* commit() and abort() decide the latest open transaction.
Decided(s, decision) ==
  LET i == latestOpenTransaction(s)
  IN IF i = 0 THEN s
     ELSE [s EXCEPT !.gestures[i].decision = decision,
                    !.gestures[i].final = Positions(s.shown, s.selected)]

\* cancelDrag() puts the captured transforms back.
cancelDrag(s) ==
  IF ~Dragging(s) THEN s
  ELSE Decided([s EXCEPT !.draft = @ \ {s.drag}, !.drag = None], "abort")

\* resetForModel() forgets the selection and the drag.
resetForModel(s) == [s EXCEPT !.selected = {}, !.drag = None]

\* pruneSelection() keeps what is still shown.
pruneSelection(s) ==
  LET t == [s EXCEPT !.selected = @ \cap ToSet(s.shown)]
  IN IF t.selected = {} THEN cancelDrag(t) ELSE t

\* A full load of the meshes replaces the collection; whoever was composing a
\* patch of the old one is superseded.
Replaced(s) ==
  resetForModel([s EXCEPT !.shown = native.order, !.draft = {},
                          !.superseded = s.at = "publish"])

\* pump(): a decided head is discarded, refused or queued.
Pumpable(g) ==
  /\ ~g.running
  /\ \/ g.decision = "abort"
     \/ g.decision = "commit" /\ g.reservation.state \in {"held", "refused"}
PumpDue(s) == s.gestures # <<>> /\ Pumpable(Head(s.gestures))

Pump ==
  /\ PumpDue(app)
  /\ LET g == Head(app.gestures)
     IN app' = IF g.decision = "abort" THEN finish(app)
               ELSE IF g.reservation.state = "refused" THEN finish([app EXCEPT !.reconciling = TRUE])
               ELSE IF Admitted(app, "transform")
                    THEN Enqueued([app EXCEPT !.gestures[1].running = TRUE], Op("transform", g.id))
                    ELSE finish(app)
  /\ UNCHANGED native

\* Mutant: the handlers do not compare revisions.
Notify_Unfenced ==
  /\ app.notice # None
  /\ app' = [app EXCEPT !.notice = None, !.phase = "idle"]
  /\ UNCHANGED native

\* The handlers that restore() hangs on its promise; an older one finds a newer revision.
Notify ==
  /\ app.notice # None
  /\ app' = [app EXCEPT !.notice = None, !.phase = IF app.notice = "due" THEN "idle" ELSE @]
  /\ UNCHANGED native

\* No continuation is due.
Calm == ~DrainDue(app) /\ ~PumpDue(app) /\ app.notice = None
Room == Len(app.queue) < MaxQueue

-----------------------------------------------------------------------------
(* The user *)

\* A command joins the lane, or is refused at the gate.
Ask(kind) ==
  /\ kind \in Commands \cap {"edit", "add", "restore", "save", "reset", "read"}
  /\ Room /\ Admitted(app, kind) /\ (kind = "restore" => ~Dragging(app))
  /\ app' = Enqueued(app, Op(kind, None))
  /\ UNCHANGED native

\* restore() during a drag only cancels the drag; so does Escape.
CancelDrag ==
  /\ Dragging(app)
  /\ app' = cancelDrag(app)
  /\ UNCHANGED native

\* begin(): the targets are positions of what is shown.
Begin ==
  /\ app.leases = 0 /\ ~Dragging(app)
  /\ \E es \in SUBSET ToSet(app.shown) \ {{}},
        id \in Gestures \ ({g.id : g \in ToSet(app.gestures)} \cup app.draft
                           \cup {o.gesture : o \in ToSet(Append(app.queue, app.running))}) :
       app' = startHeadReservation([app EXCEPT
         !.selected = es, !.drag = id, !.draft = @ \cup {id},
         !.gestures = Append(@, [id |-> id, start |-> Positions(app.shown, es),
           final |-> {}, decision |-> None, reservation |-> NoReservation, running |-> FALSE])])
  /\ UNCHANGED native

\* endDrag() commits a drag that moved something and aborts one that did not.
EndDrag ==
  /\ Dragging(app)
  /\ \E moved \in BOOLEAN :
       app' = IF moved THEN Decided([app EXCEPT !.drag = None], "commit") ELSE cancelDrag(app)
  /\ UNCHANGED native

\* arrangeModels(): "starting" excludes a second one until the operation has settled.
AskArrange ==
  /\ "arrange" \in Commands /\ app.arranging = "off" /\ ~Dragging(app)
  /\ app' = [app EXCEPT !.arranging = "starting"]
  /\ UNCHANGED native

EnterArrange ==
  /\ app.arranging = "starting" /\ Room
  /\ ~\E op \in ToSet(app.queue) : op.kind = "arrange"
  /\ app' = IF Admitted(app, "arrange") THEN Enqueued(app, Op("arrange", None))
            ELSE [app EXCEPT !.arranging = "off"]
  /\ UNCHANGED native

CancelArrange ==
  /\ app.arranging = "active"
  /\ app' = [app EXCEPT !.arranging = "cancelling"]
  /\ UNCHANGED native

\* executeMeshBoolean(): prepares, then takes the whole lane or gives up.
AskBoolean ==
  /\ "boolean" \in Commands /\ app.boolean = "off"
  /\ app' = [app EXCEPT !.boolean = "preparing"]
  /\ UNCHANGED native

EnterExclusive ==
  /\ app.boolean = "preparing"
  /\ app' = IF LaneIdle(app)
            THEN [app EXCEPT !.boolean = "inside", !.exclusive = TRUE, !.leases = @ + 1]
            ELSE [app EXCEPT !.boolean = "off"]
  /\ UNCHANGED native

\* The Worker grants the scoped transport, or refuses it.
RunExclusive ==
  /\ app.boolean = "inside"
  /\ app' = IF Admitted(app, "boolean")
            THEN Enqueued([app EXCEPT !.boolean = "queued"], Op("boolean", None))
            ELSE [app EXCEPT !.boolean = "leaving"]
  /\ UNCHANGED native

LeaveExclusive ==
  /\ app.boolean \in {"inside", "leaving"}
  /\ app' = [app EXCEPT !.boolean = "off", !.exclusive = FALSE, !.leases = @ - 1]
  /\ UNCHANGED native

-----------------------------------------------------------------------------
(* The running operation, at an answer of the engine *)

Kind == app.running.kind
Answers(kinds, stage) == Kind \in kinds /\ app.at = stage
Status(n) == [revision |-> n.revision, dirty |-> n.dirty]
\* Mutant: a receipt of the projected revision is dropped as well.
Projected_Newer(s, n) ==
  [s EXCEPT !.status = IF n.revision <= @.revision THEN @ ELSE Status(n)]

\* projectHistoryStatus(): an older receipt is dropped.
Projected(s, n) ==
  [s EXCEPT !.status = IF n.revision < @.revision THEN @ ELSE Status(n)]
Changed(order) == [native EXCEPT !.revision = @ + 1, !.order = order, !.dirty = TRUE]
MayChange == native.revision < MaxRevision

\* A Boolean operation's caller goes on when its operation has settled.
Left(s) == IF Kind = "boolean" THEN [s EXCEPT !.boolean = "leaving"] ELSE s

Edited(order) ==
  {RemoveAt(order, i) : i \in DOMAIN order}
    \cup {Append(order, e) : e \in Entities \ ToSet(order)}

\* executeProjectHistoryTransaction(): the transaction commits, or fails and leaves
\* the project as it was.
MutationCommits ==
  /\ Answers(Mutations, "native") /\ MayChange
  /\ \E order \in Edited(native.order) :
       /\ (Kind = "add" => Len(order) > Len(native.order))
       /\ native' = Changed(order)
  /\ app' = Projected([app EXCEPT !.at = "publish"], native')

MutationFails ==
  /\ Answers(Mutations, "native")
  /\ app' = Left(Settled(Projected(app, native), TRUE))
  /\ UNCHANGED native

\* The committed delta is patched into the scene, unless the scene was replaced meanwhile.
MutationPublishes ==
  /\ Answers(Mutations, "publish")
  /\ LET s == IF app.superseded THEN app
              ELSE pruneSelection([app EXCEPT !.shown = native.order])
     IN app' = Left(Settled(IF Kind = "add" THEN resetForModel(s) ELSE s, TRUE))
  /\ UNCHANGED native

\* restoreProjectHistory() through the restore coordinator.
RestoreCommits ==
  /\ Answers({"restore"}, "native") /\ MayChange
  /\ \E order \in Orders, dirty \in BOOLEAN :
       native' = [revision |-> native.revision + 1, order |-> order, dirty |-> dirty]
  /\ app' = Projected([app EXCEPT !.at = "publish"], native')

\* Mutant: the early return of a failed restore keeps the lease.
RestoreFails_KeepsLease ==
  /\ Answers({"restore"}, "native")
  /\ app' = [Settled(Projected(app, native), FALSE) EXCEPT !.notice = "due"]
  /\ UNCHANGED native

RestoreFails ==
  /\ Answers({"restore"}, "native")
  /\ app' = [Settled(Projected(app, native), TRUE) EXCEPT !.notice = "due"]
  /\ UNCHANGED native

RestorePublishes ==
  /\ Answers({"restore"}, "publish")
  /\ LET s == IF app.superseded THEN app
              ELSE cancelDrag([app EXCEPT !.shown = native.order,
                                          !.selected = @ \cap ToSet(native.order)])
     IN app' = [Settled(s, TRUE) EXCEPT !.notice = "due"]
  /\ UNCHANGED native

\* saveProjectFile(): exports and writes inside the reservation, then marks the checkpoint.
SaveWrites ==
  /\ Answers({"save"}, "native")
  /\ app' = [app EXCEPT !.at = "write"]
  /\ UNCHANGED native

SaveMarks ==
  /\ Answers({"save"}, "write")
  /\ native' = [native EXCEPT !.dirty = FALSE]
  /\ app' = Settled(Projected(app, native'), TRUE)

SaveFails ==
  /\ Answers({"save"}, "native") \/ Answers({"save"}, "write")
  /\ app' = Settled(app, TRUE)
  /\ UNCHANGED native

\* resetProjectHistory(): the history starts over, clean.
ResetAnswers ==
  /\ Answers({"reset"}, "native") /\ MayChange
  /\ native' = [native EXCEPT !.revision = @ + 1, !.dirty = FALSE]
  /\ app' = Settled(Projected(app, native'), TRUE)

ResetFails ==
  /\ Answers({"reset"}, "native")
  /\ app' = Settled(app, TRUE)
  /\ UNCHANGED native

\* syncHistoryStatus(), readProjectHistoryStatus()
ReadAnswers ==
  /\ Answers({"read"}, "native")
  /\ app' = Settled(Projected(app, native), FALSE)
  /\ UNCHANGED native

\* captureReservation(): the revision, and the identities at the captured positions.
ReserveAnswers ==
  /\ Answers({"reserve"}, "native")
  /\ LET s == Settled(app, FALSE)
         mine == {i \in DOMAIN s.gestures : s.gestures[i].id = app.running.gesture}
     IN app' = IF mine = {} THEN s
               ELSE LET i == CHOOSE j \in mine : TRUE
                        start == s.gestures[i].start
                    IN [s EXCEPT !.gestures[i].reservation =
                          IF start \subseteq DOMAIN native.order
                          THEN [state |-> "held", revision |-> native.revision,
                                targets |-> [p \in start |-> native.order[p]]]
                          ELSE [NoReservation EXCEPT !.state = "refused"]]
  /\ UNCHANGED native

\* validateReservation(), before the transaction is opened.
validateReservation(g) ==
  /\ g.final = g.start
  /\ native.revision = g.reservation.revision
  /\ g.start \subseteq DOMAIN native.order
  /\ g.reservation.targets = [p \in g.start |-> native.order[p]]

TransformCommits ==
  /\ Answers({"transform"}, "native") /\ MayChange
  /\ LET g == Head(app.gestures)
     IN /\ validateReservation(g)
        /\ native' = Changed(native.order)
        /\ app' = finish(Settled(Projected([app EXCEPT !.draft = @ \ {g.id}], native'), TRUE))

\* A stale reservation opens no transaction, so the lease is released before the scene
\* is rebuilt; a failed transaction keeps it.
TransformStale ==
  /\ Answers({"transform"}, "native")
  /\ ~validateReservation(Head(app.gestures))
  /\ app' = [app EXCEPT !.at = "rebuild", !.leases = @ - 1]
  /\ UNCHANGED native

TransformFails ==
  /\ Answers({"transform"}, "native")
  /\ validateReservation(Head(app.gestures))
  /\ app' = [app EXCEPT !.at = "reconcile"]
  /\ UNCHANGED native

TransformReconciles ==
  /\ Answers({"transform"}, "rebuild") \/ Answers({"transform"}, "reconcile")
  /\ app' = finish(Settled(Projected(Replaced(app), native), app.at = "reconcile"))
  /\ UNCHANGED native

\* The rebuild that pump() starts outside the lane.
Reconcile ==
  /\ app.reconciling
  /\ app' = [Replaced(app) EXCEPT !.reconciling = FALSE]
  /\ UNCHANGED native

ArrangeChanges ==
  /\ Answers({"arrange"}, "native") /\ MayChange
  /\ app' = [app EXCEPT !.at = "publish"]
  /\ native' = Changed(native.order)

ArrangeChangesNothing ==
  /\ Answers({"arrange"}, "native")
  /\ app' = [Settled(app, TRUE) EXCEPT !.arranging = "off"]
  /\ UNCHANGED native

ArrangePublishes ==
  /\ Answers({"arrange"}, "publish")
  /\ app' = [Settled(Projected(app, native), TRUE) EXCEPT !.arranging = "off"]
  /\ UNCHANGED native

-----------------------------------------------------------------------------
User ==
  \/ \E kind \in Commands : Ask(kind)
  \/ Begin \/ EndDrag \/ CancelDrag
  \/ AskArrange \/ EnterArrange \/ CancelArrange
  \/ AskBoolean \/ EnterExclusive \/ RunExclusive \/ LeaveExclusive

Operation ==
  \/ MutationCommits \/ MutationFails \/ MutationPublishes
  \/ RestoreCommits \/ RestoreFails \/ RestorePublishes
  \/ SaveWrites \/ SaveMarks \/ SaveFails \/ ResetAnswers \/ ResetFails
  \/ ReadAnswers \/ ReserveAnswers
  \/ TransformCommits \/ TransformStale \/ TransformFails \/ TransformReconciles
  \/ Reconcile
  \/ ArrangeChanges \/ ArrangeChangesNothing \/ ArrangePublishes

Next == Pump \/ Notify \/ (~PumpDue(app) /\ Drain) \/ (Calm /\ (User \/ Operation))

Spec == Init /\ [][Next]_vars

-----------------------------------------------------------------------------
\* Every field keeps its type.  Leases never go below zero, two at most are held (an
\* exclusive caller and its operation), and the queue holds what was asked and one
\* operation per drag.
TypeOK ==
  /\ native \in [revision : 0..MaxRevision, order : Orders, dirty : BOOLEAN]
  /\ app.shown \in Orders /\ app.selected \subseteq Entities
  /\ app.leases \in 0..2 /\ Len(app.queue) <= MaxQueue + Cardinality(Gestures)
  /\ app.drag \in Gestures \cup {None} /\ app.draft \subseteq Gestures
  /\ Len(app.gestures) <= Cardinality(Gestures)
  /\ app.status \in [revision : 0..MaxRevision, dirty : BOOLEAN]

\* While the scene shows another order of objects than the engine holds, the fence is up:
\* no drag can begin on positions that already name other objects.
FenceCoversProjection == app.shown # native.order => app.leases > 0

\* The application says that it restores exactly while a restore runs or its handlers
\* are due: a restore that overtakes the handlers of the one before is not cut short, and
\* one that fails leaves nothing behind.
RestoringIsHonest ==
  app.phase = "restoring" <=> (app.running.kind = "restore" \/ app.notice = "due")

\* Nothing runs, nothing is due, and the user holds nothing.
Quiet ==
  /\ Calm /\ app.running = NoOp /\ ~Dragging(app) /\ ~app.reconciling
  /\ app.boolean = "off" /\ app.arranging = "off"

\* When the lane is quiet, the status that enables Save, Undo and Redo is the engine's:
\* no receipt that was dropped or overtaken leaves a stale one behind.
StatusInStep == Quiet => app.status = Status(native)

\* A drag that was released is never left behind: when nothing is under way, the head of
\* the pending drags is one the user has not decided.
DecidedHeadCompletes ==
  (Quiet /\ app.gestures # <<>>) => Head(app.gestures).decision = None

\* The fields keep their types, and no released drag is left behind.
DragsConsistent == TypeOK /\ DecidedHeadCompletes

\* While a mesh boolean operation has the lane, nothing else runs or waits in it,
\* whichever of the three entry points it came through.
ExclusiveIsAlone ==
  app.exclusive => \A op \in ToSet(Append(app.queue, app.running)) : op.kind \in {None, "boolean"}

\* Every lease is released exactly once on every way out of an operation: a lost one
\* would refuse all later drags and exclusive operations.
LeasesBalance == Quiet => app.leases = 0

\* When nothing is under way, no drag is pending and no motion is on screen that is not
\* in the project.
DragsSettle == Quiet => app.gestures = <<>> /\ app.draft = {}

=============================================================================
