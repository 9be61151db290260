------------------------ MODULE ProjectLane_proofs ------------------------
(***************************************************************************)
(* Proofs about the project lane, for any objects, drags, commands and     *)
(* bounds.  The inductive invariant says what each stage of an operation   *)
(* leaves unequal: outside the publication stage the scene and the status  *)
(* are the engine's, the leases are counted exactly, and the exclusive     *)
(* hold owns the lane.  A step either leaves all of that alone (Follows),  *)
(* ends the running operation (Settles), or carries it on (Continues).     *)
(*                                                                         *)
(* A second invariant, proved on top of it, is about the drags: what the   *)
(* head of the pending ones waits for is in the lane, once, and whatever   *)
(* is in the lane for a drag is for one that waits or has left (InOrder).  *)
(***************************************************************************)
EXTENDS ProjectLane, FiniteSetTheorems, SequenceTheorems, TLAPS

\* The fields of the renderer.
Fields ==
  {"queue", "running", "at", "superseded", "leases", "exclusive", "boolean", "arranging",
   "shown", "selected", "drag", "draft", "reconciling", "status", "phase", "notice", "gestures"}

\* A record with exactly these fields.
IsLane(s) == s = [f \in Fields |-> s[f]]

\* What may run in the lane.
Work == {"edit", "add", "boolean", "restore", "save", "reset", "read", "arrange", "reserve", "transform"}

\* The queue holds work only, and Boolean operations exactly while the lane is exclusive.
QueueOK(s) ==
  /\ \E S : s.queue \in Seq(S)
  /\ \A i \in 1..Len(s.queue) :
       s.queue[i].kind \in Work /\ (s.queue[i].kind = "boolean" <=> s.exclusive)

\* t differs from s in nothing the invariant speaks of, but for operations that joined the queue.
Follows(t, s) ==
  /\ IsLane(t)
  /\ t.running = s.running /\ t.at = s.at /\ t.superseded = s.superseded
  /\ t.leases = s.leases /\ t.exclusive = s.exclusive /\ t.boolean = s.boolean
  /\ t.shown = s.shown /\ t.status = s.status /\ t.phase = s.phase /\ t.notice = s.notice
  /\ QueueOK(s) => QueueOK(t)
  /\ s.exclusive => t.queue = s.queue

\* Steps that leave the outcome of the running operation alone compose.
LEMMA FollowsTrans ==
  ASSUME NEW s, NEW t, NEW u, Follows(t, s), Follows(u, t)
  PROVE  Follows(u, s)
BY DEF Follows

\* An operation other than a Boolean one that joins a lane nobody holds exclusively only
\* changes the queue.
LEMMA EnqueuedFollows ==
  ASSUME NEW s, IsLane(s), NEW op, op.kind \in Work \ {"boolean"}, ~s.exclusive
  PROVE  Follows(Enqueued(s, op), s)
<1> DEFINE t == Enqueued(s, op)
<1>1. /\ IsLane(t)
  /\ t.running = s.running /\ t.at = s.at /\ t.superseded = s.superseded
  /\ t.leases = s.leases /\ t.exclusive = s.exclusive /\ t.boolean = s.boolean
  /\ t.shown = s.shown /\ t.status = s.status /\ t.phase = s.phase /\ t.notice = s.notice
  /\ t.queue = Append(s.queue, op)
  BY DEF Enqueued, IsLane, Fields
<1>2. ASSUME QueueOK(s) PROVE QueueOK(t)
  <2>1. PICK S : s.queue \in Seq(S)
    BY <1>2 DEF QueueOK
  <2>2. s.queue \in Seq(S \cup {op})
    BY <2>1
  <2>3. t.queue \in Seq(S \cup {op}) /\ Len(t.queue) = Len(s.queue) + 1
    BY <2>2, <1>1
  <2>4. \A i \in 1..Len(t.queue) : t.queue[i] = IF i <= Len(s.queue) THEN s.queue[i] ELSE op
    BY <2>2, <1>1
  <2> QED BY <2>3, <2>4, <2>1, <1>1, <1>2 DEF QueueOK
<1> QED BY <1>1, <1>2 DEF Follows

\* startHeadReservation() only touches the pending drags and, when the lane is not held
\* exclusively, the queue.
LEMMA StartHeadReservationFollows ==
  ASSUME NEW s, IsLane(s)
  PROVE  Follows(startHeadReservation(s), s)
<1>1. \A g : Follows([s EXCEPT !.gestures = g], s)
  BY DEF Follows, IsLane, Fields, QueueOK
<1>2. Follows(s, s)
  BY DEF Follows
<1>3. ASSUME s.gestures # <<>>, Admitted(s, "reserve")
      PROVE  Follows(Enqueued([s EXCEPT !.gestures[1].reservation.state = "asked"], Op("reserve", Head(s.gestures).id)), s)
  <2> DEFINE r == [s EXCEPT !.gestures[1].reservation.state = "asked"]
  <2>1. Follows(r, s)
    BY <1>1
  <2>2. ~r.exclusive
    BY <1>3, <2>1 DEF Admitted, Follows
  <2>3. Op("reserve", Head(s.gestures).id).kind = "reserve"
    BY DEF Op
  <2> HIDE DEF r
  <2>4. Follows(Enqueued(r, Op("reserve", Head(s.gestures).id)), r)
    BY <2>1, <2>2, <2>3, EnqueuedFollows DEF Follows, Work
  <2>5. Follows(Enqueued(r, Op("reserve", Head(s.gestures).id)), s)
    BY <2>1, <2>4, FollowsTrans
  <2> QED BY <2>5 DEF r
<1> QED  BY <1>1, <1>2, <1>3 DEF startHeadReservation

\* finish() only touches the pending drags and the queue.
LEMMA FinishFollows ==
  ASSUME NEW s, IsLane(s)
  PROVE  Follows(finish(s), s)
<1> DEFINE r == [s EXCEPT !.gestures = Tail(@)]
<1>1. Follows(r, s)
  BY DEF Follows, IsLane, Fields, QueueOK
<1> HIDE DEF r
<1>2. Follows(startHeadReservation(r), r)
  BY <1>1, StartHeadReservationFollows DEF Follows
<1>3. Follows(startHeadReservation(r), s)
  BY <1>1, <1>2, FollowsTrans
<1> QED  BY <1>3 DEF r, finish

\* A change of the pending drags is no change of the lane.
LEMMA GesturesFollow ==
  ASSUME NEW s, IsLane(s), NEW g
  PROVE  Follows([s EXCEPT !.gestures = g], s)
BY DEF Follows, IsLane, Fields, QueueOK

\* Deciding a drag is no change of the lane.
LEMMA DecidedFollows ==
  ASSUME NEW s, IsLane(s), NEW d
  PROVE  Follows(Decided(s, d), s)
<1>1. Follows(s, s)
  BY DEF Follows
<1> DEFINE r(i) == [s EXCEPT !.gestures[i].decision = d]
           u(i, b) == [r(i) EXCEPT !.gestures[i].final = b]
<1>2. \A i : Follows(r(i), s)
  BY GesturesFollow
<1>3. \A i, b : Follows(u(i, b), s)
  <2> HIDE DEF r
  <2> SUFFICES ASSUME NEW i, NEW b PROVE Follows(u(i, b), s)
    OBVIOUS
  <2>1. Follows(u(i, b), r(i))
    BY <1>2, GesturesFollow DEF Follows
  <2> QED  BY <1>2, <2>1, FollowsTrans
<1> QED  BY <1>1, <1>3 DEF Decided

\* cancelDrag() is no change of the lane.
LEMMA CancelDragFollows ==
  ASSUME NEW s, IsLane(s)
  PROVE  Follows(cancelDrag(s), s)
<1>2. Follows(s, s)
  BY DEF Follows
<1> DEFINE r == [s EXCEPT !.draft = @ \ {s.drag}, !.drag = None]
<1>3. Follows(r, s)
  BY DEF Follows, IsLane, Fields, QueueOK
<1> HIDE DEF r
<1>4. Follows(Decided(r, "abort"), s)
  BY <1>3, DecidedFollows, FollowsTrans DEF Follows
<1> QED  BY <1>2, <1>4 DEF cancelDrag, r

\* resetForModel() is no change of the lane.
LEMMA ResetForModelFollows ==
  ASSUME NEW s, IsLane(s)
  PROVE  Follows(resetForModel(s), s)
BY DEF resetForModel, Follows, IsLane, Fields, QueueOK

\* pruneSelection() is no change of the lane, though it may cancel the drag.
LEMMA PruneSelectionFollows ==
  ASSUME NEW s, IsLane(s)
  PROVE  Follows(pruneSelection(s), s)
<1> DEFINE r == [s EXCEPT !.selected = @ \cap ToSet(s.shown)]
<1>1. Follows(r, s)
  BY DEF Follows, IsLane, Fields, QueueOK
<1> HIDE DEF r
<1>2. Follows(cancelDrag(r), s)
  BY <1>1, CancelDragFollows, FollowsTrans DEF Follows
<1> QED  BY <1>1, <1>2 DEF pruneSelection, r

-----------------------------------------------------------------------------
\* The running operation holds the lease it took: reads take none, and a stale drag has released it.
Holds == app.running # NoOp /\ app.running.kind \notin Reads /\ app.at # "rebuild"

\* The shape of the state, as far as the steps need it.
Typed ==
  /\ IsLane(app) /\ QueueOK(app)
  /\ app.running = NoOp \/ app.running.kind \in Work
  /\ app.exclusive \in BOOLEAN /\ app.superseded \in BOOLEAN
  /\ native = [revision |-> native.revision, order |-> native.order, dirty |-> native.dirty]
  /\ native.revision \in Nat

\* The leases are those of the running operation and of the exclusive caller, one each.
LeasesExact ==
  app.leases = (IF Holds THEN 1 ELSE 0) + (IF app.exclusive THEN 1 ELSE 0)

\* The exclusive caller is between entering and leaving; it has its one operation queued or running
\* exactly while it waits for it, and nothing else is in the lane.
ExclusiveShape ==
  /\ app.exclusive <=> app.boolean \in {"inside", "queued", "leaving"}
  /\ app.exclusive /\ app.boolean # "queued" => app.queue = <<>> /\ app.running = NoOp
  /\ app.boolean = "queued" =>
       \/ app.running = NoOp /\ Len(app.queue) = 1
       \/ app.running.kind = "boolean" /\ app.queue = <<>>
  /\ app.running.kind = "boolean" => app.exclusive

\* The scene may differ from the project only between the commit of a mutation or a restore and its
\* publication, and only if no rebuild came between.
FenceShape ==
  /\ app.superseded => app.at = "publish"
  /\ app.shown # native.order =>
       app.at = "publish" /\ app.running.kind \in Mutations \cup {"restore"} /\ ~app.superseded

\* The phase follows the running restore and the handlers that are due.
RestoreShape ==
  /\ app.phase = "restoring" <=> (app.running.kind = "restore" \/ app.notice = "due")
  /\ app.notice = "due" => app.running.kind # "restore"

\* The status never overtakes the engine, and lags behind it only while an arrangement publishes.
StatusShape ==
  /\ app.status.revision \in Nat /\ app.status.revision <= native.revision
  /\ app.status # Status(native) => app.running.kind = "arrange" /\ app.at = "publish"

\* The inductive invariant.
IInv == Typed /\ LeasesExact /\ ExclusiveShape /\ FenceShape /\ RestoreShape /\ StatusShape

\* The application starts with an idle lane and the order the engine holds.
LEMMA InitInv == Init => IInv
<1> SUFFICES ASSUME Init PROVE IInv
  OBVIOUS
<1> PICK order \in Orders :
      /\ native = [revision |-> 0, order |-> order, dirty |-> FALSE]
      /\ app = [queue |-> <<>>, running |-> NoOp, at |-> "idle", superseded |-> FALSE,
                leases |-> 0, exclusive |-> FALSE, boolean |-> "off", arranging |-> "off",
                shown |-> order, selected |-> {}, drag |-> None, draft |-> {},
                reconciling |-> FALSE, status |-> [revision |-> 0, dirty |-> FALSE], phase |-> "idle", notice |-> None,
                gestures |-> <<>>]
  BY DEF Init
<1>0. IsLane(app)
  BY DEF IsLane, Fields
<1>1. /\ app.queue = <<>> /\ app.running = NoOp /\ app.at = "idle" /\ app.superseded = FALSE
      /\ app.leases = 0 /\ app.exclusive = FALSE /\ app.boolean = "off" /\ app.shown = native.order
      /\ app.status = [revision |-> 0, dirty |-> FALSE] /\ app.phase = "idle" /\ app.notice = None
  OBVIOUS
<1>2. native = [revision |-> native.revision, order |-> native.order, dirty |-> native.dirty]
      /\ native.revision = 0 /\ native.dirty = FALSE
  OBVIOUS
<1>3. QueueOK(app)
  BY <1>1 DEF QueueOK
<1>4. NoOp.kind = None
  BY DEF NoOp, Op
<1>5. Typed
  BY <1>0, <1>1, <1>2, <1>3 DEF Typed
<1>6. LeasesExact
  BY <1>1 DEF LeasesExact, Holds
<1>7. ExclusiveShape
  BY <1>1, <1>4 DEF ExclusiveShape, None
<1>8. FenceShape /\ RestoreShape
  BY <1>1, <1>4 DEF FenceShape, RestoreShape, None
<1>9. StatusShape
  BY <1>1, <1>2 DEF StatusShape, Status
<1> QED  BY <1>5, <1>6, <1>7, <1>8, <1>9 DEF IInv

\* Whatever leaves the engine and the running operation alone keeps the invariant.
LEMMA FollowsInv ==
  ASSUME IInv, Follows(app', app), UNCHANGED native
  PROVE  IInv'
<1>1. /\ IsLane(app')
      /\ app'.running = app.running /\ app'.at = app.at /\ app'.superseded = app.superseded
      /\ app'.leases = app.leases /\ app'.exclusive = app.exclusive /\ app'.boolean = app.boolean
      /\ app'.shown = app.shown /\ app'.status = app.status /\ app'.phase = app.phase /\ app'.notice = app.notice
      /\ QueueOK(app) => QueueOK(app')
      /\ app.exclusive => app'.queue = app.queue
  BY DEF Follows
<1>2. Typed'
  BY <1>1 DEF IInv, Typed, IsLane, QueueOK, NoOp, Op, Work, Fields
<1>3. LeasesExact'
  BY <1>1 DEF IInv, LeasesExact, Holds, NoOp, Op, Reads
<1>4. ExclusiveShape'
  BY <1>1 DEF IInv, ExclusiveShape, NoOp, Op
<1>5. FenceShape' /\ RestoreShape' /\ StatusShape'
  BY <1>1 DEF IInv, FenceShape, RestoreShape, StatusShape, Status, Mutations
<1> QED  BY <1>2, <1>3, <1>4, <1>5 DEF IInv

-----------------------------------------------------------------------------
\* The fields of drags, arranging and rebuilding are no part of the lane.
LEMMA QuietFieldsFollow ==
  ASSUME NEW s, IsLane(s), NEW a, NEW b, NEW c, NEW d
  PROVE  /\ Follows([s EXCEPT !.selected = a, !.drag = b, !.draft = c, !.gestures = d], s)
         /\ Follows([s EXCEPT !.arranging = a], s)
         /\ Follows([s EXCEPT !.reconciling = a], s)
         /\ Follows([s EXCEPT !.drag = a], s)
BY DEF Follows, IsLane, Fields, QueueOK

\* A decided drag is discarded, refused or queued without touching the lane.
LEMMA PumpInv == ASSUME IInv, Pump PROVE IInv'
<1> DEFINE g == Head(app.gestures)
           r == [app EXCEPT !.gestures[1].running = TRUE]
           q == [app EXCEPT !.reconciling = TRUE]
<1>1. IsLane(app)
  BY DEF IInv, Typed
<1>2. Follows(finish(app), app)
  BY <1>1, FinishFollows
<1>3. Follows(finish(q), app)
  <2>1. Follows(q, app)
    BY <1>1, QuietFieldsFollow
  <2> QED  BY ZenonT(60), <2>1, FinishFollows, FollowsTrans DEF Follows
<1>4. ASSUME Admitted(app, "transform")
      PROVE  Follows(Enqueued(r, Op("transform", g.id)), app)
  <2>1. Follows(r, app)
    BY <1>1, GesturesFollow
  <2>2. IsLane(r) /\ ~r.exclusive
    BY <1>4, <2>1 DEF Admitted, Follows
  <2>3. Op("transform", g.id).kind = "transform"
    BY DEF Op
  <2> HIDE DEF r, g
  <2>4. Follows(Enqueued(r, Op("transform", g.id)), r)
    BY <2>2, <2>3, EnqueuedFollows DEF Work
  <2> QED  BY <2>1, <2>4, FollowsTrans
<1>5. Follows(app', app) /\ UNCHANGED native
  BY <1>2, <1>3, <1>4 DEF Pump
<1> QED  BY <1>5, FollowsInv

\* A command that is admitted joins the queue; none is while the lane is exclusive.
LEMMA AskInv == ASSUME IInv, NEW kind, Ask(kind) PROVE IInv'
<1>1. IsLane(app)
  BY DEF IInv, Typed
<1>2. ~app.exclusive
  BY DEF Ask, Admitted
<1>3. Op(kind, None).kind = kind /\ kind \in Work \ {"boolean"}
  BY DEF Op, Ask, Work
<1>4. Follows(Enqueued(app, Op(kind, None)), app)
  BY <1>1, <1>2, <1>3, EnqueuedFollows
<1>5. Follows(app', app) /\ UNCHANGED native
  BY <1>4 DEF Ask
<1> QED  BY <1>5, FollowsInv

\* Beginning, ending and cancelling a drag keep the invariant.
LEMMA DragInv ==
  ASSUME IInv, CancelDrag \/ Begin \/ EndDrag
  PROVE  IInv'
<1>1. IsLane(app)
  BY DEF IInv, Typed
<1>2. ASSUME CancelDrag PROVE Follows(app', app)
  BY <1>1, <1>2, CancelDragFollows DEF CancelDrag
<1>3. ASSUME Begin PROVE Follows(app', app)
  <2>1. \A a, b, c, d : Follows(startHeadReservation([app EXCEPT !.selected = a, !.drag = b, !.draft = c, !.gestures = d]), app)
    <3> SUFFICES ASSUME NEW a, NEW b, NEW c, NEW d
                 PROVE  Follows(startHeadReservation([app EXCEPT !.selected = a, !.drag = b, !.draft = c, !.gestures = d]), app)
      OBVIOUS
    <3> DEFINE r == [app EXCEPT !.selected = a, !.drag = b, !.draft = c, !.gestures = d]
    <3>1. Follows(r, app)
      BY <1>1, QuietFieldsFollow
    <3> HIDE DEF r
    <3>2. Follows(startHeadReservation(r), app)
      BY <3>1, StartHeadReservationFollows, FollowsTrans DEF Follows
    <3> QED  BY <3>2 DEF r
  <2>2. PICK a, b, c, d :
          app' = startHeadReservation([app EXCEPT !.selected = a, !.drag = b, !.draft = c, !.gestures = d])
    BY <1>3 DEF Begin
  <2> QED  BY <2>1, <2>2
<1>4. ASSUME EndDrag PROVE Follows(app', app)
  <2> DEFINE r == [app EXCEPT !.drag = None]
  <2>1. Follows(r, app)
    BY <1>1, QuietFieldsFollow
  <2>2. Follows(Decided(r, "commit"), app)
    <3> HIDE DEF r
    <3>1. Follows(Decided(r, "commit"), r)
      BY <2>1, DecidedFollows DEF Follows
    <3> QED  BY <2>1, <3>1, FollowsTrans
  <2>3. Follows(cancelDrag(app), app)
    BY <1>1, CancelDragFollows
  <2> QED  BY <1>4, <2>2, <2>3 DEF EndDrag
<1>5. UNCHANGED native
  BY DEF CancelDrag, Begin, EndDrag
<1> QED  BY <1>2, <1>3, <1>4, <1>5, FollowsInv

\* Asking for an arrangement, entering the lane with it and cancelling it keep the invariant.
LEMMA ArrangeInv ==
  ASSUME IInv, AskArrange \/ EnterArrange \/ CancelArrange
  PROVE  IInv'
<1>1. IsLane(app)
  BY DEF IInv, Typed
<1>2. \A a : Follows([app EXCEPT !.arranging = a], app)
  BY <1>1, QuietFieldsFollow
<1>3. ASSUME EnterArrange PROVE Follows(app', app)
  <2>1. ASSUME Admitted(app, "arrange") PROVE Follows(Enqueued(app, Op("arrange", None)), app)
    BY <1>1, <2>1, EnqueuedFollows DEF Admitted, Op, Work
  <2> QED  BY <1>2, <1>3, <2>1 DEF EnterArrange
<1>4. Follows(app', app) /\ UNCHANGED native
  BY <1>2, <1>3 DEF AskArrange, EnterArrange, CancelArrange
<1> QED  BY <1>4, FollowsInv

-----------------------------------------------------------------------------
\* drainOperations() starts the head: it takes its lease, an exclusive caller sees only its own
\* operation start, and the scene and the status are the engine's then.
LEMMA DrainInv == ASSUME IInv, Drain PROVE IInv'
<1> DEFINE op == Head(app.queue)
<1>1. /\ IsLane(app) /\ QueueOK(app) /\ app.running = NoOp /\ app.queue # <<>>
      /\ native' = native /\ app' = Started([app EXCEPT !.queue = Tail(@)], op)
  BY DEF IInv, Typed, Drain, DrainDue
<1>2. PICK S : app.queue \in Seq(S)
  BY <1>1 DEF QueueOK
<1>3. op = app.queue[1] /\ Len(app.queue) \in Nat /\ Len(app.queue) >= 1
  BY <1>1, <1>2
<1>4. op.kind \in Work /\ (op.kind = "boolean" <=> app.exclusive)
  BY <1>1, <1>3 DEF QueueOK
<1>5. Tail(app.queue) \in Seq(S) /\ Len(Tail(app.queue)) = Len(app.queue) - 1
      /\ \A i \in 1..Len(Tail(app.queue)) : Tail(app.queue)[i] = app.queue[i + 1]
  BY <1>1, <1>2
<1> HIDE DEF op
<1>6. /\ IsLane(app') /\ app'.queue = Tail(app.queue)
      /\ app'.running = op /\ app'.at = "native" /\ app'.superseded = FALSE
      /\ app'.leases = app.leases + (IF op.kind \in Reads THEN 0 ELSE 1)
      /\ app'.exclusive = app.exclusive /\ app'.boolean = app.boolean
      /\ app'.shown = app.shown /\ app'.status = app.status
      /\ app'.phase = IF op.kind = "restore" THEN "restoring" ELSE app.phase
      /\ app'.notice = IF op.kind = "restore" /\ app.notice = "due" THEN "stale" ELSE app.notice
  BY <1>1 DEF Started, IsLane, Fields
<1>7. NoOp.kind = None /\ None \notin Work
  BY DEF NoOp, Op, None, Work
<1>8. QueueOK(app')
  <2>1. app'.queue \in Seq(S)
    BY <1>5, <1>6
  <2>2. ASSUME NEW i \in 1..Len(app'.queue)
        PROVE  app'.queue[i].kind \in Work /\ (app'.queue[i].kind = "boolean" <=> app'.exclusive)
    <3>1. app'.queue[i] = app.queue[i + 1] /\ i + 1 \in 1..Len(app.queue)
      BY <1>3, <1>5, <1>6
    <3> QED  BY <1>1, <1>6, <3>1 DEF QueueOK
  <2> QED  BY <2>1, <2>2 DEF QueueOK
<1>9. Typed'
  BY <1>1, <1>4, <1>6, <1>8 DEF IInv, Typed
<1>10. LeasesExact'
  BY <1>1, <1>4, <1>6, <1>7 DEF IInv, Typed, LeasesExact, Holds
<1>11. ExclusiveShape'
  <2>1. Tail(app.queue) = <<>> \/ Len(app.queue) # 1
    BY <1>1, <1>2, <1>5
  <2> QED  BY <1>1, <1>3, <1>4, <1>6, <1>7, <2>1 DEF IInv, ExclusiveShape
<1>12. app.shown = native.order /\ app.status = Status(native)
  BY <1>1, <1>7 DEF IInv, Typed, FenceShape, StatusShape, Mutations, None
<1>13. FenceShape' /\ StatusShape'
  BY <1>1, <1>6, <1>12 DEF IInv, FenceShape, StatusShape, Status
<1>14. RestoreShape'
  BY <1>1, <1>4, <1>6, <1>7 DEF IInv, RestoreShape, None
<1> QED  BY <1>9, <1>10, <1>11, <1>13, <1>14 DEF IInv

\* The handlers of an answered restore end the phase it set, and only that one.
LEMMA NotifyInv == ASSUME IInv, Notify PROVE IInv'
<1>1. /\ IsLane(app) /\ native' = native /\ app.notice # None
      /\ app' = [app EXCEPT !.notice = None, !.phase = IF app.notice = "due" THEN "idle" ELSE @]
  BY DEF IInv, Typed, Notify
<1>2. /\ IsLane(app') /\ app'.queue = app.queue
      /\ app'.running = app.running /\ app'.at = app.at /\ app'.superseded = app.superseded
      /\ app'.leases = app.leases
      /\ app'.exclusive = app.exclusive /\ app'.boolean = app.boolean
      /\ app'.shown = app.shown /\ app'.status = app.status
      /\ app'.phase = IF app.notice = "due" THEN "idle" ELSE app.phase
      /\ app'.notice = None
  BY <1>1 DEF IsLane, Fields
<1>3. Typed'
  BY <1>1, <1>2 DEF IInv, Typed, QueueOK
<1>4. LeasesExact' /\ ExclusiveShape' /\ FenceShape' /\ StatusShape'
  BY <1>1, <1>2 DEF IInv, LeasesExact, Holds, ExclusiveShape, FenceShape, StatusShape, Status
<1>5. RestoreShape'
  BY <1>1, <1>2 DEF IInv, RestoreShape, None
<1> QED  BY <1>3, <1>4, <1>5 DEF IInv

\* Mesh boolean takes an idle lane, runs its one operation in it and gives the lane back with the
\* lease it took.
LEMMA ExclusiveInv ==
  ASSUME IInv, EnterExclusive \/ RunExclusive \/ LeaveExclusive \/ AskBoolean
  PROVE  IInv'
<1>1. /\ IsLane(app) /\ QueueOK(app) /\ native' = native
  BY DEF IInv, Typed, EnterExclusive, RunExclusive, LeaveExclusive, AskBoolean
<1>2. NoOp.kind = None
  BY DEF NoOp, Op
<1>l. app.leases \in Int
  BY DEF IInv, LeasesExact
<1>3. ASSUME IsLane(app'), QueueOK(app'), ExclusiveShape', app'.exclusive \in BOOLEAN,
             app'.leases = app.leases + (IF app'.exclusive THEN 1 ELSE 0) - (IF app.exclusive THEN 1 ELSE 0),
             app'.running = app.running, app'.at = app.at, app'.superseded = app.superseded,
             app'.shown = app.shown, app'.status = app.status, app'.phase = app.phase, app'.notice = app.notice
      PROVE  IInv'
  <2>1. Typed'
    BY <1>1, <1>3 DEF IInv, Typed
  <2>2. LeasesExact'
    BY <1>1, <1>l, <1>3 DEF IInv, Typed, LeasesExact, Holds
  <2>3. FenceShape' /\ RestoreShape' /\ StatusShape'
    BY <1>1, <1>3 DEF IInv, FenceShape, RestoreShape, StatusShape, Status
  <2> QED  BY <1>3, <2>1, <2>2, <2>3 DEF IInv
<1>4. ASSUME AskBoolean PROVE IInv'
  <2>1. /\ IsLane(app') /\ app'.queue = app.queue /\ app'.exclusive = app.exclusive
        /\ app'.leases = app.leases /\ app'.running = app.running /\ app'.at = app.at
        /\ app'.superseded = app.superseded /\ app'.shown = app.shown /\ app'.status = app.status
        /\ app'.phase = app.phase /\ app'.notice = app.notice
        /\ app.boolean = "off" /\ app'.boolean = "preparing"
    BY <1>1, <1>4 DEF AskBoolean, IsLane, Fields
  <2>2. ExclusiveShape' /\ QueueOK(app')
    BY <1>1, <2>1 DEF IInv, ExclusiveShape, QueueOK
  <2> QED  BY <1>l, <1>3, <2>1, <2>2 DEF IInv, Typed
<1>5. ASSUME EnterExclusive PROVE IInv'
  <2>1. ASSUME LaneIdle(app) PROVE IInv'
    <3>1. /\ IsLane(app') /\ app'.queue = app.queue /\ app'.exclusive = TRUE
          /\ app'.leases = app.leases + 1 /\ app'.running = app.running /\ app'.at = app.at
          /\ app'.superseded = app.superseded /\ app'.shown = app.shown /\ app'.status = app.status
          /\ app'.phase = app.phase /\ app'.notice = app.notice /\ app'.boolean = "inside"
      BY <1>1, <1>5, <2>1 DEF EnterExclusive, IsLane, Fields
    <3>2. ~app.exclusive /\ app.running = NoOp /\ app.queue = <<>> /\ app.leases = 0
      BY <2>1 DEF LaneIdle
    <3>3. ExclusiveShape'
      BY <1>1, <1>2, <3>1, <3>2 DEF ExclusiveShape, None
    <3>4. QueueOK(app')
      BY <1>1, <3>1, <3>2 DEF QueueOK
    <3>5. app'.leases = app.leases + 1 - 0
      BY <1>l, <3>1
    <3> QED  BY <1>3, <3>1, <3>2, <3>3, <3>4, <3>5
  <2>2. ASSUME ~LaneIdle(app) PROVE IInv'
    <3>1. /\ IsLane(app') /\ app'.queue = app.queue /\ app'.exclusive = app.exclusive
          /\ app'.leases = app.leases /\ app'.running = app.running /\ app'.at = app.at
          /\ app'.superseded = app.superseded /\ app'.shown = app.shown /\ app'.status = app.status
          /\ app'.phase = app.phase /\ app'.notice = app.notice
          /\ app.boolean = "preparing" /\ app'.boolean = "off"
      BY <1>1, <1>5, <2>2 DEF EnterExclusive, IsLane, Fields
    <3>2. ExclusiveShape' /\ QueueOK(app')
      BY <1>1, <3>1 DEF IInv, ExclusiveShape, QueueOK
    <3> QED  BY <1>l, <1>3, <3>1, <3>2 DEF IInv, Typed
  <2> QED  BY <2>1, <2>2
<1>6. ASSUME RunExclusive PROVE IInv'
  <2>1. /\ app.boolean = "inside" /\ app.exclusive /\ Admitted(app, "boolean")
        /\ app.queue = <<>> /\ app.running = NoOp
    BY <1>6 DEF IInv, ExclusiveShape, RunExclusive, Admitted
  <2> DEFINE op == Op("boolean", None)
  <2>2. app' = Enqueued([app EXCEPT !.boolean = "queued"], op)
    BY <1>6, <2>1 DEF RunExclusive
  <2>3. op.kind = "boolean"
    BY DEF Op
  <2> HIDE DEF op
  <2>4. /\ IsLane(app') /\ app'.queue = Append(app.queue, op) /\ app'.exclusive = app.exclusive
        /\ app'.leases = app.leases /\ app'.running = app.running /\ app'.at = app.at
        /\ app'.superseded = app.superseded /\ app'.shown = app.shown /\ app'.status = app.status
        /\ app'.phase = app.phase /\ app'.notice = app.notice /\ app'.boolean = "queued"
    BY <1>1, <2>2 DEF Enqueued, IsLane, Fields
  <2>5. app'.queue = <<op>> /\ Len(app'.queue) = 1 /\ app'.queue[1] = op /\ app'.queue \in Seq({op})
    BY <2>1, <2>4
  <2>6. ExclusiveShape'
    BY <1>2, <2>1, <2>4, <2>5 DEF ExclusiveShape, None, NoOp, Op
  <2>7. QueueOK(app')
    <3>1. \A i \in 1..Len(app'.queue) : app'.queue[i] = op
      BY <2>5
    <3> QED  BY <2>1, <2>3, <2>4, <2>5, <3>1 DEF QueueOK, Work
  <2>8. app'.leases = app.leases + 1 - 1
    BY <1>l, <2>4
  <2> QED  BY <1>3, <2>1, <2>4, <2>6, <2>7, <2>8 DEF IInv, Typed
<1>7. ASSUME LeaveExclusive PROVE IInv'
  <2>1. /\ app.exclusive /\ app.queue = <<>> /\ app.running = NoOp
    BY <1>7 DEF IInv, ExclusiveShape, LeaveExclusive
  <2>2. /\ IsLane(app') /\ app'.queue = app.queue /\ app'.exclusive = FALSE
        /\ app'.leases = app.leases - 1 /\ app'.running = app.running /\ app'.at = app.at
        /\ app'.superseded = app.superseded /\ app'.shown = app.shown /\ app'.status = app.status
        /\ app'.phase = app.phase /\ app'.notice = app.notice /\ app'.boolean = "off"
    BY <1>1, <1>7 DEF LeaveExclusive, IsLane, Fields
  <2>3. ExclusiveShape' /\ QueueOK(app')
    BY <1>1, <1>2, <2>1, <2>2 DEF ExclusiveShape, QueueOK, None, NoOp, Op
  <2>4. app'.leases = app.leases + 0 - 1
    BY <1>l, <2>2
  <2> QED  BY <1>3, <2>1, <2>2, <2>3, <2>4
<1> QED  BY <1>4, <1>5, <1>6, <1>7

-----------------------------------------------------------------------------
(* The running operation *)

\* An operation that ends with the scene and the status of the engine, its lease released and
\* its caller told, leaves the lane as it must be.
LEMMA Settles ==
  ASSUME IInv, app.running.kind \in Work, IsLane(app'), QueueOK(app'),
         app.exclusive => app'.queue = app.queue,
         app'.running = NoOp, app'.superseded = FALSE,
         app'.leases = app.leases - (IF Holds THEN 1 ELSE 0),
         app'.exclusive = app.exclusive,
         app'.boolean = IF app.running.kind = "boolean" THEN "leaving" ELSE app.boolean,
         app'.shown = native'.order, app'.status = Status(native'), app'.phase = app.phase,
         app.notice = None, app'.notice = IF app.running.kind = "restore" THEN "due" ELSE None,
         native' = [revision |-> native'.revision, order |-> native'.order, dirty |-> native'.dirty],
         native'.revision \in Nat
  PROVE  IInv'
<1>1. NoOp.kind = None /\ None \notin Work
  BY DEF NoOp, Op, None, Work
<1>2. Typed'
  BY DEF IInv, Typed
<1>3. LeasesExact'
  BY DEF IInv, Typed, LeasesExact, Holds
<1>4. ExclusiveShape'
  BY <1>1 DEF IInv, Typed, ExclusiveShape, None
<1>5. FenceShape' /\ StatusShape'
  BY <1>1 DEF FenceShape, StatusShape, Status
<1>6. RestoreShape'
  BY <1>1 DEF IInv, RestoreShape, None
<1> QED  BY <1>2, <1>3, <1>4, <1>5, <1>6 DEF IInv

\* Outside the publication stage what is shown and reported is the engine's, and the lease is
\* held exactly by what may change the project.
LEMMA InStage ==
  ASSUME IInv
  PROVE  /\ app.at # "publish" \/ app.running.kind \notin Mutations \cup {"restore"} => app.shown = native.order
         /\ app.at # "publish" \/ app.running.kind # "arrange" => app.status = Status(native)
         /\ app.at # "publish" => app.superseded = FALSE
         /\ app.running.kind \in Work /\ app.running.kind \notin Reads /\ app.at # "rebuild" => Holds
         /\ app.running.kind \in Reads => ~Holds
         /\ app.at = "rebuild" => ~Holds
         /\ app.running.kind = "boolean" <=> (app.running.kind = "boolean" /\ app.boolean = "queued")
  BY DEF IInv, Typed, FenceShape, StatusShape, Holds, ExclusiveShape, NoOp, Op, None, Work, Mutations

\* t is s with the running operation settled.
Ends(t, s, leased) ==
  /\ IsLane(t)
  /\ t.queue = s.queue
  /\ t.running = NoOp /\ t.superseded = FALSE
  /\ t.leases = s.leases - (IF leased THEN 1 ELSE 0)
  /\ t.exclusive = s.exclusive /\ t.boolean = s.boolean
  /\ t.shown = s.shown /\ t.status = s.status /\ t.phase = s.phase /\ t.notice = s.notice

\* Settled() releases the lane and the lease, and nothing else.
LEMMA SettledEnds ==
  ASSUME NEW s, IsLane(s), NEW leased
  PROVE  Ends(Settled(s, leased), s, leased)
BY DEF Settled, Ends, IsLane, Fields

\* t is s with the status of the receipt n, unless that is older.
Tells(t, s, n) ==
  /\ IsLane(t)
  /\ t.queue = s.queue
  /\ t.running = s.running /\ t.at = s.at /\ t.superseded = s.superseded
  /\ t.leases = s.leases /\ t.exclusive = s.exclusive /\ t.boolean = s.boolean
  /\ t.shown = s.shown /\ t.phase = s.phase /\ t.notice = s.notice
  /\ t.status = IF n.revision < s.status.revision THEN s.status ELSE Status(n)

\* projectHistoryStatus() sets the status to the newer of the two, and nothing else.
LEMMA ProjectedTells ==
  ASSUME NEW s, IsLane(s), NEW n
  PROVE  Tells(Projected(s, n), s, n)
BY DEF Projected, Tells, IsLane, Fields

\* An unchanged queue is in order as long as the exclusive hold is unchanged.
LEMMA QueueKept ==
  ASSUME NEW s, NEW t, QueueOK(s), t.queue = s.queue, t.exclusive = s.exclusive
  PROVE  QueueOK(t)
BY DEF QueueOK

\* Left() tells a Boolean operation's caller, and changes nothing else.
LEMMA LeftKeeps ==
  ASSUME NEW s, IsLane(s)
  PROVE  LET t == Left(s) IN
         /\ IsLane(t) /\ t.queue = s.queue /\ t.running = s.running
         /\ t.superseded = s.superseded /\ t.leases = s.leases /\ t.exclusive = s.exclusive
         /\ t.boolean = IF Kind = "boolean" THEN "leaving" ELSE s.boolean
         /\ t.shown = s.shown /\ t.status = s.status /\ t.phase = s.phase /\ t.notice = s.notice
BY DEF Left, IsLane, Fields

\* What every step of an operation uses of the invariant.
LEMMA Facts ==
  ASSUME IInv
  PROVE  /\ IsLane(app) /\ QueueOK(app) /\ app.leases \in Int
         /\ native.revision \in Nat /\ app.status.revision \in Nat
         /\ app.status.revision <= native.revision
         /\ native = [revision |-> native.revision, order |-> native.order, dirty |-> native.dirty]
BY DEF IInv, Typed, LeasesExact, StatusShape

\* A mutation ends: it failed and the project is as it was, or its delta is on screen, or the
\* scene was replaced by a newer one meanwhile.
LEMMA MutationEnds ==
  ASSUME IInv, Calm, MutationFails \/ MutationPublishes
  PROVE  IInv'
<1>1. /\ app.running.kind \in Mutations /\ UNCHANGED native /\ app.notice = None
  BY DEF MutationFails, MutationPublishes, Answers, Kind, Calm
<1>2. /\ app.running.kind \in Work /\ app.running.kind \notin Reads
      /\ app.running.kind # "restore" /\ app.running.kind # "arrange"
  BY <1>1 DEF Mutations, Work, Reads
<1>3. ASSUME NEW s, IsLane(s), QueueOK(s), s.leases = app.leases, s.exclusive = app.exclusive,
             app.exclusive => s.queue = app.queue, s.boolean = app.boolean, s.shown = native.order,
             s.status = Status(native), s.phase = app.phase, s.notice = app.notice,
             app' = Left(Settled(s, TRUE)), app.at # "rebuild"
      PROVE  IInv'
  <2> DEFINE r == Settled(s, TRUE)
  <2>1. Ends(r, s, TRUE)
    BY <1>3, SettledEnds
  <2>2. app' = Left(r)
    BY <1>3
  <2> HIDE DEF r
  <2>3. /\ IsLane(app') /\ app'.queue = r.queue /\ app'.running = r.running
        /\ app'.superseded = r.superseded /\ app'.leases = r.leases /\ app'.exclusive = r.exclusive
        /\ app'.boolean = IF Kind = "boolean" THEN "leaving" ELSE r.boolean
        /\ app'.shown = r.shown /\ app'.status = r.status /\ app'.phase = r.phase /\ app'.notice = r.notice
    BY <2>1, <2>2, LeftKeeps DEF Ends
  <2>4. QueueOK(app')
    BY <1>3, <2>1, <2>3, QueueKept DEF Ends
  <2>5. Holds
    BY <1>2, <1>3, InStage
  <2> QED  BY <1>1, <1>2, <1>3, <2>1, <2>3, <2>4, <2>5, Facts, Settles DEF Ends, Kind, Status
<1>4. ASSUME MutationFails PROVE IInv'
  <2> DEFINE r == Projected(app, native)
  <2>1. Tells(r, app, native) /\ app' = Left(Settled(r, TRUE)) /\ app.at = "native"
    BY <1>4, Facts, ProjectedTells DEF MutationFails, Answers
  <2> HIDE DEF r
  <2>2. QueueOK(r)
    BY <2>1, Facts, QueueKept DEF Tells
  <2>3. app.shown = native.order
    BY <2>1, InStage
  <2>4. r.status = Status(native)
    BY <2>1, Facts DEF Tells
  <2> QED  BY <1>3, <2>1, <2>2, <2>3, <2>4 DEF Tells
<1>5. ASSUME MutationPublishes PROVE IInv'
  <2> DEFINE p == [app EXCEPT !.shown = native.order]
             s == IF app.superseded THEN app ELSE pruneSelection(p)
             r == IF Kind = "add" THEN resetForModel(s) ELSE s
  <2>1. app' = Left(Settled(r, TRUE)) /\ app.at = "publish"
    BY <1>5 DEF MutationPublishes, Answers
  <2>2. /\ IsLane(p) /\ QueueOK(p) /\ p.queue = app.queue /\ p.running = app.running
        /\ p.leases = app.leases /\ p.exclusive = app.exclusive /\ p.boolean = app.boolean
        /\ p.shown = native.order /\ p.status = app.status /\ p.phase = app.phase /\ p.notice = app.notice
    BY Facts DEF IsLane, Fields, QueueOK
  <2>3. ASSUME ~app.superseded PROVE Follows(s, p)
    <3> HIDE DEF p
    <3> QED  BY <2>2, <2>3, PruneSelectionFollows
  <2>4. ASSUME app.superseded PROVE Follows(s, app) /\ app.shown = native.order
    BY <2>4, Facts DEF Follows, IInv, FenceShape
  <2> HIDE DEF p
  <2>5. /\ IsLane(s) /\ QueueOK(s) /\ s.leases = app.leases /\ s.exclusive = app.exclusive
        /\ app.exclusive => s.queue = app.queue
        /\ s.boolean = app.boolean /\ s.shown = native.order
        /\ s.status = app.status /\ s.phase = app.phase /\ s.notice = app.notice
    BY <2>2, <2>3, <2>4, Facts DEF Follows
  <2> HIDE DEF s
  <2>6. Follows(r, s)
    BY <2>5, ResetForModelFollows DEF Follows
  <2> HIDE DEF r
  <2>7. app.status = Status(native)
    BY <1>2, InStage
  <2> QED  BY <1>3, <2>1, <2>5, <2>6, <2>7 DEF Follows
<1> QED  BY <1>4, <1>5

\* A restore ends, with its handlers due.
LEMMA RestoreEnds ==
  ASSUME IInv, Calm, RestoreFails \/ RestorePublishes
  PROVE  IInv'
<1>1. app.running.kind = "restore" /\ UNCHANGED native /\ app.notice = None
  BY DEF RestoreFails, RestorePublishes, Answers, Kind, Calm
<1>2. app.running.kind \in Work /\ app.running.kind \notin Reads
  BY <1>1 DEF Work, Reads
<1>3. ASSUME NEW s, IsLane(s), QueueOK(s), s.leases = app.leases, s.exclusive = app.exclusive,
             app.exclusive => s.queue = app.queue, s.boolean = app.boolean, s.shown = native.order,
             s.status = Status(native), s.phase = app.phase,
             app' = [Settled(s, TRUE) EXCEPT !.notice = "due"], app.at # "rebuild"
      PROVE  IInv'
  <2> DEFINE r == Settled(s, TRUE)
  <2>1. Ends(r, s, TRUE)
    BY <1>3, SettledEnds
  <2>2. app' = [r EXCEPT !.notice = "due"]
    BY <1>3
  <2> HIDE DEF r
  <2>3. /\ IsLane(app') /\ app'.queue = r.queue /\ app'.running = r.running
        /\ app'.superseded = r.superseded /\ app'.leases = r.leases /\ app'.exclusive = r.exclusive
        /\ app'.boolean = r.boolean /\ app'.shown = r.shown /\ app'.status = r.status
        /\ app'.phase = r.phase /\ app'.notice = "due"
    BY <2>1, <2>2 DEF Ends, IsLane, Fields
  <2>4. QueueOK(app')
    <3>1. app'.queue = s.queue /\ app'.exclusive = s.exclusive
      BY <2>1, <2>3 DEF Ends
    <3> QED  BY <1>3, <3>1 DEF QueueOK
  <2>5. Holds
    BY <1>2, <1>3, InStage
  <2> QED  BY <1>1, <1>2, <1>3, <2>1, <2>3, <2>4, <2>5, Facts, Settles DEF Ends, Status
<1>4. ASSUME RestoreFails PROVE IInv'
  <2> DEFINE r == Projected(app, native)
  <2>1. /\ Tells(r, app, native) /\ app.at = "native"
        /\ app' = [Settled(r, TRUE) EXCEPT !.notice = "due"]
    BY <1>4, Facts, ProjectedTells DEF RestoreFails, Answers
  <2> HIDE DEF r
  <2>2. QueueOK(r)
    BY <2>1, Facts, QueueKept DEF Tells
  <2>3. app.shown = native.order
    BY <2>1, InStage
  <2>4. r.status = Status(native)
    BY <2>1, Facts DEF Tells
  <2> QED  BY <1>3, <2>1, <2>2, <2>3, <2>4 DEF Tells
<1>5. ASSUME RestorePublishes PROVE IInv'
  <2> DEFINE p == [app EXCEPT !.shown = native.order, !.selected = @ \cap ToSet(native.order)]
             s == IF app.superseded THEN app ELSE cancelDrag(p)
  <2>1. app' = [Settled(s, TRUE) EXCEPT !.notice = "due"] /\ app.at = "publish"
    BY <1>5 DEF RestorePublishes, Answers
  <2>2. /\ IsLane(p) /\ QueueOK(p) /\ p.queue = app.queue /\ p.running = app.running
        /\ p.leases = app.leases /\ p.exclusive = app.exclusive /\ p.boolean = app.boolean
        /\ p.shown = native.order /\ p.status = app.status /\ p.phase = app.phase /\ p.notice = app.notice
    BY Facts DEF IsLane, Fields, QueueOK
  <2>3. ASSUME ~app.superseded PROVE Follows(s, p)
    <3> HIDE DEF p
    <3> QED  BY <2>2, <2>3, CancelDragFollows
  <2>4. ASSUME app.superseded PROVE Follows(s, app) /\ app.shown = native.order
    BY <2>4, Facts DEF Follows, IInv, FenceShape
  <2> HIDE DEF p
  <2>5. /\ IsLane(s) /\ QueueOK(s) /\ s.leases = app.leases /\ s.exclusive = app.exclusive
        /\ app.exclusive => s.queue = app.queue
        /\ s.boolean = app.boolean /\ s.shown = native.order
        /\ s.status = app.status /\ s.phase = app.phase
    BY <2>2, <2>3, <2>4, Facts DEF Follows
  <2> HIDE DEF s
  <2>6. app.status = Status(native)
    BY <1>1, InStage
  <2> QED  BY <1>3, <2>1, <2>5, <2>6
<1> QED  BY <1>4, <1>5

\* Saving, resetting, reading and arranging end.
LEMMA OthersEnd ==
  ASSUME IInv, Calm,
         SaveMarks \/ SaveFails \/ ResetAnswers \/ ResetFails \/ ReadAnswers
           \/ ArrangeChangesNothing \/ ArrangePublishes
  PROVE  IInv'
<1>1. /\ app.running.kind \in {"save", "reset", "read", "arrange"} /\ app.notice = None
      /\ app.at \in {"native", "write", "publish"}
      /\ app.at = "publish" => app.running.kind = "arrange"
  BY DEF SaveMarks, SaveFails, ResetAnswers, ResetFails, ReadAnswers, ArrangeChangesNothing,
         ArrangePublishes, Answers, Kind, Calm
<1>2. /\ app.running.kind \in Work /\ app.running.kind \notin Mutations \cup {"restore"}
      /\ app.running.kind # "boolean" /\ (app.running.kind \in Reads <=> app.running.kind = "read")
      /\ app.running.kind # "restore"
  BY <1>1 DEF Work, Reads, Mutations
<1>3. app.shown = native.order
  BY <1>2, InStage
<1>4. Holds <=> app.running.kind # "read"
  BY <1>1, <1>2, InStage
<1>5. ASSUME NEW s, NEW a, NEW leased, IsLane(s), s.queue = app.queue, s.leases = app.leases, s.exclusive = app.exclusive,
             s.boolean = app.boolean, s.shown = app.shown, native'.order = native.order,
             s.status = Status(native'), s.phase = app.phase, s.notice = app.notice,
             app' = Settled(s, leased) \/ app' = [Settled(s, leased) EXCEPT !.arranging = a],
             leased = (app.running.kind # "read"),
             native' = [revision |-> native'.revision, order |-> native'.order, dirty |-> native'.dirty],
             native'.revision \in Nat
      PROVE  IInv'
  <2> DEFINE r == Settled(s, leased)
  <2>1. Ends(r, s, leased)
    BY <1>5, SettledEnds
  <2>2. app' = r \/ app' = [r EXCEPT !.arranging = a]
    BY <1>5
  <2> HIDE DEF r
  <2>3. Ends(app', s, leased)
    BY <2>1, <2>2 DEF Ends, IsLane, Fields
  <2>4. QueueOK(app')
    BY <1>5, <2>3, Facts, QueueKept DEF Ends
  <2> QED  BY <1>1, <1>2, <1>3, <1>4, <1>5, <2>3, <2>4, Facts, Settles DEF Ends
<1>6. ASSUME UNCHANGED native, app.at # "publish",
             app' = Settled(app, TRUE) \/ app' = [Settled(app, TRUE) EXCEPT !.arranging = "off"],
             app.running.kind # "read"
      PROVE  IInv'
  <2>1. app.status = Status(native)
    BY <1>6, InStage
  <2> QED  BY <1>5, <1>6, <2>1, Facts DEF Status
<1>7. ASSUME SaveFails \/ ResetFails \/ ArrangeChangesNothing PROVE IInv'
  BY <1>6, <1>7 DEF SaveFails, ResetFails, ArrangeChangesNothing, Answers, Kind
<1>8. ASSUME ReadAnswers \/ ArrangePublishes PROVE IInv'
  <2> DEFINE r == Projected(app, native)
  <2>1. Tells(r, app, native) /\ UNCHANGED native
    BY <1>8, Facts, ProjectedTells DEF ReadAnswers, ArrangePublishes
  <2>2. \/ app' = Settled(r, FALSE) /\ app.running.kind = "read"
        \/ app' = [Settled(r, TRUE) EXCEPT !.arranging = "off"] /\ app.running.kind = "arrange"
    BY <1>8 DEF ReadAnswers, ArrangePublishes, Answers, Kind
  <2> HIDE DEF r
  <2>3. r.status = Status(native')
    BY <2>1, Facts DEF Tells, Status
  <2> QED  BY <1>5, <2>1, <2>2, <2>3, Facts DEF Tells
<1>9. ASSUME SaveMarks \/ ResetAnswers PROVE IInv'
  <2> DEFINE r == Projected(app, native')
  <2>1. Tells(r, app, native') /\ app' = Settled(r, TRUE) /\ app.running.kind # "read"
    BY <1>9, Facts, ProjectedTells DEF SaveMarks, ResetAnswers, Answers, Kind
  <2>2. /\ native' = [revision |-> native'.revision, order |-> native'.order, dirty |-> native'.dirty]
        /\ native'.revision \in Nat /\ native.revision <= native'.revision /\ native'.order = native.order
    <3>1. native' = [native EXCEPT !.dirty = FALSE] \/ native' = [native EXCEPT !.revision = native.revision + 1, !.dirty = FALSE]
      BY <1>9 DEF SaveMarks, ResetAnswers
    <3>2. PICK a, b, c : native = [revision |-> a, order |-> b, dirty |-> c]
      BY Facts
    <3>3. /\ native.revision = a /\ native.order = b /\ a \in Nat
      BY <3>2, Facts
    <3>4. \/ native' = [revision |-> a, order |-> b, dirty |-> FALSE]
          \/ native' = [revision |-> a + 1, order |-> b, dirty |-> FALSE]
      BY <3>1, <3>2
    <3> QED  BY <3>3, <3>4
  <2> HIDE DEF r
  <2>3. r.status = Status(native')
    BY <2>1, <2>2, Facts DEF Tells, Status
  <2> QED  BY <1>5, <2>1, <2>2, <2>3 DEF Tells
<1> QED  BY <1>7, <1>8, <1>9

\* The reservation of a drag is captured, or its drag is gone.
LEMMA ReserveInv == ASSUME IInv, Calm, ReserveAnswers PROVE IInv'
<1> DEFINE r == Settled(app, FALSE)
<1>1. app.running.kind = "reserve" /\ app.at = "native" /\ app.notice = None /\ UNCHANGED native
  BY DEF ReserveAnswers, Answers, Kind, Calm
<1>2. /\ app.running.kind \in Work /\ app.running.kind \in Reads
      /\ app.running.kind \notin {"boolean", "restore"}
  BY <1>1 DEF Work, Reads
<1>3. Ends(r, app, FALSE)
  BY Facts, SettledEnds
<1>4. app' = r \/ \E i, x : app' = [r EXCEPT !.gestures[i].reservation = x]
  BY DEF ReserveAnswers
<1> HIDE DEF r
<1>5. app' = r \/ \E x : app' = [r EXCEPT !.gestures = x]
  BY <1>4
<1>6. Ends(app', app, FALSE)
  BY <1>3, <1>5 DEF Ends, IsLane, Fields
<1>7. QueueOK(app')
  BY <1>6, Facts, QueueKept DEF Ends
<1>8. ~Holds /\ app.shown = native.order /\ app.status = Status(native)
  BY <1>1, <1>2, InStage
<1> QED  BY <1>1, <1>2, <1>6, <1>7, <1>8, Facts, Settles DEF Ends, Status

\* A drag's transform commits, or the scene has been rebuilt after it was refused or failed; the
\* next drag's reservation starts with it.
LEMMA TransformEnds ==
  ASSUME IInv, Calm, TransformCommits \/ TransformReconciles
  PROVE  IInv'
<1>1. app.running.kind = "transform" /\ app.notice = None
  BY DEF TransformCommits, TransformReconciles, Answers, Kind, Calm
<1>2. /\ app.running.kind \in Work /\ app.running.kind \notin Reads
      /\ app.running.kind \notin Mutations /\ app.running.kind \notin {"boolean", "restore", "arrange"}
  BY <1>1 DEF Work, Reads, Mutations
<1>3. app.shown = native.order /\ app.status = Status(native)
  BY <1>2, InStage
<1>4. ASSUME NEW s, NEW leased, IsLane(s), QueueOK(s), s.queue = app.queue, s.leases = app.leases,
             s.exclusive = app.exclusive,
             s.boolean = app.boolean, s.shown = app.shown, native'.order = native.order,
             s.status = Status(native'), s.phase = app.phase, s.notice = app.notice,
             app' = finish(Settled(s, leased)),
             leased = (app.at # "rebuild"),
             native' = [revision |-> native'.revision, order |-> native'.order, dirty |-> native'.dirty],
             native'.revision \in Nat
      PROVE  IInv'
  <2> DEFINE r == Settled(s, leased)
  <2>1. Ends(r, s, leased)
    BY <1>4, SettledEnds
  <2>2. app' = finish(r)
    BY <1>4
  <2> HIDE DEF r
  <2>3. Follows(app', r)
    BY <2>1, <2>2, FinishFollows DEF Ends
  <2>4. QueueOK(r)
    <3>1. r.queue = s.queue /\ r.exclusive = s.exclusive
      BY <2>1 DEF Ends
    <3> QED  BY <1>4, <3>1 DEF QueueOK
  <2>5. Holds <=> leased
    BY <1>2, <1>4, InStage
  <2> QED  BY <1>1, <1>2, <1>3, <1>4, <2>1, <2>3, <2>4, <2>5, Facts, Settles DEF Ends, Follows
<1>5. ASSUME TransformCommits PROVE IInv'
  <2> DEFINE g == Head(app.gestures)
             p == [app EXCEPT !.draft = @ \ {g.id}]
             r == Projected(p, native')
  <2>1. /\ app' = finish(Settled(r, TRUE)) /\ native' = Changed(native.order) /\ app.at = "native"
    BY <1>5 DEF TransformCommits, Answers
  <2>2. /\ native' = [revision |-> native'.revision, order |-> native'.order, dirty |-> native'.dirty]
        /\ native'.revision \in Nat /\ native.revision < native'.revision /\ native'.order = native.order
    <3>1. PICK a, b, c : native = [revision |-> a, order |-> b, dirty |-> c]
      BY Facts
    <3>2. native.revision = a /\ native.order = b /\ a \in Nat
      BY <3>1, Facts
    <3>3. native' = [revision |-> a + 1, order |-> b, dirty |-> TRUE]
      BY <2>1, <3>1, <3>2 DEF Changed
    <3> QED  BY <3>2, <3>3
  <2>3. Follows(p, app) /\ p.queue = app.queue
    BY Facts DEF Follows, IsLane, Fields, QueueOK
  <2> HIDE DEF p
  <2>4. Tells(r, p, native')
    BY <2>3, ProjectedTells DEF Follows
  <2> HIDE DEF r
  <2>5. r.status = Status(native')
    BY <2>2, <2>3, <2>4, Facts DEF Tells, Follows, Status
  <2>6. QueueOK(r)
    <3>1. r.queue = app.queue /\ r.exclusive = app.exclusive
      BY <2>3, <2>4 DEF Tells, Follows
    <3> QED  BY <3>1, Facts DEF QueueOK
  <2> QED  BY <1>4, <2>1, <2>2, <2>3, <2>4, <2>5, <2>6 DEF Tells, Follows
<1>6. ASSUME TransformReconciles PROVE IInv'
  <2> DEFINE q == [app EXCEPT !.shown = native.order, !.draft = {}, !.superseded = app.at = "publish"]
             p == resetForModel(q)
             r == Projected(p, native)
  <2>1. /\ app' = finish(Settled(r, app.at = "reconcile")) /\ UNCHANGED native
        /\ app.at \in {"rebuild", "reconcile"}
    BY <1>6 DEF TransformReconciles, Answers, Replaced
  <2>2. /\ IsLane(q) /\ q.queue = app.queue /\ q.leases = app.leases /\ q.exclusive = app.exclusive
        /\ q.boolean = app.boolean /\ q.shown = native.order /\ q.status = app.status
        /\ q.phase = app.phase /\ q.notice = app.notice
    BY Facts DEF IsLane, Fields
  <2> HIDE DEF q
  <2>3. Follows(p, q) /\ p.queue = q.queue
    BY <2>2, ResetForModelFollows DEF resetForModel, IsLane, Fields
  <2> HIDE DEF p
  <2>4. Tells(r, p, native)
    BY <2>3, ProjectedTells DEF Follows
  <2> HIDE DEF r
  <2>5. r.status = Status(native')
    BY <1>3, <2>1, <2>2, <2>3, <2>4, Facts DEF Tells, Follows, Status
  <2>6. QueueOK(r)
    <3>1. r.queue = app.queue /\ r.exclusive = app.exclusive
      BY <2>2, <2>3, <2>4 DEF Tells, Follows
    <3> QED  BY <3>1, Facts DEF QueueOK
  <2>7. (app.at = "reconcile") = (app.at # "rebuild")
    BY <2>1
  <2>8. /\ IsLane(r) /\ r.queue = app.queue /\ r.leases = app.leases /\ r.exclusive = app.exclusive
        /\ r.boolean = app.boolean /\ r.shown = app.shown
        /\ r.phase = app.phase /\ r.notice = app.notice
    BY <1>3, <2>2, <2>3, <2>4 DEF Tells, Follows
  <2> QED  BY <1>4, <2>1, <2>5, <2>6, <2>7, <2>8, Facts
<1> QED  BY <1>5, <1>6

-----------------------------------------------------------------------------
\* A step of an operation that does not end it: it keeps the lease, except when a stale drag goes on
\* to rebuild the scene.
LEMMA Continues ==
  ASSUME IInv, app.running.kind \in Work \ Reads, app.at # "rebuild",
         IsLane(app'), app'.queue = app.queue, app'.running = app.running,
         app'.leases = app.leases - (IF app'.at = "rebuild" THEN 1 ELSE 0),
         app'.exclusive = app.exclusive, app'.boolean = app.boolean,
         app'.superseded = app.superseded, app'.phase = app.phase, app'.notice = app.notice,
         native' = [revision |-> native'.revision, order |-> native'.order, dirty |-> native'.dirty],
         native'.revision \in Nat, FenceShape', StatusShape'
  PROVE  IInv'
<1>1. Typed'
  BY DEF IInv, Typed, QueueOK
<1>2. LeasesExact'
  <2>1. Holds /\ app.leases \in Int
    BY InStage, Facts
  <2>2. Holds' <=> app'.at # "rebuild"
    BY <2>1 DEF Holds, NoOp, Op, None, Reads
  <2> QED  BY <2>1, <2>2 DEF IInv, LeasesExact
<1>3. ExclusiveShape'
  BY DEF IInv, ExclusiveShape, NoOp, Op
<1>4. RestoreShape'
  BY DEF IInv, RestoreShape
<1> QED  BY <1>1, <1>2, <1>3, <1>4 DEF IInv

\* The engine commits a mutation, a restore or an arrangement, whose publication is still to come.
LEMMA EngineCommits ==
  ASSUME IInv, MutationCommits \/ RestoreCommits \/ ArrangeChanges
  PROVE  IInv'
<1>1. /\ app.running.kind \in Mutations \cup {"restore", "arrange"} /\ app.at = "native"
      /\ app.running.kind \notin Mutations \cup {"restore"} => app.running.kind = "arrange" /\ ArrangeChanges
      /\ ArrangeChanges => app.running.kind \notin Mutations \cup {"restore"}
  BY DEF MutationCommits, RestoreCommits, ArrangeChanges, Answers, Kind, Mutations
<1>2. app.running.kind \in Work \ Reads
  BY <1>1 DEF Work, Reads, Mutations
<1>3. app.shown = native.order /\ app.status = Status(native) /\ app.superseded = FALSE
  BY <1>1, InStage
<1>4. /\ native' = [revision |-> native'.revision, order |-> native'.order, dirty |-> native'.dirty]
      /\ native'.revision = native.revision + 1 /\ native'.revision \in Nat
      /\ ArrangeChanges => native'.order = native.order
  <2>1. PICK a, b, c : native = [revision |-> a, order |-> b, dirty |-> c]
    BY Facts
  <2>2. native.revision = a /\ native.order = b /\ a \in Nat
    BY <2>1, Facts
  <2>3. \E o, d : native' = [revision |-> a + 1, order |-> o, dirty |-> d] /\ (ArrangeChanges => o = b)
    <3>1. ASSUME NEW o, native' = Changed(o) PROVE native' = [revision |-> a + 1, order |-> o, dirty |-> TRUE]
      BY <2>1, <2>2, <3>1 DEF Changed
    <3>2. ASSUME ArrangeChanges PROVE native' = [revision |-> a + 1, order |-> b, dirty |-> TRUE]
      BY <2>2, <3>1, <3>2 DEF ArrangeChanges
    <3>3. ASSUME MutationCommits \/ RestoreCommits
          PROVE  \E o, d : native' = [revision |-> a + 1, order |-> o, dirty |-> d]
      BY <2>2, <3>1, <3>3 DEF MutationCommits, RestoreCommits
    <3> QED  BY <3>2, <3>3
  <2> QED  BY <2>2, <2>3
<1>5. ASSUME NEW s, Tells(app', s, native'), s = [app EXCEPT !.at = "publish"], ~ArrangeChanges PROVE IInv'
  <2>1. /\ IsLane(s) /\ s.queue = app.queue /\ s.running = app.running
        /\ s.leases = app.leases /\ s.exclusive = app.exclusive /\ s.boolean = app.boolean
        /\ s.superseded = app.superseded /\ s.phase = app.phase /\ s.notice = app.notice
        /\ s.at = "publish" /\ s.shown = app.shown /\ s.status = app.status
    BY <1>5, Facts DEF IsLane, Fields
  <2>2. app'.status = Status(native')
    BY <1>4, <1>5, <2>1, Facts DEF Tells
  <2>3. app'.at = "publish" /\ app'.running = app.running
    BY <1>5, <2>1 DEF Tells
  <2>4. FenceShape'
    BY <1>1, <1>3, <1>5, <2>1, <2>3 DEF FenceShape, Tells
  <2>5. StatusShape'
    BY <1>4, <2>2 DEF StatusShape, Status
  <2> QED  BY <1>1, <1>2, <1>4, <1>5, <2>1, <2>3, <2>4, <2>5, Facts, Continues DEF Tells
<1>6. ASSUME ~ArrangeChanges PROVE IInv'
  <2> DEFINE s == [app EXCEPT !.at = "publish"]
  <2>1. app' = Projected(s, native')
    BY <1>6 DEF MutationCommits, RestoreCommits
  <2>2. IsLane(s)
    BY Facts DEF IsLane, Fields
  <2>3. s = [app EXCEPT !.at = "publish"]
    OBVIOUS
  <2> HIDE DEF s
  <2> QED  BY <1>5, <1>6, <2>1, <2>2, <2>3, ProjectedTells
<1>7. ASSUME ArrangeChanges PROVE IInv'
  <2>1. /\ IsLane(app') /\ app'.queue = app.queue /\ app'.running = app.running
        /\ app'.leases = app.leases /\ app'.exclusive = app.exclusive /\ app'.boolean = app.boolean
        /\ app'.superseded = app.superseded /\ app'.phase = app.phase /\ app'.notice = app.notice
        /\ app'.at = "publish" /\ app'.shown = app.shown /\ app'.status = app.status
    BY <1>7, Facts DEF IsLane, Fields, ArrangeChanges
  <2>2. FenceShape'
    BY <1>3, <1>4, <1>7, <2>1 DEF FenceShape
  <2>3. StatusShape'
    BY <1>1, <1>4, <1>7, <2>1, Facts DEF StatusShape
  <2> QED  BY <1>1, <1>2, <1>4, <2>1, <2>2, <2>3, Facts, Continues
<1> QED  BY <1>6, <1>7

\* Writing a saved file and refusing or failing a drag's transform keep the invariant.
LEMMA OthersContinue ==
  ASSUME IInv, SaveWrites \/ TransformStale \/ TransformFails
  PROVE  IInv'
<1>1. /\ app.running.kind \in {"save", "transform"} /\ app.at = "native" /\ UNCHANGED native
  BY DEF SaveWrites, TransformStale, TransformFails, Answers, Kind
<1>2. app.running.kind \in Work \ Reads
  BY <1>1 DEF Work, Reads
<1>3. app.shown = native.order /\ app.status = Status(native)
  BY <1>1, InStage DEF Mutations
<1>4. /\ IsLane(app') /\ app'.queue = app.queue /\ app'.running = app.running
      /\ app'.leases = app.leases - (IF app'.at = "rebuild" THEN 1 ELSE 0)
      /\ app'.exclusive = app.exclusive /\ app'.boolean = app.boolean
      /\ app'.superseded = app.superseded /\ app'.phase = app.phase /\ app'.notice = app.notice
      /\ app'.shown = app.shown /\ app'.status = app.status
  <2>1. CASE SaveWrites
    BY <2>1, Facts DEF SaveWrites, IsLane, Fields
  <2>2. CASE TransformStale
    BY <2>2, Facts DEF TransformStale, IsLane, Fields
  <2>3. CASE TransformFails
    BY <2>3, Facts DEF TransformFails, IsLane, Fields
  <2> QED  BY <2>1, <2>2, <2>3
<1>5. FenceShape' /\ StatusShape'
  BY <1>1, <1>3, <1>4, InStage, Facts DEF FenceShape, StatusShape, Status
<1> QED  BY <1>1, <1>2, <1>4, <1>5, Facts, Continues

\* The rebuild outside the lane shows what the engine holds and supersedes the patch that was
\* being composed of an older scene.
LEMMA ReconcileInv == ASSUME IInv, Reconcile PROVE IInv'
<1> DEFINE q == [app EXCEPT !.shown = native.order, !.draft = {}, !.superseded = app.at = "publish"]
           p == resetForModel(q)
<1>1. app' = [p EXCEPT !.reconciling = FALSE] /\ UNCHANGED native
  BY DEF Reconcile, Replaced
<1>2. /\ IsLane(q) /\ q.queue = app.queue /\ q.running = app.running /\ q.at = app.at
      /\ q.leases = app.leases /\ q.exclusive = app.exclusive
      /\ q.superseded = (app.at = "publish")
      /\ q.boolean = app.boolean /\ q.shown = native.order /\ q.status = app.status
      /\ q.phase = app.phase /\ q.notice = app.notice
  BY Facts DEF IsLane, Fields
<1> HIDE DEF q
<1>3. Follows(p, q)
  BY <1>2, ResetForModelFollows
<1> HIDE DEF p
<1>4. Follows(app', q)
  <2>1. IsLane(p)
    BY <1>3 DEF Follows
  <2>2. Follows(app', p)
    BY <1>1, <2>1, QuietFieldsFollow
  <2> QED  BY <1>3, <2>2, FollowsTrans
<1>5. QueueOK(app')
  <2>1. QueueOK(q)
    <3>1. q.queue = app.queue /\ q.exclusive = app.exclusive
      BY <1>2
    <3> QED  BY <3>1, Facts DEF QueueOK
  <2> QED  BY <1>4, <2>1 DEF Follows
<1>6. Typed'
  BY <1>1, <1>2, <1>4, <1>5 DEF IInv, Typed, Follows
<1>7. LeasesExact'
  BY <1>2, <1>4 DEF IInv, LeasesExact, Holds, Follows
<1>8. ExclusiveShape'
  <2>1. q.exclusive => app'.queue = q.queue
    BY <1>4 DEF Follows
  <2> QED  BY <1>2, <1>4, <2>1 DEF IInv, ExclusiveShape, Follows
<1>0. /\ app'.running = app.running /\ app'.at = app.at /\ app'.superseded = (app.at = "publish")
      /\ app'.shown = native.order /\ app'.status = app.status
      /\ app'.phase = app.phase /\ app'.notice = app.notice
  BY <1>2, <1>4 DEF Follows
<1>9. FenceShape' /\ RestoreShape' /\ StatusShape'
  <2>1. FenceShape'
    BY <1>0, <1>1 DEF FenceShape
  <2>2. RestoreShape'
    BY <1>0 DEF IInv, RestoreShape
  <2>3. StatusShape'
    BY <1>0, <1>1 DEF IInv, StatusShape, Status
  <2> QED  BY <2>1, <2>2, <2>3
<1> QED  BY <1>5, <1>6, <1>7, <1>8, <1>9 DEF IInv

-----------------------------------------------------------------------------
\* A stuttering step keeps the invariant.
LEMMA StutterInv == ASSUME IInv, UNCHANGED vars PROVE IInv'
<1>1. Follows(app', app) /\ UNCHANGED native
  BY Facts DEF vars, Follows
<1> QED  BY <1>1, FollowsInv

\* Every step keeps the invariant.
LEMMA NextInv == ASSUME IInv, [Next]_vars PROVE IInv'
<1>1. ASSUME Calm, User PROVE IInv'
  <2>1. ASSUME NEW kind \in Commands, Ask(kind) PROVE IInv'
    BY <2>1, AskInv
  <2> QED  BY <1>1, <2>1, DragInv, ArrangeInv, ExclusiveInv DEF User
<1>2. ASSUME Calm, Operation PROVE IInv'
  BY <1>2, MutationEnds, RestoreEnds, OthersEnd, ReserveInv, TransformEnds, EngineCommits,
     OthersContinue, ReconcileInv DEF Operation
<1> QED  BY <1>1, <1>2, StutterInv, PumpInv, NotifyInv, DrainInv DEF Next

\* The inductive invariant holds in every behaviour, for any set of objects, drags and commands and
\* for any bounds.
THEOREM LaneInvariance == Spec => []IInv
<1>1. Init => IInv
  BY InitInv
<1>2. IInv /\ [Next]_vars => IInv'
  BY NextInv
<1> QED  BY <1>1, <1>2, PTL DEF Spec

\* While the scene shows another order of objects than the engine holds, the publication fence is
\* up (projectMutationGate.ts, projectHistoryTransaction.ts).
THEOREM FenceCovers == Spec => []FenceCoversProjection
<1>1. IInv => FenceCoversProjection
  <2> SUFFICES ASSUME IInv, app.shown # native.order PROVE app.leases > 0
    BY DEF FenceCoversProjection
  <2>1. app.at = "publish" /\ app.running.kind \in Mutations \cup {"restore"}
    BY DEF IInv, FenceShape
  <2>2. Holds
    BY <2>1, InStage DEF Work, Mutations, Reads
  <2> QED  BY <2>2 DEF IInv, LeasesExact
<1> QED  BY <1>1, LaneInvariance, PTL

\* The application says that it restores exactly while a restore runs or its handlers are due
\* (useHistoryStore.ts, restoreCoordinator.ts).
THEOREM RestoringHonest == Spec => []RestoringIsHonest
<1>1. IInv => RestoringIsHonest
  BY DEF IInv, RestoreShape, RestoringIsHonest
<1> QED  BY <1>1, LaneInvariance, PTL

\* When the lane is quiet, the status that enables Save, Undo and Redo is the engine's
\* (projectHistoryStatus()).
THEOREM StatusKept == Spec => []StatusInStep
<1>1. IInv => StatusInStep
  BY DEF IInv, StatusShape, StatusInStep, Quiet, NoOp, Op, None
<1> QED  BY <1>1, LaneInvariance, PTL

\* Every lease is released exactly once: when the lane is quiet, none is held.
THEOREM LeasesBalanced == Spec => []LeasesBalance
<1>1. IInv => LeasesBalance
  BY DEF IInv, LeasesExact, ExclusiveShape, Holds, LeasesBalance, Quiet
<1> QED  BY <1>1, LaneInvariance, PTL

\* While a mesh boolean operation has the lane, nothing else runs or waits in it
\* (runExclusiveProjectOperation()).
THEOREM ExclusiveAlone == Spec => []ExclusiveIsAlone
<1>1. IInv => ExclusiveIsAlone
  <2> SUFFICES ASSUME IInv, app.exclusive, NEW op \in ToSet(Append(app.queue, app.running))
               PROVE  op.kind \in {None, "boolean"}
    BY DEF ExclusiveIsAlone
  <2> DEFINE q == Append(app.queue, app.running)
  <2>1. PICK S : app.queue \in Seq(S)
    BY DEF IInv, Typed, QueueOK
  <2>2. app.queue \in Seq(S \cup {app.running})
    BY <2>1
  <2>3. /\ Len(app.queue) \in Nat /\ DOMAIN q = 1..(Len(app.queue) + 1)
        /\ \A i \in 1..(Len(app.queue) + 1) :
             q[i] = IF i <= Len(app.queue) THEN app.queue[i] ELSE app.running
    BY <2>2
  <2>4. PICK i \in 1..(Len(app.queue) + 1) : op = q[i]
    BY <2>3 DEF ToSet
  <2>5. CASE i <= Len(app.queue)
    <3>1. op = app.queue[i] /\ i \in 1..Len(app.queue)
      BY <2>3, <2>4, <2>5
    <3> QED  BY <3>1 DEF IInv, Typed, QueueOK
  <2>6. CASE i > Len(app.queue)
    <3>1. op = app.running
      BY <2>3, <2>4, <2>6
    <3>2. app.boolean \in {"inside", "queued", "leaving"}
      BY DEF IInv, ExclusiveShape
    <3>3. app.running = NoOp \/ app.running.kind = "boolean"
      BY <3>2 DEF IInv, ExclusiveShape
    <3> QED  BY <3>1, <3>3 DEF NoOp, Op
  <2> QED  BY <2>3, <2>4, <2>5, <2>6
<1> QED  BY <1>1, LaneInvariance, PTL

-----------------------------------------------------------------------------
(* The drags: what the pending ones wait for is in the lane. *)

\* A pending drag, with the positions it was captured at left open.
IsGesture(g) ==
  /\ g = [f \in {"id", "start", "final", "decision", "reservation", "running"} |-> g[f]]
  /\ g.reservation = [f \in {"state", "revision", "targets"} |-> g.reservation[f]]
  /\ g.id \in Gestures /\ g.decision \in {None, "commit", "abort"} /\ g.running \in BOOLEAN
  /\ g.reservation.state \in {None, "asked", "held", "refused"}

\* The pending drags are different ones, and only the head has begun to reserve.
PendingOK(s) ==
  /\ \E S : s.gestures \in Seq(S)
  /\ \A i \in 1..Len(s.gestures) : IsGesture(s.gestures[i])
  /\ \A i, j \in 1..Len(s.gestures) : s.gestures[i].id = s.gestures[j].id => i = j
  /\ \A i \in 2..Len(s.gestures) : ~s.gestures[i].running /\ s.gestures[i].reservation.state = None

\* What the lane holds: the running operation, then the queue.
Places(s) == 0..Len(s.queue)
InLane(s, p) == IF p = 0 THEN s.running ELSE s.queue[p]
OfDrag(op) == op.kind \in {"reserve", "transform"}

\* The head reserves or has reserved, and what it waits for is in the lane.
HeadOK(s) ==
  s.gestures # <<>> =>
    LET g == s.gestures[1] IN
    /\ g.reservation.state # None
    /\ g.reservation.state = "asked" => \E p \in Places(s) : InLane(s, p) = Op("reserve", g.id)
    /\ g.running => /\ g.reservation.state = "held"
                    /\ \E p \in Places(s) : InLane(s, p) = Op("transform", g.id)

\* A drag has one operation in the lane.  A transform is that of the head; a reservation that
\* outlived its drag belongs to none.  Other work was let in below the bound.
WorkOK(s) ==
  \A p \in Places(s) :
    LET op == InLane(s, p) IN
    /\ p > MaxQueue => OfDrag(op)
    /\ OfDrag(op) => op.gesture \in Gestures
    /\ op.kind = "transform" => /\ s.gestures # <<>> /\ s.gestures[1].running
                                /\ s.gestures[1].id = op.gesture
    /\ op.kind = "reserve" => \A i \in 1..Len(s.gestures) :
         s.gestures[i].id = op.gesture => i = 1 /\ s.gestures[1].reservation.state = "asked"
    /\ \A q \in Places(s) : OfDrag(op) /\ OfDrag(InLane(s, q)) /\ op.gesture = InLane(s, q).gesture => p = q

\* Some sequence, of whatever.
Listed(q) == \E S : q \in Seq(S)

\* Facts about sequences of elements without a type of their own.
LEMMA AppendListed ==
  ASSUME NEW q, Listed(q), NEW e
  PROVE  /\ Listed(Append(q, e)) /\ Len(q) \in Nat /\ Len(Append(q, e)) = Len(q) + 1
         /\ \A i \in 1..Len(q) : Append(q, e)[i] = q[i]
         /\ Append(q, e)[Len(q) + 1] = e /\ Append(q, e) # <<>>
<1>1. PICK S : q \in Seq(S)
  BY DEF Listed
<1>2. q \in Seq(S \cup {e}) /\ e \in S \cup {e}
  BY <1>1, SeqMonotonic
<1> QED  BY <1>2, AppendProperties, LenProperties DEF Listed

LEMMA TailListed ==
  ASSUME NEW q, Listed(q), q # <<>>
  PROVE  /\ Listed(Tail(q)) /\ Len(q) \in Nat \ {0} /\ Len(Tail(q)) = Len(q) - 1
         /\ \A i \in 1..Len(q) - 1 : Tail(q)[i] = q[i + 1]
         /\ Head(q) = q[1]
<1>1. PICK S : q \in Seq(S)
  BY DEF Listed
<1>2. Len(q) \in Nat \ {0}
  BY <1>1, EmptySeq
<1>3. Tail(q) \in Seq(S) /\ Len(Tail(q)) = Len(q) - 1 /\ \A i \in 1..Len(Tail(q)) : Tail(q)[i] = q[i + 1]
  BY <1>1, HeadTailProperties
<1>4. Head(q) = q[1]
  BY <1>1
<1> QED  BY <1>2, <1>3, <1>4 DEF Listed

\* q with e at i, if that is a place of it.
Put(q, i, e) == [q EXCEPT ![i] = e]

LEMMA PutListed ==
  ASSUME NEW q, Listed(q), NEW i, NEW e
  PROVE  /\ Listed(Put(q, i, e)) /\ Len(Put(q, i, e)) = Len(q) /\ Len(q) \in Nat
         /\ \A j \in 1..Len(q) : Put(q, i, e)[j] = IF j = i THEN e ELSE q[j]
<1>1. PICK S : q \in Seq(S)
  BY DEF Listed
<1>2. q \in Seq(S \cup {e}) /\ DOMAIN q = 1..Len(q) /\ Len(q) \in Nat
  BY <1>1, SeqMonotonic, LenProperties
<1>3. CASE i \in 1..Len(q)
  <2>1. /\ [q EXCEPT ![i] = e] \in Seq(S \cup {e}) /\ Len([q EXCEPT ![i] = e]) = Len(q)
        /\ \A j \in 1..Len(q) : [q EXCEPT ![i] = e][j] = IF j = i THEN e ELSE q[j]
    <3>1. e \in S \cup {e}
      OBVIOUS
    <3> QED  BY <1>2, <1>3, <3>1, ExceptSeq
  <2> QED  BY <1>2, <2>1 DEF Listed, Put
<1>4. CASE i \notin 1..Len(q)
  <2>1. [q EXCEPT ![i] = e] = q
    BY <1>1, <1>2, <1>4
  <2> QED  BY <1>1, <1>2, <1>4, <2>1 DEF Listed, Put
<1> QED  BY <1>3, <1>4 DEF Put

LEMMA EmptyListed ==
  ASSUME NEW q, Listed(q)
  PROVE  Len(q) \in Nat /\ (q # <<>> <=> Len(q) # 0)
<1>1. PICK S : q \in Seq(S)
  BY DEF Listed
<1> QED  BY <1>1, EmptySeq, LenProperties

-----------------------------------------------------------------------------
\* t has the pending drags of s, perhaps with a decision more.
Kept(t, s) ==
  /\ Listed(t.gestures) /\ Len(t.gestures) = Len(s.gestures)
  /\ \A i \in 1..Len(s.gestures) :
       /\ IsGesture(t.gestures[i]) /\ t.gestures[i].id = s.gestures[i].id
       /\ t.gestures[i].running = s.gestures[i].running
       /\ t.gestures[i].reservation = s.gestures[i].reservation

\* Drags that are not changed are kept, and a drag kept twice is kept.
LEMMA SameKept ==
  ASSUME NEW s, PendingOK(s), NEW t, t.gestures = s.gestures
  PROVE  Kept(t, s)
BY DEF PendingOK, Kept, Listed

LEMMA KeptTrans ==
  ASSUME NEW s, NEW t, NEW u, Kept(t, s), Kept(u, t)
  PROVE  Kept(u, s)
BY DEF Kept

LEMMA KeptPending ==
  ASSUME NEW s, NEW t, PendingOK(s), Kept(t, s)
  PROVE  PendingOK(t)
<1>1. Len(s.gestures) \in Nat
  BY EmptyListed DEF PendingOK, Listed
<1> QED  BY SMTT(40), <1>1 DEF PendingOK, Kept, Listed

\* A decision is no other drag.
LEMMA GestureDecided ==
  ASSUME NEW g, IsGesture(g), NEW d \in {"commit", "abort"}, NEW b
  PROVE  /\ IsGesture([g EXCEPT !.decision = d]) /\ [g EXCEPT !.decision = d].id = g.id
         /\ [g EXCEPT !.decision = d].running = g.running
         /\ [g EXCEPT !.decision = d].reservation = g.reservation
         /\ IsGesture([g EXCEPT !.final = b]) /\ [g EXCEPT !.final = b].id = g.id
         /\ [g EXCEPT !.final = b].running = g.running
         /\ [g EXCEPT !.final = b].reservation = g.reservation
BY DEF IsGesture

\* A drag that is decided is the same drag.
LEMMA DecidedKept ==
  ASSUME NEW s, IsLane(s), PendingOK(s), NEW d \in {"commit", "abort"}
  PROVE  /\ Kept(Decided(s, d), s)
         /\ \A f \in Fields \ {"gestures"} : Decided(s, d)[f] = s[f]
<1> DEFINE r(i) == [s EXCEPT !.gestures[i].decision = d]
           u(i, b) == [r(i) EXCEPT !.gestures[i].final = b]
<1>0. Kept(s, s)
  BY SameKept
<1>1. ASSUME NEW i
      PROVE  IsLane(r(i)) /\ Kept(r(i), s) /\ \A f \in Fields \ {"gestures"} : r(i)[f] = s[f]
  <2> DEFINE h == [s.gestures[i] EXCEPT !.decision = d]
             q == Put(s.gestures, i, h)
  <2>1. r(i) = [s EXCEPT !.gestures = q]
    BY DEF Put
  <2>2. i \in 1..Len(s.gestures) =>
          IsGesture(h) /\ h.id = s.gestures[i].id /\ h.running = s.gestures[i].running
          /\ h.reservation = s.gestures[i].reservation
    BY GestureDecided DEF PendingOK
  <2> HIDE DEF h
  <2>l. Listed(s.gestures)
    BY DEF PendingOK, Listed
  <2>3. /\ Listed(q) /\ Len(q) = Len(s.gestures)
        /\ \A j \in 1..Len(s.gestures) : q[j] = IF j = i THEN h ELSE s.gestures[j]
    BY <2>l, PutListed
  <2> HIDE DEF q
  <2>4. r(i).gestures = q /\ IsLane(r(i)) /\ \A f \in Fields \ {"gestures"} : r(i)[f] = s[f]
    BY <2>1 DEF IsLane, Fields
  <2> QED  BY ZenonT(60), <2>2, <2>3, <2>4 DEF Kept, PendingOK
<1>2. ASSUME NEW i, NEW b
      PROVE  Kept(u(i, b), s) /\ \A f \in Fields \ {"gestures"} : u(i, b)[f] = s[f]
  <2> DEFINE p == r(i)
             h == [p.gestures[i] EXCEPT !.final = b]
             q == Put(p.gestures, i, h)
  <2>1. u(i, b) = [p EXCEPT !.gestures = q]
    BY DEF Put
  <2>2. /\ IsLane(p) /\ Kept(p, s) /\ PendingOK(p)
        /\ \A f \in Fields \ {"gestures"} : p[f] = s[f]
    <3>1. IsLane(r(i)) /\ Kept(r(i), s) /\ \A f \in Fields \ {"gestures"} : r(i)[f] = s[f]
      BY <1>1
    <3> QED  BY <3>1, KeptPending
  <2> HIDE DEF p
  <2>3. i \in 1..Len(p.gestures) =>
          IsGesture(h) /\ h.id = p.gestures[i].id /\ h.running = p.gestures[i].running
          /\ h.reservation = p.gestures[i].reservation
    <3>1. i \in 1..Len(p.gestures) => IsGesture(p.gestures[i])
      BY <2>2 DEF PendingOK
    <3> QED  BY <3>1, GestureDecided
  <2> HIDE DEF h
  <2>l. Listed(p.gestures)
    BY <2>2 DEF PendingOK, Listed
  <2>4. /\ Listed(q) /\ Len(q) = Len(p.gestures)
        /\ \A j \in 1..Len(p.gestures) : q[j] = IF j = i THEN h ELSE p.gestures[j]
    BY <2>l, PutListed
  <2> HIDE DEF q
  <2>5. [p EXCEPT !.gestures = q].gestures = q
        /\ \A f \in Fields \ {"gestures"} : [p EXCEPT !.gestures = q][f] = p[f]
    BY <2>2 DEF IsLane, Fields
  <2>6. Kept([p EXCEPT !.gestures = q], p)
    BY <2>2, <2>3, <2>4, <2>5 DEF Kept, PendingOK
  <2> QED  BY <2>1, <2>2, <2>5, <2>6, KeptTrans
<1> DEFINE P(t) == Kept(t, s) /\ \A f \in Fields \ {"gestures"} : t[f] = s[f]
<1>3. P(s) /\ \A i, b : P(u(i, b))
  BY <1>0, <1>2
<1> HIDE DEF P
<1>4. P(Decided(s, d))
  BY <1>3 DEF Decided
<1> QED  BY <1>4 DEF P

-----------------------------------------------------------------------------
\* The drags and what the lane holds of them.
DragsOK(s) == PendingOK(s) /\ HeadOK(s) /\ WorkOK(s)

LEMMA NoDrag == ~OfDrag(NoOp) /\ NoOp.kind = None
BY DEF OfDrag, NoOp, Op, None

\* Whatever keeps the drags and the lane keeps what is between them.
LEMMA SameLaneDrags ==
  ASSUME NEW s, NEW t, DragsOK(s), Kept(t, s), t.queue = s.queue, t.running = s.running
  PROVE  DragsOK(t)
<1>1. PendingOK(t) /\ PendingOK(s) /\ Listed(s.gestures) /\ Listed(t.gestures)
  BY KeptPending DEF DragsOK, PendingOK, Listed
<1>2. /\ Len(s.gestures) \in Nat /\ Len(t.gestures) = Len(s.gestures)
      /\ s.gestures # <<>> <=> Len(s.gestures) # 0
      /\ t.gestures # <<>> <=> Len(t.gestures) # 0
  BY <1>1, EmptyListed DEF Kept
<1>3. t.gestures # <<>> => /\ t.gestures[1].id = s.gestures[1].id
                           /\ t.gestures[1].running = s.gestures[1].running
                           /\ t.gestures[1].reservation = s.gestures[1].reservation
  BY <1>2 DEF Kept
<1>4. Places(t) = Places(s) /\ \A p : InLane(t, p) = InLane(s, p)
  BY DEF Places, InLane
<1>5. HeadOK(t)
  BY <1>2, <1>3, <1>4 DEF DragsOK, HeadOK
<1>6. WorkOK(t)
  BY <1>2, <1>3, <1>4 DEF DragsOK, WorkOK, Kept
<1> QED  BY <1>1, <1>5, <1>6 DEF DragsOK

\* Other work that joins the lane below the bound.
LEMMA JoinsDrags ==
  ASSUME NEW s, NEW t, DragsOK(s), Listed(s.queue), t.gestures = s.gestures, NEW op, ~OfDrag(op),
         t.queue = Append(s.queue, op), t.running = s.running, Len(s.queue) < MaxQueue
  PROVE  DragsOK(t)
<1> DEFINE n == Len(s.queue)
<1>1. /\ n \in Nat /\ Len(t.queue) = n + 1 /\ t.queue[n + 1] = op
      /\ \A i \in 1..n : t.queue[i] = s.queue[i]
  BY AppendListed
<1>2. /\ Places(s) = 0..n /\ Places(t) = 0..n + 1
      /\ \A p \in 0..n : InLane(t, p) = InLane(s, p)
      /\ InLane(t, n + 1) = op
  BY <1>1 DEF Places, InLane
<1>3. MaxQueue \in Nat
  BY LaneAssumption
<1>h. n < MaxQueue
  OBVIOUS
<1> HIDE DEF n
<1>4. PendingOK(t)
  BY DEF DragsOK, PendingOK
<1>5. HeadOK(t)
  BY <1>1, <1>2 DEF DragsOK, HeadOK
<1>6. WorkOK(t)
  <2> SUFFICES ASSUME NEW p \in Places(t)
               PROVE  LET o == InLane(t, p) IN
                 /\ p > MaxQueue => OfDrag(o)
                 /\ OfDrag(o) => o.gesture \in Gestures
                 /\ o.kind = "transform" => /\ t.gestures # <<>> /\ t.gestures[1].running
                                            /\ t.gestures[1].id = o.gesture
                 /\ o.kind = "reserve" => \A i \in 1..Len(t.gestures) :
                      t.gestures[i].id = o.gesture => i = 1 /\ t.gestures[1].reservation.state = "asked"
                 /\ \A q \in Places(t) : OfDrag(o) /\ OfDrag(InLane(t, q)) /\ o.gesture = InLane(t, q).gesture => p = q
    BY DEF WorkOK
  <2>1. CASE p \in 0..n
    <3>1. \A q \in Places(t) : OfDrag(InLane(t, q)) => q \in 0..n
      BY <1>1, <1>2
    <3> QED  BY <1>1, <1>2, <2>1, <3>1 DEF DragsOK, WorkOK
  <2>2. CASE p = n + 1
    <3>1. InLane(t, p) = op /\ ~(p > MaxQueue)
      BY <1>1, <1>2, <1>3, <1>h, <2>2
    <3> QED  BY <3>1 DEF OfDrag
  <2> QED  BY <1>1, <1>2, <2>1, <2>2
<1> QED  BY <1>4, <1>5, <1>6 DEF DragsOK

\* Other work that leaves the lane.
LEMMA LeavesDrags ==
  ASSUME NEW s, NEW t, DragsOK(s), Kept(t, s), Listed(s.queue), ~OfDrag(s.running),
         t.queue = s.queue, t.running = NoOp
  PROVE  DragsOK(t)
<1>1. PendingOK(t) /\ PendingOK(s) /\ Listed(s.gestures) /\ Listed(t.gestures)
  BY KeptPending DEF DragsOK, PendingOK, Listed
<1>2. /\ Len(s.gestures) \in Nat /\ Len(t.gestures) = Len(s.gestures)
      /\ s.gestures # <<>> <=> Len(s.gestures) # 0
      /\ t.gestures # <<>> <=> Len(t.gestures) # 0
  BY <1>1, EmptyListed DEF Kept
<1>3. t.gestures # <<>> => /\ t.gestures[1].id = s.gestures[1].id
                           /\ t.gestures[1].running = s.gestures[1].running
                           /\ t.gestures[1].reservation = s.gestures[1].reservation
  BY <1>2 DEF Kept
<1>4. /\ Places(t) = Places(s) /\ Len(s.queue) \in Nat
      /\ \A p \in Places(s) : p = 0 \/ InLane(t, p) = InLane(s, p)
      /\ ~OfDrag(InLane(t, 0)) /\ ~OfDrag(InLane(s, 0))
  BY NoDrag, EmptyListed DEF Places, InLane
<1>5. \A o, g : InLane(s, 0) # Op("reserve", g) /\ InLane(s, 0) # Op("transform", g)
  BY <1>4 DEF OfDrag, Op
<1>6. HeadOK(t)
  BY <1>2, <1>3, <1>4, <1>5 DEF DragsOK, HeadOK
<1>7. MaxQueue \in Nat
  BY LaneAssumption
<1>8. WorkOK(t)
  <2> SUFFICES ASSUME NEW p \in Places(t)
               PROVE  LET o == InLane(t, p) IN
                 /\ p > MaxQueue => OfDrag(o)
                 /\ OfDrag(o) => o.gesture \in Gestures
                 /\ o.kind = "transform" => /\ t.gestures # <<>> /\ t.gestures[1].running
                                            /\ t.gestures[1].id = o.gesture
                 /\ o.kind = "reserve" => \A i \in 1..Len(t.gestures) :
                      t.gestures[i].id = o.gesture => i = 1 /\ t.gestures[1].reservation.state = "asked"
                 /\ \A q \in Places(t) : OfDrag(o) /\ OfDrag(InLane(t, q)) /\ o.gesture = InLane(t, q).gesture => p = q
    BY DEF WorkOK
  <2>1. CASE p = 0
    BY <1>4, <1>7, <2>1 DEF OfDrag
  <2>2. CASE p # 0
    BY <1>2, <1>3, <1>4, <2>2 DEF DragsOK, WorkOK, Kept
  <2> QED  BY <2>1, <2>2
<1> QED  BY <1>1, <1>6, <1>8 DEF DragsOK

\* The head of the queue runs.
LEMMA DrainsDrags ==
  ASSUME NEW s, NEW t, DragsOK(s), Listed(s.queue), s.running = NoOp, s.queue # <<>>,
         t.gestures = s.gestures, t.queue = Tail(s.queue), t.running = Head(s.queue)
  PROVE  DragsOK(t)
<1> DEFINE n == Len(s.queue)
<1>1. /\ n \in Nat \ {0} /\ Len(t.queue) = n - 1 /\ t.running = s.queue[1]
      /\ \A i \in 1..n - 1 : t.queue[i] = s.queue[i + 1]
  BY TailListed
<1>2. /\ Places(s) = 0..n /\ Places(t) = 0..n - 1
      /\ \A p \in 0..n - 1 : InLane(t, p) = InLane(s, p + 1)
      /\ InLane(s, 0) = NoOp
  BY <1>1 DEF Places, InLane
<1>3. MaxQueue \in Nat
  BY LaneAssumption
<1> HIDE DEF n
<1>4. PendingOK(t)
  BY DEF DragsOK, PendingOK
<1>5. \A p \in Places(s) : OfDrag(InLane(s, p)) => p - 1 \in Places(t) /\ InLane(t, p - 1) = InLane(s, p)
  BY <1>1, <1>2, NoDrag
<1>6. HeadOK(t)
  <2>1. \A g : OfDrag(Op("reserve", g)) /\ OfDrag(Op("transform", g))
    BY DEF OfDrag, Op
  <2> QED  BY <1>5, <2>1 DEF DragsOK, HeadOK
<1>7. WorkOK(t)
  <2> SUFFICES ASSUME NEW p \in Places(t)
               PROVE  LET o == InLane(t, p) IN
                 /\ p > MaxQueue => OfDrag(o)
                 /\ OfDrag(o) => o.gesture \in Gestures
                 /\ o.kind = "transform" => /\ t.gestures # <<>> /\ t.gestures[1].running
                                            /\ t.gestures[1].id = o.gesture
                 /\ o.kind = "reserve" => \A i \in 1..Len(t.gestures) :
                      t.gestures[i].id = o.gesture => i = 1 /\ t.gestures[1].reservation.state = "asked"
                 /\ \A q \in Places(t) : OfDrag(o) /\ OfDrag(InLane(t, q)) /\ o.gesture = InLane(t, q).gesture => p = q
    BY DEF WorkOK
  <2>1. /\ p \in Int /\ p + 1 \in Places(s) /\ InLane(t, p) = InLane(s, p + 1)
        /\ \A q \in Places(t) : q \in Int /\ q + 1 \in Places(s) /\ InLane(t, q) = InLane(s, q + 1)
    BY <1>1, <1>2
  <2>2. p > MaxQueue => p + 1 > MaxQueue
    BY <1>3, <2>1
  <2>3. \A q \in Places(t) : p + 1 = q + 1 => p = q
    BY <2>1
  <2> QED  BY <2>1, <2>2, <2>3 DEF DragsOK, WorkOK
<1> QED  BY <1>4, <1>6, <1>7 DEF DragsOK

\* What startHeadReservation() and finish() leave alone.
Beside == Fields \ {"gestures", "queue"}

\* A drag that gets its turn reserves through the lane, or is refused at the gate.
LEMMA StartDrags ==
  ASSUME NEW s, IsLane(s), PendingOK(s), WorkOK(s), Listed(s.queue),
         s.gestures # <<>> /\ s.gestures[1].reservation.state # None => HeadOK(s),
         s.gestures # <<>> /\ s.gestures[1].reservation.state = None => ~s.gestures[1].running
  PROVE  /\ DragsOK(startHeadReservation(s))
         /\ \A f \in Beside : startHeadReservation(s)[f] = s[f]
<1> DEFINE g == s.gestures[1]
           n == Len(s.queue)
<1>0. /\ n \in Nat /\ Places(s) = 0..n /\ Listed(s.gestures) /\ Len(s.gestures) \in Nat
      /\ s.gestures # <<>> <=> Len(s.gestures) # 0
      /\ s.gestures # <<>> => Head(s.gestures) = g
  BY EmptyListed, TailListed DEF Places, PendingOK, Listed
<1>1. CASE s.gestures = <<>> \/ g.reservation.state # None
  <2>1. startHeadReservation(s) = s
    BY <1>0, <1>1 DEF startHeadReservation
  <2>2. HeadOK(s)
    BY <1>1 DEF HeadOK
  <2> QED  BY <2>1, <2>2 DEF DragsOK
<1>2. CASE s.gestures # <<>> /\ g.reservation.state = None
  <2> DEFINE st == IF Admitted(s, "reserve") THEN "asked" ELSE "refused"
             h == [g EXCEPT !.reservation.state = st]
             q == Put(s.gestures, 1, h)
             op == Op("reserve", g.id)
             r == [s EXCEPT !.gestures = q]
             t == startHeadReservation(s)
  <2>1. /\ t = IF Admitted(s, "reserve") THEN Enqueued(r, op) ELSE r
        /\ t = IF Admitted(s, "reserve") THEN [r EXCEPT !.queue = Append(@, op)] ELSE r
    BY <1>0, <1>2 DEF startHeadReservation, Enqueued, Put
  <2>2. IsGesture(g) /\ 1 \in 1..Len(s.gestures) /\ ~g.running
    BY <1>0, <1>2 DEF PendingOK
  <2>3. /\ IsGesture(h) /\ h.id = g.id /\ h.running = g.running /\ h.reservation.state = st
        /\ st \in {"asked", "refused"} /\ st # None
    BY <2>2 DEF IsGesture, None
  <2> HIDE DEF h
  <2>4. /\ Listed(q) /\ Len(q) = Len(s.gestures) /\ q[1] = h
        /\ \A j \in 1..Len(s.gestures) : q[j] = IF j = 1 THEN h ELSE s.gestures[j]
    BY <1>0, <2>2, PutListed
  <2> HIDE DEF q, op
  <2>5. /\ r.gestures = q /\ r.queue = s.queue /\ IsLane(r)
        /\ \A f \in Beside : r[f] = s[f]
    BY DEF IsLane, Fields, Beside
  <2>e. [r EXCEPT !.queue = Append(@, op)].gestures = r.gestures
        /\ [r EXCEPT !.queue = Append(@, op)].queue = Append(r.queue, op)
        /\ \A f \in Beside : [r EXCEPT !.queue = Append(@, op)][f] = r[f]
    <3> HIDE DEF r
    <3> QED  BY <2>5 DEF IsLane, Fields, Beside
  <2> HIDE DEF r, t
  <2>6. /\ t.gestures = q /\ t.queue = (IF Admitted(s, "reserve") THEN Append(s.queue, op) ELSE s.queue)
        /\ \A f \in Beside : t[f] = s[f]
    BY <2>1, <2>5, <2>e
  <2>7. t.running = s.running
    BY <2>6 DEF Beside, Fields
  <2>8. PendingOK(t)
    <3>1. \A j \in 1..Len(s.gestures) : IsGesture(t.gestures[j]) /\ t.gestures[j].id = s.gestures[j].id
      BY <2>2, <2>3, <2>4, <2>6 DEF PendingOK
    <3>2. \A j \in 2..Len(s.gestures) : j \in 1..Len(s.gestures) /\ t.gestures[j] = s.gestures[j]
      BY <1>0, <2>4, <2>6
    <3> HIDE DEF g, t
    <3>3. Listed(t.gestures) /\ Len(t.gestures) = Len(s.gestures)
      BY <2>4, <2>6
    <3> QED  BY <3>1, <3>2, <3>3 DEF PendingOK, Listed
  <2>9. t.gestures # <<>> /\ Len(t.gestures) = Len(s.gestures)
    BY <1>0, <1>2, <2>4, <2>6, EmptyListed
  <2>10. \A p \in Places(s) : OfDrag(InLane(s, p)) => InLane(s, p).gesture # g.id
    BY <1>0, <1>2, <2>2 DEF WorkOK, OfDrag, None
  <2>11. CASE st = "asked"
    <3>1. t.queue = Append(s.queue, op)
      BY <2>6, <2>11
    <3>2. /\ Len(t.queue) = n + 1 /\ t.queue[n + 1] = op
          /\ \A i \in 1..n : t.queue[i] = s.queue[i]
      BY <3>1, AppendListed
    <3>3. /\ Places(t) = 0..n + 1 /\ InLane(t, n + 1) = op
          /\ \A p \in 0..n : InLane(t, p) = InLane(s, p)
      BY <1>0, <2>7, <3>2 DEF Places, InLane
    <3>4. OfDrag(op) /\ op.kind = "reserve" /\ op.gesture = g.id /\ g.id \in Gestures
      BY <2>2 DEF OfDrag, Op, IsGesture, op
    <3> HIDE DEF op, g, n
    <3>5. HeadOK(t)
      <4>1. t.gestures[1].reservation.state = "asked" /\ ~t.gestures[1].running /\ t.gestures[1].id = g.id
        BY <2>2, <2>3, <2>4, <2>6, <2>11
      <4>2. n + 1 \in Places(t) /\ InLane(t, n + 1) = Op("reserve", g.id)
        BY <1>0, <3>3 DEF op
      <4> QED  BY <4>1, <4>2 DEF HeadOK, None
    <3>6. WorkOK(t)
      <4> SUFFICES ASSUME NEW p \in Places(t)
                   PROVE  LET o == InLane(t, p) IN
                     /\ p > MaxQueue => OfDrag(o)
                     /\ OfDrag(o) => o.gesture \in Gestures
                     /\ o.kind = "transform" => /\ t.gestures # <<>> /\ t.gestures[1].running
                                                /\ t.gestures[1].id = o.gesture
                     /\ o.kind = "reserve" => \A i \in 1..Len(t.gestures) :
                          t.gestures[i].id = o.gesture => i = 1 /\ t.gestures[1].reservation.state = "asked"
                     /\ \A x \in Places(t) : OfDrag(o) /\ OfDrag(InLane(t, x)) /\ o.gesture = InLane(t, x).gesture => p = x
        BY DEF WorkOK
      <4>1. t.gestures[1].reservation.state = "asked" /\ t.gestures[1].running = g.running
            /\ \A i \in 1..Len(t.gestures) : t.gestures[i].id = s.gestures[i].id
        BY <2>3, <2>4, <2>6, <2>11, <2>9 DEF g
      <4>2. CASE p \in 0..n
        <5>1. InLane(t, p) = InLane(s, p) /\ p \in Places(s)
          BY <1>0, <3>3, <4>2 DEF n
        <5>2. ASSUME NEW x \in Places(t), OfDrag(InLane(s, p)), OfDrag(InLane(t, x)),
                     InLane(s, p).gesture = InLane(t, x).gesture
              PROVE  p = x
          <6>1. x # n + 1
            BY <2>10, <3>3, <3>4, <5>1, <5>2
          <6>2. x \in 0..n /\ InLane(t, x) = InLane(s, x) /\ x \in Places(s)
            BY <1>0, <3>3, <6>1 DEF n
          <6> QED  BY <5>1, <5>2, <6>2 DEF WorkOK
        <5>3. InLane(s, p).kind = "transform" => t.gestures[1].running /\ t.gestures[1].id = InLane(s, p).gesture
          BY <2>2, <2>9, <4>1, <5>1 DEF WorkOK, g
        <5>4. InLane(s, p).kind = "reserve" => \A i \in 1..Len(t.gestures) :
                          t.gestures[i].id = InLane(s, p).gesture => i = 1
          BY <2>9, <4>1, <5>1 DEF WorkOK
        <5> QED  BY <2>9, <4>1, <5>1, <5>2, <5>3, <5>4 DEF WorkOK
      <4>3. CASE p = n + 1
        <5>1. InLane(t, p) = op
          BY <3>3, <4>3
        <5>2. ASSUME NEW x \in Places(t), OfDrag(InLane(t, x)), g.id = InLane(t, x).gesture
              PROVE  p = x
          <6>1. x \notin 0..n
            BY <1>0, <2>10, <3>3, <5>2 DEF n
          <6> QED  BY <1>0, <3>3, <4>3, <6>1 DEF n
        <5>3. \A i \in 1..Len(t.gestures) : t.gestures[i].id = g.id => i = 1
          BY <2>2, <2>9, <4>1 DEF PendingOK, g
        <5> QED  BY <3>4, <4>1, <5>1, <5>2, <5>3
      <4> QED  BY <1>0, <3>3, <4>2, <4>3 DEF n
    <3> QED  BY <2>6, <2>8, <3>5, <3>6 DEF DragsOK, t
  <2>12. CASE st = "refused"
    <3>1. t.queue = s.queue
      BY <2>6, <2>12
    <3>2. Places(t) = Places(s) /\ \A p : InLane(t, p) = InLane(s, p)
      BY <2>7, <3>1 DEF Places, InLane
    <3>3. t.gestures[1].reservation.state = "refused" /\ ~t.gestures[1].running
          /\ \A i \in 1..Len(t.gestures) : t.gestures[i].id = s.gestures[i].id
      BY <2>2, <2>3, <2>4, <2>6, <2>12, <2>9
    <3>4. HeadOK(t)
      BY <3>3 DEF HeadOK, None
    <3>5. \A p \in Places(s) : InLane(s, p).kind # "transform"
      BY <1>2, <2>2 DEF WorkOK
    <3>6. \A p \in Places(s) : InLane(s, p).kind = "reserve" =>
            \A i \in 1..Len(t.gestures) : t.gestures[i].id # InLane(s, p).gesture
      BY <1>0, <1>2, <2>9, <2>10, <3>3 DEF WorkOK, None
    <3> HIDE DEF g
    <3>7. WorkOK(t)
      BY <3>2, <3>5, <3>6 DEF WorkOK
    <3> QED  BY <2>6, <2>8, <3>4, <3>7 DEF DragsOK, t
  <2> QED  BY <2>11, <2>12
<1> QED  BY <1>1, <1>2

\* The head leaves when no transform is in the lane, and the next one gets its turn.
LEMMA FinishDrags ==
  ASSUME NEW s, IsLane(s), PendingOK(s), WorkOK(s), Listed(s.queue), s.gestures # <<>>,
         \A p \in Places(s) : InLane(s, p).kind # "transform"
  PROVE  /\ DragsOK(finish(s))
         /\ \A f \in Beside : finish(s)[f] = s[f]
<1> DEFINE t == [s EXCEPT !.gestures = Tail(@)]
<1>1. /\ IsLane(t) /\ t.gestures = Tail(s.gestures) /\ t.queue = s.queue /\ t.running = s.running
      /\ \A f \in Beside : t[f] = s[f]
  BY DEF IsLane, Fields, Beside
<1>2. finish(s) = startHeadReservation(t)
  BY DEF finish
<1> HIDE DEF t
<1>3. /\ Listed(t.gestures) /\ Len(s.gestures) \in Nat \ {0} /\ Len(t.gestures) = Len(s.gestures) - 1
      /\ \A i \in 1..Len(t.gestures) : t.gestures[i] = s.gestures[i + 1]
  BY <1>1, TailListed DEF PendingOK, Listed
<1>4. \A i \in 1..Len(t.gestures) : i + 1 \in 2..Len(s.gestures) /\ i + 1 \in 1..Len(s.gestures)
  BY <1>3
<1>5. \A i \in 1..Len(t.gestures) : /\ IsGesture(t.gestures[i]) /\ ~t.gestures[i].running
                                    /\ t.gestures[i].reservation.state = None
  BY <1>3, <1>4 DEF PendingOK
<1>6. PendingOK(t)
  <2>1. ASSUME NEW i \in 1..Len(t.gestures), NEW j \in 1..Len(t.gestures), t.gestures[i].id = t.gestures[j].id
        PROVE  i = j
    <3>1. i + 1 = j + 1
      BY <1>3, <1>4, <2>1 DEF PendingOK
    <3> QED  BY <1>3, <3>1
  <2>2. \A i \in 2..Len(t.gestures) : i \in 1..Len(t.gestures)
    BY <1>3
  <2> QED  BY <1>3, <1>5, <2>1, <2>2 DEF PendingOK, Listed
<1>7. Places(t) = Places(s) /\ \A p : InLane(t, p) = InLane(s, p)
  BY <1>1 DEF Places, InLane
<1>8. \A p \in Places(s) : InLane(s, p).kind = "reserve" =>
        \A i \in 1..Len(t.gestures) : t.gestures[i].id # InLane(s, p).gesture
  <2> SUFFICES ASSUME NEW p \in Places(s), InLane(s, p).kind = "reserve",
                      NEW i \in 1..Len(t.gestures), t.gestures[i].id = InLane(s, p).gesture
               PROVE  FALSE
    OBVIOUS
  <2>1. s.gestures[i + 1].id = InLane(s, p).gesture /\ i + 1 \in 1..Len(s.gestures) /\ i + 1 # 1
    BY <1>3, <1>4
  <2> QED  BY <2>1 DEF WorkOK
<1>9. WorkOK(t)
  BY <1>7, <1>8 DEF WorkOK
<1>10. t.gestures # <<>> => t.gestures[1].reservation.state = None /\ ~t.gestures[1].running
  <2>1. t.gestures # <<>> => 1 \in 1..Len(t.gestures)
    BY <1>3, EmptyListed
  <2> QED  BY <1>5, <2>1
<1>11. /\ DragsOK(startHeadReservation(t))
       /\ \A f \in Beside : startHeadReservation(t)[f] = t[f]
  BY <1>1, <1>6, <1>9, <1>10, StartDrags
<1> QED  BY <1>1, <1>2, <1>11

-----------------------------------------------------------------------------
\* What is shown and held keeps its type.
Shown(s) ==
  /\ s.shown \in Orders /\ s.selected \subseteq Entities
  /\ s.drag \in Gestures \cup {None} /\ s.draft \subseteq Gestures
  /\ s.status \in [revision : 0..MaxRevision, dirty : BOOLEAN]

\* The inductive invariant of the drags, beside that of the lane: the renderer is in order, and
\* the project keeps its type.
InOrder(s) == IsLane(s) /\ Listed(s.queue) /\ DragsOK(s) /\ Shown(s)
NativeOK == native \in [revision : 0..MaxRevision, order : Orders, dirty : BOOLEAN]
DragIInv == InOrder(app) /\ NativeOK

\* What a helper of the drags leaves alone.
Apart == Fields \ {"gestures", "drag", "draft", "selected"}

\* Whatever keeps the drags, the lane and the types is in order.
LEMMA Framed ==
  ASSUME NEW s, InOrder(s), NEW t, IsLane(t), t.gestures = s.gestures, t.queue = s.queue,
         t.running = s.running, Shown(t)
  PROVE  InOrder(t)
<1>1. PendingOK(s)
  BY DEF InOrder, DragsOK
<1>2. Kept(t, s)
  BY <1>1, SameKept
<1>3. DragsOK(t)
  BY <1>2, SameLaneDrags DEF InOrder
<1> QED  BY <1>3 DEF InOrder

\* Fields of the lane that are no part of the drags may change.
LEMMA FieldsInOrder ==
  ASSUME NEW s, InOrder(s), NEW t, IsLane(t),
         \A f \in Fields \ {"at", "superseded", "leases", "exclusive", "boolean", "arranging",
                            "reconciling", "phase", "notice"} : t[f] = s[f]
  PROVE  InOrder(t)
<1>1. /\ t.gestures = s.gestures /\ t.queue = s.queue /\ t.running = s.running
      /\ t.shown = s.shown /\ t.selected = s.selected /\ t.drag = s.drag
      /\ t.draft = s.draft /\ t.status = s.status
  BY DEF Fields
<1>2. Shown(t)
  BY <1>1 DEF InOrder, Shown
<1> QED  BY <1>1, <1>2, Framed

LEMMA ShownInOrder ==
  ASSUME NEW s, InOrder(s), NEW order \in Orders
  PROVE  LET t == [s EXCEPT !.shown = order] IN
         InOrder(t) /\ t.shown = order /\ \A f \in Fields \ {"shown"} : t[f] = s[f]
<1> DEFINE t == [s EXCEPT !.shown = order]
<1>1. IsLane(t) /\ t.shown = order /\ \A f \in Fields \ {"shown"} : t[f] = s[f]
  BY DEF InOrder, IsLane, Fields
<1>2. /\ t.gestures = s.gestures /\ t.queue = s.queue /\ t.running = s.running
      /\ t.selected = s.selected /\ t.drag = s.drag /\ t.draft = s.draft /\ t.status = s.status
  BY <1>1 DEF Fields
<1> HIDE DEF t
<1>3. Shown(t)
  BY <1>1, <1>2 DEF InOrder, Shown
<1>4. InOrder(t)
  BY <1>1, <1>2, <1>3, Framed
<1> QED  BY <1>1, <1>4 DEF t

\* A smaller selection, and a drag or a motion that is dropped.
LEMMA DroppedInOrder ==
  ASSUME NEW s, InOrder(s), NEW t, IsLane(t), \A f \in Apart : t[f] = s[f], t.gestures = s.gestures,
         t.selected \subseteq Entities, t.drag \in Gestures \cup {None}, t.draft \subseteq Gestures
  PROVE  InOrder(t)
<1>1. /\ t.queue = s.queue /\ t.running = s.running
      /\ t.shown = s.shown /\ t.status = s.status
  BY DEF Apart, Fields
<1>2. Shown(t)
  BY <1>1 DEF InOrder, Shown
<1> QED  BY <1>1, <1>2, Framed

\* A decided drag, and one that is cancelled.
LEMMA DecidedInOrder ==
  ASSUME NEW s, InOrder(s), NEW d \in {"commit", "abort"}
  PROVE  InOrder(Decided(s, d)) /\ \A f \in Fields \ {"gestures"} : Decided(s, d)[f] = s[f]
<1> DEFINE t == Decided(s, d)
<1>1. IsLane(s) /\ PendingOK(s)
  BY DEF InOrder, DragsOK
<1>2. Kept(t, s) /\ \A f \in Fields \ {"gestures"} : t[f] = s[f]
  BY <1>1, DecidedKept
<1>3. IsLane(t)
  BY <1>1, DecidedFollows DEF Follows
<1> HIDE DEF t
<1>4. /\ t.queue = s.queue /\ t.running = s.running /\ t.shown = s.shown /\ t.selected = s.selected
      /\ t.drag = s.drag /\ t.draft = s.draft /\ t.status = s.status
  BY <1>2 DEF Fields
<1>5. DragsOK(t)
  BY <1>2, <1>4, SameLaneDrags DEF InOrder
<1> QED  BY <1>2, <1>3, <1>4, <1>5 DEF InOrder, Shown, t

LEMMA CancelInOrder ==
  ASSUME NEW s, InOrder(s)
  PROVE  InOrder(cancelDrag(s)) /\ \A f \in Apart : cancelDrag(s)[f] = s[f]
<1> DEFINE r == [s EXCEPT !.draft = @ \ {s.drag}, !.drag = None]
           t == Decided(r, "abort")
<1>1. InOrder(r) /\ \A f \in Apart : r[f] = s[f]
  <2>1. /\ IsLane(r) /\ r.drag = None /\ r.draft = s.draft \ {s.drag} /\ r.selected = s.selected
        /\ r.gestures = s.gestures /\ \A f \in Apart : r[f] = s[f]
    BY DEF InOrder, IsLane, Fields, Apart
  <2>2. s.draft \ {s.drag} \subseteq Gestures /\ s.selected \subseteq Entities
    BY DEF InOrder, Shown
  <2> HIDE DEF r
  <2> QED  BY <2>1, <2>2, DroppedInOrder
<1> HIDE DEF r
<1>2. InOrder(t) /\ \A f \in Fields \ {"gestures"} : t[f] = r[f]
  BY <1>1, DecidedInOrder
<1>3. \A f \in Apart : t[f] = s[f]
  BY <1>1, <1>2 DEF Apart
<1>4. cancelDrag(s) = IF ~Dragging(s) THEN s ELSE t
  BY DEF cancelDrag, r
<1> HIDE DEF t
<1> QED  BY <1>2, <1>3, <1>4

LEMMA ResetInOrder ==
  ASSUME NEW s, InOrder(s)
  PROVE  InOrder(resetForModel(s)) /\ \A f \in Apart : resetForModel(s)[f] = s[f]
<1> DEFINE r == [s EXCEPT !.selected = {}, !.drag = None]
<1>1. InOrder(r) /\ \A f \in Apart : r[f] = s[f]
  <2>1. /\ IsLane(r) /\ r.drag = None /\ r.draft = s.draft /\ r.selected = {}
        /\ r.gestures = s.gestures /\ \A f \in Apart : r[f] = s[f]
    BY DEF InOrder, IsLane, Fields, Apart
  <2>2. s.draft \subseteq Gestures
    BY DEF InOrder, Shown
  <2> HIDE DEF r
  <2> QED  BY <2>1, <2>2, DroppedInOrder
<1>2. resetForModel(s) = r
  BY DEF resetForModel
<1> HIDE DEF r
<1> QED  BY <1>1, <1>2

LEMMA PruneInOrder ==
  ASSUME NEW s, InOrder(s)
  PROVE  InOrder(pruneSelection(s)) /\ \A f \in Apart : pruneSelection(s)[f] = s[f]
<1> DEFINE r == [s EXCEPT !.selected = @ \cap ToSet(s.shown)]
<1>1. InOrder(r) /\ \A f \in Apart : r[f] = s[f]
  <2>1. /\ IsLane(r) /\ r.drag = s.drag /\ r.draft = s.draft /\ r.selected = s.selected \cap ToSet(s.shown)
        /\ r.gestures = s.gestures /\ \A f \in Apart : r[f] = s[f]
    BY DEF InOrder, IsLane, Fields, Apart
  <2>2. /\ s.draft \subseteq Gestures /\ s.drag \in Gestures \cup {None}
        /\ s.selected \cap ToSet(s.shown) \subseteq Entities
    BY DEF InOrder, Shown
  <2> HIDE DEF r
  <2> QED  BY <2>1, <2>2, DroppedInOrder
<1>2. pruneSelection(s) = IF r.selected = {} THEN cancelDrag(r) ELSE r
  BY DEF pruneSelection
<1> HIDE DEF r
<1>3. InOrder(cancelDrag(r)) /\ \A f \in Apart : cancelDrag(r)[f] = r[f]
  BY <1>1, CancelInOrder
<1> QED  BY <1>1, <1>2, <1>3

LEMMA ProjectedInOrder ==
  ASSUME NEW s, InOrder(s), NEW n \in [revision : 0..MaxRevision, order : Orders, dirty : BOOLEAN]
  PROVE  InOrder(Projected(s, n)) /\ \A f \in Fields \ {"status"} : Projected(s, n)[f] = s[f]
<1> DEFINE t == Projected(s, n)
<1>1. /\ IsLane(t) /\ \A f \in Fields \ {"status"} : t[f] = s[f]
      /\ t.status = s.status \/ t.status = Status(n)
  BY DEF InOrder, IsLane, Projected, Fields
<1>2. Status(n) \in [revision : 0..MaxRevision, dirty : BOOLEAN]
  BY DEF Status
<1> HIDE DEF t
<1>3. /\ t.gestures = s.gestures /\ t.queue = s.queue /\ t.running = s.running
      /\ t.shown = s.shown /\ t.selected = s.selected /\ t.drag = s.drag /\ t.draft = s.draft
  BY <1>1 DEF Fields
<1>4. Shown(t)
  BY <1>1, <1>2, <1>3 DEF InOrder, Shown
<1>5. InOrder(t)
  BY <1>1, <1>3, <1>4, Framed
<1> QED  BY <1>1, <1>5 DEF t

\* An operation that is not a drag's settles.
LEMMA SettledInOrder ==
  ASSUME NEW s, InOrder(s), ~OfDrag(s.running), NEW leased
  PROVE  InOrder(Settled(s, leased))
<1> DEFINE t == Settled(s, leased)
<1>1. /\ IsLane(t) /\ t.running = NoOp
      /\ \A f \in Fields \ {"running", "at", "superseded", "leases"} : t[f] = s[f]
  BY DEF InOrder, IsLane, Settled, Fields
<1> HIDE DEF t
<1>2. /\ t.gestures = s.gestures /\ t.queue = s.queue /\ t.shown = s.shown
      /\ t.selected = s.selected /\ t.drag = s.drag /\ t.draft = s.draft /\ t.status = s.status
  BY <1>1 DEF Fields
<1>3. PendingOK(s)
  BY DEF InOrder, DragsOK
<1>4. Kept(t, s)
  BY <1>2, <1>3, SameKept
<1>5. DragsOK(t)
  BY <1>1, <1>2, <1>4, LeavesDrags DEF InOrder
<1>6. InOrder(t)
  BY <1>1, <1>2, <1>5 DEF InOrder, Shown
<1> QED  BY <1>6 DEF t

\* Other work joins a lane with room.
LEMMA EnqueuedInOrder ==
  ASSUME NEW s, InOrder(s), NEW op, ~OfDrag(op), Len(s.queue) < MaxQueue
  PROVE  InOrder(Enqueued(s, op))
<1> DEFINE t == Enqueued(s, op)
<1>1. /\ IsLane(t) /\ t.queue = Append(s.queue, op)
      /\ \A f \in Fields \ {"queue"} : t[f] = s[f]
  BY DEF InOrder, IsLane, Enqueued, Fields
<1> HIDE DEF t
<1>2. /\ t.gestures = s.gestures /\ t.running = s.running /\ t.shown = s.shown
      /\ t.selected = s.selected /\ t.drag = s.drag /\ t.draft = s.draft /\ t.status = s.status
  BY <1>1 DEF Fields
<1>3. DragsOK(t)
  BY <1>1, <1>2, JoinsDrags DEF InOrder
<1>4. Listed(t.queue)
  BY <1>1, AppendListed DEF InOrder
<1>5. InOrder(t)
  BY <1>1, <1>2, <1>3, <1>4 DEF InOrder, Shown
<1> QED  BY <1>5 DEF t

\* The queue stays a sequence when a drag gets its turn.
LEMMA StartListed ==
  ASSUME NEW s, IsLane(s), Listed(s.queue)
  PROVE  Listed(startHeadReservation(s).queue)
<1> DEFINE q == [s.gestures EXCEPT ![1].reservation.state = "asked"]
           h == [s.gestures EXCEPT ![1].reservation.state = "refused"]
           op == Op("reserve", Head(s.gestures).id)
<1>1. \A g : [s EXCEPT !.gestures = g].queue = s.queue /\ IsLane([s EXCEPT !.gestures = g])
  BY DEF IsLane, Fields
<1>2. ASSUME NEW r, IsLane(r), r.queue = s.queue
      PROVE  Listed(Enqueued(r, op).queue)
  <2>1. Enqueued(r, op).queue = Append(s.queue, op)
    BY <1>2 DEF Enqueued, IsLane, Fields
  <2> QED  BY ZenonT(60), <2>1, AppendListed
<1> HIDE DEF op
<1>3. Listed(Enqueued([s EXCEPT !.gestures = q], op).queue)
  BY <1>1, <1>2
<1>4. Listed([s EXCEPT !.gestures = h].queue)
  BY <1>1
<1> QED  BY <1>3, <1>4 DEF startHeadReservation, op

LEMMA FinishListed ==
  ASSUME NEW s, IsLane(s), Listed(s.queue)
  PROVE  Listed(finish(s).queue)
<1> DEFINE r == [s EXCEPT !.gestures = Tail(@)]
<1>1. IsLane(r) /\ r.queue = s.queue
  BY DEF IsLane, Fields
<1> HIDE DEF r
<1>2. Listed(startHeadReservation(r).queue)
  BY <1>1, StartListed
<1> QED  BY <1>2 DEF finish, r

\* A transform is the only one in the lane: it settles, and its drag leaves with it.
LEMMA TransformInOrder ==
  ASSUME NEW s, InOrder(s), s.running.kind = "transform", NEW leased
  PROVE  InOrder(finish(Settled(s, leased)))
<1> DEFINE t == Settled(s, leased)
           u == finish(t)
<1>1. /\ IsLane(t) /\ t.running = NoOp
      /\ \A f \in Fields \ {"running", "at", "superseded", "leases"} : t[f] = s[f]
  BY DEF InOrder, IsLane, Settled, Fields
<1> HIDE DEF t
<1>2. /\ t.gestures = s.gestures /\ t.queue = s.queue /\ t.shown = s.shown
      /\ t.selected = s.selected /\ t.drag = s.drag /\ t.draft = s.draft /\ t.status = s.status
  BY <1>1 DEF Fields
<1>3. PendingOK(s) /\ WorkOK(s) /\ Listed(s.queue)
  BY DEF InOrder, DragsOK
<1>4. PendingOK(t)
  BY <1>2, <1>3 DEF PendingOK
<1>5. /\ Places(t) = Places(s) /\ 0 \in Places(s) /\ InLane(t, 0) = NoOp /\ InLane(s, 0) = s.running
      /\ \A p \in Places(s) : p = 0 \/ InLane(t, p) = InLane(s, p)
  BY <1>1, <1>2, <1>3, EmptyListed DEF Places, InLane
<1>6. s.gestures # <<>> /\ s.gestures[1].id = s.running.gesture /\ OfDrag(s.running)
  BY <1>3, <1>5 DEF WorkOK, OfDrag
<1>7. \A p \in Places(t) : InLane(t, p).kind # "transform"
  <2> SUFFICES ASSUME NEW p \in Places(t), InLane(t, p).kind = "transform" PROVE FALSE
    OBVIOUS
  <2>1. p # 0 /\ InLane(s, p).kind = "transform" /\ p \in Places(s)
    BY <1>5, NoDrag DEF OfDrag
  <2>2. InLane(s, p).gesture = s.running.gesture /\ OfDrag(InLane(s, p))
    BY <1>3, <1>6, <2>1 DEF WorkOK, OfDrag
  <2> QED  BY <1>3, <1>5, <1>6, <2>1, <2>2 DEF WorkOK
<1>8. WorkOK(t)
  <2>1. \A p \in Places(t) : OfDrag(InLane(t, p)) => p # 0 /\ InLane(t, p) = InLane(s, p)
    BY <1>5, NoDrag
  <2>2. MaxQueue \in Nat
    BY LaneAssumption
  <2>3. \A p \in Places(t) : p > MaxQueue => OfDrag(InLane(t, p))
    BY <1>3, <1>5, <2>2 DEF WorkOK
  <2>4. \A p \in Places(t) : InLane(t, p).kind = "reserve" => OfDrag(InLane(t, p))
    BY DEF OfDrag
  <2>5. \A p \in Places(t) : InLane(t, p).kind = "reserve" => \A i \in 1..Len(s.gestures) :
          s.gestures[i].id = InLane(t, p).gesture => i = 1 /\ s.gestures[1].reservation.state = "asked"
    BY <1>3, <1>5, <2>1, <2>4 DEF WorkOK
  <2>6. \A p \in Places(t) : OfDrag(InLane(t, p)) => InLane(t, p).gesture \in Gestures
    BY <1>3, <1>5, <2>1 DEF WorkOK
  <2>7. \A p \in Places(t), q \in Places(t) :
          OfDrag(InLane(t, p)) /\ OfDrag(InLane(t, q)) /\ InLane(t, p).gesture = InLane(t, q).gesture => p = q
    BY <1>3, <1>5, <2>1 DEF WorkOK
  <2> QED  BY <1>2, <1>7, <2>3, <2>5, <2>6, <2>7 DEF WorkOK
<1>9. DragsOK(u) /\ \A f \in Beside : u[f] = t[f]
  BY <1>1, <1>2, <1>3, <1>4, <1>6, <1>7, <1>8, FinishDrags
<1>10. Follows(u, t)
  BY <1>1, FinishFollows
<1>11. Listed(u.queue)
  BY <1>1, <1>2, <1>3, FinishListed
<1> HIDE DEF u
<1>12. /\ u.shown = s.shown /\ u.selected = s.selected /\ u.drag = s.drag
       /\ u.draft = s.draft /\ u.status = s.status
  BY <1>2, <1>9 DEF Beside, Fields
<1>13. InOrder(u)
  BY <1>9, <1>10, <1>11, <1>12 DEF InOrder, Shown, Follows
<1> QED  BY <1>13 DEF u, t

\* The head leaves while no transform is in the lane.
LEMMA FinishInOrder ==
  ASSUME NEW s, InOrder(s), s.gestures # <<>>, ~s.gestures[1].running
  PROVE  InOrder(finish(s))
<1> DEFINE u == finish(s)
<1>1. PendingOK(s) /\ WorkOK(s) /\ Listed(s.queue) /\ IsLane(s)
  BY DEF InOrder, DragsOK
<1>2. \A p \in Places(s) : InLane(s, p).kind # "transform"
  BY <1>1 DEF WorkOK
<1>3. DragsOK(u) /\ \A f \in Beside : u[f] = s[f]
  BY <1>1, <1>2, FinishDrags
<1>4. Follows(u, s)
  BY <1>1, FinishFollows
<1>5. Listed(u.queue)
  BY <1>1, FinishListed
<1> HIDE DEF u
<1>6. /\ u.shown = s.shown /\ u.selected = s.selected /\ u.drag = s.drag
      /\ u.draft = s.draft /\ u.status = s.status
  BY <1>3 DEF Beside, Fields
<1>7. InOrder(u)
  BY <1>3, <1>4, <1>5, <1>6 DEF InOrder, Shown, Follows
<1> QED  BY <1>7 DEF u

\* The head of the pending drags, with its flag set, queues its transform.
LEMMA PumpInOrder ==
  ASSUME InOrder(app), Pump
  PROVE  InOrder(app')
<1> DEFINE g == app.gestures[1]
           n == Len(app.queue)
           op == Op("transform", g.id)
           h == [g EXCEPT !.running = TRUE]
           q == Put(app.gestures, 1, h)
           r == [app EXCEPT !.gestures = q]
           t == Enqueued(r, op)
<1>1. /\ PendingOK(app) /\ WorkOK(app) /\ HeadOK(app) /\ Listed(app.queue) /\ IsLane(app)
      /\ app.gestures # <<>> /\ Listed(app.gestures)
  BY DEF InOrder, DragsOK, Pump, PumpDue, PendingOK, Listed
<1>2. Head(app.gestures) = g /\ Len(app.gestures) \in Nat \ {0} /\ 1 \in 1..Len(app.gestures)
  BY <1>1, TailListed
<1>3. ~g.running /\ (g.decision = "abort" \/ (g.decision = "commit" /\ g.reservation.state \in {"held", "refused"}))
  BY <1>2 DEF Pump, PumpDue, Pumpable
<1>4. InOrder(finish(app))
  BY <1>1, <1>3, FinishInOrder
<1>5. InOrder(finish([app EXCEPT !.reconciling = TRUE]))
  <2> DEFINE x == [app EXCEPT !.reconciling = TRUE]
  <2>1. IsLane(x) /\ \A f \in Fields \ {"reconciling"} : x[f] = app[f]
    BY <1>1 DEF IsLane, Fields
  <2> HIDE DEF x
  <2>2. InOrder(x)
    BY <2>1, FieldsInOrder
  <2>3. x.gestures = app.gestures
    BY <2>1 DEF Fields
  <2>4. InOrder(finish(x))
    BY <1>1, <1>3, <2>2, <2>3, FinishInOrder
  <2> QED  BY <2>4 DEF x
<1>6. ASSUME g.decision # "abort", g.reservation.state # "refused" PROVE InOrder(t)
  <2>1. g.reservation.state = "held"
    BY <1>3, <1>6
  <2>2. IsGesture(g)
    BY <1>1, <1>2 DEF PendingOK
  <2>3. IsGesture(h) /\ h.id = g.id /\ h.running /\ h.reservation = g.reservation
    BY <2>2 DEF IsGesture
  <2> HIDE DEF h
  <2>4. /\ Listed(q) /\ Len(q) = Len(app.gestures)
        /\ \A j \in 1..Len(app.gestures) : q[j] = IF j = 1 THEN h ELSE app.gestures[j]
    BY <1>1, PutListed
  <2> HIDE DEF q
  <2>5. /\ IsLane(r) /\ r.gestures = q /\ \A f \in Fields \ {"gestures"} : r[f] = app[f]
    BY <1>1 DEF IsLane, Fields
  <2> HIDE DEF r, op
  <2>6. /\ IsLane(t) /\ t.queue = Append(r.queue, op)
        /\ \A f \in Fields \ {"queue"} : t[f] = r[f]
    BY <2>5 DEF IsLane, Enqueued, Fields
  <2> HIDE DEF t
  <2>7. /\ t.gestures = q /\ t.queue = Append(app.queue, op) /\ t.running = app.running
        /\ t.shown = app.shown /\ t.selected = app.selected /\ t.drag = app.drag
        /\ t.draft = app.draft /\ t.status = app.status
    BY <2>5, <2>6 DEF Fields
  <2>8. /\ Listed(t.queue) /\ n \in Nat /\ Len(t.queue) = n + 1 /\ t.queue[n + 1] = op
        /\ \A i \in 1..n : t.queue[i] = app.queue[i]
    BY <1>1, <2>7, AppendListed
  <2>9. /\ Places(app) = 0..n /\ Places(t) = 0..n + 1 /\ InLane(t, n + 1) = op
        /\ \A p \in 0..n : InLane(t, p) = InLane(app, p)
    BY <2>7, <2>8 DEF Places, InLane
  <2>10. OfDrag(op) /\ op.kind = "transform" /\ op.gesture = g.id /\ g.id \in Gestures
    BY <2>2 DEF OfDrag, Op, IsGesture, op
  <2>11. \A p \in 0..n : OfDrag(InLane(app, p)) => /\ InLane(app, p).kind = "reserve"
                                                  /\ InLane(app, p).gesture # g.id
    BY <1>1, <1>2, <1>3, <2>1, <2>9 DEF WorkOK, OfDrag
  <2>12. t.gestures # <<>>
    BY <1>2, <2>4, <2>7, EmptyListed
  <2>13. /\ t.gestures[1].id = g.id /\ t.gestures[1].running /\ t.gestures[1].reservation.state = "held"
         /\ Len(t.gestures) = Len(app.gestures)
         /\ \A i \in 1..Len(app.gestures) : t.gestures[i].id = app.gestures[i].id
    BY <1>2, <2>1, <2>3, <2>4, <2>7
  <2>14. PendingOK(t)
    <3>1. \A j \in 1..Len(app.gestures) : IsGesture(t.gestures[j])
      BY <1>1, <2>3, <2>4, <2>7 DEF PendingOK
    <3>2. \A j \in 2..Len(app.gestures) : j \in 1..Len(app.gestures) /\ t.gestures[j] = app.gestures[j]
      BY <1>2, <2>4, <2>7
    <3>3. Listed(t.gestures)
      BY <2>4, <2>7
    <3> HIDE DEF g
    <3> QED  BY <1>1, <2>13, <3>1, <3>2, <3>3 DEF PendingOK, Listed
  <2> HIDE DEF g, n
  <2>15. HeadOK(t)
    <3>1. n + 1 \in Places(t) /\ InLane(t, n + 1) = Op("transform", t.gestures[1].id)
      BY <2>8, <2>9, <2>13 DEF op
    <3> QED  BY <2>13, <3>1 DEF HeadOK, None
  <2>16. WorkOK(t)
    <3>1. MaxQueue \in Nat
      BY LaneAssumption
    <3>2. \A p \in Places(t) : p > MaxQueue => OfDrag(InLane(t, p))
      BY <1>1, <2>8, <2>9, <2>10 DEF WorkOK
    <3>3. \A p \in Places(t) : OfDrag(InLane(t, p)) => InLane(t, p).gesture \in Gestures
      BY <1>1, <2>8, <2>9, <2>10 DEF WorkOK
    <3>4. \A p \in Places(t) : InLane(t, p).kind = "transform" => InLane(t, p).gesture = g.id
      <4>1. \A p \in 0..n : InLane(app, p).kind # "transform"
        BY <2>11 DEF OfDrag
      <4> QED  BY <2>8, <2>9, <2>10, <4>1
    <3>5. \A p \in Places(t) : InLane(t, p).kind = "reserve" =>
            \A i \in 1..Len(t.gestures) : t.gestures[i].id # InLane(t, p).gesture
      <4> SUFFICES ASSUME NEW p \in Places(t), InLane(t, p).kind = "reserve",
                          NEW i \in 1..Len(t.gestures), t.gestures[i].id = InLane(t, p).gesture
                   PROVE  FALSE
        OBVIOUS
      <4>1. p \in 0..n /\ InLane(t, p) = InLane(app, p)
        BY <2>8, <2>9, <2>10
      <4>2. InLane(app, p).gesture # g.id /\ app.gestures[i].id = InLane(app, p).gesture
        BY <2>11, <2>13, <4>1 DEF OfDrag
      <4>3. i = 1
        BY <1>1, <2>9, <2>13, <4>1, <4>2 DEF WorkOK
      <4> QED  BY <4>2, <4>3 DEF g
    <3>6. ASSUME NEW p \in Places(t), NEW x \in Places(t), OfDrag(InLane(t, p)), OfDrag(InLane(t, x)),
                 InLane(t, p).gesture = InLane(t, x).gesture
          PROVE  p = x
      <4>1. CASE p \in 0..n /\ x \in 0..n
        BY <1>1, <2>9, <3>6, <4>1 DEF WorkOK
      <4>2. CASE p = n + 1 /\ x \in 0..n
        BY <2>9, <2>10, <2>11, <3>6, <4>2
      <4>3. CASE p \in 0..n /\ x = n + 1
        BY <2>9, <2>10, <2>11, <3>6, <4>3
      <4> QED  BY <2>8, <2>9, <4>1, <4>2, <4>3
    <3> QED  BY <2>12, <2>13, <3>2, <3>3, <3>4, <3>5, <3>6 DEF WorkOK
  <2> QED  BY <2>6, <2>7, <2>8, <2>14, <2>15, <2>16 DEF InOrder, DragsOK, Shown
<1>7. app' = IF g.decision = "abort" THEN finish(app)
             ELSE IF g.reservation.state = "refused" THEN finish([app EXCEPT !.reconciling = TRUE])
             ELSE IF Admitted(app, "transform") THEN t
             ELSE finish(app)
  BY <1>2 DEF Pump, Put
<1> HIDE DEF t
<1> QED  BY <1>4, <1>5, <1>6, <1>7

\* The running operation changes and the queue is as it was, or shorter by its head.
LEMMA DrainInOrder ==
  ASSUME InOrder(app), Drain
  PROVE  InOrder(app')
<1> DEFINE r == [app EXCEPT !.queue = Tail(@)]
           op == Head(app.queue)
<1>1. /\ IsLane(app) /\ Listed(app.queue) /\ DragsOK(app) /\ app.running = NoOp /\ app.queue # <<>>
      /\ app' = Started(r, op)
  BY DEF InOrder, Drain, DrainDue
<1>2. IsLane(r) /\ r.queue = Tail(app.queue) /\ \A f \in Fields \ {"queue"} : r[f] = app[f]
  BY <1>1 DEF IsLane, Fields
<1> HIDE DEF r, op
<1>3. /\ IsLane(app') /\ app'.running = op
      /\ \A f \in Fields \ {"running", "at", "superseded", "leases", "arranging", "phase", "notice"} : app'[f] = r[f]
  BY <1>1, <1>2 DEF Started, IsLane, Fields
<1>4. /\ app'.gestures = app.gestures /\ app'.queue = Tail(app.queue) /\ app'.running = Head(app.queue)
      /\ app'.shown = app.shown /\ app'.selected = app.selected /\ app'.drag = app.drag
      /\ app'.draft = app.draft /\ app'.status = app.status
  BY <1>2, <1>3 DEF Fields, op
<1>5. DragsOK(app')
  BY <1>1, <1>4, DrainsDrags
<1>6. Listed(app'.queue)
  BY <1>1, <1>4, TailListed
<1> QED  BY <1>3, <1>4, <1>5, <1>6 DEF InOrder, Shown

\* What an order holds.
LEMMA OrderShows ==
  ASSUME NEW order \in Orders
  PROVE  /\ order \in Seq(Entities) /\ Len(order) \in 0..Cardinality(Entities)
         /\ order \in [1..Len(order) -> Entities]
         /\ ToSet(order) \subseteq Entities
         /\ \A i, j \in 1..Len(order) : order[i] = order[j] => i = j
<1>1. PICK n \in 0..Cardinality(Entities) : order \in [1..n -> Entities]
  BY DEF Orders
<1>0. Cardinality(Entities) \in Nat
  BY FiniteAssumption, FS_CardinalityType
<1>2. n \in Nat /\ order \in Seq(Entities)
  BY <1>0, <1>1, SeqDef
<1>3. Len(order) = n
  BY <1>1, <1>2, LenProperties
<1>4. DOMAIN order = 1..n
  BY <1>1
<1>5. ToSet(order) \subseteq Entities
  BY <1>1, <1>4 DEF ToSet
<1>6. \A i, j \in 1..n : order[i] = order[j] => i = j
  BY <1>4 DEF Orders, IsInjective
<1> QED  BY <1>1, <1>2, <1>3, <1>5, <1>6

\* A drag begins: it joins the pending ones, and reserves if it is the only one.
LEMMA BeginInOrder ==
  ASSUME InOrder(app), Begin
  PROVE  InOrder(app')
<1>1. PICK es \in SUBSET ToSet(app.shown) \ {{}},
           id \in Gestures \ ({g.id : g \in ToSet(app.gestures)} \cup app.draft
                             \cup {o.gesture : o \in ToSet(Append(app.queue, app.running))}) :
        app' = startHeadReservation([app EXCEPT
         !.selected = es, !.drag = id, !.draft = @ \cup {id},
         !.gestures = Append(@, [id |-> id, start |-> Positions(app.shown, es),
           final |-> {}, decision |-> None, reservation |-> NoReservation, running |-> FALSE])])
  BY DEF Begin
<1> DEFINE h == [id |-> id, start |-> Positions(app.shown, es),
                 final |-> {}, decision |-> None, reservation |-> NoReservation, running |-> FALSE]
           m == Len(app.gestures)
           t == [app EXCEPT !.selected = es, !.drag = id, !.draft = @ \cup {id}, !.gestures = Append(@, h)]
           u == startHeadReservation(t)
<1>2. /\ PendingOK(app) /\ WorkOK(app) /\ HeadOK(app) /\ Listed(app.queue) /\ IsLane(app)
      /\ Listed(app.gestures) /\ Shown(app) /\ m \in Nat
  BY EmptyListed DEF InOrder, DragsOK, PendingOK, Listed
<1>3. /\ IsLane(t) /\ t.selected = es /\ t.drag = id /\ t.draft = app.draft \cup {id}
      /\ t.gestures = Append(app.gestures, h)
      /\ \A f \in Fields \ {"selected", "drag", "draft", "gestures"} : t[f] = app[f]
  BY <1>2 DEF IsLane, Fields
<1>4. IsGesture(h) /\ h.id = id /\ ~h.running /\ h.reservation.state = None
  BY DEF IsGesture, NoReservation
<1>5. app' = u
  BY <1>1
<1> HIDE DEF h, t
<1>6. /\ t.queue = app.queue /\ t.running = app.running /\ t.shown = app.shown /\ t.status = app.status
  BY <1>3 DEF Fields
<1>7. /\ Listed(t.gestures) /\ Len(t.gestures) = m + 1 /\ t.gestures[m + 1] = h /\ t.gestures # <<>>
      /\ \A i \in 1..m : t.gestures[i] = app.gestures[i]
  BY <1>2, <1>3, AppendListed
<1> HIDE DEF m
<1>8. \A i \in 1..m : app.gestures[i].id # id
  <2>1. PICK S : app.gestures \in Seq(S)
    BY <1>2 DEF Listed
  <2>2. DOMAIN app.gestures = 1..m
    BY <2>1, LenProperties DEF m
  <2>3. \A i \in 1..m : app.gestures[i] \in ToSet(app.gestures)
    BY <2>2 DEF ToSet
  <2>4. id \notin {g.id : g \in ToSet(app.gestures)}
    OBVIOUS
  <2> QED  BY <2>3, <2>4
<1>9. \A p \in Places(app) : InLane(app, p).gesture # id
  <2>1. id \notin {o.gesture : o \in ToSet(Append(app.queue, app.running))}
    OBVIOUS
  <2>2. Places(app) = 0..Len(app.queue) /\ Len(app.queue) \in Nat
    BY <1>2, EmptyListed DEF Places
  <2> DEFINE q == Append(app.queue, app.running)
             k == Len(app.queue)
  <2>3. /\ Listed(q) /\ Len(q) = k + 1 /\ q[k + 1] = app.running
        /\ \A i \in 1..k : q[i] = app.queue[i]
    BY <1>2, AppendListed
  <2>4. PICK S : q \in Seq(S)
    BY <2>3 DEF Listed
  <2>5. DOMAIN q = 1..k + 1
    BY <2>3, <2>4, LenProperties
  <2>6. app.running \in ToSet(q) /\ \A i \in 1..k : app.queue[i] \in ToSet(q)
    BY <2>2, <2>3, <2>5 DEF ToSet
  <2> HIDE DEF q, k
  <2>7. id \notin {o.gesture : o \in ToSet(q)}
    BY <2>1 DEF q
  <2> QED  BY <2>2, <2>6, <2>7 DEF InLane, k
<1>10. PendingOK(t)
  <2>1. \A i \in 1..m + 1 : IsGesture(t.gestures[i])
    BY <1>2, <1>4, <1>7 DEF PendingOK, m
  <2>2. ASSUME NEW i \in 1..m + 1, NEW j \in 1..m + 1, t.gestures[i].id = t.gestures[j].id
        PROVE  i = j
    <3>1. CASE i \in 1..m /\ j \in 1..m
      BY <1>2, <1>7, <2>2, <3>1 DEF PendingOK, m
    <3>2. CASE i = m + 1 \/ j = m + 1
      <4>1. \A k \in 1..m : t.gestures[k].id # id
        BY <1>7, <1>8
      <4> QED  BY <1>2, <1>4, <1>7, <2>2, <3>2, <4>1
    <3> QED  BY <1>2, <3>1, <3>2
  <2>3. ASSUME NEW i \in 2..m + 1
        PROVE  ~t.gestures[i].running /\ t.gestures[i].reservation.state = None
    <3>1. CASE i \in 1..m
      <4>1. i \in 2..m
        BY <1>2, <2>3, <3>1
      <4> QED  BY <1>2, <1>7, <3>1, <4>1 DEF PendingOK, m
    <3>2. CASE i = m + 1
      BY <1>4, <1>7, <3>2
    <3> QED  BY <1>2, <3>1, <3>2
  <2> QED  BY <1>7, <2>1, <2>2, <2>3 DEF PendingOK, Listed
<1>11. Places(t) = Places(app) /\ \A p : InLane(t, p) = InLane(app, p)
  BY <1>6 DEF Places, InLane
<1>12. app.gestures # <<>> => m # 0 /\ t.gestures[1] = app.gestures[1]
  <2>1. app.gestures # <<>> => m # 0
    BY <1>2, EmptyListed DEF m
  <2> QED  BY <1>2, <1>7, <2>1
<1>13. WorkOK(t)
  <2>1. \A p \in Places(app) : InLane(app, p).kind = "reserve" => \A i \in 1..m + 1 :
          t.gestures[i].id = InLane(app, p).gesture => i = 1 /\ t.gestures[1].reservation.state = "asked"
    <3> SUFFICES ASSUME NEW p \in Places(app), InLane(app, p).kind = "reserve", NEW i \in 1..m + 1,
                        t.gestures[i].id = InLane(app, p).gesture
                 PROVE  i = 1 /\ t.gestures[1].reservation.state = "asked"
      OBVIOUS
    <3>1. i # m + 1
      BY <1>4, <1>7, <1>9
    <3>2. i \in 1..m /\ app.gestures[i].id = InLane(app, p).gesture
      BY <1>2, <1>7, <3>1
    <3>3. i = 1 /\ app.gestures[1].reservation.state = "asked"
      BY <1>2, <3>2 DEF WorkOK, m
    <3> QED  BY <1>7, <3>2, <3>3
  <2> QED  BY <1>2, <1>7, <1>11, <1>12, <2>1 DEF WorkOK
<1>14. t.gestures[1].reservation.state # None => HeadOK(t)
  <2>1. CASE app.gestures = <<>>
    <3>1. m = 0
      BY <1>2, <2>1, EmptyListed DEF m
    <3> QED  BY <1>4, <1>7, <3>1
  <2>2. CASE app.gestures # <<>>
    BY <1>2, <1>11, <1>12, <2>2 DEF HeadOK
  <2> QED  BY <2>1, <2>2
<1>15. t.gestures[1].reservation.state = None => ~t.gestures[1].running
  <2>1. CASE app.gestures = <<>>
    <3>1. m = 0
      BY <1>2, <2>1, EmptyListed DEF m
    <3> QED  BY <1>4, <1>7, <3>1
  <2>2. CASE app.gestures # <<>>
    BY <1>2, <1>12, <2>2 DEF HeadOK
  <2> QED  BY <2>1, <2>2
<1>16. DragsOK(u) /\ \A f \in Beside : u[f] = t[f]
  BY <1>2, <1>3, <1>6, <1>10, <1>13, <1>14, <1>15, StartDrags
<1>17. Listed(u.queue)
  BY <1>2, <1>3, <1>6, StartListed
<1>18. IsLane(u)
  BY <1>3, StartHeadReservationFollows DEF Follows
<1> HIDE DEF u
<1>19. /\ u.shown = app.shown /\ u.selected = es /\ u.drag = id
       /\ u.draft = app.draft \cup {id} /\ u.status = app.status
  BY <1>3, <1>6, <1>16 DEF Beside, Fields
<1>20. es \subseteq Entities
  BY <1>2, OrderShows DEF Shown
<1>21. Shown(u)
  BY <1>2, <1>19, <1>20 DEF Shown
<1> QED  BY <1>5, <1>16, <1>17, <1>18, <1>21 DEF InOrder

\* The reservation is answered: the head, if it is still the one that asked, holds it or is refused.
LEMMA ReserveInOrder ==
  ASSUME InOrder(app), ReserveAnswers
  PROVE  InOrder(app')
<1> DEFINE s == Settled(app, FALSE)
           mine == {i \in DOMAIN s.gestures : s.gestures[i].id = app.running.gesture}
<1>1. /\ PendingOK(app) /\ WorkOK(app) /\ HeadOK(app) /\ Listed(app.queue) /\ IsLane(app)
      /\ Listed(app.gestures) /\ Shown(app) /\ app.running.kind = "reserve"
  BY DEF InOrder, DragsOK, PendingOK, Listed, ReserveAnswers, Answers, Kind
<1>2. /\ IsLane(s) /\ s.running = NoOp
      /\ \A f \in Fields \ {"running", "at", "superseded", "leases"} : s[f] = app[f]
  BY <1>1 DEF IsLane, Settled, Fields
<1>3. PICK r : /\ r.state \in {"held", "refused"} /\ r = [f \in {"state", "revision", "targets"} |-> r[f]]
               /\ app' = IF mine = {} THEN s
                         ELSE [s EXCEPT !.gestures = Put(s.gestures, CHOOSE j \in mine : TRUE,
                                 [s.gestures[CHOOSE j \in mine : TRUE] EXCEPT !.reservation = r])]
  <2> DEFINE i == CHOOSE j \in mine : TRUE
             start == s.gestures[i].start
             r == IF start \subseteq DOMAIN native.order
                  THEN [state |-> "held", revision |-> native.revision,
                        targets |-> [p \in start |-> native.order[p]]]
                  ELSE [NoReservation EXCEPT !.state = "refused"]
  <2>1. r.state \in {"held", "refused"} /\ r = [f \in {"state", "revision", "targets"} |-> r[f]]
    <3> DEFINE a(n, x) == [state |-> "held", revision |-> n, targets |-> x]
               b == [NoReservation EXCEPT !.state = "refused"]
    <3>1. \A n, x : a(n, x).state = "held" /\ a(n, x) = [f \in {"state", "revision", "targets"} |-> a(n, x)[f]]
      OBVIOUS
    <3>2. b.state = "refused" /\ b = [f \in {"state", "revision", "targets"} |-> b[f]]
      BY DEF NoReservation
    <3>3. r = a(native.revision, [p \in start |-> native.order[p]]) \/ r = b
      OBVIOUS
    <3> HIDE DEF a, b, r
    <3> QED  BY <3>1, <3>2, <3>3
  <2>2. app' = IF mine = {} THEN s
               ELSE [s EXCEPT !.gestures = Put(s.gestures, i, [s.gestures[i] EXCEPT !.reservation = r])]
    BY DEF ReserveAnswers, Put
  <2> HIDE DEF r, mine, s
  <2> QED  BY <2>1, <2>2
<1> HIDE DEF s
<1>4. /\ s.gestures = app.gestures /\ s.queue = app.queue /\ s.shown = app.shown
      /\ s.selected = app.selected /\ s.drag = app.drag /\ s.draft = app.draft /\ s.status = app.status
  BY <1>2 DEF Fields
<1>5. /\ Places(s) = Places(app) /\ 0 \in Places(app) /\ InLane(app, 0) = app.running /\ InLane(s, 0) = NoOp
      /\ \A p \in Places(app) : p = 0 \/ InLane(s, p) = InLane(app, p)
  BY <1>1, <1>2, <1>4, EmptyListed DEF Places, InLane
<1>6. PICK S : app.gestures \in Seq(S)
  BY <1>1 DEF Listed
<1>7. DOMAIN app.gestures = 1..Len(app.gestures) /\ Len(app.gestures) \in Nat
  BY <1>6, LenProperties
<1>8. \A p \in Places(s) : OfDrag(InLane(s, p)) =>
        p # 0 /\ InLane(s, p) = InLane(app, p) /\ InLane(s, p).gesture # app.running.gesture
  <2> SUFFICES ASSUME NEW p \in Places(s), OfDrag(InLane(s, p))
               PROVE  p # 0 /\ InLane(s, p) = InLane(app, p) /\ InLane(s, p).gesture # app.running.gesture
    OBVIOUS
  <2>1. p # 0 /\ InLane(s, p) = InLane(app, p)
    BY <1>5, NoDrag
  <2>2. OfDrag(app.running)
    BY <1>1 DEF OfDrag
  <2> QED  BY <1>1, <1>5, <2>1, <2>2 DEF WorkOK
<1>9. /\ \A p \in Places(s) : p > MaxQueue => OfDrag(InLane(s, p))
      /\ \A p \in Places(s) : OfDrag(InLane(s, p)) => InLane(s, p).gesture \in Gestures
      /\ \A p \in Places(s), q \in Places(s) :
           OfDrag(InLane(s, p)) /\ OfDrag(InLane(s, q)) /\ InLane(s, p).gesture = InLane(s, q).gesture => p = q
  <2>1. MaxQueue \in Nat
    BY LaneAssumption
  <2> QED  BY <1>1, <1>5, <1>8, <2>1 DEF WorkOK
<1>10. CASE mine = {}
  <2>1. \A i \in 1..Len(app.gestures) : app.gestures[i].id # app.running.gesture
    BY <1>4, <1>7, <1>10
  <2>2. PendingOK(s)
    BY <1>1, <1>4 DEF PendingOK
  <2>3. HeadOK(s)
    <3> SUFFICES ASSUME s.gestures # <<>> PROVE HeadOK(s)
      BY DEF HeadOK
    <3> DEFINE g == app.gestures[1]
    <3>1. g.id # app.running.gesture
      BY <1>1, <1>4, <1>7, <2>1, EmptyListed
    <3>2. \A p \in Places(app) : (InLane(app, p) = Op("reserve", g.id) \/ InLane(app, p) = Op("transform", g.id)) => p # 0
      BY <1>5, <3>1, <1>1 DEF Op
    <3> QED  BY <1>1, <1>4, <1>5, <3>2 DEF HeadOK
  <2>4. WorkOK(s)
    <3>1. \A p \in Places(s) : InLane(s, p).kind \in {"reserve", "transform"} => InLane(s, p) = InLane(app, p)
      BY <1>8 DEF OfDrag
    <3> QED  BY <1>1, <1>4, <1>5, <1>9, <3>1 DEF WorkOK
  <2> QED  BY <1>1, <1>2, <1>3, <1>4, <1>10, <2>2, <2>3, <2>4 DEF InOrder, DragsOK, Shown
<1>11. CASE mine # {}
  <2> DEFINE i == CHOOSE j \in mine : TRUE
             g == app.gestures[1]
             h == [g EXCEPT !.reservation = r]
             q == Put(app.gestures, 1, h)
  <2>1. i \in 1..Len(app.gestures) /\ app.gestures[i].id = app.running.gesture
    BY <1>4, <1>7, <1>11
  <2>2. i = 1 /\ g.reservation.state = "asked"
    BY <1>1, <1>5, <2>1 DEF WorkOK
  <2>3. app' = [s EXCEPT !.gestures = q]
    BY <1>3, <1>4, <1>11, <2>2
  <2>4. IsGesture(g) /\ app.gestures # <<>> /\ 1 \in 1..Len(app.gestures)
    <3>1. 1 \in 1..Len(app.gestures)
      BY <2>1, <2>2
    <3>2. app.gestures # <<>>
      BY <1>1, <1>7, <3>1, EmptyListed
    <3> QED  BY <1>1, <3>1, <3>2 DEF PendingOK
  <2>5. IsGesture(h) /\ h.id = g.id /\ h.running = g.running /\ h.reservation = r
    BY <1>3, <2>4 DEF IsGesture
  <2>6. ~g.running
    BY <1>1, <2>2, <2>4 DEF HeadOK
  <2> HIDE DEF h
  <2>7. /\ Listed(q) /\ Len(q) = Len(app.gestures)
        /\ \A j \in 1..Len(app.gestures) : q[j] = IF j = 1 THEN h ELSE app.gestures[j]
    BY <1>1, PutListed
  <2> HIDE DEF q
  <2>8. IsLane(app') /\ app'.gestures = q /\ \A f \in Fields \ {"gestures"} : app'[f] = s[f]
    BY <1>2, <2>3 DEF IsLane, Fields
  <2>9. /\ app'.queue = app.queue /\ app'.running = s.running /\ app'.shown = app.shown
        /\ app'.selected = app.selected /\ app'.drag = app.drag /\ app'.draft = app.draft /\ app'.status = app.status
    BY <1>4, <2>8 DEF Fields
  <2>10. Places(app') = Places(s) /\ \A p : InLane(app', p) = InLane(s, p)
    BY <1>4, <2>9 DEF Places, InLane
  <2> HIDE DEF i
  <2>11. PendingOK(app')
    <3>1. \A j \in 1..Len(app.gestures) : IsGesture(app'.gestures[j]) /\ app'.gestures[j].id = app.gestures[j].id
      BY <1>1, <2>5, <2>7, <2>8 DEF PendingOK
    <3>2. \A j \in 2..Len(app.gestures) : j \in 1..Len(app.gestures) /\ app'.gestures[j] = app.gestures[j]
      BY <1>7, <2>7, <2>8
    <3>3. Listed(app'.gestures) /\ Len(app'.gestures) = Len(app.gestures)
      BY <2>7, <2>8
    <3> HIDE DEF g
    <3> QED  BY <1>1, <3>1, <3>2, <3>3 DEF PendingOK, Listed
  <2>12. app'.gestures[1] = h
    BY <2>4, <2>7, <2>8
  <2>13. HeadOK(app')
    BY <1>3, <2>5, <2>6, <2>12 DEF HeadOK, None
  <2>14. WorkOK(app')
    <3>1. \A p \in Places(app') : InLane(app', p).kind # "transform"
      <4> SUFFICES ASSUME NEW p \in Places(app'), InLane(app', p).kind = "transform" PROVE FALSE
        OBVIOUS
      <4>1. InLane(app, p).kind = "transform" /\ p \in Places(app)
        BY <1>5, <1>8, <2>10 DEF OfDrag
      <4> QED  BY <1>1, <2>6, <4>1 DEF WorkOK
    <3>2. \A p \in Places(app') : InLane(app', p).kind = "reserve" =>
            \A j \in 1..Len(app'.gestures) : app'.gestures[j].id # InLane(app', p).gesture
      <4> SUFFICES ASSUME NEW p \in Places(app'), InLane(app', p).kind = "reserve",
                          NEW j \in 1..Len(app'.gestures), app'.gestures[j].id = InLane(app', p).gesture
                   PROVE  FALSE
        OBVIOUS
      <4>1. /\ InLane(app', p) = InLane(app, p) /\ p \in Places(app)
            /\ InLane(app, p).gesture # app.running.gesture
        BY <1>5, <1>8, <2>10 DEF OfDrag
      <4>2. app.gestures[j].id = InLane(app, p).gesture /\ j \in 1..Len(app.gestures)
        BY <2>5, <2>7, <2>8, <4>1
      <4>3. j = 1
        BY <1>1, <4>1, <4>2 DEF WorkOK
      <4> QED  BY <2>1, <2>2, <4>1, <4>2, <4>3
    <3> QED  BY <1>9, <2>10, <3>1, <3>2 DEF WorkOK
  <2> QED  BY <1>1, <2>8, <2>9, <2>11, <2>13, <2>14 DEF InOrder, DragsOK, Shown
<1> QED  BY <1>10, <1>11

-----------------------------------------------------------------------------
(* What the engine and the rest of the renderer do *)

\* Orders are as long as there are objects.
LEMMA OrderIsOne ==
  ASSUME NEW order, NEW n \in Nat, order \in [1..n -> Entities],
         \A i, j \in 1..n : order[i] = order[j] => i = j
  PROVE  order \in Orders
<1>1. order \in Injection(1..n, Entities)
  BY DEF Injection, IsInjective
<1>2. Cardinality(1..n) <= Cardinality(Entities)
  BY <1>1, FiniteAssumption, FS_Injection
<1>3. Cardinality(1..n) = n
  BY FS_Interval
<1>4. n \in 0..Cardinality(Entities)
  BY <1>2, <1>3, FiniteAssumption, FS_CardinalityType
<1> QED  BY <1>4 DEF Orders, IsInjective

\* Whatever a mutation does to an order gives an order.
LEMMA EditedOrders ==
  ASSUME NEW order \in Orders
  PROVE  Edited(order) \subseteq Orders
<1> DEFINE n == Len(order)
<1>1. /\ order \in Seq(Entities) /\ n \in Nat /\ order \in [1..n -> Entities] /\ DOMAIN order = 1..n
      /\ \A i, j \in 1..n : order[i] = order[j] => i = j
  <2>1. Cardinality(Entities) \in Nat
    BY FiniteAssumption, FS_CardinalityType
  <2> QED  BY <2>1, OrderShows
<1>2. ASSUME NEW i \in 1..n PROVE RemoveAt(order, i) \in Orders
  <2> DEFINE a == SubSeq(order, 1, i - 1)
             b == SubSeq(order, i + 1, n)
             r == a \o b
  <2>1. /\ a \in Seq(Entities) /\ Len(a) = i - 1 /\ \A j \in 1..i - 1 : a[j] = order[j]
    <3>1. \A j \in 1..i - 1 : order[j] \in Entities
      BY <1>1, <1>2
    <3>2. /\ a \in Seq(Entities)
          /\ Len(a) = IF 1 <= i - 1 THEN i - 1 - 1 + 1 ELSE 0
          /\ \A j \in 1..(i - 1) - 1 + 1 : a[j] = order[1 + j - 1]
      BY <1>1, <1>2, <3>1, SubSeqProperties
    <3> QED  BY <1>1, <1>2, <3>2
  <2>2. /\ b \in Seq(Entities) /\ Len(b) = n - i /\ \A j \in 1..n - i : b[j] = order[i + j]
    <3>1. \A j \in i + 1..n : order[j] \in Entities
      BY <1>1, <1>2
    <3>2. /\ b \in Seq(Entities)
          /\ Len(b) = IF i + 1 <= n THEN n - (i + 1) + 1 ELSE 0
          /\ \A j \in 1..n - (i + 1) + 1 : b[j] = order[(i + 1) + j - 1]
      BY <1>1, <1>2, <3>1, SubSeqProperties
    <3>3. /\ n - (i + 1) + 1 = n - i /\ (i + 1 <= n \/ n - i = 0)
          /\ \A j \in 1..n - i : (i + 1) + j - 1 = i + j
      <4>1. n \in Nat /\ i \in 1..n
        BY <1>1, <1>2
      <4> HIDE DEF n
      <4> QED  BY <4>1
    <3>4. Len(b) = n - i
      <4> HIDE DEF b, n
      <4> QED  BY <3>2, <3>3, <1>1, <1>2
    <3>5. \A j \in 1..n - i : b[j] = order[i + j]
      <4> HIDE DEF b, n
      <4> QED  BY <3>2, <3>3
    <3> QED  BY <3>2, <3>4, <3>5
  <2> HIDE DEF a, b
  <2>3. /\ r \in Seq(Entities) /\ Len(r) = Len(a) + Len(b)
        /\ \A j \in 1..Len(a) + Len(b) : r[j] = IF j <= Len(a) THEN a[j] ELSE b[j - Len(a)]
    BY <2>1, <2>2, ConcatProperties
  <2> HIDE DEF r, n
  <2>4. Len(r) = n - 1 /\ n - 1 \in Nat
    BY <1>1, <1>2, <2>1, <2>2, <2>3
  <2>5. \A j \in 1..n - 1 : r[j] = order[IF j < i THEN j ELSE j + 1]
    <3> SUFFICES ASSUME NEW j \in 1..n - 1 PROVE r[j] = order[IF j < i THEN j ELSE j + 1]
      OBVIOUS
    <3>1. r[j] = IF j <= i - 1 THEN a[j] ELSE b[j - (i - 1)]
      BY <1>1, <1>2, <2>1, <2>2, <2>3
    <3>2. CASE j <= i - 1
      BY <1>1, <1>2, <2>1, <3>1, <3>2
    <3>3. CASE ~(j <= i - 1)
      <4>1. j - (i - 1) \in 1..n - i /\ i + (j - (i - 1)) = j + 1
        BY <1>1, <1>2, <3>3
      <4> QED  BY <1>1, <1>2, <2>2, <3>1, <3>3, <4>1
    <3> QED  BY <3>2, <3>3
  <2>6. r \in [1..n - 1 -> Entities]
    BY <2>3, <2>4, LenProperties
  <2>7. \A j, k \in 1..n - 1 : r[j] = r[k] => j = k
    <3> SUFFICES ASSUME NEW j \in 1..n - 1, NEW k \in 1..n - 1, r[j] = r[k] PROVE j = k
      OBVIOUS
    <3> DEFINE x == IF j < i THEN j ELSE j + 1
               y == IF k < i THEN k ELSE k + 1
    <3>1. x \in 1..n /\ y \in 1..n /\ (x = y => j = k)
      BY <1>1, <1>2
    <3>2. order[x] = order[y]
      BY <2>5
    <3> HIDE DEF x, y
    <3> QED  BY <1>1, <3>1, <3>2 DEF n
  <2>8. r \in Orders
    BY <2>4, <2>6, <2>7, OrderIsOne
  <2> QED  BY <2>8 DEF RemoveAt, r, a, b, n
<1>3. ASSUME NEW e \in Entities \ ToSet(order) PROVE Append(order, e) \in Orders
  <2> DEFINE r == Append(order, e)
  <2>1. /\ r \in Seq(Entities) /\ Len(r) = n + 1 /\ r[n + 1] = e
        /\ \A i \in 1..n : r[i] = order[i]
    BY <1>1, AppendProperties
  <2>2. \A i \in 1..n : order[i] # e
    BY <1>1 DEF ToSet
  <2> HIDE DEF r, n
  <2>3. r \in [1..n + 1 -> Entities] /\ n + 1 \in Nat
    BY <1>1, <2>1, LenProperties
  <2>4. \A j, k \in 1..n + 1 : r[j] = r[k] => j = k
    <3> SUFFICES ASSUME NEW j \in 1..n + 1, NEW k \in 1..n + 1, r[j] = r[k] PROVE j = k
      OBVIOUS
    <3>1. CASE j \in 1..n /\ k \in 1..n
      BY <1>1, <2>1, <3>1 DEF n
    <3>2. CASE j = n + 1 \/ k = n + 1
      BY <1>1, <2>1, <2>2, <3>2
    <3> QED  BY <1>1, <3>1, <3>2
  <2>5. r \in Orders
    BY <2>3, <2>4, OrderIsOne
  <2> QED  BY <2>5 DEF r
<1> QED  BY <1>1, <1>2, <1>3 DEF Edited

\* The project keeps its type.
LEMMA NativeKept ==
  ASSUME NativeOK, [Next]_vars
  PROVE  NativeOK'
<1>1. MaxRevision \in Nat
  BY LaneAssumption
<1>0. /\ native = [revision |-> native.revision, order |-> native.order, dirty |-> native.dirty]
      /\ native.revision \in 0..MaxRevision /\ native.order \in Orders /\ native.dirty \in BOOLEAN
      /\ MayChange => native.revision + 1 \in 0..MaxRevision
  BY <1>1 DEF NativeOK, MayChange
<1>2. ASSUME NEW order \in Orders, MayChange, native' = Changed(order) PROVE NativeOK'
  <2>1. native' = [revision |-> native.revision + 1, order |-> order, dirty |-> TRUE]
    BY <1>0, <1>2 DEF Changed
  <2> QED  BY <1>0, <1>2, <2>1 DEF NativeOK
<1>3. ASSUME MutationCommits PROVE NativeOK'
  <2>1. PICK order \in Edited(native.order) : native' = Changed(order)
    BY <1>3 DEF MutationCommits
  <2>2. order \in Orders
    BY EditedOrders DEF NativeOK
  <2> QED  BY <1>2, <1>3, <2>1, <2>2 DEF MutationCommits
<1>4. ASSUME RestoreCommits PROVE NativeOK'
  <2>1. PICK order \in Orders, dirty \in BOOLEAN :
          native' = [revision |-> native.revision + 1, order |-> order, dirty |-> dirty]
    BY <1>4 DEF RestoreCommits
  <2> QED  BY <1>1, <1>4, <2>1 DEF NativeOK, RestoreCommits, MayChange
<1>5. ASSUME TransformCommits \/ ArrangeChanges PROVE NativeOK'
  <2>1. native.order \in Orders /\ MayChange /\ native' = Changed(native.order)
    BY <1>5 DEF NativeOK, TransformCommits, ArrangeChanges
  <2> QED  BY <1>2, <2>1
<1>6. ASSUME SaveMarks PROVE NativeOK'
  <2>1. native' = [revision |-> native.revision, order |-> native.order, dirty |-> FALSE]
    BY <1>0, <1>6 DEF SaveMarks
  <2> QED  BY <1>0, <2>1 DEF NativeOK
<1>7. ASSUME ResetAnswers PROVE NativeOK'
  <2>1. native' = [revision |-> native.revision + 1, order |-> native.order, dirty |-> FALSE] /\ MayChange
    BY <1>0, <1>7 DEF ResetAnswers
  <2> QED  BY <1>0, <2>1 DEF NativeOK
<1>8. CASE UNCHANGED native
  BY <1>8 DEF NativeOK
<1> QED  BY <1>3, <1>4, <1>5, <1>6, <1>7, <1>8
     DEF Next, Pump, Notify, Drain, User, Ask, Begin, EndDrag, CancelDrag, AskArrange, EnterArrange,
         CancelArrange, AskBoolean, EnterExclusive, RunExclusive, LeaveExclusive, Operation,
         MutationFails, MutationPublishes, RestoreFails, RestorePublishes, SaveWrites, SaveFails,
         ResetFails, ReadAnswers, ReserveAnswers, TransformStale, TransformFails,
         TransformReconciles, Reconcile, ArrangeChangesNothing, ArrangePublishes, vars

\* A field that says nothing of a drag is free to change.
LEMMA LooseInOrder ==
  ASSUME NEW s, InOrder(s), NEW a
  PROVE  /\ InOrder([s EXCEPT !.at = a]) /\ [s EXCEPT !.at = a].running = s.running
         /\ InOrder([s EXCEPT !.boolean = a]) /\ [s EXCEPT !.boolean = a].queue = s.queue
         /\ InOrder([s EXCEPT !.arranging = a])
         /\ InOrder([s EXCEPT !.notice = a])
         /\ InOrder([s EXCEPT !.reconciling = a])
<1> DEFINE Loose == {"at", "superseded", "leases", "exclusive", "boolean", "arranging",
                     "reconciling", "phase", "notice"}
<1>1. IsLane(s)
  BY DEF InOrder
<1>2. InOrder([s EXCEPT !.at = a]) /\ [s EXCEPT !.at = a].running = s.running
  <2> DEFINE t == [s EXCEPT !.at = a]
  <2>1. IsLane(t) /\ t.running = s.running /\ \A f \in Fields \ Loose : t[f] = s[f]
    BY <1>1 DEF IsLane, Fields
  <2> HIDE DEF t
  <2>2. InOrder(t)
    BY <2>1, FieldsInOrder
  <2> QED  BY <2>1, <2>2 DEF t
<1>3. InOrder([s EXCEPT !.boolean = a]) /\ [s EXCEPT !.boolean = a].queue = s.queue
  <2> DEFINE t == [s EXCEPT !.boolean = a]
  <2>1. IsLane(t) /\ t.queue = s.queue /\ \A f \in Fields \ Loose : t[f] = s[f]
    BY <1>1 DEF IsLane, Fields
  <2> HIDE DEF t
  <2>2. InOrder(t)
    BY <2>1, FieldsInOrder
  <2> QED  BY <2>1, <2>2 DEF t
<1>4. InOrder([s EXCEPT !.arranging = a])
  <2> DEFINE t == [s EXCEPT !.arranging = a]
  <2>1. IsLane(t) /\ \A f \in Fields \ Loose : t[f] = s[f]
    BY <1>1 DEF IsLane, Fields
  <2> HIDE DEF t
  <2>2. InOrder(t)
    BY <2>1, FieldsInOrder
  <2> QED  BY <2>2 DEF t
<1>5. InOrder([s EXCEPT !.notice = a])
  <2> DEFINE t == [s EXCEPT !.notice = a]
  <2>1. IsLane(t) /\ \A f \in Fields \ Loose : t[f] = s[f]
    BY <1>1 DEF IsLane, Fields
  <2> HIDE DEF t
  <2>2. InOrder(t)
    BY <2>1, FieldsInOrder
  <2> QED  BY <2>2 DEF t
<1>6. InOrder([s EXCEPT !.reconciling = a])
  <2> DEFINE t == [s EXCEPT !.reconciling = a]
  <2>1. IsLane(t) /\ \A f \in Fields \ Loose : t[f] = s[f]
    BY <1>1 DEF IsLane, Fields
  <2> HIDE DEF t
  <2>2. InOrder(t)
    BY <2>1, FieldsInOrder
  <2> QED  BY <2>2 DEF t
<1> QED  BY <1>2, <1>3, <1>4, <1>5, <1>6

\* The rebuild of the scene forgets the drag and every motion on screen.
LEMMA ReplacedInOrder ==
  ASSUME NEW s, InOrder(s), NativeOK
  PROVE  InOrder(Replaced(s)) /\ Replaced(s).running = s.running
<1> DEFINE r == [s EXCEPT !.shown = native.order, !.draft = {}, !.superseded = s.at = "publish"]
<1>1. /\ IsLane(r) /\ r.shown = native.order /\ r.draft = {}
      /\ \A f \in Fields \ {"shown", "draft", "superseded"} : r[f] = s[f]
  BY DEF InOrder, IsLane, Fields
<1> HIDE DEF r
<1>2. /\ r.gestures = s.gestures /\ r.queue = s.queue /\ r.running = s.running
      /\ r.selected = s.selected /\ r.drag = s.drag /\ r.status = s.status
  BY <1>1 DEF Fields
<1>3. Shown(r)
  BY <1>1, <1>2 DEF InOrder, Shown, NativeOK
<1>4. InOrder(r)
  BY <1>1, <1>2, <1>3, Framed
<1>5. InOrder(resetForModel(r)) /\ \A f \in Apart : resetForModel(r)[f] = r[f]
  BY <1>4, ResetInOrder
<1>6. resetForModel(r).running = r.running
  BY <1>5 DEF Apart, Fields
<1> QED  BY <1>2, <1>5, <1>6 DEF Replaced, r

\* What the user asks for outside the exclusive lane.
LEMMA AskedInOrder ==
  ASSUME InOrder(app), \/ \E kind \in Commands : Ask(kind)
                       \/ CancelDrag \/ EndDrag \/ AskArrange \/ EnterArrange \/ CancelArrange
  PROVE  InOrder(app')
<1>1. ASSUME NEW kind \in Commands, Ask(kind) PROVE InOrder(app')
  <2>1. app' = Enqueued(app, Op(kind, None)) /\ Len(app.queue) < MaxQueue /\ ~OfDrag(Op(kind, None))
    BY <1>1 DEF Ask, Room, OfDrag, Op
  <2> QED  BY <2>1, EnqueuedInOrder
<1>2. ASSUME CancelDrag PROVE InOrder(app')
  BY <1>2, CancelInOrder DEF CancelDrag
<1>3. ASSUME EndDrag PROVE InOrder(app')
  <2> DEFINE r == [app EXCEPT !.drag = None]
  <2>1. /\ IsLane(r) /\ r.drag = None /\ r.draft = app.draft /\ r.selected = app.selected
        /\ r.gestures = app.gestures /\ \A f \in Apart : r[f] = app[f]
    BY DEF InOrder, IsLane, Fields, Apart
  <2>2. app.draft \subseteq Gestures /\ app.selected \subseteq Entities
    BY DEF InOrder, Shown
  <2>3. app' = Decided(r, "commit") \/ app' = cancelDrag(app)
    BY <1>3 DEF EndDrag
  <2> HIDE DEF r
  <2>4. InOrder(r)
    BY <2>1, <2>2, DroppedInOrder
  <2> QED  BY <2>3, <2>4, DecidedInOrder, CancelInOrder
<1>l. ASSUME NEW a PROVE InOrder([app EXCEPT !.arranging = a])
  BY LooseInOrder
<1>4. ASSUME AskArrange \/ CancelArrange PROVE InOrder(app')
  <2>1. app' = [app EXCEPT !.arranging = "starting"] \/ app' = [app EXCEPT !.arranging = "cancelling"]
    BY <1>4 DEF AskArrange, CancelArrange
  <2> QED  BY <1>l, <2>1
<1>5. ASSUME EnterArrange PROVE InOrder(app')
  <2>1. /\ Len(app.queue) < MaxQueue /\ ~OfDrag(Op("arrange", None))
        /\ app' = Enqueued(app, Op("arrange", None)) \/ app' = [app EXCEPT !.arranging = "off"]
    BY <1>5 DEF EnterArrange, Room, OfDrag, Op
  <2>2. InOrder(Enqueued(app, Op("arrange", None)))
    BY <2>1, EnqueuedInOrder
  <2>3. InOrder([app EXCEPT !.arranging = "off"])
    BY <1>l
  <2> QED  BY <2>1, <2>2, <2>3
<1> QED  BY <1>1, <1>2, <1>3, <1>4, <1>5

\* The exclusive caller finds the lane empty, so its operation has room.
LEMMA ExclusiveInOrder ==
  ASSUME InOrder(app), IInv, AskBoolean \/ EnterExclusive \/ RunExclusive \/ LeaveExclusive
  PROVE  InOrder(app')
<1>0. IsLane(app)
  BY DEF InOrder
<1>1. ASSUME AskBoolean \/ EnterExclusive \/ LeaveExclusive PROVE InOrder(app')
  <2>1. /\ IsLane(app')
        /\ \A f \in Fields \ {"at", "superseded", "leases", "exclusive", "boolean", "arranging",
                              "reconciling", "phase", "notice"} : app'[f] = app[f]
    <3>1. CASE AskBoolean
      BY <1>0, <3>1 DEF AskBoolean, IsLane, Fields
    <3>2. CASE EnterExclusive
      BY <1>0, <3>2 DEF EnterExclusive, IsLane, Fields
    <3>3. CASE LeaveExclusive
      BY <1>0, <3>3 DEF LeaveExclusive, IsLane, Fields
    <3> QED  BY <1>1, <3>1, <3>2, <3>3
  <2> QED  BY <2>1, FieldsInOrder
<1>2. ASSUME RunExclusive PROVE InOrder(app')
  <2> DEFINE r == [app EXCEPT !.boolean = "queued"]
  <2>1. \/ app' = Enqueued(r, Op("boolean", None))
        \/ app' = [app EXCEPT !.boolean = "leaving"]
    BY <1>2 DEF RunExclusive
  <2>2. app.queue = <<>>
    BY <1>2 DEF RunExclusive, IInv, ExclusiveShape
  <2>3. Len(<<>>) < MaxQueue /\ ~OfDrag(Op("boolean", None))
    BY LaneAssumption DEF OfDrag, Op
  <2>4. InOrder(r) /\ r.queue = app.queue
    BY LooseInOrder
  <2> HIDE DEF r
  <2>5. InOrder(Enqueued(r, Op("boolean", None)))
    BY <2>2, <2>3, <2>4, EnqueuedInOrder
  <2>6. InOrder([app EXCEPT !.boolean = "leaving"])
    BY LooseInOrder
  <2> QED  BY <2>1, <2>5, <2>6
<1> QED  BY <1>1, <1>2

\* An operation that is not a drag's settles, having told the renderer what the engine holds.
LEMMA ToldInOrder ==
  ASSUME NEW s, InOrder(s), ~OfDrag(s.running), NEW leased,
         NEW n \in [revision : 0..MaxRevision, order : Orders, dirty : BOOLEAN]
  PROVE  InOrder(Settled(Projected(s, n), leased))
<1>1. InOrder(Projected(s, n)) /\ \A f \in Fields \ {"status"} : Projected(s, n)[f] = s[f]
  BY ProjectedInOrder
<1>2. Projected(s, n).running = s.running
  BY <1>1 DEF Fields
<1> QED  BY <1>1, <1>2, SettledInOrder

\* The engine's answers to a mutation.
LEMMA MutationInOrder ==
  ASSUME InOrder(app), NativeOK, NativeOK', MutationCommits \/ MutationFails \/ MutationPublishes
  PROVE  InOrder(app')
<1>0. ~OfDrag(app.running)
  BY DEF MutationCommits, MutationFails, MutationPublishes, Answers, Kind, Mutations, OfDrag
<1>l. ASSUME NEW s, InOrder(s) PROVE InOrder(Left(s))
  BY <1>l, LooseInOrder DEF Left
<1>1. ASSUME MutationCommits PROVE InOrder(app')
  <2> DEFINE r == [app EXCEPT !.at = "publish"]
  <2>1. InOrder(r) /\ app' = Projected(r, native')
    BY <1>1, LooseInOrder DEF MutationCommits
  <2> HIDE DEF r
  <2> QED  BY <2>1, ProjectedInOrder DEF NativeOK
<1>2. ASSUME MutationFails PROVE InOrder(app')
  <2>1. InOrder(Settled(Projected(app, native), TRUE))
    BY <1>0, ToldInOrder DEF NativeOK
  <2> QED  BY <1>2, <1>l, <2>1 DEF MutationFails
<1>3. ASSUME MutationPublishes PROVE InOrder(app')
  <2> DEFINE p == [app EXCEPT !.shown = native.order]
             s == IF app.superseded THEN app ELSE pruneSelection(p)
             u == IF Kind = "add" THEN resetForModel(s) ELSE s
  <2>1. app' = Left(Settled(u, TRUE))
    BY <1>3 DEF MutationPublishes
  <2>2. InOrder(p) /\ \A f \in Fields \ {"shown"} : p[f] = app[f]
    <3>1. native.order \in Orders
      BY DEF NativeOK
    <3> QED  BY <3>1, ShownInOrder
  <2>3. p.running = app.running
    BY <2>2 DEF Fields
  <2> HIDE DEF p
  <2>4. InOrder(s) /\ s.running = app.running
    <3>1. InOrder(pruneSelection(p)) /\ \A f \in Apart : pruneSelection(p)[f] = p[f]
      BY <2>2, PruneInOrder
    <3>2. pruneSelection(p).running = p.running
      BY <3>1 DEF Apart, Fields
    <3> QED  BY <2>3, <3>1, <3>2
  <2> HIDE DEF s
  <2>5. InOrder(u) /\ u.running = app.running
    <3>1. InOrder(resetForModel(s)) /\ \A f \in Apart : resetForModel(s)[f] = s[f]
      BY <2>4, ResetInOrder
    <3>2. resetForModel(s).running = s.running
      BY <3>1 DEF Apart, Fields
    <3> QED  BY <2>4, <3>1, <3>2
  <2> HIDE DEF u
  <2>6. InOrder(Settled(u, TRUE))
    BY <1>0, <2>5, SettledInOrder
  <2> QED  BY <1>l, <2>1, <2>6
<1> QED  BY <1>1, <1>2, <1>3

\* The engine's answers to a restore.
LEMMA RestoreInOrder ==
  ASSUME InOrder(app), NativeOK, NativeOK', RestoreCommits \/ RestoreFails \/ RestorePublishes
  PROVE  InOrder(app')
<1>0. ~OfDrag(app.running)
  BY DEF RestoreCommits, RestoreFails, RestorePublishes, Answers, Kind, OfDrag
<1>1. ASSUME RestoreCommits PROVE InOrder(app')
  <2> DEFINE r == [app EXCEPT !.at = "publish"]
  <2>1. InOrder(r) /\ app' = Projected(r, native')
    BY <1>1, LooseInOrder DEF RestoreCommits
  <2> HIDE DEF r
  <2> QED  BY <2>1, ProjectedInOrder DEF NativeOK
<1>2. ASSUME RestoreFails PROVE InOrder(app')
  <2> DEFINE r == Settled(Projected(app, native), TRUE)
  <2>1. InOrder(r)
    BY <1>0, ToldInOrder DEF NativeOK
  <2>2. app' = [r EXCEPT !.notice = "due"]
    BY <1>2 DEF RestoreFails
  <2> HIDE DEF r
  <2> QED  BY <2>1, <2>2, LooseInOrder
<1>3. ASSUME RestorePublishes PROVE InOrder(app')
  <2> DEFINE p == [app EXCEPT !.shown = native.order, !.selected = @ \cap ToSet(native.order)]
             s == IF app.superseded THEN app ELSE cancelDrag(p)
             r == Settled(s, TRUE)
  <2>1. app' = [r EXCEPT !.notice = "due"]
    BY <1>3 DEF RestorePublishes
  <2>2. /\ IsLane(p) /\ p.shown = native.order /\ p.selected = app.selected \cap ToSet(native.order)
        /\ \A f \in Fields \ {"shown", "selected"} : p[f] = app[f]
    BY DEF InOrder, IsLane, Fields
  <2> HIDE DEF p
  <2>3. /\ p.gestures = app.gestures /\ p.queue = app.queue /\ p.running = app.running
        /\ p.drag = app.drag /\ p.draft = app.draft /\ p.status = app.status
    BY <2>2 DEF Fields
  <2>4. Shown(p)
    <3>1. native.order \in Orders /\ Shown(app)
      BY DEF NativeOK, InOrder
    <3> QED  BY <2>2, <2>3, <3>1 DEF Shown
  <2>5. InOrder(p)
    BY <2>2, <2>3, <2>4, Framed
  <2>6. InOrder(cancelDrag(p)) /\ cancelDrag(p).running = p.running
    <3>1. InOrder(cancelDrag(p)) /\ \A f \in Apart : cancelDrag(p)[f] = p[f]
      BY <2>5, CancelInOrder
    <3> QED  BY <3>1 DEF Apart, Fields
  <2>7. InOrder(s) /\ s.running = app.running
    BY <2>3, <2>6
  <2> HIDE DEF s
  <2>8. InOrder(r)
    BY <1>0, <2>7, SettledInOrder
  <2> HIDE DEF r
  <2> QED  BY <2>1, <2>8, LooseInOrder
<1> QED  BY <1>1, <1>2, <1>3

\* Saving, resetting, reading and arranging.
LEMMA OthersInOrder ==
  ASSUME InOrder(app), NativeOK, NativeOK',
         SaveWrites \/ SaveMarks \/ SaveFails \/ ResetAnswers \/ ResetFails \/ ReadAnswers
           \/ ArrangeChanges \/ ArrangeChangesNothing \/ ArrangePublishes
  PROVE  InOrder(app')
<1>0. ~OfDrag(app.running)
  BY DEF SaveWrites, SaveMarks, SaveFails, ResetAnswers, ResetFails, ReadAnswers, ArrangeChanges,
         ArrangeChangesNothing, ArrangePublishes, Answers, Kind, OfDrag
<1>1. ASSUME SaveWrites \/ ArrangeChanges PROVE InOrder(app')
  <2>1. app' = [app EXCEPT !.at = "write"] \/ app' = [app EXCEPT !.at = "publish"]
    BY <1>1 DEF SaveWrites, ArrangeChanges
  <2>2. InOrder([app EXCEPT !.at = "write"]) /\ InOrder([app EXCEPT !.at = "publish"])
    BY LooseInOrder
  <2> QED  BY <2>1, <2>2
<1>2. ASSUME SaveMarks \/ ResetAnswers PROVE InOrder(app')
  <2>1. app' = Settled(Projected(app, native'), TRUE)
    BY <1>2 DEF SaveMarks, ResetAnswers
  <2> QED  BY <1>0, <2>1, ToldInOrder DEF NativeOK
<1>3. ASSUME SaveFails \/ ResetFails PROVE InOrder(app')
  BY <1>0, <1>3, SettledInOrder DEF SaveFails, ResetFails
<1>4. ASSUME ReadAnswers PROVE InOrder(app')
  <2>1. app' = Settled(Projected(app, native), FALSE)
    BY <1>4 DEF ReadAnswers
  <2> QED  BY <1>0, <2>1, ToldInOrder DEF NativeOK
<1>5. ASSUME ArrangeChangesNothing PROVE InOrder(app')
  <2> DEFINE r == Settled(app, TRUE)
  <2>1. InOrder(r)
    BY <1>0, SettledInOrder
  <2>2. app' = [r EXCEPT !.arranging = "off"]
    BY <1>5 DEF ArrangeChangesNothing
  <2> HIDE DEF r
  <2> QED  BY <2>1, <2>2, LooseInOrder
<1>6. ASSUME ArrangePublishes PROVE InOrder(app')
  <2> DEFINE r == Settled(Projected(app, native), TRUE)
  <2>1. InOrder(r)
    BY <1>0, ToldInOrder DEF NativeOK
  <2>2. app' = [r EXCEPT !.arranging = "off"]
    BY <1>6 DEF ArrangePublishes
  <2> HIDE DEF r
  <2> QED  BY <2>1, <2>2, LooseInOrder
<1> QED  BY <1>1, <1>2, <1>3, <1>4, <1>5, <1>6

\* A released drag is answered: committed, or put back by a rebuild.
LEMMA ReleasedInOrder ==
  ASSUME InOrder(app), NativeOK, NativeOK',
         TransformCommits \/ TransformStale \/ TransformFails \/ TransformReconciles \/ Reconcile
  PROVE  InOrder(app')
<1>1. ASSUME TransformCommits PROVE InOrder(app')
  <2> DEFINE r == [app EXCEPT !.draft = @ \ {Head(app.gestures).id}]
             p == Projected(r, native')
  <2>1. app' = finish(Settled(p, TRUE)) /\ app.running.kind = "transform"
    BY <1>1 DEF TransformCommits, Answers, Kind
  <2>2. /\ IsLane(r) /\ r.drag = app.drag /\ r.draft \subseteq app.draft /\ r.selected = app.selected
        /\ r.gestures = app.gestures /\ r.running = app.running /\ \A f \in Apart : r[f] = app[f]
    BY DEF InOrder, IsLane, Fields, Apart
  <2>3. app.draft \subseteq Gestures /\ app.selected \subseteq Entities /\ app.drag \in Gestures \cup {None}
    BY DEF InOrder, Shown
  <2> HIDE DEF r
  <2>4. InOrder(r)
    BY <2>2, <2>3, DroppedInOrder
  <2>5. InOrder(p) /\ \A f \in Fields \ {"status"} : p[f] = r[f]
    BY <2>4, ProjectedInOrder DEF NativeOK
  <2> HIDE DEF p
  <2>6. p.running.kind = "transform"
    BY <2>1, <2>2, <2>5 DEF Fields
  <2> QED  BY <2>1, <2>5, <2>6, TransformInOrder
<1>2. ASSUME TransformStale PROVE InOrder(app')
  <2>1. /\ IsLane(app')
        /\ \A f \in Fields \ {"at", "superseded", "leases", "exclusive", "boolean", "arranging",
                              "reconciling", "phase", "notice"} : app'[f] = app[f]
    BY <1>2 DEF TransformStale, InOrder, IsLane, Fields
  <2> QED  BY <2>1, FieldsInOrder
<1>3. ASSUME TransformFails PROVE InOrder(app')
  <2>1. InOrder([app EXCEPT !.at = "reconcile"])
    BY LooseInOrder
  <2> QED  BY <1>3, <2>1 DEF TransformFails
<1>4. ASSUME TransformReconciles PROVE InOrder(app')
  <2> DEFINE r == Replaced(app)
             p == Projected(r, native)
  <2>1. app' = finish(Settled(p, app.at = "reconcile")) /\ app.running.kind = "transform"
    BY <1>4 DEF TransformReconciles, Answers, Kind
  <2>2. InOrder(r) /\ r.running = app.running
    BY ReplacedInOrder
  <2> HIDE DEF r
  <2>3. InOrder(p) /\ \A f \in Fields \ {"status"} : p[f] = r[f]
    BY <2>2, ProjectedInOrder DEF NativeOK
  <2> HIDE DEF p
  <2>4. p.running.kind = "transform"
    BY <2>1, <2>2, <2>3 DEF Fields
  <2> QED  BY <2>1, <2>3, <2>4, TransformInOrder
<1>5. ASSUME Reconcile PROVE InOrder(app')
  <2> DEFINE r == Replaced(app)
  <2>1. app' = [r EXCEPT !.reconciling = FALSE]
    BY <1>5 DEF Reconcile
  <2>2. InOrder(r)
    BY ReplacedInOrder
  <2> HIDE DEF r
  <2>3. InOrder([r EXCEPT !.reconciling = FALSE])
    BY <2>2, LooseInOrder
  <2> QED  BY <2>1, <2>3
<1> QED  BY <1>1, <1>2, <1>3, <1>4, <1>5

LEMMA NotifyInOrder ==
  ASSUME InOrder(app), Notify
  PROVE  InOrder(app')
<1>1. /\ IsLane(app')
      /\ \A f \in Fields \ {"at", "superseded", "leases", "exclusive", "boolean", "arranging",
                            "reconciling", "phase", "notice"} : app'[f] = app[f]
  BY DEF Notify, InOrder, IsLane, Fields
<1> QED  BY <1>1, FieldsInOrder

\* The invariant of the drags holds at first.
LEMMA DragInit == Init => DragIInv
<1> SUFFICES ASSUME Init PROVE DragIInv
  OBVIOUS
<1>1. PICK order \in Orders :
        /\ native = [revision |-> 0, order |-> order, dirty |-> FALSE]
        /\ app = [queue |-> <<>>, running |-> NoOp, at |-> "idle", superseded |-> FALSE,
                  leases |-> 0, exclusive |-> FALSE, boolean |-> "off", arranging |-> "off",
                  shown |-> order, selected |-> {}, drag |-> None, draft |-> {},
                  reconciling |-> FALSE, status |-> [revision |-> 0, dirty |-> FALSE],
                  phase |-> "idle", notice |-> None, gestures |-> <<>>]
  BY DEF Init
<1>2. 0 \in 0..MaxRevision
  BY LaneAssumption
<1>3. NativeOK
  BY <1>1, <1>2 DEF NativeOK
<1>4. /\ app.queue = <<>> /\ app.gestures = <<>> /\ app.running = NoOp /\ app.shown = order
      /\ app.selected = {} /\ app.drag = None /\ app.draft = {}
      /\ app.status = [revision |-> 0, dirty |-> FALSE]
  BY <1>1
<1>5. IsLane(app)
  BY <1>1 DEF IsLane, Fields
<1>6. Shown(app)
  BY <1>2, <1>4 DEF Shown
<1>7. Listed(<<>>) /\ Len(<<>>) = 0 /\ Places(app) = {0}
  <2>1. <<>> \in Seq({}) /\ Len(<<>>) = 0
    BY EmptySeq
  <2> QED  BY <1>4, <2>1 DEF Listed, Places
<1>8. PendingOK(app) /\ HeadOK(app)
  BY <1>4, <1>7 DEF PendingOK, HeadOK, Listed
<1>9. WorkOK(app)
  <2>1. \A p \in Places(app) : p = 0 /\ InLane(app, p) = NoOp
    BY <1>4, <1>7 DEF InLane
  <2>2. ~OfDrag(NoOp) /\ NoOp.kind = None /\ ~(0 > MaxQueue) /\ None # "transform" /\ None # "reserve"
    BY NoDrag, LaneAssumption DEF None
  <2> QED  BY <2>1, <2>2 DEF WorkOK
<1> QED  BY <1>3, <1>4, <1>5, <1>6, <1>7, <1>8, <1>9 DEF DragIInv, InOrder, DragsOK

\* Every step keeps it.
LEMMA DragNext ==
  ASSUME DragIInv, IInv, [Next]_vars
  PROVE  DragIInv'
<1>1. InOrder(app) /\ NativeOK /\ NativeOK'
  BY NativeKept DEF DragIInv
<1>2. CASE UNCHANGED vars
  BY <1>1, <1>2 DEF vars, DragIInv
<1>3. ASSUME Pump \/ Notify \/ Drain PROVE InOrder(app')
  BY <1>1, <1>3, PumpInOrder, NotifyInOrder, DrainInOrder
<1>4. ASSUME User PROVE InOrder(app')
  BY <1>1, <1>4, AskedInOrder, ExclusiveInOrder, BeginInOrder DEF User
<1>5. ASSUME Operation PROVE InOrder(app')
  BY <1>1, <1>5, MutationInOrder, RestoreInOrder, OthersInOrder, ReserveInOrder, ReleasedInOrder
     DEF Operation
<1> QED  BY <1>1, <1>2, <1>3, <1>4, <1>5 DEF Next, DragIInv

\* There are as many pending drags as identities at most.
LEMMA PendingBounded ==
  ASSUME NEW s, PendingOK(s)
  PROVE  Len(s.gestures) <= Cardinality(Gestures)
<1> DEFINE n == Len(s.gestures)
           name == [i \in 1..n |-> s.gestures[i].id]
<1>1. n \in Nat
  BY EmptyListed DEF PendingOK, Listed
<1> HIDE DEF n
<1>2. \A i \in 1..n : s.gestures[i].id \in Gestures
  BY DEF PendingOK, IsGesture, n
<1>3. \A i, j \in 1..n : s.gestures[i].id = s.gestures[j].id => i = j
  BY DEF PendingOK, n
<1>4. name \in Injection(1..n, Gestures)
  BY <1>2, <1>3 DEF Injection, IsInjective
<1>5. Cardinality(1..n) <= Cardinality(Gestures)
  BY <1>4, FiniteAssumption, FS_Injection
<1>6. Cardinality(1..n) = n
  BY <1>1, FS_Interval
<1> QED  BY <1>5, <1>6 DEF n

\* What stands in the lane beyond the bound belongs to different drags.
LEMMA QueueBounded ==
  ASSUME NEW s, Listed(s.queue), WorkOK(s)
  PROVE  Len(s.queue) <= MaxQueue + Cardinality(Gestures)
<1> DEFINE n == Len(s.queue)
           m == n - MaxQueue
           name == [i \in 1..m |-> s.queue[MaxQueue + i].gesture]
<1>0. n \in Nat /\ MaxQueue \in Nat /\ Cardinality(Gestures) \in Nat
  BY EmptyListed, LaneAssumption, FiniteAssumption, FS_CardinalityType
<1>1. CASE n <= MaxQueue
  BY <1>0, <1>1
<1>2. CASE ~(n <= MaxQueue)
  <2>1. m \in Nat
    BY <1>0, <1>2
  <2>2. ASSUME NEW i \in 1..m
        PROVE  /\ MaxQueue + i \in Places(s) /\ InLane(s, MaxQueue + i) = s.queue[MaxQueue + i]
               /\ OfDrag(s.queue[MaxQueue + i]) /\ s.queue[MaxQueue + i].gesture \in Gestures
    <3>1. MaxQueue + i \in 0..n /\ MaxQueue + i # 0 /\ MaxQueue + i > MaxQueue
      BY <1>0
    <3>2. MaxQueue + i \in Places(s) /\ InLane(s, MaxQueue + i) = s.queue[MaxQueue + i]
      BY <3>1 DEF Places, InLane
    <3> QED  BY <3>1, <3>2 DEF WorkOK
  <2>3. ASSUME NEW i \in 1..m, NEW j \in 1..m,
               s.queue[MaxQueue + i].gesture = s.queue[MaxQueue + j].gesture
        PROVE  i = j
    <3>1. MaxQueue + i = MaxQueue + j
      BY <2>2, <2>3 DEF WorkOK
    <3> QED  BY <1>0, <3>1
  <2> HIDE DEF m
  <2>4. name \in Injection(1..m, Gestures)
    BY <2>2, <2>3 DEF Injection, IsInjective
  <2>5. Cardinality(1..m) <= Cardinality(Gestures)
    BY <2>4, FiniteAssumption, FS_Injection
  <2>6. Cardinality(1..m) = m
    BY <2>1, FS_Interval
  <2>7. n - MaxQueue <= Cardinality(Gestures)
    BY <2>5, <2>6 DEF m
  <2> QED  BY <1>0, <2>7
<1> QED  BY <1>1, <1>2

\* A head that the lane forgot would wait for ever: none does.
LEMMA HeadUndecided ==
  ASSUME InOrder(app)
  PROVE  DecidedHeadCompletes
<1> SUFFICES ASSUME Quiet, app.gestures # <<>> PROVE Head(app.gestures).decision = None
  BY DEF DecidedHeadCompletes
<1> DEFINE g == app.gestures[1]
<1>1. Listed(app.gestures) /\ Head(app.gestures) = g /\ Len(app.gestures) \in Nat \ {0}
  <2>1. Listed(app.gestures)
    BY DEF InOrder, DragsOK, PendingOK, Listed
  <2> QED  BY <2>1, TailListed
<1>2. IsGesture(g) /\ HeadOK(app)
  <2>1. 1 \in 1..Len(app.gestures)
    BY <1>1
  <2> QED  BY <2>1 DEF InOrder, DragsOK, PendingOK
<1>3. app.running = NoOp /\ app.queue = <<>> /\ ~Pumpable(g)
  BY <1>1 DEF Quiet, Calm, DrainDue, PumpDue
<1>4. \A p \in Places(app) : InLane(app, p).kind = None
  <2>1. Len(<<>>) = 0
    BY EmptySeq
  <2>2. \A p \in Places(app) : InLane(app, p) = NoOp
    BY <1>3, <2>1 DEF Places, InLane
  <2> QED  BY <2>2, NoDrag
<1>5. g.reservation.state # "asked" /\ ~g.running
  <2>1. Op("reserve", g.id).kind # None /\ Op("transform", g.id).kind # None
    BY DEF Op, None
  <2> QED  BY <1>2, <1>4, <2>1 DEF HeadOK
<1>6. g.reservation.state \in {"held", "refused"}
  BY <1>2, <1>5 DEF HeadOK, IsGesture
<1> QED  BY <1>1, <1>2, <1>3, <1>5, <1>6 DEF Pumpable, IsGesture

LEMMA LeasesBounded == ASSUME IInv PROVE app.leases \in 0..2
  BY DEF IInv, LeasesExact

\* The pending drags stay in order for good.
THEOREM DragInvariance == Spec => []DragIInv
<1>1. Init => DragIInv
  BY DragInit
<1>2. DragIInv /\ IInv /\ [Next]_vars => DragIInv'
  BY DragNext
<1> QED  BY <1>1, <1>2, LaneInvariance, PTL DEF Spec

\* Whatever the numbers of objects, drags and operations: the queue holds what was asked and
\* one operation per drag, no more drags wait than have a name, and a released drag is never
\* left behind.
THEOREM DragsAgree == Spec => []DragsConsistent
<1>1. ASSUME DragIInv, IInv PROVE DragsConsistent
  <2>1. TypeOK
    <3>1. PendingOK(app) /\ WorkOK(app) /\ Listed(app.queue) /\ Shown(app) /\ NativeOK
      BY <1>1 DEF DragIInv, InOrder, DragsOK
    <3>2. /\ Len(app.gestures) <= Cardinality(Gestures)
          /\ Len(app.queue) <= MaxQueue + Cardinality(Gestures)
      BY <3>1, PendingBounded, QueueBounded
    <3> QED  BY <1>1, <3>1, <3>2, LeasesBounded DEF TypeOK, Shown, NativeOK
  <2>2. DecidedHeadCompletes
    BY <1>1, HeadUndecided DEF DragIInv
  <2> QED  BY <2>1, <2>2 DEF DragsConsistent
<1> QED  BY <1>1, DragInvariance, LaneInvariance, PTL
=============================================================================
