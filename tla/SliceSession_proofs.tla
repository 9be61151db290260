------------------------- MODULE SliceSession_proofs -------------------------
(***************************************************************************)
(* Proofs about SliceSession, for any plates, stamps and slices.           *)
(*                                                                         *)
(* What the stores keep of a plate is one of two things: the engine's      *)
(* present result, or what the edit that waits to be published is going to *)
(* withdraw (Pending).  Everything but the slice itself only takes from    *)
(* the stores (Loses); the engine forgets the results of the plates that   *)
(* an edit affects (Moves).  The slice is followed from its post over the  *)
(* outbox and the job to its answer (JobOK, OutboxOK, AnsweredOK), which   *)
(* also orders the cancellations behind the slice they are meant for.      *)
(***************************************************************************)
EXTENDS SliceSession, SequenceTheorems, TLAPS

EngineType ==
  [stamps : [Plates -> 1..MaxStamp], current : Plates, alive : SUBSET Plates,
   job : [plate : Plates \cup {None}, stamp : 0..MaxStamp, slice : 0..MaxSlices, cancel : BOOLEAN],
   results : [Plates -> Receipts]]

StoreType ==
  [status : {"idle", "slicing", "done"}, target : Targets, active : Targets, exported : BOOLEAN,
   results : [Plates -> Receipts], session : Sessions, slices : 0..MaxSlices]

FlowType ==
  [at : {"off", "begun", "synced", "ready", "confirmed", "slicing", "answered"},
   plate : Plates \cup {None}, target : Targets, asked : BOOLEAN,
   outcome : {None, "done", "failed", "cancelled"}]

EditType == [at : {"first", "last"}, kind : Kinds, affected : SUBSET Plates, session : Sessions]
Posted == [kind : {"slice", "cancel"}, slice : 0..MaxSlices, user : BOOLEAN]

\* Only these edits publish twice.
LaneOK ==
  lane = NoEdit \/ (lane \in EditType /\ (lane.at = "first" => lane.kind \in {"objects", "add", "restore"}))

TypeInv ==
  /\ engine \in EngineType /\ engine.current \in engine.alive
  /\ store \in StoreType /\ flow \in FlowType /\ outbox \in Seq(Posted)
  /\ LaneOK /\ export \in {"off", "saving"}

\* A store shows a result it keeps, and slices for somebody.
StoreOK(s) ==
  /\ s \in StoreType
  /\ s.target # NoTarget =>
       s.target.plate \in Plates /\ s.results[s.target.plate].stamp = s.target.stamp
  /\ s.status = "slicing" => s.active # NoTarget

\* The slice that is awaited is the one that is shown, and no earlier result is kept.
FlowOK ==
  /\ flow.at # "off" => flow.plate \in Plates /\ flow.target.plate = flow.plate
  /\ store.active # NoTarget => flow.at \in {"slicing", "answered"} /\ store.active = flow.target
  /\ flow.at \in {"slicing", "answered"} => store.results[flow.target.plate] = NoReceipt
  /\ flow.at = "answered" => flow.outcome # None

\* The job is the slice under way; it publishes only for the inputs the plate still has.
JobOK ==
  engine.job # NoJob =>
    /\ flow.at = "slicing" /\ engine.job.plate = flow.target.plate
    /\ engine.job.stamp = flow.target.stamp /\ engine.job.slice = store.slices
    /\ ~engine.job.cancel =>
         engine.job.plate \in engine.alive /\ engine.stamps[engine.job.plate] = engine.job.stamp

\* A slice in the outbox is the one under way, and what follows it is meant for it.
OutboxOK ==
  /\ \A i \in 1..Len(outbox) : outbox[i].kind = "slice" =>
       /\ flow.at = "slicing" /\ engine.job = NoJob
       /\ \A j \in 1..Len(outbox) : outbox[j].kind = "slice" => i = j
       /\ \A j \in 1..Len(outbox) : i <= j => outbox[j].slice = store.slices
  /\ engine.job # NoJob => \A i \in 1..Len(outbox) : outbox[i].slice = store.slices

\* The plates whose results the edit under way has still to withdraw.
Pending ==
  IF lane.at = "off" \/ (lane.at = "last" /\ lane.kind = "restore") THEN {} ELSE lane.affected

Present(p, receipt) == engine.results[p] = receipt /\ engine.stamps[p] = receipt.stamp

KeptOK ==
  \A p \in engine.alive \ Pending : store.results[p] # NoReceipt => Present(p, store.results[p])

AnsweredOK ==
  /\ flow.at = "answered" /\ flow.outcome = "done" /\ store.active = flow.target
  /\ flow.target.plate \in engine.alive \ Pending
  => Present(flow.target.plate, Receipt(flow.target.stamp, store.slices))

SessionInv == TypeInv /\ StoreOK(store) /\ FlowOK /\ JobOK /\ OutboxOK /\ KeptOK /\ AnsweredOK

-----------------------------------------------------------------------------
(* The stores *)

\* t is s with results withdrawn, those of W at least.
Loses(s, t, W) ==
  /\ t.slices = s.slices
  /\ t.active = s.active \/ t.active = NoTarget
  /\ t.active.plate \notin W
  /\ \A p \in Plates : t.results[p] = s.results[p] \/ t.results[p] = NoReceipt
  /\ \A p \in W : t.results[p] = NoReceipt

LEMMA Sentinels ==
  /\ NoTarget \in Targets /\ NoReceipt \in Receipts /\ NoTarget.plate = None
  /\ \A t \in Targets : t # NoTarget \/ t.plate = None
  BY SessionAssumption DEF NoTarget, NoReceipt, Target, Receipt, Targets, Receipts

LEMMA LosesNothing ==
  ASSUME NEW s \in StoreType, NEW t \in StoreType,
         t.slices = s.slices, t.active = s.active \/ t.active = NoTarget, t.results = s.results
  PROVE  Loses(s, t, {})
  BY DEF Loses

LEMMA LosesBoth ==
  ASSUME NEW r, NEW s, NEW t, NEW V \in SUBSET Plates, NEW W \in SUBSET Plates,
         Loses(r, s, V), Loses(s, t, W)
  PROVE  Loses(r, t, V \cup W)
<1>1. t.slices = r.slices /\ (t.active = r.active \/ t.active = NoTarget)
  BY DEF Loses
<1>2. t.active.plate \notin V \cup W
  BY NoneAssumption, Sentinels DEF Loses
<1>3. \A p \in Plates : t.results[p] = r.results[p] \/ t.results[p] = NoReceipt
  BY DEF Loses
<1>4. \A p \in V \cup W : t.results[p] = NoReceipt
  BY DEF Loses
<1> QED
  BY <1>1, <1>2, <1>3, <1>4 DEF Loses

LEMMA Invalidating ==
  ASSUME NEW s, StoreOK(s), NEW W \in SUBSET Plates
  PROVE  LET t == invalidatePlateResults(s, W)
         IN StoreOK(t) /\ Loses(s, t, W) /\ t.session = s.session
<1> DEFINE t == invalidatePlateResults(s, W)
<1> DEFINE current == s.target.plate \in W
<1>0. s \in StoreType /\ NoTarget \in Targets /\ NoReceipt \in Receipts
  BY Sentinels DEF StoreOK
<1>1. /\ t.results = [p \in Plates |-> IF p \in W THEN NoReceipt ELSE s.results[p]]
      /\ t.active = IF s.active.plate \in W THEN NoTarget ELSE s.active
      /\ t.target = IF current THEN NoTarget ELSE s.target
      /\ t.status = (CASE current -> "idle"
                       [] ~current /\ s.active.plate \in W -> IF s.target = NoTarget THEN "idle" ELSE "done"
                       [] OTHER -> s.status)
      /\ t.session = s.session /\ t.slices = s.slices
  BY <1>0 DEF invalidatePlateResults, StoreType
<1>2. t \in StoreType
  BY <1>0 DEF invalidatePlateResults, StoreType
<1> HIDE DEF t
<1>3. t.target # NoTarget =>
        t.target.plate \in Plates /\ t.results[t.target.plate].stamp = t.target.stamp
  BY <1>1 DEF StoreOK
<1>4. t.status = "slicing" => t.active # NoTarget
  BY <1>1, Sentinels, NoneAssumption DEF StoreOK
<1>5. Loses(s, t, W)
  BY <1>0, <1>1, Sentinels, NoneAssumption DEF Loses, StoreType
<1> QED
  BY <1>1, <1>2, <1>3, <1>4, <1>5 DEF StoreOK, t

LEMMA Discarding ==
  ASSUME NEW s, StoreOK(s), NEW W \in SUBSET Plates, s.active.plate \notin W
  PROVE  LET t == discardPlateResults(s, W)
         IN StoreOK(t) /\ Loses(s, t, W) /\ t.session = s.session
<1> DEFINE t == discardPlateResults(s, W)
<1> DEFINE current == s.target.plate \in W
<1>0. s \in StoreType /\ NoTarget \in Targets /\ NoReceipt \in Receipts
  BY Sentinels DEF StoreOK
<1>1. /\ t.results = [p \in Plates |-> IF p \in W THEN NoReceipt ELSE s.results[p]]
      /\ t.active = s.active
      /\ t.target = IF current THEN NoTarget ELSE s.target
      /\ t.status = IF current THEN "idle" ELSE s.status
      /\ t.session = s.session /\ t.slices = s.slices
  BY <1>0 DEF discardPlateResults, StoreType
<1>2. t \in StoreType
  BY <1>0 DEF discardPlateResults, StoreType
<1> HIDE DEF t
<1>3. t.target # NoTarget =>
        t.target.plate \in Plates /\ t.results[t.target.plate].stamp = t.target.stamp
  BY <1>1 DEF StoreOK
<1>4. t.status = "slicing" => t.active # NoTarget
  BY <1>1 DEF StoreOK
<1>5. Loses(s, t, W)
  BY <1>0, <1>1 DEF Loses, StoreType
<1> QED
  BY <1>1, <1>2, <1>3, <1>4, <1>5 DEF StoreOK, t

LEMMA Activating ==
  ASSUME NEW s, StoreOK(s), NEW p \in Plates, NEW stamp \in 1..MaxStamp
  PROVE  LET t == activatePlateResult(s, p, stamp)
         IN StoreOK(t) /\ Loses(s, t, {}) /\ t.session = s.session /\ t.active = s.active
            /\ t.results = s.results /\ t.slices = s.slices
<1> DEFINE t == activatePlateResult(s, p, stamp)
<1>0. s \in StoreType /\ NoTarget \in Targets /\ Target(p, stamp) \in Targets
  BY Sentinels, SessionAssumption DEF StoreOK, Target, Targets
<1>1. t \in StoreType /\ t.session = s.session /\ t.active = s.active
      /\ t.results = s.results /\ t.slices = s.slices
  BY <1>0 DEF activatePlateResult, StoreType
<1>2. /\ t.status \in {"idle", "done"}
      /\ t.target # NoTarget => t.target = Target(p, stamp) /\ s.results[p].stamp = stamp
  BY <1>0 DEF activatePlateResult, StoreType
<1> HIDE DEF t
<1>3. t.target # NoTarget =>
        t.target.plate \in Plates /\ t.results[t.target.plate].stamp = t.target.stamp
  BY <1>1, <1>2 DEF Target
<1>4. Loses(s, t, {})
  BY <1>0, <1>1, LosesNothing
<1> QED
  BY <1>1, <1>2, <1>3, <1>4 DEF StoreOK, t

LEMMA InvalidatingAll ==
  ASSUME NEW s, StoreOK(s)
  PROVE  LET t == invalidateSliceResult(s)
         IN StoreOK(t) /\ Loses(s, t, Plates) /\ t.session = s.session
<1> DEFINE t == invalidateSliceResult(s)
<1>0. s \in StoreType /\ NoTarget \in Targets /\ NoReceipt \in Receipts
  BY Sentinels DEF StoreOK
<1>1. /\ t.results = [p \in Plates |-> NoReceipt] /\ t.active = NoTarget /\ t.target = NoTarget
      /\ t.status = "idle" /\ t.session = s.session /\ t.slices = s.slices /\ t \in StoreType
  BY <1>0 DEF invalidateSliceResult, StoreType
<1> HIDE DEF t
<1> QED
  BY <1>1, Sentinels, NoneAssumption DEF StoreOK, Loses, t

\* Fields that no result hangs on.
LEMMA Relabelling ==
  ASSUME NEW s, StoreOK(s), NEW t \in StoreType,
         t.results = s.results, t.active = s.active, t.slices = s.slices, t.target = s.target,
         t.status \in {"idle", s.status}
  PROVE  StoreOK(t) /\ Loses(s, t, {})
<1>1. StoreOK(t)
  BY DEF StoreOK
<1> QED
  BY <1>1, LosesNothing DEF StoreOK

LEMMA Snapshotting ==
  ASSUME NEW s, StoreOK(s), NEW session \in Sessions
  PROVE  LET t == setSnapshot(s, session)
         IN StoreOK(t) /\ Loses(s, t, {}) /\ t.session = session /\ t.active = s.active
            /\ t.results = s.results
<1> DEFINE t == setSnapshot(s, session)
<1>1. t \in StoreType /\ t.session = session /\ t.results = s.results /\ t.active = s.active
      /\ t.slices = s.slices /\ t.target = s.target /\ t.status = s.status
  BY DEF setSnapshot, StoreOK, StoreType
<1> HIDE DEF t
<1> QED
  BY <1>1, Relabelling DEF t

LEMMA ShowingCurrent ==
  ASSUME NEW s, StoreOK(s)
  PROVE  LET t == ShowCurrent(s)
         IN StoreOK(t) /\ Loses(s, t, {}) /\ t.session = s.session /\ t.active = s.active
            /\ t.results = s.results /\ t.slices = s.slices
<1>1. s.session.current \in Plates /\ s.session.stamps[s.session.current] \in 1..MaxStamp
  BY DEF StoreOK, StoreType, Sessions
<1> QED
  BY <1>1, Activating DEF ShowCurrent

\* The slice is over.
LEMMA Failing ==
  ASSUME NEW s, StoreOK(s), NEW target \in Targets
  PROVE  LET t == setFailure(s, target)
         IN StoreOK(t) /\ Loses(s, t, {}) /\ t.active = NoTarget
<1> DEFINE over == [s EXCEPT !.active = NoTarget, !.status = "idle"]
<1>1. over \in StoreType /\ over.results = s.results /\ over.active = NoTarget /\ over.slices = s.slices
      /\ over.target = s.target /\ over.status = "idle" /\ over.session = s.session
  BY Sentinels DEF StoreOK, StoreType
<1>2. setFailure(s, target) =
        IF target # NoTarget /\ s.session.current # target.plate THEN ShowCurrent(over) ELSE over
  BY DEF setFailure
<1> HIDE DEF over
<1>3. StoreOK(over)
  BY <1>1 DEF StoreOK
<1>4. Loses(s, over, {})
  BY <1>1, LosesNothing DEF StoreOK
<1>5. StoreOK(ShowCurrent(over)) /\ Loses(over, ShowCurrent(over), {}) /\ ShowCurrent(over).active = NoTarget
  BY <1>1, <1>3, ShowingCurrent
<1>6. Loses(s, ShowCurrent(over), {} \cup {})
  BY <1>4, <1>5, LosesBoth
<1> QED
  BY <1>1, <1>2, <1>3, <1>4, <1>5, <1>6

\* applyPlateResultMutation() withdraws and shows.
LEMMA Applying ==
  ASSUME NEW s, StoreOK(s), NEW W \in SUBSET Plates
  PROVE  LET t == applyPlateResultMutation(s, W)
         IN StoreOK(t) /\ Loses(s, t, W)
<1> DEFINE u == invalidatePlateResults(s, W)
<1>1. StoreOK(u) /\ Loses(s, u, W)
  BY Invalidating
<1>2. StoreOK(ShowCurrent(u)) /\ Loses(u, ShowCurrent(u), {})
  BY <1>1, ShowingCurrent
<1>3. Loses(s, ShowCurrent(u), W \cup {})
  BY <1>1, <1>2, LosesBoth
<1> QED
  BY <1>2, <1>3 DEF applyPlateResultMutation

-----------------------------------------------------------------------------
(* The engine *)

\* An edit of A: other plates that are there were there, with their stamps and results.
Moves(A) ==
  /\ engine' \in EngineType /\ engine'.current \in engine'.alive
  /\ \A p \in engine'.alive \ A :
       /\ p \in engine.alive /\ engine'.stamps[p] = engine.stamps[p]
       /\ engine'.results[p] = engine.results[p]
  /\ engine'.job = NoJob <=> engine.job = NoJob
  /\ engine.job # NoJob =>
       /\ engine'.job.plate = engine.job.plate /\ engine'.job.stamp = engine.job.stamp
       /\ engine'.job.slice = engine.job.slice
       /\ engine.job.cancel => engine'.job.cancel
       /\ ~engine'.job.cancel => engine.job.plate \in engine'.alive \ A

LEMMA JobPlate ==
  ASSUME TypeInv, FlowOK, JobOK, engine.job # NoJob
  PROVE  engine.job.plate \in Plates
  BY DEF FlowOK, JobOK

LEMMA Editing ==
  ASSUME TypeInv, FlowOK, JobOK, NEW A \in SUBSET Plates, NEW alive \in SUBSET Plates,
         NEW current \in alive, Bounded(A), alive \ engine.alive \subseteq A,
         engine' = Edited(engine, A, alive, current)
  PROVE  Moves(A)
<1>0. engine \in EngineType /\ NoReceipt \in Receipts
  BY Sentinels DEF TypeInv
<1> DEFINE stamps == [p \in Plates |-> IF p \in A THEN engine.stamps[p] + 1 ELSE engine.stamps[p]]
<1> DEFINE results == [p \in Plates |-> IF p \in A \/ p \notin alive THEN NoReceipt ELSE engine.results[p]]
<1> DEFINE cancel == engine.job.cancel \/ engine.job.plate \in A
                       \/ (engine.job # NoJob /\ engine.job.plate \notin alive)
<1>1. engine' = [stamps |-> stamps, current |-> current, alive |-> alive,
                 job |-> [engine.job EXCEPT !.cancel = cancel], results |-> results]
  BY <1>0 DEF Edited, EngineType
<1>2. stamps \in [Plates -> 1..MaxStamp]
  BY <1>0, SessionAssumption DEF EngineType, Bounded
<1>3. results \in [Plates -> Receipts]
  BY <1>0 DEF EngineType
<1>4. engine.job = NoJob => ~cancel
  BY NoneAssumption DEF NoJob
<1>5. cancel \in BOOLEAN
  BY <1>0 DEF EngineType
<1> DEFINE job == [engine.job EXCEPT !.cancel = cancel]
<1>6. /\ job \in [plate : Plates \cup {None}, stamp : 0..MaxStamp, slice : 0..MaxSlices, cancel : BOOLEAN]
      /\ job.plate = engine.job.plate /\ job.stamp = engine.job.stamp /\ job.slice = engine.job.slice
      /\ job.cancel = cancel
  BY <1>0, <1>5 DEF EngineType
<1>7. \A p \in alive \ A : stamps[p] = engine.stamps[p] /\ results[p] = engine.results[p]
  OBVIOUS
<1>8. engine.job # NoJob /\ ~cancel => engine.job.plate \in alive \ A
  OBVIOUS
<1>9. engine.job.cancel => cancel
  OBVIOUS
<1>10. /\ engine'.stamps = stamps /\ engine'.current = current /\ engine'.alive = alive
       /\ engine'.job = job /\ engine'.results = results
  BY <1>1
<1> HIDE DEF stamps, results, cancel, job
<1>11. engine' \in EngineType
  BY <1>1, <1>2, <1>3, <1>6, <1>10 DEF EngineType, job
<1>12. engine.job = NoJob => job = NoJob
  BY <1>0, <1>4, <1>6 DEF NoJob, EngineType
<1>13. engine.job # NoJob => job # NoJob
  BY JobPlate, <1>6, NoneAssumption DEF NoJob
<1> QED
  BY <1>6, <1>7, <1>8, <1>9, <1>10, <1>11, <1>12, <1>13 DEF Moves

LEMMA Unmoved ==
  ASSUME TypeInv, FlowOK, JobOK, UNCHANGED engine
  PROVE  Moves({})
  BY DEF Moves, TypeInv, JobOK

-----------------------------------------------------------------------------
(* Steps beside the slice *)

CancelPosted ==
  \E user \in BOOLEAN :
    outbox' = Append(outbox, [kind |-> "cancel", slice |-> store.slices, user |-> user])

LEMMA OutboxGrows ==
  ASSUME TypeInv, outbox' = outbox \/ CancelPosted
  PROVE  /\ outbox' \in Seq(Posted)
         /\ \A i \in 1..Len(outbox') :
              \/ i \in 1..Len(outbox) /\ outbox'[i] = outbox[i]
              \/ outbox'[i].kind = "cancel" /\ outbox'[i].slice = store.slices
<1>1. CASE outbox' = outbox
  BY <1>1 DEF TypeInv
<1>2. CASE CancelPosted
  <2>1. PICK user \in BOOLEAN :
          outbox' = Append(outbox, [kind |-> "cancel", slice |-> store.slices, user |-> user])
    BY <1>2 DEF CancelPosted
  <2> DEFINE m == [kind |-> "cancel", slice |-> store.slices, user |-> user]
  <2>2. m \in Posted /\ m.kind = "cancel" /\ m.slice = store.slices
    BY DEF Posted, TypeInv, StoreType
  <2>3. outbox' = Append(outbox, m)
    BY <2>1
  <2> HIDE DEF m
  <2>4. /\ outbox' \in Seq(Posted) /\ Len(outbox') = Len(outbox) + 1 /\ Len(outbox) \in Nat
        /\ outbox'[Len(outbox) + 1] = m /\ \A i \in 1..Len(outbox) : outbox'[i] = outbox[i]
    BY <2>2, <2>3, AppendProperties, LenProperties DEF TypeInv
  <2> QED
    BY <2>2, <2>4
<1> QED
  BY <1>1, <1>2

\* What the stores keep of a plate stays the engine's, or is withdrawn.
LEMMA KeptStep ==
  ASSUME KeptOK, NEW A \in SUBSET Plates, NEW W \in SUBSET Plates, Moves(A),
         Loses(store, store', W), Pending \cup A \subseteq Pending' \cup W
  PROVE  KeptOK'
<1> SUFFICES ASSUME NEW p \in engine'.alive \ Pending', store'.results[p] # NoReceipt
             PROVE  engine'.results[p] = store'.results[p] /\ engine'.stamps[p] = store'.results[p].stamp
  BY DEF KeptOK, Present
<1>1. p \in Plates /\ p \notin W
  BY DEF Loses, Moves, EngineType
<1>2. store'.results[p] = store.results[p]
  BY <1>1 DEF Loses
<1>3. p \notin A /\ p \notin Pending
  BY <1>1
<1>4. p \in engine.alive /\ engine'.stamps[p] = engine.stamps[p] /\ engine'.results[p] = engine.results[p]
  BY <1>3 DEF Moves
<1> QED
  BY <1>2, <1>3, <1>4 DEF KeptOK, Present

LEMMA AnsweredStep ==
  ASSUME TypeInv, AnsweredOK, FlowOK, NEW A \in SUBSET Plates, NEW W \in SUBSET Plates, Moves(A),
         Loses(store, store', W), Pending \cup A \subseteq Pending' \cup W,
         flow'.at = flow.at, flow'.target = flow.target, flow'.outcome = flow.outcome
  PROVE  AnsweredOK'
<1> SUFFICES ASSUME flow.at = "answered", flow.outcome = "done", store'.active = flow.target,
                    flow.target.plate \in engine'.alive \ Pending'
             PROVE  /\ engine'.results[flow.target.plate] = Receipt(flow.target.stamp, store.slices)
                    /\ engine'.stamps[flow.target.plate] = Receipt(flow.target.stamp, store.slices).stamp
  BY DEF AnsweredOK, Present, Loses
<1> DEFINE p == flow.target.plate
<1>1. p \in Plates
  BY DEF FlowOK
<1>2. store.active = flow.target
  BY <1>1, Sentinels, NoneAssumption DEF Loses
<1>3. p \notin W
  BY DEF Loses
<1>4. p \notin A /\ p \notin Pending
  BY <1>3
<1>5. p \in engine.alive /\ engine'.stamps[p] = engine.stamps[p] /\ engine'.results[p] = engine.results[p]
  BY <1>4 DEF Moves
<1> QED
  BY <1>2, <1>4, <1>5 DEF AnsweredOK, Present

LEMMA Background ==
  ASSUME SessionInv, NEW A \in SUBSET Plates, NEW W \in SUBSET Plates, Moves(A),
         StoreOK(store'), Loses(store, store', W), Pending \cup A \subseteq Pending' \cup W,
         LaneOK', export' \in {"off", "saving"},
         flow' \in FlowType, flow'.at = flow.at, flow'.plate = flow.plate, flow'.target = flow.target,
         flow'.outcome = flow.outcome,
         outbox' = outbox \/ CancelPosted
  PROVE  SessionInv'
<1> USE DEF SessionInv
<1>1. TypeInv'
  BY OutboxGrows DEF TypeInv, Moves, StoreOK
<1>2. FlowOK'
  BY DEF FlowOK, Loses
<1>3. JobOK'
  BY DEF JobOK, Moves, Loses
<1>4. OutboxOK'
  <2>1. store'.slices = store.slices /\ (engine'.job = NoJob <=> engine.job = NoJob)
    BY DEF Loses, Moves
  <2>2. ASSUME NEW i \in 1..Len(outbox'), outbox'[i].kind = "slice"
        PROVE  /\ flow.at = "slicing" /\ engine.job = NoJob
               /\ \A j \in 1..Len(outbox') : outbox'[j].kind = "slice" => i = j
               /\ \A j \in 1..Len(outbox') : i <= j => outbox'[j].slice = store.slices
    <3>1. i \in 1..Len(outbox) /\ outbox[i].kind = "slice"
      BY <2>2, OutboxGrows
    <3>2. /\ flow.at = "slicing" /\ engine.job = NoJob
          /\ \A j \in 1..Len(outbox) : outbox[j].kind = "slice" => i = j
          /\ \A j \in 1..Len(outbox) : i <= j => outbox[j].slice = store.slices
      BY <3>1 DEF OutboxOK
    <3>3. ASSUME NEW j \in 1..Len(outbox'), outbox'[j].kind = "slice"
          PROVE  i = j
      BY <3>2, <3>3, OutboxGrows
    <3>4. ASSUME NEW j \in 1..Len(outbox'), i <= j
          PROVE  outbox'[j].slice = store.slices
      BY <3>2, <3>4, OutboxGrows
    <3> QED
      BY <3>2, <3>3, <3>4
  <2>3. ASSUME engine.job # NoJob, NEW i \in 1..Len(outbox')
        PROVE  outbox'[i].slice = store.slices
    BY <2>3, OutboxGrows DEF OutboxOK
  <2> QED
    BY <2>1, <2>2, <2>3 DEF OutboxOK
<1>5. KeptOK'
  BY KeptStep
<1>6. AnsweredOK'
  BY AnsweredStep
<1> QED
  BY <1>1, <1>2, <1>3, <1>4, <1>5, <1>6

LEMMA PendingIs ==
  ASSUME TypeInv
  PROVE  Pending \in SUBSET Plates
  BY DEF TypeInv, LaneOK, Pending, EditType, NoEdit

\* What an edit does in the engine, before it publishes.
LEMMA BeginsKept ==
  ASSUME SessionInv, NEW kind, NEW A \in SUBSET Plates, NEW alive \in SUBSET Plates,
         NEW current \in alive, alive \ engine.alive \subseteq A, Begins(kind, A, alive, current)
  PROVE  SessionInv'
<1> USE DEF SessionInv
<1>1. Moves(A)
  BY Editing DEF Begins
<1>2. engine' \in EngineType /\ engine'.current \in engine'.alive
  BY <1>1 DEF Moves
<1>3. Session(engine') \in Sessions
  BY <1>2 DEF Session, Sessions, EngineType
<1>4. lane' \in EditType /\ (lane'.at = "first" => lane'.kind \in {"objects", "add", "restore"})
      /\ lane'.at # "off" /\ lane'.affected = A /\ lane'.kind = kind
      /\ (kind = "restore" => lane'.at = "first")
  BY <1>3 DEF Begins, EditType
<1>5. Pending' = A
  BY <1>4 DEF Pending
<1>6. Pending = {}
  BY DEF Begins, LaneFree, Pending
<1>7. LaneOK'
  BY <1>4 DEF LaneOK
<1>8. Loses(store, store', {}) /\ StoreOK(store')
  BY LosesNothing DEF Begins, StoreOK
<1>9. /\ UNCHANGED <<outbox, store, flow, export>> /\ export \in {"off", "saving"} /\ flow \in FlowType
  BY DEF Begins, TypeInv
<1> HIDE DEF SessionInv
<1> QED
  BY <1>1, <1>5, <1>6, <1>7, <1>8, <1>9, Background

LEMMA EditsKept ==
  ASSUME SessionInv, Edit \/ EditPlates \/ clearScene
  PROVE  SessionInv'
<1>1. engine.alive \in SUBSET Plates /\ engine.current \in engine.alive
  BY DEF SessionInv, TypeInv, EngineType
<1>2. CASE Edit
  <2>1. PICK kind \in Kinds, A \in SUBSET engine.alive : Begins(kind, A, engine.alive, engine.current)
    BY <1>2 DEF Edit
  <2> QED
    BY <1>1, <2>1, BeginsKept
<1>3. CASE EditPlates
  <2>0. PICK kind \in Kinds \cap {"plates", "restore"}, alive \in SUBSET Plates, A \in SUBSET Plates :
          \E current \in alive :
            /\ IF kind = "restore" THEN (alive \ engine.alive) \cup (engine.alive \ alive) \subseteq A
               ELSE alive \ engine.alive \subseteq A
            /\ Begins(kind, A, alive, current)
    BY <1>3 DEF EditPlates
  <2>1. PICK current \in alive :
          /\ IF kind = "restore" THEN (alive \ engine.alive) \cup (engine.alive \ alive) \subseteq A
             ELSE alive \ engine.alive \subseteq A
          /\ Begins(kind, A, alive, current)
    BY <2>0
  <2>2. alive \ engine.alive \subseteq A
    BY <2>1
  <2> QED
    BY <2>1, <2>2, BeginsKept
<1>4. CASE clearScene
  <2>1. Begins("clear", engine.alive, engine.alive, engine.current)
    BY <1>4 DEF clearScene
  <2> QED
    BY <1>1, <2>1, BeginsKept
<1> QED
  BY <1>2, <1>3, <1>4

LEMMA CancellingPosts ==
  ASSUME NEW W, Cancelling(W)
  PROVE  outbox' = outbox \/ CancelPosted
  BY DEF Cancelling, CancelPosted

LEMMA PublishFirstKept ==
  ASSUME SessionInv, PublishFirst
  PROVE  SessionInv'
<1>0. /\ TypeInv /\ FlowOK /\ JobOK /\ StoreOK(store) /\ store \in StoreType
      /\ UNCHANGED <<engine, flow, export>> /\ flow \in FlowType /\ export \in {"off", "saving"}
  BY DEF SessionInv, TypeInv, PublishFirst
<1>1. lane \in EditType /\ lane.at = "first" /\ lane.kind \in {"objects", "add", "restore"}
  BY <1>0 DEF PublishFirst, TypeInv, LaneOK, NoEdit
<1>2. lane' \in EditType /\ lane'.at = "last" /\ lane'.kind = lane.kind /\ lane'.affected = lane.affected
  BY <1>1 DEF PublishFirst, EditType
<1>3. LaneOK'
  BY <1>2 DEF LaneOK
<1>4. Pending = lane.affected /\ Pending' = IF lane.kind = "restore" THEN {} ELSE lane.affected
  BY <1>1, <1>2 DEF Pending
<1>5. lane.affected \in SUBSET Plates
  BY <1>1 DEF EditType
<1>6. Moves({})
  BY <1>0, Unmoved
<1> DEFINE quiet == [store EXCEPT !.status = "idle", !.exported = FALSE]
<1>7. /\ quiet \in StoreType /\ quiet.results = store.results /\ quiet.active = store.active
      /\ quiet.slices = store.slices /\ quiet.target = store.target /\ quiet.status = "idle"
  BY <1>0 DEF StoreType
<1> HIDE DEF quiet
<1>8. StoreOK(quiet) /\ Loses(store, quiet, {})
  BY <1>0, <1>7, Relabelling
<1>9. CASE lane.kind = "objects"
  <2>1. store' = invalidatePlateResults(quiet, lane.affected) /\ (outbox' = outbox \/ CancelPosted)
    BY <1>9, CancellingPosts DEF PublishFirst, quiet
  <2>2. StoreOK(store') /\ Loses(quiet, store', lane.affected)
    BY <1>5, <1>8, <2>1, Invalidating
  <2>3. Loses(store, store', {} \cup lane.affected)
    BY <1>5, <1>8, <2>2, LosesBoth
  <2>4. Loses(store, store', lane.affected)
    BY <2>3
  <2> QED
    BY <1>0, <1>3, <1>4, <1>5, <1>6, <2>1, <2>2, <2>4, Background
<1>10. CASE lane.kind = "add"
  <2>1. store' = quiet /\ outbox' = outbox
    BY <1>10 DEF PublishFirst, quiet
  <2>2. Pending \cup {} \subseteq Pending' \cup {}
    BY <1>4, <1>10
  <2> QED
    BY <1>0, <1>3, <1>6, <1>8, <2>1, <2>2, Background
<1>11. CASE lane.kind = "restore"
  <2>1. store' = invalidatePlateResults(store, lane.affected) /\ (outbox' = outbox \/ CancelPosted)
    BY <1>11, CancellingPosts DEF PublishFirst
  <2>2. StoreOK(store') /\ Loses(store, store', lane.affected)
    BY <1>0, <1>5, <2>1, Invalidating
  <2> QED
    BY <1>0, <1>3, <1>4, <1>5, <1>6, <2>1, <2>2, Background
<1> QED
  BY <1>1, <1>9, <1>10, <1>11

\* What each last publication does to the stores.
LEMMA PublishLastLoses ==
  ASSUME TypeInv, StoreOK(store), PublishLast
  PROVE  /\ StoreOK(store') /\ (outbox' = outbox \/ CancelPosted)
         /\ \E W \in SUBSET Plates : Loses(store, store', W) /\ Pending \subseteq W
<1>1. lane \in EditType /\ lane.at = "last" /\ lane.session \in Sessions /\ lane.affected \in SUBSET Plates
      /\ lane.kind \in Kinds
  BY DEF PublishLast, TypeInv, LaneOK, NoEdit, EditType
<1>2. store.session \in Sessions /\ store.session.alive \in SUBSET Plates
      /\ store.session.stamps \in [Plates -> 1..MaxStamp]
  BY DEF StoreOK, StoreType, Sessions
<1>3. Withdrawn \in SUBSET Plates /\ lane.affected \subseteq Withdrawn
      /\ (lane.kind = "plates" => store.session.alive \ lane.session.alive \subseteq Withdrawn)
  BY <1>1, <1>2 DEF Withdrawn
<1>4. Pending = IF lane.kind = "restore" THEN {} ELSE lane.affected
  BY <1>1 DEF Pending
<1> DEFINE kept == invalidatePlateResults(store, Withdrawn)
<1> DEFINE shown == setSnapshot(store, lane.session)
<1>5. StoreOK(kept) /\ Loses(store, kept, Withdrawn) /\ kept.session = store.session
  BY <1>3, Invalidating
<1>6. StoreOK(shown) /\ Loses(store, shown, {}) /\ shown.session = lane.session
  BY <1>1, Snapshotting
<1>7. CASE lane.kind \in {"objects", "add"}
  <2>1. store' = applyPlateResultMutation(shown, Withdrawn) /\ UNCHANGED outbox
    BY <1>7 DEF PublishLast
  <2>2. StoreOK(store') /\ Loses(shown, store', Withdrawn)
    BY <1>3, <1>6, <2>1, Applying
  <2>3. Loses(store, store', {} \cup Withdrawn)
    BY <1>3, <1>6, <2>2, LosesBoth
  <2> QED
    BY <1>3, <1>4, <1>7, <2>1, <2>2, <2>3
<1>8. CASE lane.kind = "plates"
  <2> DEFINE gone == store.session.alive \ lane.session.alive
  <2> DEFINE left == discardPlateResults(kept, gone)
  <2> DEFINE told == setSnapshot(left, lane.session)
  <2>1. store' = ShowCurrent(told) /\ Cancelling(Withdrawn)
    BY <1>8 DEF PublishLast
  <2>2. gone \in SUBSET Plates /\ kept.active.plate \notin gone
    BY <1>2, <1>3, <1>5, <1>8 DEF Loses
  <2> HIDE DEF kept
  <2>3. StoreOK(left) /\ Loses(kept, left, gone)
    BY <1>5, <2>2, Discarding
  <2> HIDE DEF left
  <2>4. StoreOK(told) /\ Loses(left, told, {})
    BY <1>1, <2>3, Snapshotting
  <2> HIDE DEF told
  <2>5. StoreOK(store') /\ Loses(told, store', {})
    BY <2>1, <2>4, ShowingCurrent
  <2>6. Loses(store, left, Withdrawn \cup gone)
    BY <1>3, <1>5, <2>2, <2>3, LosesBoth
  <2>7. Withdrawn \cup gone = Withdrawn
    BY <1>3, <1>8
  <2>8. Loses(store, told, Withdrawn \cup {})
    BY <1>3, <2>4, <2>6, <2>7, LosesBoth
  <2>9. Loses(store, store', (Withdrawn \cup {}) \cup {})
    BY <1>3, <2>5, <2>8, LosesBoth
  <2> QED
    BY <1>3, <1>4, <1>8, <2>1, <2>5, <2>9, CancellingPosts
<1>9. CASE lane.kind = "tower"
  <2> DEFINE stamps == [p \in Plates |-> IF p \in lane.affected THEN lane.session.stamps[p]
                                         ELSE kept.session.stamps[p]]
  <2> DEFINE session == [kept.session EXCEPT !.stamps = stamps]
  <2>1. stamps \in [Plates -> 1..MaxStamp] /\ session \in Sessions
    BY <1>1, <1>2, <1>5 DEF Sessions
  <2>2. store' = [kept EXCEPT !.session.stamps =
                    [p \in Plates |-> IF p \in lane.affected THEN lane.session.stamps[p] ELSE @[p]]]
        /\ Cancelling(Withdrawn)
    BY <1>9 DEF PublishLast
  <2>3. store' = setSnapshot(kept, session)
    BY <2>2, <1>5 DEF setSnapshot, StoreOK, StoreType
  <2> HIDE DEF kept, session
  <2>4. StoreOK(store') /\ Loses(kept, store', {})
    BY <1>5, <2>1, <2>3, Snapshotting
  <2>5. Loses(store, store', Withdrawn \cup {})
    BY <1>3, <1>5, <2>4, LosesBoth
  <2> QED
    BY <1>3, <1>4, <1>9, <2>2, <2>4, <2>5, CancellingPosts
<1>10. CASE lane.kind = "settings"
  <2>1. CASE lane.affected = {}
    <3>1. store' = shown /\ UNCHANGED outbox
      BY <1>10, <2>1 DEF PublishLast
    <3> QED
      BY <1>4, <1>6, <1>10, <2>1, <3>1
  <2>2. CASE lane.affected # {}
    <3>1. store' = setSnapshot(kept, lane.session) /\ Cancelling(Withdrawn)
      BY <1>10, <2>2 DEF PublishLast
    <3> HIDE DEF kept
    <3>2. StoreOK(store') /\ Loses(kept, store', {})
      BY <1>1, <1>5, <3>1, Snapshotting
    <3>3. Loses(store, store', Withdrawn \cup {})
      BY <1>3, <1>5, <3>2, LosesBoth
    <3> QED
      BY <1>3, <1>4, <1>10, <3>1, <3>2, <3>3, CancellingPosts
  <2> QED
    BY <2>1, <2>2
<1>11. CASE lane.kind = "restore"
  <2>1. store' = shown /\ UNCHANGED outbox
    BY <1>11 DEF PublishLast
  <2> QED
    BY <1>4, <1>6, <1>11, <2>1
<1>12. CASE lane.kind = "clear"
  <2> DEFINE none == invalidateSliceResult(store)
  <2> DEFINE told == setSnapshot(none, lane.session)
  <2>1. store' = applyPlateResultMutation(told, Withdrawn) /\ UNCHANGED outbox
    BY <1>12 DEF PublishLast
  <2>2. StoreOK(none) /\ Loses(store, none, Plates)
    BY InvalidatingAll
  <2> HIDE DEF none
  <2>3. StoreOK(told) /\ Loses(none, told, {})
    BY <1>1, <2>2, Snapshotting
  <2> HIDE DEF told
  <2>4. StoreOK(store') /\ Loses(told, store', Withdrawn)
    BY <1>3, <2>1, <2>3, Applying
  <2>5. Loses(store, told, Plates \cup {})
    BY <2>2, <2>3, LosesBoth
  <2>6. Loses(store, store', (Plates \cup {}) \cup Withdrawn)
    BY <1>3, <2>4, <2>5, LosesBoth
  <2> QED
    BY <1>3, <1>4, <1>12, <2>1, <2>4, <2>6
<1> QED
  BY <1>1, <1>7, <1>8, <1>9, <1>10, <1>11, <1>12, SessionAssumption

LEMMA PublishLastKept ==
  ASSUME SessionInv, PublishLast
  PROVE  SessionInv'
<1>0. /\ TypeInv /\ FlowOK /\ JobOK /\ StoreOK(store)
      /\ UNCHANGED <<engine, flow, export>> /\ flow \in FlowType /\ export \in {"off", "saving"}
  BY DEF SessionInv, TypeInv, PublishLast
<1>1. PICK W \in SUBSET Plates : Loses(store, store', W) /\ Pending \subseteq W
  BY <1>0, PublishLastLoses
<1>2. LaneOK'
  BY DEF PublishLast, LaneOK
<1>3. StoreOK(store') /\ (outbox' = outbox \/ CancelPosted)
  BY <1>0, PublishLastLoses
<1>4. Moves({}) /\ Pending \cup {} \subseteq Pending' \cup W
  BY <1>0, <1>1, Unmoved
<1> QED
  BY <1>0, <1>1, <1>2, <1>3, <1>4, Background

LEMMA OtherStepsKept ==
  ASSUME SessionInv,
         selectPlateSession \/ exportGcode \/ SaveReturns \/ cancelSlice \/ UNCHANGED vars
  PROVE  SessionInv'
<1>0. /\ TypeInv /\ FlowOK /\ JobOK /\ StoreOK(store) /\ store \in StoreType /\ LaneOK
      /\ flow \in FlowType /\ export \in {"off", "saving"} /\ engine \in EngineType
  BY DEF SessionInv, TypeInv
<1>1. LaneOK' /\ Pending' = Pending
  BY <1>0 DEF LaneOK, Pending, selectPlateSession, exportGcode, SaveReturns, cancelSlice, vars
<1>2. CASE selectPlateSession
  <2>1. PICK p \in store.session.alive \ {store.session.current} :
          /\ p \in engine.alive /\ engine' = [engine EXCEPT !.current = p]
          /\ store' = ShowCurrent([store EXCEPT !.session.current = p])
          /\ UNCHANGED <<outbox, flow, lane, export>>
    BY <1>2 DEF selectPlateSession
  <2>2. engine' \in EngineType /\ engine'.current = p /\ engine'.alive = engine.alive
        /\ engine'.job = engine.job /\ engine'.stamps = engine.stamps /\ engine'.results = engine.results
    BY <1>0, <2>1 DEF EngineType
  <2>3. Moves({})
    BY <1>0, <2>1, <2>2 DEF Moves, JobOK
  <2> DEFINE session == [store.session EXCEPT !.current = p]
  <2>4. session \in Sessions
    BY <1>0, <2>1 DEF StoreType, Sessions
  <2>5. [store EXCEPT !.session.current = p] = setSnapshot(store, session)
    BY <1>0 DEF StoreType, setSnapshot
  <2> DEFINE told == setSnapshot(store, session)
  <2> HIDE DEF session
  <2>6. StoreOK(told) /\ Loses(store, told, {})
    BY <1>0, <2>4, Snapshotting
  <2>7. store' = ShowCurrent(told)
    BY <2>1, <2>5
  <2> HIDE DEF told
  <2>8. StoreOK(store') /\ Loses(told, store', {})
    BY <2>6, <2>7, ShowingCurrent
  <2>9. Loses(store, store', {} \cup {})
    BY <2>6, <2>8, LosesBoth
  <2>10. Loses(store, store', {}) /\ Pending \cup {} \subseteq Pending' \cup {}
    BY <1>1, <2>9
  <2> QED
    BY <1>0, <1>1, <2>1, <2>3, <2>8, <2>10, Background
<1>3. CASE SaveReturns
  <2>1. /\ store' = store \/ store' = [store EXCEPT !.exported = TRUE]
        /\ export' = "off" /\ UNCHANGED <<engine, outbox, flow, lane>>
    BY <1>3 DEF SaveReturns
  <2>2. /\ store' \in StoreType /\ store'.results = store.results /\ store'.active = store.active
        /\ store'.slices = store.slices /\ store'.target = store.target /\ store'.status = store.status
    BY <1>0, <2>1 DEF StoreType
  <2>3. StoreOK(store') /\ Loses(store, store', {})
    BY <1>0, <2>2, Relabelling
  <2>4. Moves({})
    BY <1>0, <2>1, Unmoved
  <2> QED
    BY <1>0, <1>1, <2>1, <2>3, <2>4, Background
<1>4. CASE exportGcode \/ cancelSlice \/ UNCHANGED vars
  <2>1. UNCHANGED <<engine, store, lane>> /\ export' \in {"off", "saving"}
    BY <1>0, <1>4 DEF exportGcode, cancelSlice, vars
  <2>2. StoreOK(store') /\ Loses(store, store', {}) /\ Moves({})
    BY <1>0, <2>1, Unmoved, LosesNothing
  <2>3. /\ flow' \in FlowType /\ flow'.at = flow.at /\ flow'.plate = flow.plate
        /\ flow'.target = flow.target /\ flow'.outcome = flow.outcome
    BY <1>0, <1>4 DEF exportGcode, cancelSlice, vars, FlowType
  <2>4. outbox' = outbox \/ CancelPosted
    BY <1>4 DEF exportGcode, cancelSlice, vars, CancelPosted
  <2> QED
    BY <1>0, <1>1, <2>1, <2>2, <2>3, <2>4, Background
<1> QED
  BY <1>2, <1>3, <1>4

-----------------------------------------------------------------------------
(* The slice *)

LEMMA Unposted ==
  ASSUME SessionInv, flow.at # "slicing"
  PROVE  /\ engine.job = NoJob /\ \A i \in 1..Len(outbox) : outbox[i].kind # "slice"
         /\ flow.at # "answered" => store.active = NoTarget
  BY DEF SessionInv, FlowOK, JobOK, OutboxOK

\* Before the post, and after the end, nothing of the slice is in the engine.
LEMMA BeforePost ==
  ASSUME SessionInv, flow.at # "slicing",
         flow' \in FlowType, flow'.at \notin {"slicing", "answered"},
         flow'.at # "off" => flow'.plate \in Plates /\ flow'.target.plate = flow'.plate,
         NEW A \in SUBSET Plates, Moves(A),
         StoreOK(store'), store'.active = NoTarget, KeptOK', UNCHANGED <<outbox, lane, export>>
  PROVE  SessionInv'
<1>1. TypeInv'
  BY DEF SessionInv, TypeInv, Moves, StoreOK, LaneOK
<1>2. FlowOK'
  BY DEF FlowOK
<1>3. engine'.job = NoJob
  BY Unposted DEF Moves
<1>4. JobOK'
  BY <1>3 DEF JobOK
<1>5. OutboxOK'
  BY <1>3, Unposted DEF OutboxOK
<1>6. AnsweredOK'
  BY DEF AnsweredOK
<1> QED
  BY <1>1, <1>2, <1>4, <1>5, <1>6 DEF SessionInv

LEMMA NoFlowTyped == NoFlow \in FlowType /\ NoFlow.at = "off"
  BY Sentinels DEF NoFlow, FlowType

LEMMA sliceModelKept ==
  ASSUME SessionInv, sliceModel
  PROVE  SessionInv'
<1>1. /\ flow.at = "off" /\ store.active = NoTarget /\ store.slices < MaxSlices
      /\ store' = [store EXCEPT !.slices = @ + 1] /\ UNCHANGED <<engine, outbox, lane, export>>
  BY DEF sliceModel, SliceAllowed
<1>2. TypeInv /\ FlowOK /\ JobOK /\ StoreOK(store) /\ store \in StoreType /\ KeptOK
  BY DEF SessionInv, TypeInv
<1>3. PICK p \in store.session.alive :
        flow' = [NoFlow EXCEPT !.at = "begun", !.plate = p, !.target = Target(p, store.session.stamps[p])]
  BY DEF sliceModel
<1>4. p \in Plates /\ store.session.stamps[p] \in 1..MaxStamp
  BY <1>2 DEF StoreType, Sessions
<1>5. Target(p, store.session.stamps[p]) \in Targets /\ Target(p, store.session.stamps[p]).plate = p
  BY <1>4, SessionAssumption DEF Target, Targets
<1>6. flow' \in FlowType /\ flow'.at = "begun" /\ flow'.plate = p
      /\ flow'.target = Target(p, store.session.stamps[p])
  BY <1>3, <1>4, <1>5 DEF NoFlow, FlowType
<1>7. /\ store' \in StoreType /\ store'.results = store.results /\ store'.active = store.active
      /\ store'.target = store.target /\ store'.status = store.status
  BY <1>1, <1>2, SessionAssumption DEF StoreType
<1>8. StoreOK(store')
  BY <1>2, <1>7 DEF StoreOK
<1>9. KeptOK'
  BY <1>1, <1>2, <1>7 DEF KeptOK, Present, Pending
<1>10. Moves({})
  BY <1>1, <1>2, Unmoved
<1> QED
  BY <1>1, <1>4, <1>5, <1>6, <1>7, <1>8, <1>9, <1>10, BeforePost

LEMMA SyncKept ==
  ASSUME SessionInv, SyncTransforms
  PROVE  SessionInv'
<1>1. flow.at = "begun" /\ UNCHANGED <<outbox, lane, export>>
  BY DEF SyncTransforms
<1>2. /\ TypeInv /\ FlowOK /\ JobOK /\ StoreOK(store) /\ KeptOK /\ flow \in FlowType
      /\ engine \in EngineType /\ engine.current \in engine.alive
  BY DEF SessionInv, TypeInv
<1>3. store.active = NoTarget /\ Pending' = Pending
  BY <1>1, Unposted DEF Pending
<1>4. CASE /\ store' = setFailure(store, flow.target) /\ flow' = NoFlow /\ UNCHANGED engine
  <2>1. flow.target \in Targets
    BY <1>2 DEF FlowType
  <2>2. StoreOK(store') /\ Loses(store, store', {}) /\ store'.active = NoTarget
    BY <1>2, <1>4, <2>1, Failing
  <2>3. Moves({})
    BY <1>2, <1>4, Unmoved
  <2>4. KeptOK'
    BY <1>2, <1>3, <2>2, <2>3, KeptStep
  <2> QED
    BY <1>1, <1>4, <2>2, <2>3, <2>4, BeforePost, NoFlowTyped
<1>5. ASSUME NEW A \in SUBSET engine.alive, Bounded(A),
             engine' = Edited(engine, A, engine.alive, engine.current),
             store' = setSnapshot(
                        activatePlateResult(invalidatePlateResults(store, A),
                                            engine.current, engine'.stamps[engine.current]),
                        Session(engine')),
             flow' = [flow EXCEPT !.at = "synced"]
      PROVE  SessionInv'
  <2>1. engine.alive \in SUBSET Plates /\ A \in SUBSET Plates
    BY <1>2 DEF EngineType
  <2>2. Moves(A)
    BY <1>2, <1>5, <2>1, Editing
  <2>3. engine' \in EngineType /\ engine'.current \in engine'.alive
    BY <2>2 DEF Moves
  <2>4. Session(engine') \in Sessions /\ engine'.stamps[engine.current] \in 1..MaxStamp
        /\ engine.current \in Plates
    BY <1>2, <2>3 DEF Session, Sessions, EngineType
  <2> DEFINE kept == invalidatePlateResults(store, A)
  <2> DEFINE active == activatePlateResult(kept, engine.current, engine'.stamps[engine.current])
  <2>5. StoreOK(kept) /\ Loses(store, kept, A)
    BY <1>2, <2>1, Invalidating
  <2>6. store' = setSnapshot(active, Session(engine'))
    BY <1>5
  <2> HIDE DEF kept
  <2>7. StoreOK(active) /\ Loses(kept, active, {})
    BY <2>4, <2>5, Activating
  <2> HIDE DEF active
  <2>8. StoreOK(store') /\ Loses(active, store', {})
    BY <2>4, <2>6, <2>7, Snapshotting
  <2>9. Loses(store, active, A \cup {})
    BY <2>1, <2>5, <2>7, LosesBoth
  <2>10. Loses(store, store', (A \cup {}) \cup {})
    BY <2>1, <2>8, <2>9, LosesBoth
  <2>11. Loses(store, store', A)
    BY <2>10
  <2>12. store'.active = NoTarget
    BY <1>3, <2>11 DEF Loses
  <2>13. KeptOK'
    BY <1>2, <1>3, <2>1, <2>2, <2>11, KeptStep
  <2>14. flow' \in FlowType /\ flow'.at = "synced" /\ flow'.plate = flow.plate /\ flow'.target = flow.target
    BY <1>2, <1>5 DEF FlowType
  <2>15. flow.plate \in Plates /\ flow.target.plate = flow.plate
    BY <1>1, <1>2 DEF FlowOK
  <2> QED
    BY <1>1, <2>1, <2>2, <2>8, <2>12, <2>13, <2>14, <2>15, BeforePost
<1> QED
  BY <1>4, <1>5 DEF SyncTransforms

LEMMA ReadSessionKept ==
  ASSUME SessionInv, ReadSession
  PROVE  SessionInv'
<1>1. flow.at = "synced" /\ UNCHANGED <<engine, outbox, lane, export>>
  BY DEF ReadSession
<1>2. /\ TypeInv /\ FlowOK /\ JobOK /\ StoreOK(store) /\ KeptOK /\ flow \in FlowType
      /\ engine \in EngineType /\ engine.current \in engine.alive
  BY DEF SessionInv, TypeInv
<1>3. store.active = NoTarget /\ Pending' = Pending
  BY <1>1, Unposted DEF Pending
<1>4. flow.plate \in Plates
  BY <1>1, <1>2 DEF FlowOK
<1> DEFINE read == setSnapshot(store, Session(engine))
<1> DEFINE target == Target(flow.plate, engine.stamps[flow.plate])
<1>5. Session(engine) \in Sessions
  BY <1>2 DEF Session, Sessions, EngineType
<1>6. StoreOK(read) /\ Loses(store, read, {})
  BY <1>2, <1>5, Snapshotting
<1>7. target \in Targets /\ target.plate = flow.plate
  BY <1>2, <1>4, SessionAssumption DEF Target, Targets, EngineType
<1>8. Moves({})
  BY <1>1, <1>2, Unmoved
<1>9. \/ store' = read /\ flow' = [flow EXCEPT !.at = "ready", !.target = target]
      \/ /\ store' = setFailure(read, IF flow.plate \in engine.alive THEN target ELSE NoTarget)
         /\ flow' = NoFlow
  BY DEF ReadSession
<1> HIDE DEF read, target
<1>10. CASE store' = read /\ flow' = [flow EXCEPT !.at = "ready", !.target = target]
  <2>1. store'.active = NoTarget
    BY <1>3, <1>6, <1>10 DEF Loses
  <2>2. KeptOK'
    BY <1>2, <1>3, <1>6, <1>8, <1>10, KeptStep
  <2>3. flow' \in FlowType /\ flow'.at = "ready" /\ flow'.plate = flow.plate /\ flow'.target = target
    BY <1>2, <1>7, <1>10 DEF FlowType
  <2> QED
    BY <1>1, <1>4, <1>6, <1>7, <1>8, <1>10, <2>1, <2>2, <2>3, BeforePost
<1>11. CASE /\ store' = setFailure(read, IF flow.plate \in engine.alive THEN target ELSE NoTarget)
            /\ flow' = NoFlow
  <2>1. StoreOK(store') /\ Loses(read, store', {}) /\ store'.active = NoTarget
    BY <1>6, <1>7, <1>11, Failing, Sentinels
  <2>2. Loses(store, store', {} \cup {})
    BY <1>6, <2>1, LosesBoth
  <2>3. KeptOK'
    BY <1>2, <1>3, <1>8, <2>2, KeptStep
  <2> QED
    BY <1>1, <1>8, <1>11, <2>1, <2>3, BeforePost, NoFlowTyped
<1> QED
  BY <1>9, <1>10, <1>11

LEMMA ConfirmMappingKept ==
  ASSUME SessionInv, ConfirmMapping
  PROVE  SessionInv'
<1>1. flow.at = "ready" /\ UNCHANGED <<outbox, lane, export>>
  BY DEF ConfirmMapping
<1>2. /\ TypeInv /\ FlowOK /\ JobOK /\ StoreOK(store) /\ store \in StoreType /\ KeptOK /\ flow \in FlowType
      /\ engine \in EngineType /\ engine.current \in engine.alive /\ flow.target \in Targets
  BY DEF SessionInv, TypeInv, FlowType
<1>3. store.active = NoTarget /\ Pending' = Pending
  BY <1>1, Unposted DEF Pending
<1>4. flow.plate \in Plates /\ flow.target.plate = flow.plate
  BY <1>1, <1>2 DEF FlowOK
<1>5. ASSUME UNCHANGED <<engine, store>>
      PROVE  StoreOK(store') /\ store'.active = NoTarget /\ Moves({}) /\ KeptOK'
  BY <1>1, <1>2, <1>3, <1>5, Unmoved DEF KeptOK, Present
<1>6. CASE flow' = [flow EXCEPT !.at = "confirmed"] /\ UNCHANGED <<engine, store>>
  <2>1. flow' \in FlowType /\ flow'.at = "confirmed" /\ flow'.plate = flow.plate /\ flow'.target = flow.target
    BY <1>2, <1>6 DEF FlowType
  <2> QED
    BY <1>1, <1>4, <1>5, <1>6, <2>1, BeforePost
<1>7. CASE flow' = NoFlow /\ UNCHANGED <<engine, store>>
  BY <1>1, <1>5, <1>7, BeforePost, NoFlowTyped
<1>8. CASE store' = setFailure(store, flow.target) /\ flow' = NoFlow /\ UNCHANGED engine
  <2>1. StoreOK(store') /\ Loses(store, store', {}) /\ store'.active = NoTarget
    BY <1>2, <1>8, Failing
  <2>2. Moves({})
    BY <1>2, <1>8, Unmoved
  <2>3. KeptOK'
    BY <1>2, <1>3, <2>1, <2>2, KeptStep
  <2> QED
    BY <1>1, <1>8, <2>1, <2>2, <2>3, BeforePost, NoFlowTyped
<1>9. CASE /\ Bounded({flow.plate})
           /\ engine' = Edited(engine, {flow.plate}, engine.alive, engine.current)
           /\ store' = setSnapshot(invalidatePlateResults(store, {flow.plate}), Session(engine'))
           /\ flow' = [flow EXCEPT !.at = "confirmed", !.target.stamp = engine'.stamps[flow.plate]]
  <2>1. engine.alive \in SUBSET Plates /\ {flow.plate} \in SUBSET Plates
    BY <1>2, <1>4 DEF EngineType
  <2>2. Moves({flow.plate})
    BY <1>2, <1>9, <2>1, Editing
  <2>3. engine' \in EngineType /\ engine'.current \in engine'.alive
    BY <2>2 DEF Moves
  <2>4. Session(engine') \in Sessions /\ engine'.stamps[flow.plate] \in 0..MaxStamp
    BY <1>4, <2>3, SessionAssumption DEF Session, Sessions, EngineType
  <2> DEFINE kept == invalidatePlateResults(store, {flow.plate})
  <2>5. StoreOK(kept) /\ Loses(store, kept, {flow.plate})
    BY <1>2, <2>1, Invalidating
  <2>6. store' = setSnapshot(kept, Session(engine'))
    BY <1>9
  <2> HIDE DEF kept
  <2>7. StoreOK(store') /\ Loses(kept, store', {})
    BY <2>4, <2>5, <2>6, Snapshotting
  <2>8. Loses(store, store', {flow.plate} \cup {})
    BY <2>1, <2>5, <2>7, LosesBoth
  <2>9. Loses(store, store', {flow.plate})
    BY <2>8
  <2>10. store'.active = NoTarget
    BY <1>3, <2>9 DEF Loses
  <2>11. KeptOK'
    BY <1>2, <1>3, <2>1, <2>2, <2>9, KeptStep
  <2>12. flow' \in FlowType /\ flow'.at = "confirmed" /\ flow'.plate = flow.plate
         /\ flow'.target.plate = flow.target.plate
    BY <1>2, <1>9, <2>4 DEF FlowType, Targets
  <2> QED
    BY <1>1, <1>4, <2>1, <2>2, <2>7, <2>10, <2>11, <2>12, BeforePost
<1> QED
  BY <1>6, <1>7, <1>8, <1>9 DEF ConfirmMapping

LEMMA PostSliceKept ==
  ASSUME SessionInv, PostSlice
  PROVE  SessionInv'
<1>1. flow.at = "confirmed" /\ UNCHANGED <<engine, lane, export>>
  BY DEF PostSlice
<1>2. /\ TypeInv /\ FlowOK /\ JobOK /\ StoreOK(store) /\ store \in StoreType /\ KeptOK /\ flow \in FlowType
      /\ engine \in EngineType /\ flow.target \in Targets /\ outbox \in Seq(Posted)
  BY DEF SessionInv, TypeInv, FlowType
<1>3. store.active = NoTarget /\ Pending' = Pending /\ engine.job = NoJob
      /\ \A i \in 1..Len(outbox) : outbox[i].kind # "slice"
  BY <1>1, Unposted DEF Pending
<1>4. flow.plate \in Plates /\ flow.target.plate = flow.plate /\ {flow.plate} \in SUBSET Plates
  BY <1>1, <1>2 DEF FlowOK
<1>5. Moves({})
  BY <1>1, <1>2, Unmoved
<1>6. CASE store' = setFailure(store, flow.target) /\ flow' = NoFlow /\ UNCHANGED outbox
  <2>1. StoreOK(store') /\ Loses(store, store', {}) /\ store'.active = NoTarget
    BY <1>2, <1>6, Failing
  <2>2. KeptOK'
    BY <1>2, <1>3, <1>5, <2>1, KeptStep
  <2> QED
    BY <1>1, <1>5, <1>6, <2>1, <2>2, BeforePost, NoFlowTyped
<1>7. CASE /\ store' = [invalidatePlateResults(store, {flow.plate}) EXCEPT
                          !.status = "slicing", !.active = flow.target, !.exported = FALSE]
           /\ flow' = [flow EXCEPT !.at = "slicing"]
           /\ outbox' = Append(outbox, [kind |-> "slice", slice |-> store.slices, user |-> FALSE])
  <2> DEFINE kept == invalidatePlateResults(store, {flow.plate})
  <2>1. StoreOK(kept) /\ Loses(store, kept, {flow.plate})
    BY <1>2, <1>4, Invalidating
  <2>2. store' = [kept EXCEPT !.status = "slicing", !.active = flow.target, !.exported = FALSE]
    BY <1>7
  <2> HIDE DEF kept
  <2>3. /\ store' \in StoreType /\ store'.results = kept.results /\ store'.active = flow.target
        /\ store'.slices = kept.slices /\ store'.target = kept.target
    BY <1>2, <2>1, <2>2 DEF StoreOK, StoreType
  <2>4. flow.target # NoTarget
    BY <1>4, Sentinels, NoneAssumption
  <2>5. StoreOK(store')
    BY <2>1, <2>3, <2>4 DEF StoreOK
  <2>6. Loses(store, kept, {})
    BY <1>2, <2>1, Sentinels, NoneAssumption DEF Loses
  <2>7. store'.slices = store.slices /\ store'.results[flow.plate] = NoReceipt
    BY <2>1, <2>3 DEF Loses
  <2>8. flow' \in FlowType /\ flow'.at = "slicing" /\ flow'.plate = flow.plate /\ flow'.target = flow.target
    BY <1>2, <1>7 DEF FlowType
  <2> DEFINE m == [kind |-> "slice", slice |-> store.slices, user |-> FALSE]
  <2>9. m \in Posted /\ m.slice = store.slices
    BY <1>2 DEF Posted, StoreType
  <2>10. outbox' = Append(outbox, m)
    BY <1>7
  <2> HIDE DEF m
  <2>11. /\ outbox' \in Seq(Posted) /\ Len(outbox') = Len(outbox) + 1 /\ Len(outbox) \in Nat
         /\ outbox'[Len(outbox) + 1] = m /\ \A i \in 1..Len(outbox) : outbox'[i] = outbox[i]
    BY <1>2, <2>9, <2>10, AppendProperties, LenProperties
  <2>12. TypeInv'
    BY <1>1, <1>2, <2>3, <2>8, <2>11 DEF TypeInv, LaneOK
  <2>13. FlowOK'
    BY <1>4, <2>3, <2>7, <2>8 DEF FlowOK
  <2>14. JobOK'
    BY <1>1, <1>3 DEF JobOK
  <2>15. OutboxOK'
    <3>1. ASSUME NEW i \in 1..Len(outbox'), outbox'[i].kind = "slice"
          PROVE  i = Len(outbox')
      BY <1>3, <2>11, <3>1
    <3>2. \A j \in 1..Len(outbox') : Len(outbox') <= j => outbox'[j].slice = store'.slices
      BY <2>7, <2>9, <2>11
    <3> QED
      BY <1>1, <1>3, <2>8, <3>1, <3>2 DEF OutboxOK
  <2>16. KeptOK'
    <3> SUFFICES ASSUME NEW p \in engine.alive \ Pending, store'.results[p] # NoReceipt
                 PROVE  Present(p, store'.results[p])
      BY <1>1, <1>3 DEF KeptOK, Present
    <3>1. p \in Plates /\ store'.results[p] = store.results[p]
      BY <1>2, <2>3, <2>6 DEF Loses, EngineType
    <3> QED
      BY <1>2, <3>1 DEF KeptOK
  <2>17. AnsweredOK'
    BY <2>8 DEF AnsweredOK
  <2> QED
    BY <2>5, <2>12, <2>13, <2>14, <2>15, <2>16, <2>17 DEF SessionInv
<1> QED
  BY <1>6, <1>7 DEF PostSlice

LEMMA Settling ==
  ASSUME NEW s, StoreOK(s), NEW target \in Targets, NEW receipt \in Receipts,
         target.plate \in Plates, receipt.stamp = target.stamp
  PROVE  LET t == setPlateResult(s, target, receipt)
         IN /\ StoreOK(t) /\ t.slices = s.slices /\ t.active = s.active
            /\ t.results = [s.results EXCEPT ![target.plate] = receipt]
<1> DEFINE t == setPlateResult(s, target, receipt)
<1> DEFINE kept == [s EXCEPT !.results[target.plate] = receipt]
<1>1. /\ kept \in StoreType /\ kept.slices = s.slices /\ kept.active = s.active
      /\ kept.results = [s.results EXCEPT ![target.plate] = receipt]
      /\ kept.target = s.target /\ kept.status = s.status
  BY DEF StoreOK, StoreType
<1>2. t = IF target.plate \in {s.target.plate, s.active.plate}
          THEN [kept EXCEPT !.target = target, !.status = "done", !.exported = FALSE] ELSE kept
  BY DEF setPlateResult
<1> HIDE DEF kept, t
<1>3. /\ t \in StoreType /\ t.slices = kept.slices /\ t.active = kept.active /\ t.results = kept.results
      /\ IF target.plate \in {s.target.plate, s.active.plate}
         THEN t.target = target /\ t.status = "done"
         ELSE t.target = s.target /\ t.status = s.status
  BY <1>1, <1>2 DEF StoreType
<1>4. s.results \in [Plates -> Receipts]
  BY DEF StoreOK, StoreType
<1>5. t.results[target.plate] = receipt /\ \A p \in Plates \ {target.plate} : t.results[p] = s.results[p]
  BY <1>1, <1>3, <1>4
<1>6. t.target # NoTarget =>
        t.target.plate \in Plates /\ t.results[t.target.plate].stamp = t.target.stamp
  BY <1>3, <1>5 DEF StoreOK
<1>7. t.status = "slicing" => t.active # NoTarget
  BY <1>1, <1>3 DEF StoreOK
<1> QED
  BY <1>1, <1>3, <1>6, <1>7 DEF StoreOK, t

LEMMA SliceReturnsKept ==
  ASSUME SessionInv, SliceReturns
  PROVE  SessionInv'
<1>1. flow.at = "answered" /\ flow' = NoFlow /\ UNCHANGED <<engine, outbox, lane, export>>
  BY DEF SliceReturns
<1>2. /\ TypeInv /\ FlowOK /\ JobOK /\ StoreOK(store) /\ store \in StoreType /\ KeptOK /\ flow \in FlowType
      /\ engine \in EngineType /\ flow.target \in Targets /\ AnsweredOK
  BY DEF SessionInv, TypeInv, FlowType
<1>3. Pending' = Pending /\ Moves({})
  BY <1>1, <1>2, Unmoved DEF Pending
<1>4. flow.target.plate \in Plates
  BY <1>1, <1>2 DEF FlowOK
<1> SUFFICES StoreOK(store') /\ store'.active = NoTarget /\ KeptOK'
  BY <1>1, <1>3, BeforePost, NoFlowTyped
<1>5. CASE Superseded /\ store' = store
  <2>1. store.active = NoTarget
    BY <1>2, <1>5 DEF Superseded, FlowOK
  <2> QED
    BY <1>1, <1>2, <1>3, <1>5, <2>1 DEF KeptOK, Present
<1>6. CASE store' = setFailure(store, flow.target)
  <2>1. StoreOK(store') /\ Loses(store, store', {}) /\ store'.active = NoTarget
    BY <1>2, <1>6, Failing
  <2> QED
    BY <1>2, <1>3, <2>1, KeptStep
<1> DEFINE over == [store EXCEPT !.active = NoTarget]
<1>7. CASE store' = ShowCurrent([over EXCEPT !.status = "idle"])
  <2> DEFINE idle == [over EXCEPT !.status = "idle"]
  <2>1. /\ idle \in StoreType /\ idle.results = store.results /\ idle.active = NoTarget
        /\ idle.slices = store.slices /\ idle.target = store.target /\ idle.status = "idle"
    BY <1>2, Sentinels DEF StoreType
  <2>2. store' = ShowCurrent(idle)
    BY <1>7
  <2> HIDE DEF idle
  <2>3. StoreOK(idle) /\ Loses(store, idle, {})
    BY <1>2, <2>1, LosesNothing DEF StoreOK
  <2>4. StoreOK(store') /\ Loses(idle, store', {}) /\ store'.active = NoTarget
    BY <2>1, <2>2, <2>3, ShowingCurrent
  <2>5. Loses(store, store', {} \cup {})
    BY <2>3, <2>4, LosesBoth
  <2> QED
    BY <1>2, <1>3, <2>4, <2>5, KeptStep
<1>8. CASE /\ ~Superseded /\ flow.outcome \notin {"failed", "cancelled"}
           /\ store' = ShowCurrent([setPlateResult(store, flow.target, Receipt(flow.target.stamp, store.slices))
                                      EXCEPT !.active = NoTarget])
  <2> DEFINE receipt == Receipt(flow.target.stamp, store.slices)
  <2> DEFINE held == setPlateResult(store, flow.target, receipt)
  <2> DEFINE told == [held EXCEPT !.active = NoTarget]
  <2>1. receipt \in Receipts /\ receipt.stamp = flow.target.stamp
    BY <1>2 DEF Receipt, Receipts, Targets, StoreType
  <2>2. StoreOK(held) /\ held.results = [store.results EXCEPT ![flow.target.plate] = receipt]
        /\ held.active = store.active
    BY <1>2, <1>4, <2>1, Settling
  <2>3. store.active = flow.target /\ store.active # NoTarget
    BY <1>4, <1>8, Sentinels, NoneAssumption DEF Superseded
  <2>4. flow.target.plate \in {store.target.plate, store.active.plate}
    BY <2>3
  <2>5. held.status = "done"
    BY <1>2, <2>4 DEF setPlateResult, StoreType
  <2>6. store' = ShowCurrent(told)
    BY <1>8
  <2> HIDE DEF held
  <2>7. /\ told \in StoreType /\ told.results = held.results /\ told.active = NoTarget
        /\ told.target = held.target /\ told.status = "done"
    BY <2>2, <2>5, Sentinels DEF StoreOK, StoreType
  <2> HIDE DEF told
  <2>8. StoreOK(told)
    BY <2>2, <2>7 DEF StoreOK
  <2>9. StoreOK(store') /\ store'.active = NoTarget /\ store'.results = held.results
    BY <2>6, <2>7, <2>8, ShowingCurrent
  <2>10. KeptOK'
    <3> SUFFICES ASSUME NEW p \in engine.alive \ Pending, store'.results[p] # NoReceipt
                 PROVE  Present(p, store'.results[p])
      BY <1>1, <1>3 DEF KeptOK, Present
    <3>1. p \in Plates /\ store.results \in [Plates -> Receipts]
      BY <1>2 DEF EngineType, StoreType
    <3>2. CASE p = flow.target.plate
      <4>1. store'.results[p] = receipt
        BY <2>2, <2>9, <3>1, <3>2
      <4>2. flow.outcome = "done"
        BY <1>1, <1>2, <1>8 DEF FlowOK, FlowType
      <4> QED
        BY <1>1, <1>2, <1>8, <2>3, <3>2, <4>1, <4>2 DEF AnsweredOK
    <3>3. CASE p # flow.target.plate
      <4>1. store'.results[p] = store.results[p]
        BY <2>2, <2>9, <3>1, <3>3
      <4> QED
        BY <1>2, <4>1 DEF KeptOK
    <3> QED
      BY <3>2, <3>3
  <2> QED
    BY <2>9, <2>10
<1> QED
  BY <1>5, <1>6, <1>7, <1>8 DEF SliceReturns

LEMMA OutboxShrinks ==
  ASSUME TypeInv, outbox # <<>>, outbox' = Tail(outbox)
  PROVE  /\ outbox' \in Seq(Posted) /\ Len(outbox) \in Nat \ {0} /\ Head(outbox) = outbox[1]
         /\ Len(outbox') = Len(outbox) - 1
         /\ \A i \in 1..Len(outbox') : outbox'[i] = outbox[i + 1] /\ i + 1 \in 1..Len(outbox) /\ i + 1 # 1
<1>1. outbox \in Seq(Posted) /\ Len(outbox) \in Nat \ {0}
  BY EmptySeq, LenProperties DEF TypeInv
<1>2. /\ outbox' \in Seq(Posted) /\ Len(outbox') = Len(outbox) - 1
      /\ \A i \in 1..Len(outbox') : outbox'[i] = outbox[i + 1]
  BY <1>1, HeadTailProperties
<1> QED
  BY <1>1, <1>2

LEMMA AdmitSliceKept ==
  ASSUME SessionInv, AdmitSlice
  PROVE  SessionInv'
<1>1. /\ outbox # <<>> /\ Head(outbox).kind = "slice" /\ outbox' = Tail(outbox)
      /\ UNCHANGED <<store, lane, export>>
  BY DEF AdmitSlice
<1>2. /\ TypeInv /\ FlowOK /\ StoreOK(store) /\ store \in StoreType /\ KeptOK /\ flow \in FlowType
      /\ engine \in EngineType /\ engine.current \in engine.alive /\ flow.target \in Targets /\ OutboxOK
  BY DEF SessionInv, TypeInv, FlowType
<1>3. /\ outbox' \in Seq(Posted) /\ Len(outbox) \in Nat \ {0} /\ Head(outbox) = outbox[1]
      /\ \A i \in 1..Len(outbox') : outbox'[i] = outbox[i + 1] /\ i + 1 \in 1..Len(outbox) /\ i + 1 # 1
  BY <1>1, <1>2, OutboxShrinks
<1>4. 1 \in 1..Len(outbox) /\ outbox[1].kind = "slice"
  BY <1>1, <1>3
<1>5. /\ flow.at = "slicing" /\ engine.job = NoJob
      /\ \A j \in 1..Len(outbox) : outbox[j].kind = "slice" => 1 = j
      /\ \A j \in 1..Len(outbox) : 1 <= j => outbox[j].slice = store.slices
  BY <1>2, <1>4 DEF OutboxOK
<1>6. \A i \in 1..Len(outbox') : outbox'[i].kind # "slice" /\ outbox'[i].slice = store.slices
  BY <1>3, <1>5
<1>7. OutboxOK'
  BY <1>1, <1>6 DEF OutboxOK
<1>8. flow.plate \in Plates /\ flow.target.plate = flow.plate
  BY <1>2, <1>5 DEF FlowOK
<1>9. StoreOK(store') /\ LaneOK' /\ Pending' = Pending
  BY <1>1, <1>2 DEF TypeInv, LaneOK, Pending
<1>10. CASE /\ flow.target.plate \in engine.alive /\ engine.stamps[flow.target.plate] = flow.target.stamp
            /\ engine' = [engine EXCEPT !.job = [plate |-> flow.target.plate, stamp |-> flow.target.stamp,
                                                 slice |-> Head(outbox).slice, cancel |-> FALSE]]
            /\ UNCHANGED flow
  <2> DEFINE job == [plate |-> flow.target.plate, stamp |-> flow.target.stamp,
                     slice |-> store.slices, cancel |-> FALSE]
  <2>1. Head(outbox).slice = store.slices
    BY <1>3, <1>4, <1>5
  <2>2. job \in [plate : Plates \cup {None}, stamp : 0..MaxStamp, slice : 0..MaxSlices, cancel : BOOLEAN]
    BY <1>2, <1>8 DEF Targets, StoreType
  <2>3. engine' = [engine EXCEPT !.job = job]
    BY <1>10, <2>1
  <2>4. /\ job.plate = flow.target.plate /\ job.stamp = flow.target.stamp /\ job.slice = store.slices
    OBVIOUS
  <2> HIDE DEF job
  <2>5. /\ engine' \in EngineType /\ engine'.current = engine.current /\ engine'.alive = engine.alive
        /\ engine'.stamps = engine.stamps /\ engine'.results = engine.results /\ engine'.job = job
    BY <1>2, <2>2, <2>3 DEF EngineType
  <2>6. TypeInv'
    BY <1>1, <1>2, <1>3, <1>9, <1>10, <2>5 DEF TypeInv
  <2>7. FlowOK'
    BY <1>1, <1>2, <1>10 DEF FlowOK
  <2>8. JobOK'
    BY <1>1, <1>5, <1>10, <2>4, <2>5 DEF JobOK
  <2>9. KeptOK'
    BY <1>1, <1>2, <1>9, <2>5 DEF KeptOK, Present
  <2>10. AnsweredOK'
    BY <1>5, <1>10 DEF AnsweredOK
  <2> QED
    BY <1>7, <1>9, <2>6, <2>7, <2>8, <2>9, <2>10 DEF SessionInv
<1>11. CASE flow' = [flow EXCEPT !.at = "answered", !.outcome = "failed"] /\ UNCHANGED engine
  <2>1. /\ flow' \in FlowType /\ flow'.at = "answered" /\ flow'.outcome = "failed"
        /\ flow'.plate = flow.plate /\ flow'.target = flow.target
    BY <1>2, <1>11 DEF FlowType
  <2>2. TypeInv'
    BY <1>1, <1>2, <1>3, <1>9, <1>11, <2>1 DEF TypeInv
  <2>3. FlowOK'
    BY <1>1, <1>2, <1>5, <2>1 DEF FlowOK, None
  <2>4. JobOK'
    BY <1>5, <1>11 DEF JobOK
  <2>5. KeptOK'
    BY <1>1, <1>2, <1>9, <1>11 DEF KeptOK, Present
  <2>6. AnsweredOK'
    BY <2>1 DEF AnsweredOK
  <2> QED
    BY <1>7, <1>9, <2>2, <2>3, <2>4, <2>5, <2>6 DEF SessionInv
<1> QED
  BY <1>10, <1>11 DEF AdmitSlice

LEMMA AdmitCancelKept ==
  ASSUME SessionInv, AdmitCancel
  PROVE  SessionInv'
<1>1. /\ outbox # <<>> /\ Head(outbox).kind = "cancel" /\ outbox' = Tail(outbox)
      /\ UNCHANGED <<store, lane, export>>
  BY DEF AdmitCancel
<1>2. /\ TypeInv /\ FlowOK /\ JobOK /\ StoreOK(store) /\ KeptOK /\ AnsweredOK /\ flow \in FlowType
      /\ engine \in EngineType /\ engine.current \in engine.alive /\ OutboxOK
  BY DEF SessionInv, TypeInv
<1>3. /\ outbox' \in Seq(Posted) /\ Len(outbox) \in Nat \ {0}
      /\ \A i \in 1..Len(outbox') : outbox'[i] = outbox[i + 1] /\ i + 1 \in 1..Len(outbox)
  BY <1>1, <1>2, OutboxShrinks
<1>4. /\ flow' \in FlowType /\ flow'.at = flow.at /\ flow'.plate = flow.plate
      /\ flow'.target = flow.target /\ flow'.outcome = flow.outcome
  BY <1>2 DEF AdmitCancel, FlowType
<1>5. /\ engine' \in EngineType /\ engine'.current = engine.current /\ engine'.alive = engine.alive
      /\ engine'.stamps = engine.stamps /\ engine'.results = engine.results
      /\ engine.job = NoJob => engine'.job = NoJob
      /\ engine.job # NoJob =>
           /\ engine'.job.plate = engine.job.plate /\ engine'.job.stamp = engine.job.stamp
           /\ engine'.job.slice = engine.job.slice /\ engine'.job.cancel
  BY <1>2 DEF AdmitCancel, EngineType
<1>6. engine'.job = NoJob => engine.job = NoJob
  BY <1>2, <1>5, JobPlate, NoneAssumption DEF NoJob
<1>7. LaneOK' /\ Pending' = Pending /\ StoreOK(store')
  BY <1>1, <1>2 DEF TypeInv, LaneOK, Pending
<1>8. TypeInv'
  BY <1>1, <1>2, <1>3, <1>4, <1>5, <1>7 DEF TypeInv
<1>9. FlowOK'
  BY <1>1, <1>2, <1>4 DEF FlowOK
<1>10. JobOK'
  BY <1>1, <1>2, <1>4, <1>5 DEF JobOK
<1>11. OutboxOK'
  <2>1. ASSUME NEW i \in 1..Len(outbox'), outbox'[i].kind = "slice"
        PROVE  /\ flow.at = "slicing" /\ engine.job = NoJob
               /\ \A j \in 1..Len(outbox') : outbox'[j].kind = "slice" => i = j
               /\ \A j \in 1..Len(outbox') : i <= j => outbox'[j].slice = store.slices
    <3>1. i + 1 \in 1..Len(outbox) /\ outbox[i + 1].kind = "slice"
      BY <1>3, <2>1
    <3>2. /\ flow.at = "slicing" /\ engine.job = NoJob
          /\ \A j \in 1..Len(outbox) : outbox[j].kind = "slice" => i + 1 = j
          /\ \A j \in 1..Len(outbox) : i + 1 <= j => outbox[j].slice = store.slices
      BY <1>2, <3>1 DEF OutboxOK
    <3>3. ASSUME NEW j \in 1..Len(outbox')
          PROVE  /\ outbox'[j].kind = "slice" => i = j
                 /\ i <= j => outbox'[j].slice = store.slices
      <4>1. outbox'[j] = outbox[j + 1] /\ j + 1 \in 1..Len(outbox)
        BY <1>3
      <4>2. outbox'[j].kind = "slice" => i = j
        BY <3>2, <4>1
      <4>3. i <= j => outbox'[j].slice = store.slices
        <5>1. i <= j => i + 1 <= j + 1
          OBVIOUS
        <5> QED
          BY <3>2, <4>1, <5>1
      <4> QED
        BY <4>2, <4>3
    <3> QED
      BY <3>2, <3>3
  <2>2. ASSUME engine.job # NoJob, NEW i \in 1..Len(outbox')
        PROVE  outbox'[i].slice = store.slices
    BY <1>2, <1>3, <2>2 DEF OutboxOK
  <2> QED
    BY <1>1, <1>4, <1>5, <1>6, <2>1, <2>2 DEF OutboxOK
<1>12. KeptOK'
  BY <1>1, <1>2, <1>5, <1>7 DEF KeptOK, Present
<1>13. AnsweredOK'
  BY <1>1, <1>2, <1>4, <1>5, <1>7 DEF AnsweredOK, Present
<1> QED
  BY <1>7, <1>8, <1>9, <1>10, <1>11, <1>12, <1>13 DEF SessionInv

LEMMA JobEndsKept ==
  ASSUME SessionInv, JobEnds
  PROVE  SessionInv'
<1>1. engine.job # NoJob /\ UNCHANGED <<outbox, store, lane, export>>
  BY DEF JobEnds
<1>2. /\ TypeInv /\ FlowOK /\ JobOK /\ StoreOK(store) /\ store \in StoreType /\ KeptOK /\ flow \in FlowType
      /\ engine \in EngineType /\ engine.current \in engine.alive /\ OutboxOK
  BY DEF SessionInv, TypeInv
<1>3. PICK outcome \in IF engine.job.cancel THEN {"cancelled"} ELSE {"done", "failed"} :
        /\ flow' = [flow EXCEPT !.at = "answered", !.outcome = outcome]
        /\ engine' = [engine EXCEPT !.job = NoJob,
                        !.results = IF outcome = "done"
                                    THEN [@ EXCEPT ![engine.job.plate] = Receipt(engine.job.stamp, engine.job.slice)]
                                    ELSE @]
  BY DEF JobEnds
<1> DEFINE p == engine.job.plate
<1> DEFINE receipt == Receipt(engine.job.stamp, engine.job.slice)
<1>4. p \in Plates /\ p = flow.target.plate /\ flow.at = "slicing" /\ receipt \in Receipts
      /\ receipt = Receipt(flow.target.stamp, store.slices) /\ receipt.stamp = flow.target.stamp
  BY <1>1, <1>2, JobPlate DEF JobOK, Receipt, Receipts, EngineType
<1>5. outcome = "done" => p \in engine.alive /\ engine.stamps[p] = receipt.stamp
  BY <1>1, <1>2, <1>3 DEF JobOK, Receipt
<1>6. NoJob \in [plate : Plates \cup {None}, stamp : 0..MaxStamp, slice : 0..MaxSlices, cancel : BOOLEAN]
  BY SessionAssumption DEF NoJob
<1> DEFINE results == IF outcome = "done" THEN [engine.results EXCEPT ![p] = receipt] ELSE engine.results
<1>7. results \in [Plates -> Receipts]
      /\ \A q \in Plates : q # p \/ outcome # "done" => results[q] = engine.results[q]
  BY <1>2, <1>4 DEF EngineType
<1>8. outcome = "done" => results[p] = receipt
  BY <1>2, <1>4 DEF EngineType
<1>9. engine' = [engine EXCEPT !.job = NoJob, !.results = results]
  BY <1>3
<1>10. receipt = Receipt(engine.job.stamp, engine.job.slice)
  OBVIOUS
<1> HIDE DEF results, receipt
<1>11. /\ engine' \in EngineType /\ engine'.current = engine.current /\ engine'.alive = engine.alive
       /\ engine'.stamps = engine.stamps /\ engine'.results = results /\ engine'.job = NoJob
  BY <1>2, <1>6, <1>7, <1>9 DEF EngineType
<1>12. outcome \in {"cancelled", "done", "failed"}
  BY <1>3
<1>13. /\ flow' \in FlowType /\ flow'.at = "answered" /\ flow'.outcome = outcome
       /\ flow'.plate = flow.plate /\ flow'.target = flow.target
  BY <1>2, <1>3, <1>12 DEF FlowType
<1>14. StoreOK(store') /\ LaneOK' /\ Pending' = Pending
  BY <1>1, <1>2 DEF TypeInv, LaneOK, Pending
<1>15. TypeInv'
  BY <1>1, <1>2, <1>11, <1>13, <1>14 DEF TypeInv
<1>16. FlowOK'
  BY <1>1, <1>2, <1>4, <1>12, <1>13 DEF FlowOK, None
<1>17. JobOK'
  BY <1>11 DEF JobOK
<1>18. OutboxOK'
  BY <1>1, <1>2, <1>11 DEF OutboxOK
<1>19. KeptOK'
  <2> SUFFICES ASSUME NEW q \in engine.alive \ Pending, store.results[q] # NoReceipt
               PROVE  results[q] = store.results[q] /\ engine.stamps[q] = store.results[q].stamp
    BY <1>1, <1>11, <1>14 DEF KeptOK, Present
  <2>1. q # p
    BY <1>2, <1>4 DEF FlowOK
  <2>2. q \in Plates
    BY <1>2 DEF EngineType
  <2> QED
    BY <1>2, <1>7, <2>1, <2>2 DEF KeptOK, Present
<1>20. AnsweredOK'
  BY <1>1, <1>4, <1>5, <1>8, <1>11, <1>13 DEF AnsweredOK, Present
<1> QED
  BY <1>14, <1>15, <1>16, <1>17, <1>18, <1>19, <1>20 DEF SessionInv

-----------------------------------------------------------------------------
(* The theorems *)

LEMMA SessionInit ==
  ASSUME Init
  PROVE  SessionInv
<1>1. PICK p \in Plates :
        /\ engine = [stamps |-> [q \in Plates |-> 1], current |-> p, alive |-> Plates,
                     job |-> NoJob, results |-> [q \in Plates |-> NoReceipt]]
        /\ store = [status |-> "idle", target |-> NoTarget, active |-> NoTarget, exported |-> FALSE,
                    results |-> [q \in Plates |-> NoReceipt], session |-> Session(engine),
                    slices |-> 0]
        /\ outbox = <<>> /\ flow = NoFlow /\ lane = NoEdit /\ export = "off"
  BY DEF Init
<1>2. engine \in EngineType /\ engine.current \in engine.alive
  BY <1>1, Sentinels, SessionAssumption DEF EngineType, NoJob
<1>3. Session(engine) \in Sessions
  BY <1>2 DEF Session, Sessions, EngineType
<1>4. store \in StoreType
  BY <1>1, <1>3, Sentinels, SessionAssumption DEF StoreType
<1>5. Len(outbox) = 0 /\ outbox \in Seq(Posted)
  BY <1>1, EmptySeq
<1>6. TypeInv
  BY <1>1, <1>2, <1>4, <1>5, NoFlowTyped DEF TypeInv, LaneOK
<1>7. StoreOK(store) /\ FlowOK
  BY <1>1, <1>4, NoFlowTyped DEF StoreOK, FlowOK
<1>8. engine.job = NoJob /\ store.results = [q \in Plates |-> NoReceipt] /\ engine.alive = Plates
  BY <1>1
<1>9. JobOK /\ OutboxOK /\ KeptOK
  BY <1>5, <1>8 DEF JobOK, OutboxOK, KeptOK
<1>10. AnsweredOK
  BY <1>1, NoFlowTyped DEF AnsweredOK
<1> QED
  BY <1>6, <1>7, <1>9, <1>10 DEF SessionInv

LEMMA SessionKept ==
  ASSUME SessionInv, [Next]_vars
  PROVE  SessionInv'
  BY AdmitSliceKept, AdmitCancelKept, JobEndsKept, sliceModelKept, SyncKept, ReadSessionKept,
     ConfirmMappingKept, PostSliceKept, SliceReturnsKept, EditsKept, PublishFirstKept,
     PublishLastKept, OtherStepsKept DEF Next

\* The inductive invariant of the slice and the stores.
THEOREM SessionInvariance == Spec => []SessionInv
<1>1. Init => SessionInv
  BY SessionInit
<1>2. SessionInv /\ [Next]_vars => SessionInv'
  BY SessionKept
<1> QED
  BY <1>1, <1>2, PTL DEF Spec

\* When no edit is being published, what the stores keep of a plate is what the engine
\* would export of its present inputs, for any plates, edits, restores and slices.
THEOREM StoresKeepTheCurrent == Spec => []KeptIsCurrent
<1>1. SessionInv => KeptIsCurrent
  <2> SUFFICES ASSUME SessionInv PROVE KeptIsCurrent
    OBVIOUS
  <2>1. ASSUME lane.at = "off", NEW p \in engine.alive, store.results[p] # NoReceipt
        PROVE  store.results[p] = engine.results[p] /\ store.results[p].stamp = engine.stamps[p]
    BY <2>1 DEF SessionInv, KeptOK, Present, Pending
  <2> QED
    BY <2>1 DEF KeptIsCurrent, SessionInv, StoreOK
<1> QED
  BY <1>1, SessionInvariance, PTL

\* No slice is shown, or keeps others from starting, that nobody awaits.
THEOREM StoresStayConsistent == Spec => []StoresConsistent
<1>1. SessionInv => StoresConsistent
  <2> SUFFICES ASSUME SessionInv PROVE StoresConsistent
    OBVIOUS
  <2>1. TypeInv /\ StoreOK(store) /\ FlowOK
    BY DEF SessionInv
  <2>2. /\ engine.stamps \in [Plates -> 1..MaxStamp] /\ engine.results \in [Plates -> Receipts]
        /\ engine.current \in engine.alive /\ engine.alive \subseteq Plates
    BY <2>1 DEF TypeInv, EngineType
  <2>3. /\ store.status \in {"idle", "slicing", "done"} /\ store.exported \in BOOLEAN
        /\ store.target \in Targets /\ store.active \in Targets
        /\ store.results \in [Plates -> Receipts] /\ store.session \in Sessions
    BY <2>1 DEF TypeInv, StoreType
  <2>4. /\ flow.at \in {"off", "begun", "synced", "ready", "confirmed", "slicing", "answered"}
        /\ flow.target \in Targets /\ flow.asked \in BOOLEAN
    BY <2>1 DEF TypeInv, FlowType
  <2>5. lane.at \in {"off", "first", "last"} /\ export \in {"off", "saving"}
    BY <2>1 DEF TypeInv, LaneOK, EditType, NoEdit
  <2>6. SlicingHasItsJob
    BY <2>1 DEF StoreOK, FlowOK, SlicingHasItsJob
  <2> QED
    BY <2>2, <2>3, <2>4, <2>5, <2>6 DEF StoresConsistent, TypeOK
<1> QED
  BY <1>1, SessionInvariance, PTL

\* A cancellation that reaches the engine finds the slice it was posted for, or none.
THEOREM CancellationsAreNotMisled == Spec => CancelReachesItsJob
<1>1. SessionInv /\ [Next]_vars
      => [(outbox # <<>> /\ Head(outbox).kind = "cancel" /\ outbox' = Tail(outbox) /\ engine.job # NoJob)
            => engine.job.slice = Head(outbox).slice]_vars
  <2> SUFFICES ASSUME SessionInv, outbox # <<>>, engine.job # NoJob
               PROVE  engine.job.slice = Head(outbox).slice
    OBVIOUS
  <2>1. Len(outbox) \in Nat \ {0} /\ Head(outbox) = outbox[1]
    BY EmptySeq, LenProperties, HeadTailProperties DEF SessionInv, TypeInv
  <2>2. \A i \in 1..Len(outbox) : outbox[i].slice = store.slices
    BY DEF SessionInv, OutboxOK
  <2> QED
    BY <2>1, <2>2 DEF SessionInv, JobOK
<1> QED
  BY <1>1, SessionInvariance, PTL DEF Spec, CancelReachesItsJob

=============================================================================
