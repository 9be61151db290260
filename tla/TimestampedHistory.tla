------------------------- MODULE TimestampedHistory -------------------------
(***************************************************************************)
(* The project's Undo/Redo timeline: the class TimestampedHistory of       *)
(* packages/slicer-wasm/src/history.  Logical timestamps name states of    *)
(* the project, an entry joins the timestamps before and after one         *)
(* operation, and a snapshot holds what is needed to go back to one.  The  *)
(* newest state is captured lazily, snapshots are evicted under a byte     *)
(* budget, an editing session raises a navigation floor and compacts its   *)
(* paint strokes into one entry when it closes.                            *)
(*                                                                         *)
(* "history" is the class's Impl, one record that an operation stages and  *)
(* swaps as a whole; a callback that throws before the swap leaves it as   *)
(* it was, which is a stuttering step here.  "live" is the caller's model  *)
(* and context, "rendered" the scene a renderer keeps by applying the      *)
(* scene deltas the timeline publishes, "presets" the repository the       *)
(* contexts refer to.  "truth", "savedModel" and "retired" record the past *)
(* for the properties only.                                                *)
(*                                                                         *)
(* std::optional is a set of at most one element, and the entries are a    *)
(* set: the vector only grows by push_back of a new greatest               *)
(* after_timestamp, so its order is the order of "after".                  *)
(***************************************************************************)
EXTENDS Integers, FiniteSets

CONSTANTS
  Objects,        \* the objects of the model
  Versions,       \* the contents an object can have
  Presets,        \* preset names a history context can refer to
  Budgets,        \* the values set_byte_budget can be given
  InitialBudget,
  SnapshotBytes, EntryBytes, ArchiveBytes,   \* accounting of bytes_used
  Floors,         \* the values set_navigation_floor can be given
  MaxTimestamp,   \* bound: the last timestamp an operation may allocate
  MaxDepth,       \* bound: nesting of operations
  FirstSessionId, \* next_session_id of the constructor; 0 leaves no session
  MaxSessionId    \* the largest EditingSessionId, after which there is none

ASSUME BudgetAssumption == Budgets \subseteq Nat /\ InitialBudget \in Budgets
ASSUME FloorAssumption == \A floor \in Floors : floor \subseteq Nat
                                              /\ \A s, t \in floor : s = t
ASSUME BytesAssumption == {SnapshotBytes, EntryBytes, ArchiveBytes} \subseteq Nat
ASSUME BoundAssumption == /\ MaxTimestamp \in Nat
                          /\ MaxDepth \in Nat \ {0}
                          /\ MaxSessionId \in Nat \ {0}
                          /\ FirstSessionId \in 0..MaxSessionId

VARIABLES history, live, rendered, presets, truth, savedModel, retired

vars == <<history, live, rendered, presets, truth, savedModel, retired>>

-----------------------------------------------------------------------------
Kinds == {"Paint", "NonPaint"}
Models == [Objects -> Versions]
Roots == [model : Models, context : Presets]

Entries == [before : Nat, after : Nat, delta : SUBSET Objects,
            kind : Kinds, session : Nat]
Operations == [before : Nat, depth : Nat \ {0}, prior : SUBSET Roots,
               scene : Models, kind : Kinds, session : Nat]
Sessions == [id : Nat \ {0}, entry : Nat, effective : BOOLEAN]

\* Impl as the constructor makes it, with the two values clear() carries over.
NewHistory(budget, nextSession) ==
  [budget |-> budget, current |-> 0, floor |-> {}, session |-> {},
   nextSession |-> nextSession, nextTimestamp |-> 1, snapshots |-> <<>>,
   entries |-> {}, operation |-> {}, saved |-> {}, savedEvicted |-> FALSE]

-----------------------------------------------------------------------------
(* Reading the timeline *)

UndoEntry(h) == {e \in h.entries : e.after = h.current}
RedoEntry(h) == {e \in h.entries : e.before = h.current}

Captured(h, t) == t \in DOMAIN h.snapshots
Available(h, t) == Captured(h, t) \/ t = h.current
BelowFloor(h, t) == \E f \in h.floor : t < f

ProjectModified(h) == h.savedEvicted \/ h.saved # {h.current}

\* The objects that differ between two models.
Touched(a, b) == {o \in Objects : a[o] # b[o]}

\* The walk of collect_scene_delta from one end to the other: no chain when the
\* walk fails, and no entries when there is nothing to walk.
Chains(h, low, high) ==
  {P \in SUBSET h.entries :
     /\ (P = {}) = (low = high)
     /\ \A e \in P : /\ e.before = low \/ \E f \in P : f.after = e.before
                     /\ e.after = high \/ \E f \in P : f.before = e.after}

ChainsTo(h, target) == IF target < h.current THEN Chains(h, target, h.current)
                                             ELSE Chains(h, h.current, target)

MergedDelta(P) == UNION {e.delta : e \in P}

-----------------------------------------------------------------------------
(* Changing the timeline: operators from one Impl to the next *)

\* Archives that snapshots share are charged once.
BytesUsed(h) ==
  SnapshotBytes * Cardinality(DOMAIN h.snapshots)
  + ArchiveBytes * Cardinality({<<o, h.snapshots[t].model[o]>> :
                                   o \in Objects, t \in DOMAIN h.snapshots})
  + EntryBytes * (Cardinality(h.entries) + Cardinality(h.operation))

SnapshotAt(h, t, roots) ==
  [h EXCEPT !.snapshots = [u \in DOMAIN h.snapshots \cup {t} |->
                              IF u = t THEN roots ELSE h.snapshots[u]]]

\* Only the uncaptured top is captured: an archive is never rewritten.
Capture(h, roots) ==
  IF Captured(h, h.current) THEN h ELSE SnapshotAt(h, h.current, roots)

EraseSnapshots(h, gone) ==
  LET lost == h.saved \cap gone \cap DOMAIN h.snapshots
  IN  [h EXCEPT !.snapshots = [t \in DOMAIN h.snapshots \ gone |-> h.snapshots[t]],
                !.saved = h.saved \ lost,
                !.savedEvicted = h.savedEvicted \/ lost # {}]

Referenced(entries) == {e.before : e \in entries} \cup {e.after : e \in entries}

\* Mutant: a commit leaves the Redo branch in place.
TruncateRedoBranch_KeepsRedo(h) == h

TruncateRedoBranch(h) ==
  LET kept == {e \in h.entries : \A f \in RedoEntry(h) : e.after < f.after}
      retained == {h.current} \cup Referenced(kept)
  IN  IF RedoEntry(h) = {} THEN h
      ELSE EraseSnapshots([h EXCEPT !.entries = kept],
                          DOMAIN h.snapshots \ retained)

\* Mutant: entries outlive the snapshots they need.
PruneUnusableEntries_Never(h) == h

PruneUnusableEntries(h) ==
  [h EXCEPT !.entries = {e \in h.entries : Available(h, e.before)
                                           /\ Available(h, e.after)}]

Evict(h, gone) == PruneUnusableEntries(EraseSnapshots(h, gone))

\* Mutant: eviction may take the neighbours of the cursor.
Protected_CursorOnly(h) == {h.current}

Protected(h) == {h.current} \cup {e.before : e \in UndoEntry(h)}
                            \cup {e.after : e \in RedoEntry(h)}

Evictable(h, preserveRedo) ==
  {t \in DOMAIN h.snapshots \ Protected(h) : preserveRedo => t <= h.current}

\* The loop evicts the oldest evictable snapshot while the budget is exceeded;
\* what is protected does not change while it runs.
Evicted(h, preserveRedo) ==
  LET candidates == Evictable(h, preserveRedo)
  IN  {t \in candidates :
         \A u \in candidates : u <= t =>
            BytesUsed(Evict(h, {v \in candidates : v < u})) > h.budget}

EnforceBudget(h, preserveRedo) ==
  IF Evicted(h, preserveRedo) = {} THEN h
                                   ELSE Evict(h, Evicted(h, preserveRedo))

(* Compaction of an editing session's paint strokes *)

SessionPaint(h, e) == /\ e.kind = "Paint"
                      /\ \E s \in h.session : e.session = s.id
                      /\ e.after <= h.current

\* e continues a run of applied strokes that the entry just before it belongs to.
Continues(h, e) ==
  /\ SessionPaint(h, e)
  /\ \E d \in h.entries : /\ SessionPaint(h, d)
                          /\ d.after = e.before
                          /\ ~\E x \in h.entries : d.after < x.after /\ x.after < e.after

\* The run that begins with e.
Run(h, e) ==
  {f \in h.entries : /\ e.after <= f.after
                     /\ \A x \in h.entries :
                           e.after < x.after /\ x.after <= f.after => Continues(h, x)}

RunEnd(h, e) == {f \in Run(h, e) : \A x \in Run(h, e) : x.after <= f.after}

RunStarts(h) == {e \in h.entries : ~Continues(h, e)}

\* Mutant: a merged entry publishes only the first stroke's delta.
Merged_FirstDelta(h, e, f) == [e EXCEPT !.after = f.after]

\* The entry that stands for the run from e to f.
Merged(h, e, f) == [e EXCEPT !.after = f.after, !.delta = MergedDelta(Run(h, e))]

\* An entry that is no applied stroke is a run by itself.
CompactEntries(h) ==
  UNION {{Merged(h, e, f) : f \in RunEnd(h, e)} : e \in RunStarts(h)}

CompactSession(h) ==
  LET entries == CompactEntries(h)
      intermediate == {e.before : e \in h.entries \ RunStarts(h)}
      retained == {h.current} \cup h.floor \cup Referenced(entries)
  IN  EraseSnapshots([h EXCEPT !.entries = entries], intermediate \ retained)

-----------------------------------------------------------------------------
Init ==
  /\ history = NewHistory(InitialBudget, FirstSessionId)
  /\ presets \in {{p} : p \in Presets}
  /\ live \in [model : Models, context : presets]
  /\ rendered = live.model
  /\ truth = [t \in {0} |-> live.model]
  /\ savedModel = live.model
  /\ retired = {}

Idle == history.operation = {}

\* Mutant: clear() starts the session tokens again.
Clear_ReusesTokens(roots) ==
  /\ roots.context \in presets
  /\ history' = NewHistory(history.budget, FirstSessionId)
  /\ live' = roots
  /\ rendered' = roots.model
  /\ truth' = [t \in {0} |-> roots.model]
  /\ retired' = retired \cup {s.id : s \in history.session}
  /\ UNCHANGED <<presets, savedModel>>

\* Mutant: clear() forgets to reset the saved marker.
Clear_KeepsSaved(roots) ==
  /\ roots.context \in presets
  /\ history' = [NewHistory(history.budget, history.nextSession)
                   EXCEPT !.saved = history.saved]
  /\ live' = roots
  /\ rendered' = roots.model
  /\ truth' = [t \in {0} |-> roots.model]
  /\ retired' = retired \cup {s.id : s \in history.session}
  /\ UNCHANGED <<presets, savedModel>>

\* clear() at a project boundary, with the new project's roots.
Clear(roots) ==
  /\ roots.context \in presets
  /\ history' = NewHistory(history.budget, history.nextSession)
  /\ live' = roots
  /\ rendered' = roots.model
  /\ truth' = [t \in {0} |-> roots.model]
  /\ retired' = retired \cup {s.id : s \in history.session}
  /\ UNCHANGED <<presets, savedModel>>

BeginOperation(kind) ==
  /\ Idle
  /\ Captured(history, history.current) =>
        history.snapshots[history.current].model = live.model
  /\ history' =
       [SnapshotAt(history, history.current, live) EXCEPT !.operation =
          {[before |-> history.current, depth |-> 1,
            prior |-> {history.snapshots[t] :
                          t \in DOMAIN history.snapshots \cap {history.current}},
            scene |-> live.model, kind |-> kind,
            session |-> IF history.session = {} THEN 0
                        ELSE (CHOOSE s \in history.session : TRUE).id]}]
  /\ UNCHANGED <<live, rendered, presets, truth, savedModel, retired>>

BeginNested ==
  \E op \in history.operation :
    /\ op.depth < MaxDepth
    /\ history' = [history EXCEPT !.operation = {[op EXCEPT !.depth = @ + 1]}]
    /\ UNCHANGED <<live, rendered, presets, truth, savedModel, retired>>

\* The caller edits the model between begin_operation and its end.
EditModel(o, v) ==
  /\ ~Idle
  /\ live' = [live EXCEPT !.model[o] = v]
  /\ UNCHANGED <<history, rendered, presets, truth, savedModel, retired>>

\* Selection, current plate and preset choice live beside the model.
EditContext(p) ==
  /\ p \in presets
  /\ live' = [live EXCEPT !.context = p]
  /\ UNCHANGED <<history, rendered, presets, truth, savedModel, retired>>

CommitNested ==
  \E op \in history.operation :
    /\ op.depth > 1
    /\ history' = [history EXCEPT !.operation = {[op EXCEPT !.depth = @ - 1]}]
    /\ UNCHANGED <<live, rendered, presets, truth, savedModel, retired>>

Committed(h, op, successor) ==
  LET base == TruncateRedoBranch([h EXCEPT !.operation = {}])
      entry == [before |-> op.before, after |-> h.nextTimestamp,
                delta |-> Touched(op.scene, successor),
                kind |-> op.kind, session |-> op.session]
  IN  EnforceBudget(
        [base EXCEPT !.nextTimestamp = @ + 1,
                     !.entries = @ \cup {entry},
                     !.current = h.nextTimestamp,
                     !.session = {[s EXCEPT !.effective = @ \/ s.id = op.session] :
                                     s \in base.session}], FALSE)

\* The renderer patches the objects of a delta and leaves the others alone.
Patched(delta, model) == [o \in Objects |-> IF o \in delta THEN model[o] ELSE rendered[o]]

CommitOperation ==
  \E op \in history.operation :
    /\ op.depth = 1
    /\ live # history.snapshots[op.before]      \* otherwise the caller aborts
    /\ history.nextTimestamp <= MaxTimestamp
    /\ history' = Committed(history, op, live.model)
    /\ truth' = [t \in DOMAIN truth \cup {history.nextTimestamp} |->
                    IF t = history.nextTimestamp THEN live.model ELSE truth[t]]
    /\ rendered' = Patched(Touched(op.scene, live.model), live.model)
    /\ UNCHANGED <<live, presets, savedModel, retired>>

Aborted(h, op) ==
  [h EXCEPT !.operation = {},
            !.snapshots = [t \in IF op.prior = {} THEN DOMAIN h.snapshots \ {op.before}
                                                  ELSE DOMAIN h.snapshots |->
                             IF t = op.before THEN CHOOSE s \in op.prior : TRUE
                                              ELSE h.snapshots[t]]]

\* Mutant: the caller keeps what the aborted operation did.
AbortOperation_KeepsEdits ==
  \E op \in history.operation :
    /\ history' = Aborted(history, op)
    /\ rendered' = live.model
    /\ UNCHANGED <<live, presets, truth, savedModel, retired>>

\* The caller takes back the predecessor, or finds that nothing changed.
AbortOperation ==
  \E op \in history.operation :
    /\ history' = Aborted(history, op)
    /\ \/ live' = history.snapshots[op.before]
       \/ live.model = op.scene /\ UNCHANGED live
    /\ rendered' = live'.model
    /\ UNCHANGED <<presets, truth, savedModel, retired>>

\* restore(): the shared tail of undo, redo and the jumps.
Restore(target) ==
  /\ Idle
  /\ ~BelowFloor(history, target)
  /\ Available(history, target)
  /\ LET h == Capture(history, live)
     IN  /\ live' = h.snapshots[target]
         /\ history' = EnforceBudget([h EXCEPT !.current = target], FALSE)
  /\ \E P \in ChainsTo(history, target) :
        rendered' = Patched(MergedDelta(P), live'.model)
  /\ UNCHANGED <<presets, truth, savedModel, retired>>

Undo == \E e \in UndoEntry(history) : Restore(e.before)

\* redo() has no live roots to capture, so the cursor must be captured already.
Redo == \E e \in RedoEntry(history) :
           Captured(history, history.current) /\ Restore(e.after)

RestoreBefore(e) == e.before < history.current /\ Restore(e.before)
RestoreAfter(e) == e.after > history.current /\ Restore(e.after)

MarkCurrentAsSaved ==
  /\ Idle      \* a save is one operation of the application's project queue
  /\ history' = [history EXCEPT !.saved = {history.current}, !.savedEvicted = FALSE]
  /\ savedModel' = live.model
  /\ UNCHANGED <<live, rendered, presets, truth, retired>>

SetNavigationFloor(floor) ==
  /\ Idle /\ history.session = {}
  /\ \A t \in floor : t <= history.current /\ Available(history, t)
  /\ history' = [history EXCEPT !.floor = floor]
  /\ UNCHANGED <<live, rendered, presets, truth, savedModel, retired>>

SetByteBudget(bytes) ==
  /\ history' = EnforceBudget([history EXCEPT !.budget = bytes], FALSE)
  /\ UNCHANGED <<live, rendered, presets, truth, savedModel, retired>>

BeginEditingSession ==
  /\ Idle /\ history.session = {} /\ history.nextSession # 0
  /\ history.floor \subseteq {history.current}
  /\ history' = [history EXCEPT
       !.session = {[id |-> history.nextSession, entry |-> history.current,
                     effective |-> FALSE]},
       !.floor = {history.current},
       !.nextSession = IF @ = MaxSessionId THEN 0 ELSE @ + 1]
  /\ UNCHANGED <<live, rendered, presets, truth, savedModel, retired>>

CompactEditingSession ==
  /\ Idle /\ history.session # {}
  /\ \E e \in history.entries : Continues(history, e)
  /\ history' = EnforceBudget(CompactSession(history), TRUE)
  /\ UNCHANGED <<live, rendered, presets, truth, savedModel, retired>>

\* Mutant: a session that committed nothing discards the Redo branch as well.
CloseEditingSession_Truncates ==
  /\ Idle
  /\ \E s \in history.session :
       /\ history' = EnforceBudget([TruncateRedoBranch(CompactSession(history))
                                      EXCEPT !.floor = {}, !.session = {}], FALSE)
       /\ retired' = retired \cup {s.id}
  /\ UNCHANGED <<live, rendered, presets, truth, savedModel>>

CloseEditingSession ==
  /\ Idle
  /\ \E s \in history.session :
       LET compacted == CompactSession(history)
           base == IF s.effective THEN TruncateRedoBranch(compacted) ELSE compacted
       IN  /\ history' = EnforceBudget([base EXCEPT !.floor = {}, !.session = {}],
                                       ~s.effective)
           /\ retired' = retired \cup {s.id}
  /\ UNCHANGED <<live, rendered, presets, truth, savedModel>>

Renamed(roots, from, to) ==
  IF roots.context = from THEN [roots EXCEPT !.context = to] ELSE roots

RewrittenOperation(op, from, to) ==
  [op EXCEPT !.prior = {Renamed(s, from, to) : s \in op.prior}]

\* Mutant: the root an abort goes back to is forgotten.
RewriteContexts_SkipsRollbackRoot(from, to, rebind) ==
  /\ from \in presets /\ to \notin presets
  /\ presets' = (presets \ {from}) \cup {to}
  /\ live' = Renamed(live, from, to)
  /\ history' = [history EXCEPT
       !.snapshots = [t \in DOMAIN @ |-> Renamed(@[t], from, to)]]
  /\ UNCHANGED <<rendered, truth, savedModel, retired>>

\* rewrite_contexts when a preset is renamed in the repository; a save may also
\* rebind the cursor's context.  The root an abort goes back to is rewritten too.
RewriteContexts(from, to, rebind) ==
  /\ from \in presets /\ to \notin presets
  /\ presets' = (presets \ {from}) \cup {to}
  /\ live' = Renamed(live, from, to)
  /\ history' = [history EXCEPT
       !.snapshots = [t \in DOMAIN @ |->
          IF rebind /\ t = history.current
            THEN [@[t] EXCEPT !.context = live'.context]
            ELSE Renamed(@[t], from, to)],
       !.operation = {RewrittenOperation(op, from, to) : op \in @}]
  /\ UNCHANGED <<rendered, truth, savedModel, retired>>

\* A second preset appears in the repository.
AddPreset(p) ==
  /\ p \notin presets
  /\ presets' = presets \cup {p}
  /\ UNCHANGED <<history, live, rendered, truth, savedModel, retired>>

Next ==
  \/ \E roots \in Roots : Clear(roots)
  \/ \E kind \in Kinds : BeginOperation(kind)
  \/ BeginNested
  \/ \E o \in Objects, v \in Versions : EditModel(o, v)
  \/ \E p \in Presets : EditContext(p)
  \/ CommitNested
  \/ CommitOperation
  \/ AbortOperation
  \/ Undo
  \/ Redo
  \/ \E e \in history.entries : RestoreBefore(e)
  \/ \E e \in history.entries : RestoreAfter(e)
  \/ MarkCurrentAsSaved
  \/ \E floor \in Floors : SetNavigationFloor(floor)
  \/ \E bytes \in Budgets : SetByteBudget(bytes)
  \/ BeginEditingSession
  \/ CompactEditingSession
  \/ CloseEditingSession
  \/ \E from, to \in Presets, rebind \in BOOLEAN : RewriteContexts(from, to, rebind)
  \/ \E p \in Presets : AddPreset(p)

Spec == Init /\ [][Next]_vars

-----------------------------------------------------------------------------
(* Properties *)

HistoryTypeOK(h) ==
  /\ h \in [budget : Nat, current : Nat, floor : SUBSET Nat,
            session : SUBSET Sessions, nextSession : Nat,
            nextTimestamp : Nat \ {0},
            snapshots : UNION {[T -> Roots] : T \in SUBSET (0..h.nextTimestamp - 1)},
            entries : SUBSET Entries, operation : SUBSET Operations,
            saved : SUBSET Nat, savedEvicted : BOOLEAN]
  /\ \A s, t \in h.floor : s = t
  /\ \A s, t \in h.session : s = t
  /\ \A s, t \in h.operation : s = t
  /\ \A op \in h.operation : \A s, t \in op.prior : s = t
  /\ \A s, t \in h.saved : s = t

\* Every field of Impl and of the caller's state keeps its type, and an optional
\* holds at most one value.
TypeOK ==
  /\ HistoryTypeOK(history)
  /\ live \in Roots
  /\ rendered \in Models
  /\ presets \subseteq Presets
  /\ truth \in [0..history.nextTimestamp - 1 -> Models]
  /\ savedModel \in Models
  /\ retired \subseteq Nat \ {0}

\* Undo, Redo and the jumps bring back exactly the model that was committed at
\* the timestamp they name: no refresh of a restored context, eviction,
\* compaction or aborted operation ever changes what a timestamp stands for
\* (capture, refresh_restored_context, abort_operation, restore).
RestoresWhatWasCommitted ==
  /\ \A t \in DOMAIN history.snapshots : history.snapshots[t].model = truth[t]
  /\ Idle => live.model = truth[history.current]

\* Every entry the status lists can be navigated: its predecessor is captured,
\* and so is its successor unless it is the live top (prune_unusable_entries
\* against eviction, truncation and compaction).
EntriesNavigable ==
  \A e \in history.entries : /\ Captured(history, e.before)
                             /\ Available(history, e.after)

\* The timeline never forks: no two entries leave or reach one timestamp, so
\* that undo_entry and redo_entry have one answer.
TimelineNeverForks ==
  \A d, e \in history.entries :
     d.before = e.before \/ d.after = e.after => d = e

\* A project reported as unmodified is the one that was saved, also after the
\* saved state was undone, truncated, evicted or compacted away.
CleanMeansSaved ==
  Idle /\ ~ProjectModified(history) => live.model = savedModel

\* The saved marker names a state that can still be restored: when its snapshot is
\* erased the marker goes with it and the loss is noted (note_checkpoint_loss).
SavedMarkerHonest == \A t \in history.saved : Available(history, t)

\* A renderer that applies only the published scene deltas shows the live model
\* whenever no operation is open (scene_delta, collect_scene_delta and the
\* merge of a compacted entry).
RendererInStep == Idle => rendered = live.model

\* No retained context, nor the root an abort goes back to, refers to a preset
\* the repository has renamed (rewrite_contexts).
ContextsResolve ==
  /\ \A t \in DOMAIN history.snapshots : history.snapshots[t].context \in presets
  /\ \A op \in history.operation : \A s \in op.prior : s.context \in presets
  /\ live.context \in presets

\* While a session is open the cursor stays at or above its entry timestamp,
\* and its token is one no earlier session held, across clear() too.
SessionConfined ==
  \A s \in history.session : /\ history.floor = {s.entry}
                             /\ s.entry <= history.current
                             /\ s.id \notin retired

\* One step of Undo or Redo can be taken back at once, however tight the
\* budget: the nearest neighbours are never evicted (protected_timestamps).
NavigationReversible ==
  [][ /\ Undo => \E e \in RedoEntry(history') : e.after = history.current
                                                /\ Captured(history', e.after)
      /\ Redo => \E e \in UndoEntry(history') : e.before = history.current
                                                /\ Captured(history', e.before)
    ]_vars

\* Closing a session that committed nothing leaves the Redo branch as it was.
NoEffectCloseKeepsRedo ==
  [][ CloseEditingSession /\ (\A s \in history.session : ~s.effective) =>
        /\ {e \in history.entries : e.before >= history.current} \subseteq history'.entries
        /\ \A t \in DOMAIN history.snapshots :
              t >= history.current => t \in DOMAIN history'.snapshots
    ]_vars

-----------------------------------------------------------------------------
(* The line of states that the timeline implements *)

\* The timestamps one reaches from the cursor, entry by entry.
Reachable(h) ==
  {t \in Referenced(h.entries) \cup {h.current} : ChainsTo(h, t) # {}}

Stack == INSTANCE UndoStack WITH
  States <- Models,
  line <- [t \in Reachable(history) |-> truth[t]],
  cursor <- history.current

\* The timeline implements the line of states: a commit leaves nothing to redo,
\* navigation only ever reaches states that were committed, Redo undoes Undo,
\* and eviction and compaction never touch the states next to the cursor.
ImplementsUndoStack == Stack!Spec
=============================================================================
