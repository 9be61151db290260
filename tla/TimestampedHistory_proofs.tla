---------------------- MODULE TimestampedHistory_proofs ----------------------
(***************************************************************************)
(* Safety of the Undo/Redo timeline for every set of objects, contents and *)
(* presets, every budget and every bound.                                  *)
(*                                                                         *)
(* "Sound" is the strengthening of the invariants that every operation on  *)
(* the timeline preserves; it is stated of a record h, so that the lemmas  *)
(* follow the operators an action composes.  "Kept" is the second layer,   *)
(* with the same style of lemma: the session and its tokens, the contexts, *)
(* and that an object which an entry's delta does not name is the same on  *)
(* both sides of it, from which a walk along entries tells a renderer all  *)
(* that differs between its ends.  "Joined" is about the walks themselves: *)
(* what they make of the timeline is one line of states, and every step is *)
(* a step of UndoStack on it.                                              *)
(***************************************************************************)
EXTENDS TimestampedHistory, FiniteSetTheorems, WellFoundedInduction, TLAPS

-----------------------------------------------------------------------------
(* The inductive invariant *)

Ordered(h) ==
  /\ h.current < h.nextTimestamp
  /\ \A e \in h.entries : e.before < e.after /\ e.after < h.nextTimestamp

Unforked(h) ==
  \A d, e \in h.entries : d.before = e.before \/ d.after = e.after => d = e

Navigable(h) ==
  \A e \in h.entries : Captured(h, e.before) /\ Available(h, e.after)

SavedAvailable(h) == \A t \in h.saved : Available(h, t)

\* What the timeline holds agrees with what was committed and what was saved.
Faithful(h, committed, saved) ==
  /\ \A t \in DOMAIN h.snapshots : h.snapshots[t].model = committed[t]
  /\ \A t \in h.saved : committed[t] = saved

\* An open operation began at the cursor, whose predecessor is captured; a
\* predecessor it captured itself is the newest state, with nothing to redo.
OperationSound(h, committed) ==
  \A op \in h.operation :
    /\ op.before = h.current
    /\ Captured(h, h.current)
    /\ op.scene = committed[h.current]
    /\ \A s \in op.prior : s.model = committed[h.current]
    /\ op.prior = {} => \A e \in h.entries : e.before # h.current

Sound(h, committed, saved) ==
  /\ HistoryTypeOK(h)
  /\ Ordered(h)
  /\ Unforked(h)
  /\ Navigable(h)
  /\ SavedAvailable(h)
  /\ Faithful(h, committed, saved)
  /\ OperationSound(h, committed)

IInv ==
  /\ TypeOK
  /\ Sound(history, truth, savedModel)
  /\ Idle => live.model = truth[history.current]

-----------------------------------------------------------------------------
(* Lemmas about the operators on Impl *)

SnapshotMaps(n) == UNION {[T -> Roots] : T \in SUBSET (0..n - 1)}

HistoryType(n) ==
  [budget : Nat, current : Nat, floor : SUBSET Nat, session : SUBSET Sessions,
   nextSession : Nat, nextTimestamp : Nat \ {0}, snapshots : SnapshotMaps(n),
   entries : SUBSET Entries, operation : SUBSET Operations,
   saved : SUBSET Nat, savedEvicted : BOOLEAN]

\* A map of snapshots is one on a set of allocated timestamps.
LEMMA SnapshotMapIntro ==
  ASSUME NEW n, NEW T \in SUBSET (0..n - 1), NEW f \in [T -> Roots]
  PROVE  f \in SnapshotMaps(n)
BY DEF SnapshotMaps

\* ... and every map of snapshots is of that form.
LEMMA SnapshotMapElim ==
  ASSUME NEW n, NEW f \in SnapshotMaps(n)
  PROVE  /\ DOMAIN f \subseteq 0..n - 1
         /\ f \in [DOMAIN f -> Roots]
BY DEF SnapshotMaps

\* Erasing snapshots keeps the type, and forgets the saved marker only with the
\* snapshot it names.
LEMMA EraseType ==
  ASSUME NEW h, HistoryTypeOK(h), NEW gone
  PROVE  LET g == EraseSnapshots(h, gone)
         IN  /\ HistoryTypeOK(g)
             /\ DOMAIN g.snapshots = DOMAIN h.snapshots \ gone
             /\ \A t \in DOMAIN g.snapshots : g.snapshots[t] = h.snapshots[t]
             /\ g.saved = h.saved \ (gone \cap DOMAIN h.snapshots)
             /\ g.entries = h.entries /\ g.current = h.current
             /\ g.nextTimestamp = h.nextTimestamp
             /\ g.operation = h.operation
             /\ g.session = h.session /\ g.floor = h.floor
             /\ g.budget = h.budget /\ g.nextSession = h.nextSession
<1> DEFINE g == EraseSnapshots(h, gone)
           kept == [t \in DOMAIN h.snapshots \ gone |-> h.snapshots[t]]
           n == h.nextTimestamp
<1>1. h \in HistoryType(n)
  BY DEF HistoryTypeOK, HistoryType, SnapshotMaps
<1>2. DOMAIN h.snapshots \subseteq 0..n - 1 /\ h.snapshots \in [DOMAIN h.snapshots -> Roots]
  BY <1>1, SnapshotMapElim DEF HistoryType
<1>3. kept \in SnapshotMaps(n)
  <2>1. DOMAIN h.snapshots \ gone \in SUBSET (0..n - 1)
    BY <1>2
  <2>2. kept \in [DOMAIN h.snapshots \ gone -> Roots]
    BY <1>2
  <2> QED BY <2>1, <2>2, SnapshotMapIntro
<1>4. g = [h EXCEPT !.snapshots = kept,
                    !.saved = h.saved \ (h.saved \cap gone \cap DOMAIN h.snapshots),
                    !.savedEvicted = h.savedEvicted
                       \/ h.saved \cap gone \cap DOMAIN h.snapshots # {}]
  BY DEF EraseSnapshots
<1>5. /\ g \in HistoryType(n)
      /\ g.snapshots = kept
      /\ g.saved = h.saved \ (gone \cap DOMAIN h.snapshots)
      /\ g.entries = h.entries /\ g.current = h.current
      /\ g.nextTimestamp = h.nextTimestamp /\ g.operation = h.operation
      /\ g.session = h.session /\ g.floor = h.floor
      /\ g.budget = h.budget /\ g.nextSession = h.nextSession
  <2> HIDE DEF kept, g
  <2> QED BY <1>1, <1>3, <1>4 DEF HistoryType
<1>6. HistoryTypeOK(g)
  <2> HIDE DEF kept, g
  <2> QED BY <1>5 DEF HistoryTypeOK, HistoryType, SnapshotMaps
<1> QED BY <1>5, <1>6

\* Fewer entries keep the type.
LEMMA FewerEntriesType ==
  ASSUME NEW h, HistoryTypeOK(h), NEW E \in SUBSET Entries
  PROVE  LET g == [h EXCEPT !.entries = E]
         IN  /\ HistoryTypeOK(g)
             /\ g.entries = E
             /\ g.snapshots = h.snapshots /\ g.saved = h.saved
             /\ g.current = h.current /\ g.nextTimestamp = h.nextTimestamp
             /\ g.operation = h.operation
             /\ g.session = h.session /\ g.floor = h.floor
             /\ g.budget = h.budget /\ g.nextSession = h.nextSession
             /\ g.savedEvicted = h.savedEvicted
BY DEF HistoryTypeOK

\* Evicting snapshots other than the cursor's keeps the timeline sound.
LEMMA EvictSound ==
  ASSUME NEW h, NEW committed, NEW saved, Sound(h, committed, saved),
         NEW gone, h.current \notin gone
  PROVE  LET g == Evict(h, gone)
         IN  /\ Sound(g, committed, saved)
             /\ g.current = h.current /\ g.nextTimestamp = h.nextTimestamp
             /\ g.operation = h.operation
             /\ g.session = h.session /\ g.floor = h.floor
             /\ g.entries \subseteq h.entries
             /\ DOMAIN g.snapshots = DOMAIN h.snapshots \ gone
             /\ \A t \in DOMAIN g.snapshots : g.snapshots[t] = h.snapshots[t]
<1> DEFINE m == EraseSnapshots(h, gone)
           E == {e \in m.entries : Available(m, e.before) /\ Available(m, e.after)}
           g == [m EXCEPT !.entries = E]
<1>1. HistoryTypeOK(h)
  BY DEF Sound
<1>2. /\ HistoryTypeOK(m)
      /\ DOMAIN m.snapshots = DOMAIN h.snapshots \ gone
      /\ \A t \in DOMAIN m.snapshots : m.snapshots[t] = h.snapshots[t]
      /\ m.saved = h.saved \ (gone \cap DOMAIN h.snapshots)
      /\ m.entries = h.entries /\ m.current = h.current
      /\ m.nextTimestamp = h.nextTimestamp /\ m.operation = h.operation
      /\ m.session = h.session /\ m.floor = h.floor
  BY <1>1, EraseType
<1>3. m.entries \subseteq Entries
  BY <1>2 DEF HistoryTypeOK
<1>4. g = Evict(h, gone)
  BY DEF Evict, PruneUnusableEntries
<1> HIDE DEF m
<1>5. /\ HistoryTypeOK(g)
      /\ g.entries = E
      /\ g.snapshots = m.snapshots /\ g.saved = m.saved
      /\ g.current = m.current /\ g.nextTimestamp = m.nextTimestamp
      /\ g.operation = m.operation
      /\ g.session = m.session /\ g.floor = m.floor
  <2>1. E \in SUBSET Entries
    BY <1>3
  <2> HIDE DEF E
  <2> QED BY <1>2, <2>1, FewerEntriesType
<1>6. E \subseteq h.entries
  BY <1>2
<1>7. \A e \in E : /\ Available(m, e.before) /\ Available(m, e.after)
  OBVIOUS
<1> HIDE DEF E, g
<1>8. Ordered(g)
  BY <1>2, <1>5, <1>6 DEF Sound, Ordered
<1>9. Unforked(g)
  BY <1>5, <1>6 DEF Sound, Unforked
<1>10. Navigable(g)
  BY <1>2, <1>5, <1>6, <1>7 DEF Sound, Navigable, Available, Captured
<1>11. SavedAvailable(g)
  BY <1>2, <1>5 DEF Sound, SavedAvailable, Available, Captured
<1>12. Faithful(g, committed, saved)
  BY <1>2, <1>5 DEF Sound, Faithful
<1>13. OperationSound(g, committed)
  BY <1>2, <1>5, <1>6 DEF Sound, OperationSound, Captured
<1>14. Sound(g, committed, saved)
  BY <1>5, <1>8, <1>9, <1>10, <1>11, <1>12, <1>13 DEF Sound
<1> QED BY <1>2, <1>4, <1>5, <1>6, <1>14

\* The budget never evicts what the cursor stands on.
LEMMA EnforceSound ==
  ASSUME NEW h, NEW committed, NEW saved, Sound(h, committed, saved),
         NEW preserveRedo \in BOOLEAN
  PROVE  LET g == EnforceBudget(h, preserveRedo)
         IN  /\ Sound(g, committed, saved)
             /\ g.current = h.current /\ g.nextTimestamp = h.nextTimestamp
             /\ g.operation = h.operation
             /\ g.session = h.session /\ g.floor = h.floor
             /\ g.entries \subseteq h.entries
             /\ DOMAIN g.snapshots \subseteq DOMAIN h.snapshots
             /\ \A t \in DOMAIN g.snapshots : g.snapshots[t] = h.snapshots[t]
<1> DEFINE gone == Evicted(h, preserveRedo)
<1>1. h.current \notin gone
  BY DEF Evicted, Evictable, Protected
<1>2. EnforceBudget(h, preserveRedo) = IF gone = {} THEN h ELSE Evict(h, gone)
  BY DEF EnforceBudget
<1> HIDE DEF gone
<1>3. CASE gone = {}
  BY <1>2, <1>3
<1>4. CASE gone # {}
  BY <1>1, <1>2, <1>4, EvictSound
<1> QED BY <1>3, <1>4

\* Truncation leaves nothing to redo from the cursor.
LEMMA TruncateSound ==
  ASSUME NEW h, NEW committed, NEW saved, Sound(h, committed, saved),
         h.operation = {}
  PROVE  LET g == TruncateRedoBranch(h)
         IN  /\ Sound(g, committed, saved)
             /\ \A e \in g.entries : e.before # g.current
             /\ g.current = h.current /\ g.nextTimestamp = h.nextTimestamp
             /\ g.operation = {}
             /\ g.session = h.session /\ g.floor = h.floor
             /\ g.entries \subseteq h.entries
             /\ Captured(h, h.current) => Captured(g, h.current)
<1>1. CASE RedoEntry(h) = {}
  BY <1>1 DEF TruncateRedoBranch, RedoEntry
<1>2. CASE RedoEntry(h) # {}
  <2> DEFINE kept == {e \in h.entries : \A f \in RedoEntry(h) : e.after < f.after}
             retained == {h.current} \cup Referenced(kept)
             gone == DOMAIN h.snapshots \ retained
             m == [h EXCEPT !.entries = kept]
             g == EraseSnapshots(m, gone)
  <2>1. g = TruncateRedoBranch(h)
    BY <1>2 DEF TruncateRedoBranch
  <2>2. HistoryTypeOK(h) /\ h.entries \subseteq Entries
    BY DEF Sound, HistoryTypeOK
  <2>3. kept \in SUBSET Entries /\ kept \subseteq h.entries
    BY <2>2
  <2>4. \A e \in kept : e.before # h.current
    BY <2>2 DEF RedoEntry, Entries
  <2>5. /\ HistoryTypeOK(m)
        /\ m.entries = kept
        /\ m.snapshots = h.snapshots /\ m.saved = h.saved
        /\ m.current = h.current /\ m.nextTimestamp = h.nextTimestamp
        /\ m.operation = h.operation
        /\ m.session = h.session /\ m.floor = h.floor
    <3> HIDE DEF kept
    <3> QED BY <2>2, <2>3, FewerEntriesType
  <2>6. /\ HistoryTypeOK(g)
        /\ DOMAIN g.snapshots = DOMAIN m.snapshots \ gone
        /\ \A t \in DOMAIN g.snapshots : g.snapshots[t] = m.snapshots[t]
        /\ g.saved = m.saved \ (gone \cap DOMAIN m.snapshots)
        /\ g.entries = m.entries /\ g.current = m.current
        /\ g.nextTimestamp = m.nextTimestamp /\ g.operation = m.operation
        /\ g.session = m.session /\ g.floor = m.floor
    <3> HIDE DEF gone, m
    <3> QED BY <2>5, EraseType
  <2>7. /\ h.current \notin gone
        /\ \A e \in kept : e.before \notin gone /\ e.after \notin gone
    BY DEF Referenced
  <2> HIDE DEF kept, gone, m, g
  <2>8. Ordered(g)
    BY <2>3, <2>5, <2>6 DEF Sound, Ordered
  <2>9. Unforked(g)
    BY <2>3, <2>5, <2>6 DEF Sound, Unforked
  <2>10. Navigable(g)
    BY <2>3, <2>5, <2>6, <2>7 DEF Sound, Navigable, Available, Captured
  <2>11. SavedAvailable(g)
    BY <2>5, <2>6 DEF Sound, SavedAvailable, Available, Captured
  <2>12. Faithful(g, committed, saved)
    BY <2>5, <2>6 DEF Sound, Faithful
  <2>13. OperationSound(g, committed)
    BY <2>5, <2>6 DEF OperationSound
  <2>14. Sound(g, committed, saved)
    BY <2>6, <2>8, <2>9, <2>10, <2>11, <2>12, <2>13 DEF Sound
  <2> QED BY <2>1, <2>3, <2>4, <2>5, <2>6, <2>7, <2>14 DEF Captured
<1> QED BY <1>1, <1>2

\* Capturing the cursor with the model committed there keeps the timeline sound.
LEMMA SnapshotSound ==
  ASSUME NEW h, NEW committed, NEW saved, Sound(h, committed, saved),
         NEW roots \in Roots, roots.model = committed[h.current]
  PROVE  LET g == SnapshotAt(h, h.current, roots)
         IN  /\ Sound(g, committed, saved)
             /\ g.current = h.current /\ g.nextTimestamp = h.nextTimestamp
             /\ g.operation = h.operation
             /\ g.session = h.session /\ g.floor = h.floor
             /\ g.entries = h.entries /\ g.saved = h.saved
             /\ DOMAIN g.snapshots = DOMAIN h.snapshots \cup {h.current}
             /\ g.snapshots[h.current] = roots
<1> DEFINE n == h.nextTimestamp
           taken == [u \in DOMAIN h.snapshots \cup {h.current} |->
                       IF u = h.current THEN roots ELSE h.snapshots[u]]
           g == SnapshotAt(h, h.current, roots)
<1>1. HistoryTypeOK(h) /\ h \in HistoryType(n)
  BY DEF Sound, HistoryTypeOK, HistoryType, SnapshotMaps
<1>2. DOMAIN h.snapshots \subseteq 0..n - 1 /\ h.snapshots \in [DOMAIN h.snapshots -> Roots]
  BY <1>1, SnapshotMapElim DEF HistoryType
<1>3. taken \in SnapshotMaps(n)
  <2>1. h.current \in 0..n - 1
    BY <1>1 DEF Sound, Ordered, HistoryType
  <2>2. DOMAIN h.snapshots \cup {h.current} \in SUBSET (0..n - 1)
    BY <1>2, <2>1
  <2>3. taken \in [DOMAIN h.snapshots \cup {h.current} -> Roots]
    BY <1>2
  <2> HIDE DEF taken
  <2> QED BY <2>2, <2>3, SnapshotMapIntro
<1>4. g = [h EXCEPT !.snapshots = taken]
  BY DEF SnapshotAt
<1>5. /\ HistoryTypeOK(g)
      /\ g.snapshots = taken
      /\ g.current = h.current /\ g.nextTimestamp = h.nextTimestamp
      /\ g.operation = h.operation
      /\ g.session = h.session /\ g.floor = h.floor
      /\ g.entries = h.entries /\ g.saved = h.saved
  <2> HIDE DEF taken, g
  <2>1. g \in HistoryType(n) /\ g.nextTimestamp = n
    BY <1>1, <1>3, <1>4 DEF HistoryType
  <2> QED BY <1>1, <1>4, <2>1 DEF HistoryTypeOK, HistoryType, SnapshotMaps
<1>6. /\ DOMAIN g.snapshots = DOMAIN h.snapshots \cup {h.current}
      /\ g.snapshots[h.current] = roots
      /\ \A t \in DOMAIN h.snapshots \ {h.current} : g.snapshots[t] = h.snapshots[t]
  BY <1>5
<1> HIDE DEF taken, g
<1>7. Ordered(g) /\ Unforked(g)
  BY <1>5 DEF Sound, Ordered, Unforked
<1>8. Navigable(g) /\ SavedAvailable(g)
  BY <1>5, <1>6 DEF Sound, Navigable, SavedAvailable, Available, Captured
<1>9. Faithful(g, committed, saved)
  BY <1>5, <1>6 DEF Sound, Faithful
<1>10. OperationSound(g, committed)
  BY <1>5, <1>6 DEF Sound, OperationSound, Captured
<1>11. Sound(g, committed, saved)
  BY <1>5, <1>7, <1>8, <1>9, <1>10 DEF Sound
<1> QED BY <1>5, <1>6, <1>11 DEF g

\* Merging the strokes of a session keeps the timeline sound: a run starts where
\* its first stroke did and ends where its last one did, and runs are disjoint.
LEMMA CompactSound ==
  ASSUME NEW h, NEW committed, NEW saved, Sound(h, committed, saved),
         h.operation = {}
  PROVE  LET g == CompactSession(h)
         IN  /\ Sound(g, committed, saved)
             /\ g.current = h.current /\ g.nextTimestamp = h.nextTimestamp
             /\ g.operation = {}
             /\ g.session = h.session /\ g.floor = h.floor
<1> DEFINE C == CompactEntries(h)
           retained == {h.current} \cup h.floor \cup Referenced(C)
           gone == {e.before : e \in h.entries \ RunStarts(h)} \ retained
           m == [h EXCEPT !.entries = C]
           g == EraseSnapshots(m, gone)
<1>1. g = CompactSession(h)
  BY DEF CompactSession
<1>2. HistoryTypeOK(h) /\ h.entries \subseteq Entries
  BY DEF Sound, HistoryTypeOK
<1>3. ASSUME NEW c \in C
      PROVE  \E e \in RunStarts(h) : \E f \in RunEnd(h, e) : c = Merged(h, e, f)
  BY <1>3 DEF CompactEntries
<1>4. ASSUME NEW e \in RunStarts(h), NEW f \in RunEnd(h, e)
      PROVE  /\ Merged(h, e, f) \in Entries
             /\ Merged(h, e, f).before = e.before
             /\ Merged(h, e, f).after = f.after
             /\ e \in h.entries /\ f \in h.entries /\ e.after <= f.after
  <2>1. e \in Entries /\ f \in Entries /\ f \in Run(h, e)
    BY <1>2 DEF RunStarts, RunEnd, Run
  <2>2. MergedDelta(Run(h, e)) \in SUBSET Objects
    BY <1>2 DEF MergedDelta, Run, Entries
  <2> QED BY <2>1, <2>2 DEF Merged, Entries, RunStarts, Run
<1>5. C \in SUBSET Entries
  BY <1>3, <1>4
<1>6. \A c \in C : /\ c.before < c.after /\ c.after < h.nextTimestamp
                   /\ Captured(h, c.before) /\ Available(h, c.after)
  <2> SUFFICES ASSUME NEW c \in C
               PROVE  /\ c.before < c.after /\ c.after < h.nextTimestamp
                      /\ Captured(h, c.before) /\ Available(h, c.after)
    OBVIOUS
  <2>a. PICK e \in RunStarts(h) : \E f \in RunEnd(h, e) : c = Merged(h, e, f)
    BY <1>3
  <2>1. PICK f \in RunEnd(h, e) : c = Merged(h, e, f)
    BY <2>a
  <2>2. /\ c.before = e.before /\ c.after = f.after
        /\ e \in h.entries /\ f \in h.entries /\ e.after <= f.after
    BY <1>4, <2>1
  <2>3. e \in Entries /\ f \in Entries
    BY <1>2, <2>2
  <2>4. e.before < e.after /\ f.after < h.nextTimestamp /\ h.nextTimestamp \in Nat
    BY <1>2, <2>2 DEF Sound, Ordered, HistoryTypeOK
  <2>5. Captured(h, e.before) /\ Available(h, f.after)
    BY <2>2 DEF Sound, Navigable
  <2> QED BY <2>2, <2>3, <2>4, <2>5 DEF Entries
<1>7. ASSUME NEW c \in C, NEW d \in C, c.before = d.before \/ c.after = d.after
      PROVE  c = d
  <2>a. PICK e \in RunStarts(h) : \E f \in RunEnd(h, e) : c = Merged(h, e, f)
    BY <1>3
  <2>1. PICK f \in RunEnd(h, e) : c = Merged(h, e, f)
    BY <2>a
  <2>b. PICK x \in RunStarts(h) : \E y \in RunEnd(h, x) : d = Merged(h, x, y)
    BY <1>3
  <2>2. PICK y \in RunEnd(h, x) : d = Merged(h, x, y)
    BY <2>b
  <2>3. /\ c.before = e.before /\ c.after = f.after /\ e.after <= f.after
        /\ e \in h.entries /\ f \in h.entries
    BY <1>4, <2>1
  <2>4. /\ d.before = x.before /\ d.after = y.after /\ x.after <= y.after
        /\ x \in h.entries /\ y \in h.entries
    BY <1>4, <2>2
  <2>5. {e, f, x, y} \subseteq Entries
    BY <1>2, <2>3, <2>4
  <2>6. ASSUME e = x PROVE f = y
    <3>1. f.after <= y.after /\ y.after <= f.after
      BY <2>6 DEF RunEnd
    <3>2. f.after = y.after
      BY <2>5, <3>1 DEF Entries
    <3> QED BY <2>3, <2>4, <3>2 DEF Sound, Unforked
  <2>7. CASE c.before = d.before
    <3>1. e = x
      BY <2>3, <2>4, <2>7 DEF Sound, Unforked
    <3> QED BY <2>1, <2>2, <2>6, <3>1
  <2>8. CASE c.after = d.after
    <3>1. f = y
      BY <2>3, <2>4, <2>8 DEF Sound, Unforked
    <3>2. ASSUME e.after < x.after PROVE FALSE
      BY <2>3, <2>4, <3>1, <3>2 DEF RunEnd, Run, RunStarts
    <3>3. ASSUME x.after < e.after PROVE FALSE
      BY <2>3, <2>4, <3>1, <3>3 DEF RunEnd, Run, RunStarts
    <3>4. e.after = x.after
      BY <2>5, <3>2, <3>3 DEF Entries
    <3>5. e = x
      BY <2>3, <2>4, <3>4 DEF Sound, Unforked
    <3> QED BY <2>1, <2>2, <2>6, <3>5
  <2> QED BY <1>7, <2>7, <2>8
<1>8. /\ HistoryTypeOK(m)
      /\ m.entries = C
      /\ m.snapshots = h.snapshots /\ m.saved = h.saved
      /\ m.current = h.current /\ m.nextTimestamp = h.nextTimestamp
      /\ m.operation = h.operation
      /\ m.session = h.session /\ m.floor = h.floor
  <2> HIDE DEF C
  <2> QED BY <1>2, <1>5, FewerEntriesType
<1>9. /\ HistoryTypeOK(g)
      /\ DOMAIN g.snapshots = DOMAIN m.snapshots \ gone
      /\ \A t \in DOMAIN g.snapshots : g.snapshots[t] = m.snapshots[t]
      /\ g.saved = m.saved \ (gone \cap DOMAIN m.snapshots)
      /\ g.entries = m.entries /\ g.current = m.current
      /\ g.nextTimestamp = m.nextTimestamp /\ g.operation = m.operation
      /\ g.session = m.session /\ g.floor = m.floor
  <2> HIDE DEF gone, m
  <2> QED BY <1>8, EraseType
<1>10. /\ h.current \notin gone
       /\ \A c \in C : c.before \notin gone /\ c.after \notin gone
  BY DEF Referenced
<1> HIDE DEF C, gone, m, g
<1>11. Ordered(g)
  BY <1>6, <1>8, <1>9 DEF Sound, Ordered
<1>12. Unforked(g)
  BY <1>7, <1>8, <1>9 DEF Unforked
<1>13. Navigable(g)
  BY <1>6, <1>8, <1>9, <1>10 DEF Navigable, Available, Captured
<1>14. SavedAvailable(g)
  BY <1>8, <1>9 DEF Sound, SavedAvailable, Available, Captured
<1>15. Faithful(g, committed, saved)
  BY <1>8, <1>9 DEF Sound, Faithful
<1>16. OperationSound(g, committed)
  BY <1>8, <1>9 DEF OperationSound
<1>17. Sound(g, committed, saved)
  BY <1>9, <1>11, <1>12, <1>13, <1>14, <1>15, <1>16 DEF Sound
<1> QED BY <1>1, <1>8, <1>9, <1>17

\* Clearing the operation keeps the timeline sound.
LEMMA NoOperationSound ==
  ASSUME NEW h, NEW committed, NEW saved, Sound(h, committed, saved)
  PROVE  LET g == [h EXCEPT !.operation = {}]
         IN  /\ Sound(g, committed, saved)
             /\ g.operation = {}
             /\ g.current = h.current /\ g.nextTimestamp = h.nextTimestamp
             /\ g.snapshots = h.snapshots /\ g.entries = h.entries
             /\ g.session = h.session
<1> DEFINE g == [h EXCEPT !.operation = {}]
<1>1. HistoryTypeOK(h)
  BY DEF Sound
<1>2. /\ HistoryTypeOK(g) /\ g.operation = {}
      /\ g.current = h.current /\ g.nextTimestamp = h.nextTimestamp
      /\ g.snapshots = h.snapshots /\ g.entries = h.entries
      /\ g.saved = h.saved /\ g.session = h.session
  BY <1>1 DEF HistoryTypeOK
<1> HIDE DEF g
<1>3. Ordered(g) /\ Unforked(g) /\ Navigable(g) /\ SavedAvailable(g)
  BY <1>2 DEF Sound, Ordered, Unforked, Navigable, SavedAvailable, Available, Captured
<1>4. Faithful(g, committed, saved) /\ OperationSound(g, committed)
  BY <1>2 DEF Sound, Faithful, OperationSound
<1>5. Sound(g, committed, saved)
  BY <1>2, <1>3, <1>4 DEF Sound
<1> QED BY <1>2, <1>5 DEF g

\* What is committed at a timestamp not yet allocated does not matter.
LEMMA CommittedExtends ==
  ASSUME NEW h, NEW committed, NEW saved, Sound(h, committed, saved),
         NEW more, \A t \in 0..h.nextTimestamp - 1 : more[t] = committed[t]
  PROVE  Sound(h, more, saved)
<1>1. /\ h.nextTimestamp \in Nat /\ h.current \in 0..h.nextTimestamp - 1
      /\ h.snapshots \in SnapshotMaps(h.nextTimestamp)
  BY DEF Sound, HistoryTypeOK, Ordered, SnapshotMaps
<1>2. DOMAIN h.snapshots \subseteq 0..h.nextTimestamp - 1
  BY <1>1, SnapshotMapElim
<1>3. h.saved \subseteq 0..h.nextTimestamp - 1
  BY <1>1, <1>2 DEF Sound, SavedAvailable, Available, Captured
<1>4. Faithful(h, more, saved)
  BY <1>2, <1>3 DEF Sound, Faithful
<1>5. OperationSound(h, more)
  BY <1>1 DEF Sound, OperationSound
<1> QED BY <1>4, <1>5 DEF Sound

\* The timeline that commit_operation stages, before the budget is enforced.
Appended(h, op, model) ==
  LET base == TruncateRedoBranch([h EXCEPT !.operation = {}])
      entry == [before |-> op.before, after |-> h.nextTimestamp,
                delta |-> Touched(op.scene, model),
                kind |-> op.kind, session |-> op.session]
  IN  [base EXCEPT !.nextTimestamp = @ + 1, !.entries = @ \cup {entry},
                   !.current = h.nextTimestamp,
                   !.session = {[s EXCEPT !.effective = @ \/ s.id = op.session] :
                                   s \in base.session}]

\* A commit appends one entry, whose successor is the new, uncaptured cursor.
LEMMA AppendSound ==
  ASSUME NEW h, NEW committed, NEW saved, Sound(h, committed, saved),
         NEW op \in h.operation, NEW model \in Models,
         NEW more, \A t \in 0..h.nextTimestamp - 1 : more[t] = committed[t]
  PROVE  LET g == Appended(h, op, model)
         IN  /\ Sound(g, more, saved)
             /\ g.operation = {}
             /\ g.current = h.nextTimestamp
             /\ g.nextTimestamp = h.nextTimestamp + 1
<1> DEFINE free == [h EXCEPT !.operation = {}]
           base == TruncateRedoBranch(free)
           n == h.nextTimestamp
           entry == [before |-> op.before, after |-> n,
                     delta |-> Touched(op.scene, model),
                     kind |-> op.kind, session |-> op.session]
           sessions == {[s EXCEPT !.effective = @ \/ s.id = op.session] : s \in base.session}
           g == [base EXCEPT !.nextTimestamp = @ + 1, !.entries = @ \cup {entry},
                             !.current = n, !.session = sessions]
<1>1. g = Appended(h, op, model)
  BY DEF Appended
<1>2. Sound(h, more, saved)
  BY CommittedExtends
<1>3. /\ Sound(free, more, saved) /\ free.operation = {}
      /\ free.current = h.current /\ free.nextTimestamp = n
      /\ free.snapshots = h.snapshots
  BY <1>2, NoOperationSound
<1>4. op.before = h.current /\ Captured(h, h.current)
  BY DEF Sound, OperationSound
<1>5. op \in Operations
  BY DEF Sound, HistoryTypeOK
<1> HIDE DEF free
<1>6. /\ Sound(base, more, saved)
      /\ \A e \in base.entries : e.before # base.current
      /\ base.current = h.current /\ base.nextTimestamp = n
      /\ base.operation = {}
      /\ Captured(base, h.current)
  BY <1>3, <1>4, TruncateSound DEF Captured
<1> HIDE DEF base
<1>7. HistoryTypeOK(base) /\ n \in Nat \ {0}
  BY <1>6 DEF Sound, HistoryTypeOK
<1>8. entry \in Entries
  BY <1>5, <1>7 DEF Entries, Operations, Touched
<1>9. sessions \in SUBSET Sessions /\ \A s, t \in sessions : s = t
  <2>1. base.session \in SUBSET Sessions /\ \A s, t \in base.session : s = t
    BY <1>7 DEF HistoryTypeOK
  <2>2. \A s \in base.session : [s EXCEPT !.effective = @ \/ s.id = op.session] \in Sessions
    BY <2>1 DEF Sessions
  <2> QED BY <2>1, <2>2
<1>10. base.snapshots \in SnapshotMaps(n + 1)
  <2>1. base.snapshots \in SnapshotMaps(n)
    BY <1>6, <1>7 DEF HistoryTypeOK, SnapshotMaps
  <2>2. /\ DOMAIN base.snapshots \subseteq 0..n - 1
        /\ base.snapshots \in [DOMAIN base.snapshots -> Roots]
    BY <2>1, SnapshotMapElim
  <2>3. DOMAIN base.snapshots \in SUBSET (0..(n + 1) - 1)
    BY <1>7, <2>2
  <2> QED BY <2>2, <2>3, SnapshotMapIntro
<1>11. /\ HistoryTypeOK(g)
       /\ g.entries = base.entries \cup {entry}
       /\ g.current = n /\ g.nextTimestamp = n + 1
       /\ g.snapshots = base.snapshots /\ g.saved = base.saved
       /\ g.operation = {}
  <2> HIDE DEF entry, sessions
  <2>1. base \in HistoryType(n)
    BY <1>6, <1>7 DEF HistoryTypeOK, HistoryType, SnapshotMaps
  <2>2. /\ g.entries = base.entries \cup {entry}
        /\ g.current = n /\ g.nextTimestamp = n + 1
        /\ g.snapshots = base.snapshots /\ g.saved = base.saved
        /\ g.operation = {} /\ g.session = sessions /\ g.floor = base.floor
    BY <1>6, <2>1 DEF HistoryType
  <2>3. g \in HistoryType(n + 1)
    <3> DEFINE E == base.entries \cup {entry}
               S == base.snapshots
    <3>1. /\ n + 1 \in Nat \ {0} /\ n \in Nat
          /\ E \in SUBSET Entries
          /\ S \in SnapshotMaps(n + 1)
      BY <1>7, <1>8, <1>10, <2>1 DEF HistoryType
    <3>2. g = [base EXCEPT !.nextTimestamp = n + 1, !.entries = E, !.current = n,
                           !.session = sessions]
      BY <1>6
    <3>3. g = [budget |-> base.budget, current |-> n, floor |-> base.floor,
               session |-> sessions, nextSession |-> base.nextSession,
               nextTimestamp |-> n + 1, snapshots |-> S, entries |-> E,
               operation |-> base.operation, saved |-> base.saved,
               savedEvicted |-> base.savedEvicted]
      <4> HIDE DEF E, S, g
      <4> QED BY <2>1, <3>2 DEF HistoryType, S
    <3>4. /\ base.budget \in Nat /\ base.floor \in SUBSET Nat
          /\ base.nextSession \in Nat
          /\ base.operation \in SUBSET Operations /\ base.saved \in SUBSET Nat
          /\ base.savedEvicted \in BOOLEAN
      BY <2>1 DEF HistoryType
    <3> HIDE DEF E, S, g
    <3> QED BY <1>9, <3>1, <3>3, <3>4 DEF HistoryType
  <2> QED BY <1>7, <1>9, <2>2, <2>3 DEF HistoryTypeOK, HistoryType, SnapshotMaps
<1>12. /\ entry.before = h.current /\ entry.after = n
  BY <1>4
<1> HIDE DEF entry, sessions, g
<1>13. \A e \in base.entries : e \in Entries /\ e.before < e.after /\ e.after < n
  BY <1>6, <1>7 DEF Sound, Ordered, HistoryTypeOK
<1>14. h.current \in Nat /\ h.current < n
  BY <1>6, <1>7 DEF Sound, Ordered, HistoryTypeOK
<1>15. Ordered(g)
  BY <1>7, <1>11, <1>12, <1>13, <1>14 DEF Ordered, Entries
<1>16. Unforked(g)
  BY <1>6, <1>7, <1>11, <1>12, <1>13 DEF Sound, Unforked, Entries
<1>17. Navigable(g)
  BY <1>6, <1>11, <1>12 DEF Sound, Navigable, Available, Captured
<1>18. SavedAvailable(g)
  BY <1>6, <1>11 DEF Sound, SavedAvailable, Available, Captured
<1>19. Faithful(g, more, saved) /\ OperationSound(g, more)
  BY <1>6, <1>11 DEF Sound, Faithful, OperationSound
<1>20. Sound(g, more, saved)
  BY <1>11, <1>15, <1>16, <1>17, <1>18, <1>19 DEF Sound
<1> QED BY <1>1, <1>11, <1>20

\* Then snapshots are evicted.
LEMMA CommitSound ==
  ASSUME NEW h, NEW committed, NEW saved, Sound(h, committed, saved),
         NEW op \in h.operation, NEW model \in Models,
         NEW more, \A t \in 0..h.nextTimestamp - 1 : more[t] = committed[t]
  PROVE  LET g == Committed(h, op, model)
         IN  /\ Sound(g, more, saved)
             /\ g.operation = {}
             /\ g.current = h.nextTimestamp
             /\ g.nextTimestamp = h.nextTimestamp + 1
<1> DEFINE m == Appended(h, op, model)
           g == Committed(h, op, model)
<1>1. g = EnforceBudget(m, FALSE)
  BY DEF Committed, Appended
<1> HIDE DEF m, g
<1>2. /\ Sound(m, more, saved) /\ m.operation = {}
      /\ m.current = h.nextTimestamp /\ m.nextTimestamp = h.nextTimestamp + 1
  BY AppendSound DEF m
<1>3. LET k == EnforceBudget(m, FALSE)
      IN  /\ Sound(k, more, saved)
          /\ k.operation = m.operation
          /\ k.current = m.current /\ k.nextTimestamp = m.nextTimestamp
  BY <1>2, EnforceSound
<1> QED BY <1>1, <1>2, <1>3 DEF g

\* An abort leaves the cursor as it was before the operation began.
LEMMA AbortSound ==
  ASSUME NEW h, NEW committed, NEW saved, Sound(h, committed, saved),
         NEW op \in h.operation
  PROVE  LET g == Aborted(h, op)
         IN  /\ Sound(g, committed, saved)
             /\ g.operation = {}
             /\ g.current = h.current /\ g.nextTimestamp = h.nextTimestamp
<1> DEFINE n == h.nextTimestamp
           left == IF op.prior = {} THEN DOMAIN h.snapshots \ {op.before}
                                    ELSE DOMAIN h.snapshots
           back == [t \in left |-> IF t = op.before THEN CHOOSE s \in op.prior : TRUE
                                                    ELSE h.snapshots[t]]
           g == [h EXCEPT !.operation = {}, !.snapshots = back]
<1>1. g = Aborted(h, op)
  BY DEF Aborted
<1>2. HistoryTypeOK(h) /\ h \in HistoryType(n)
  BY DEF Sound, HistoryTypeOK, HistoryType, SnapshotMaps
<1>3. DOMAIN h.snapshots \subseteq 0..n - 1 /\ h.snapshots \in [DOMAIN h.snapshots -> Roots]
  BY <1>2, SnapshotMapElim DEF HistoryType
<1>4. /\ op.before = h.current /\ Captured(h, h.current)
      /\ \A s \in op.prior : s \in Roots /\ s.model = committed[h.current]
      /\ op.prior = {} => \A e \in h.entries : e.before # h.current
  BY <1>2 DEF Sound, OperationSound, HistoryTypeOK, Operations
<1>5. op.prior # {} => (CHOOSE s \in op.prior : TRUE) \in op.prior
  OBVIOUS
<1>6. /\ DOMAIN back = left /\ left \subseteq DOMAIN h.snapshots
      /\ \A t \in left : back[t] \in Roots
      /\ \A t \in left : back[t].model = committed[t]
  <2>1. \A t \in left : t # op.before => back[t] = h.snapshots[t]
    OBVIOUS
  <2>2. op.before \in left => back[op.before] \in op.prior
    BY <1>5
  <2>3. \A t \in left : h.snapshots[t].model = committed[t] /\ h.snapshots[t] \in Roots
    BY <1>3 DEF Sound, Faithful
  <2> HIDE DEF back
  <2>4. DOMAIN back = left
    BY DEF back
  <2> QED BY <1>4, <2>1, <2>2, <2>3, <2>4
<1>7. back \in SnapshotMaps(n)
  <2>1. back \in [left -> Roots]
    BY <1>6
  <2>2. left \in SUBSET (0..n - 1)
    BY <1>3
  <2> HIDE DEF back, left
  <2> QED BY <2>1, <2>2, SnapshotMapIntro
<1>8. \A t \in DOMAIN h.snapshots : t # h.current => t \in left
  BY <1>4
<1>9. op.prior # {} => h.current \in left
  BY <1>4 DEF Captured
<1> HIDE DEF back, left
<1>10. /\ HistoryTypeOK(g)
       /\ g.snapshots = back /\ g.operation = {}
       /\ g.current = h.current /\ g.nextTimestamp = n
       /\ g.entries = h.entries /\ g.saved = h.saved
  BY <1>2, <1>7 DEF HistoryTypeOK, HistoryType, SnapshotMaps
<1> HIDE DEF g
<1>11. Ordered(g) /\ Unforked(g)
  BY <1>10 DEF Sound, Ordered, Unforked
<1>12. Navigable(g)
  BY <1>4, <1>6, <1>8, <1>9, <1>10 DEF Sound, Navigable, Available, Captured
<1>13. SavedAvailable(g)
  BY <1>6, <1>8, <1>10 DEF Sound, SavedAvailable, Available, Captured
<1>14. Faithful(g, committed, saved) /\ OperationSound(g, committed)
  BY <1>6, <1>10 DEF Sound, Faithful, OperationSound
<1>15. Sound(g, committed, saved)
  BY <1>10, <1>11, <1>12, <1>13, <1>14 DEF Sound
<1> QED BY <1>1, <1>10, <1>15

\* Soundness does not depend on the budget, the floor or the session.
LEMMA BookkeepingSound ==
  ASSUME NEW h, NEW committed, NEW saved, Sound(h, committed, saved),
         NEW budget \in Nat,
         NEW floor \in SUBSET Nat, \A s, t \in floor : s = t,
         NEW session \in SUBSET Sessions, \A s, t \in session : s = t,
         NEW nextSession \in Nat
  PROVE  Sound([h EXCEPT !.budget = budget, !.floor = floor, !.session = session,
                         !.nextSession = nextSession], committed, saved)
<1> DEFINE g == [h EXCEPT !.budget = budget, !.floor = floor, !.session = session,
                          !.nextSession = nextSession]
<1>1. HistoryTypeOK(h) /\ h \in HistoryType(h.nextTimestamp)
  BY DEF Sound, HistoryTypeOK, HistoryType, SnapshotMaps
<1>2. g = [budget |-> budget, current |-> h.current, floor |-> floor,
           session |-> session, nextSession |-> nextSession,
           nextTimestamp |-> h.nextTimestamp, snapshots |-> h.snapshots,
           entries |-> h.entries, operation |-> h.operation,
           saved |-> h.saved, savedEvicted |-> h.savedEvicted]
  <2>1. g = [h EXCEPT !.budget = budget, !.floor = floor, !.session = session,
                      !.nextSession = nextSession]
    OBVIOUS
  <2> HIDE DEF g
  <2> QED BY <1>1, <2>1 DEF HistoryType
<1>3. /\ g.current = h.current /\ g.nextTimestamp = h.nextTimestamp
      /\ g.snapshots = h.snapshots /\ g.entries = h.entries
      /\ g.operation = h.operation /\ g.saved = h.saved
      /\ g.floor = floor /\ g.session = session
  BY <1>2
<1>4. g \in HistoryType(h.nextTimestamp)
  <2> HIDE DEF g
  <2> QED BY <1>1, <1>2 DEF HistoryType
<1> HIDE DEF g
<1>5. HistoryTypeOK(g)
  BY <1>1, <1>3, <1>4 DEF HistoryTypeOK, HistoryType, SnapshotMaps
<1>6. Ordered(g) /\ Unforked(g) /\ Navigable(g) /\ SavedAvailable(g)
  BY <1>3 DEF Sound, Ordered, Unforked, Navigable, SavedAvailable, Available, Captured
<1>7. Faithful(g, committed, saved) /\ OperationSound(g, committed)
  BY <1>3 DEF Sound, Faithful, OperationSound, Captured
<1>8. Sound(g, committed, saved)
  BY <1>5, <1>6, <1>7 DEF Sound
<1> QED BY <1>8 DEF g

\* Opening an operation, and nesting in it, keep the timeline sound when the
\* operation is one that began at the captured cursor.
LEMMA OpenSound ==
  ASSUME NEW h, NEW committed, NEW saved, Sound(h, committed, saved),
         NEW op \in Operations, \A s, t \in op.prior : s = t,
         op.before = h.current, Captured(h, h.current),
         op.scene = committed[h.current],
         \A s \in op.prior : s.model = committed[h.current],
         op.prior = {} => \A e \in h.entries : e.before # h.current
  PROVE  Sound([h EXCEPT !.operation = {op}], committed, saved)
<1> DEFINE g == [h EXCEPT !.operation = {op}]
<1>1. HistoryTypeOK(h)
  BY DEF Sound
<1>2. /\ HistoryTypeOK(g) /\ g.operation = {op}
      /\ g.current = h.current /\ g.nextTimestamp = h.nextTimestamp
      /\ g.snapshots = h.snapshots /\ g.entries = h.entries
      /\ g.saved = h.saved
  BY <1>1 DEF HistoryTypeOK
<1> HIDE DEF g
<1>3. Ordered(g) /\ Unforked(g) /\ Navigable(g) /\ SavedAvailable(g)
  BY <1>2 DEF Sound, Ordered, Unforked, Navigable, SavedAvailable, Available, Captured
<1>4. Faithful(g, committed, saved)
  BY <1>2 DEF Sound, Faithful
<1>5. OperationSound(g, committed)
  BY <1>2 DEF OperationSound, Captured
<1>6. Sound(g, committed, saved)
  BY <1>2, <1>3, <1>4, <1>5 DEF Sound
<1> QED BY <1>6 DEF g

\* Moving the cursor to a captured timestamp keeps the timeline sound when the
\* place it leaves is captured too.
LEMMA MoveSound ==
  ASSUME NEW h, NEW committed, NEW saved, Sound(h, committed, saved),
         h.operation = {}, Captured(h, h.current),
         NEW target, Captured(h, target)
  PROVE  Sound([h EXCEPT !.current = target], committed, saved)
<1> DEFINE g == [h EXCEPT !.current = target]
<1>1. HistoryTypeOK(h) /\ h.snapshots \in SnapshotMaps(h.nextTimestamp)
  BY DEF Sound, HistoryTypeOK, SnapshotMaps
<1>2. target \in 0..h.nextTimestamp - 1
  BY <1>1, SnapshotMapElim DEF Captured
<1>3. /\ HistoryTypeOK(g) /\ g.operation = {}
      /\ g.current = target /\ g.nextTimestamp = h.nextTimestamp
      /\ g.snapshots = h.snapshots /\ g.entries = h.entries
      /\ g.saved = h.saved
  BY <1>1, <1>2 DEF HistoryTypeOK
<1>4. h.nextTimestamp \in Nat
  BY <1>1 DEF HistoryTypeOK
<1> HIDE DEF g
<1>5. Ordered(g) /\ Unforked(g)
  BY <1>2, <1>3, <1>4 DEF Sound, Ordered, Unforked
<1>6. Navigable(g) /\ SavedAvailable(g)
  BY <1>3 DEF Sound, Navigable, SavedAvailable, Available, Captured
<1>7. Faithful(g, committed, saved) /\ OperationSound(g, committed)
  BY <1>3 DEF Sound, Faithful, OperationSound
<1>8. Sound(g, committed, saved)
  BY <1>3, <1>5, <1>6, <1>7 DEF Sound
<1> QED BY <1>8 DEF g

\* Renaming a preset changes contexts and no model.
LEMMA RenamedRoots ==
  ASSUME NEW roots \in Roots, NEW from \in Presets, NEW to \in Presets
  PROVE  /\ Renamed(roots, from, to) \in Roots
         /\ Renamed(roots, from, to).model = roots.model
BY DEF Renamed, Roots

\* Rewriting the contexts after a rename keeps the timeline sound (rewrite_contexts).
LEMMA RewriteSound ==
  ASSUME NEW h, NEW committed, NEW saved, Sound(h, committed, saved),
         NEW from \in Presets, NEW to \in Presets,
         NEW f \in [DOMAIN h.snapshots -> Roots],
         \A t \in DOMAIN h.snapshots : f[t].model = h.snapshots[t].model,
         NEW O, O = {RewrittenOperation(op, from, to) : op \in h.operation},
         NEW g, g = [h EXCEPT !.snapshots = f, !.operation = O]
  PROVE  Sound(g, committed, saved)
<1>1. HistoryTypeOK(h) /\ h \in HistoryType(h.nextTimestamp)
  BY DEF Sound, HistoryTypeOK, HistoryType, SnapshotMaps
<1>2. f \in SnapshotMaps(h.nextTimestamp)
  <2>1. DOMAIN h.snapshots \in SUBSET (0..h.nextTimestamp - 1)
    BY <1>1, SnapshotMapElim DEF HistoryType
  <2> QED BY <2>1, SnapshotMapIntro
<1>3. ASSUME NEW op \in h.operation
      PROVE  /\ RewrittenOperation(op, from, to) \in Operations
             /\ RewrittenOperation(op, from, to).before = op.before
             /\ RewrittenOperation(op, from, to).scene = op.scene
             /\ \A s \in RewrittenOperation(op, from, to).prior : s.model = committed[h.current]
             /\ \A s, t \in RewrittenOperation(op, from, to).prior : s = t
             /\ RewrittenOperation(op, from, to).prior = {} => op.prior = {}
  <2> DEFINE P == {Renamed(s, from, to) : s \in op.prior}
  <2>1. op \in Operations /\ (\A s, t \in op.prior : s = t)
    BY <1>1 DEF HistoryTypeOK
  <2>2. \A s \in op.prior : s.model = committed[h.current]
    BY DEF Sound, OperationSound
  <2>3. op.prior \subseteq Roots
    BY <2>1 DEF Operations
  <2>4. \A s \in op.prior : Renamed(s, from, to) \in Roots
                            /\ Renamed(s, from, to).model = s.model
    BY <2>3, RenamedRoots
  <2>5. /\ P \subseteq Roots
        /\ \A s \in P : s.model = committed[h.current]
        /\ \A s, t \in P : s = t
        /\ P = {} => op.prior = {}
    BY <2>1, <2>2, <2>4
  <2>6. RewrittenOperation(op, from, to) = [op EXCEPT !.prior = P]
    BY DEF RewrittenOperation
  <2> HIDE DEF P
  <2> QED BY <2>1, <2>5, <2>6 DEF Operations
<1>4. /\ O \in SUBSET Operations
      /\ \A s, t \in O : s = t
      /\ \A op \in O : \A s, t \in op.prior : s = t
  <2>1. \A s, t \in h.operation : s = t
    BY <1>1 DEF HistoryTypeOK
  <2> QED BY <1>3, <2>1
<1>5. /\ HistoryTypeOK(g)
      /\ g.snapshots = f /\ g.operation = O
      /\ g.current = h.current /\ g.nextTimestamp = h.nextTimestamp
      /\ g.entries = h.entries /\ g.saved = h.saved
  BY <1>1, <1>2, <1>4 DEF HistoryTypeOK, HistoryType, SnapshotMaps
<1>6. Ordered(g) /\ Unforked(g)
  BY <1>5 DEF Sound, Ordered, Unforked
<1>7. Navigable(g) /\ SavedAvailable(g)
  BY <1>5 DEF Sound, Navigable, SavedAvailable, Available, Captured
<1>8. Faithful(g, committed, saved)
  BY <1>5 DEF Sound, Faithful
<1>9. OperationSound(g, committed)
  <2>1. \A op \in h.operation : /\ op.before = h.current /\ Captured(h, h.current)
                                /\ op.scene = committed[h.current]
                                /\ op.prior = {} => \A e \in h.entries : e.before # h.current
    BY DEF Sound, OperationSound
  <2> QED BY <1>3, <1>5, <2>1 DEF OperationSound, Captured
<1>10. Sound(g, committed, saved)
  BY <1>5, <1>6, <1>7, <1>8, <1>9 DEF Sound
<1> QED BY <1>10

-----------------------------------------------------------------------------
(* The invariant *)

\* The empty timeline of the constructor and of clear() is sound.
LEMMA NewHistorySound ==
  ASSUME NEW budget \in Nat, NEW nextSession \in Nat, NEW committed, NEW saved
  PROVE  LET g == NewHistory(budget, nextSession)
         IN  /\ Sound(g, committed, saved)
             /\ g.nextTimestamp = 1 /\ g.current = 0 /\ g.operation = {}
<1> DEFINE g == NewHistory(budget, nextSession)
<1>1. <<>> \in SnapshotMaps(1) /\ DOMAIN <<>> = {}
  <2>1. <<>> \in [{} -> Roots]
    OBVIOUS
  <2> QED BY <2>1, SnapshotMapIntro
<1>2. /\ g.nextTimestamp = 1 /\ g.current = 0 /\ g.operation = {}
      /\ g.snapshots = <<>> /\ g.entries = {} /\ g.saved = {}
      /\ g.floor = {} /\ g.session = {}
  BY DEF NewHistory
<1>3. g \in HistoryType(1)
  BY <1>1 DEF NewHistory, HistoryType
<1>4. HistoryTypeOK(g)
  <2> HIDE DEF g
  <2> QED BY <1>2, <1>3 DEF HistoryTypeOK, HistoryType, SnapshotMaps
<1>5. /\ Ordered(g) /\ Unforked(g) /\ Navigable(g) /\ SavedAvailable(g)
      /\ Faithful(g, committed, saved) /\ OperationSound(g, committed)
  <2> HIDE DEF g
  <2> QED BY <1>1, <1>2 DEF Ordered, Unforked, Navigable, SavedAvailable, Faithful,
                              OperationSound
<1> QED BY <1>2, <1>4, <1>5 DEF Sound

\* The constructor establishes the invariant.
LEMMA InitInvariant == Init => IInv
<1> SUFFICES ASSUME Init PROVE IInv
  OBVIOUS
<1>1. InitialBudget \in Nat /\ FirstSessionId \in Nat
  BY BudgetAssumption, BoundAssumption
<1>2. /\ Sound(history, truth, savedModel)
      /\ history.nextTimestamp = 1 /\ history.current = 0
  BY <1>1, NewHistorySound DEF Init
<1>3. presets \subseteq Presets /\ live \in Roots /\ live.model \in Models
  <2>1. presets \subseteq Presets
    BY DEF Init
  <2>2. live \in [model : Models, context : presets]
    BY DEF Init
  <2> QED BY <2>1, <2>2 DEF Roots
<1>4. truth \in [0..history.nextTimestamp - 1 -> Models] /\ truth[0] = live.model
  BY <1>2, <1>3 DEF Init
<1>5. TypeOK
  BY <1>2, <1>3, <1>4 DEF Init, TypeOK, Sound
<1> QED BY <1>2, <1>4, <1>5 DEF IInv

\* undo, redo and the jumps share this step.
LEMMA RestoreStep ==
  ASSUME IInv, NEW target, Restore(target)
  PROVE  IInv'
<1> DEFINE h == Capture(history, live)
           m == [h EXCEPT !.current = target]
<1>1. /\ Sound(history, truth, savedModel) /\ Idle
      /\ live \in Roots /\ live.model = truth[history.current]
  BY DEF IInv, TypeOK, Restore
<1>2. /\ Sound(h, truth, savedModel)
      /\ h.current = history.current /\ h.nextTimestamp = history.nextTimestamp
      /\ h.operation = {}
      /\ Captured(h, h.current) /\ Captured(h, target)
  <2>1. CASE Captured(history, history.current)
    BY <1>1, <2>1 DEF Restore, Capture, Available, Idle
  <2>2. CASE ~Captured(history, history.current)
    <3>1. h = SnapshotAt(history, history.current, live)
      BY <2>2 DEF Capture
    <3> HIDE DEF h
    <3>2. /\ Sound(h, truth, savedModel)
          /\ h.current = history.current /\ h.nextTimestamp = history.nextTimestamp
          /\ h.operation = history.operation
          /\ DOMAIN h.snapshots = DOMAIN history.snapshots \cup {history.current}
      BY <1>1, <3>1, SnapshotSound
    <3> QED BY <1>1, <3>2 DEF Restore, Captured, Available, Idle
  <2> QED BY <2>1, <2>2
<1>3. /\ live' = h.snapshots[target]
      /\ history' = EnforceBudget(m, FALSE)
  BY DEF Restore
<1> HIDE DEF h
<1>4. HistoryTypeOK(h)
  BY <1>2 DEF Sound
<1>5. /\ Sound(m, truth, savedModel)
      /\ m.current = target /\ m.operation = {} /\ m.nextTimestamp = h.nextTimestamp
  BY <1>2, <1>4, MoveSound DEF HistoryTypeOK
<1>6. live' \in Roots /\ live'.model = truth[target]
  <2>1. h.snapshots \in SnapshotMaps(h.nextTimestamp)
    BY <1>4 DEF HistoryTypeOK, SnapshotMaps
  <2>2. h.snapshots[target] \in Roots
    BY <1>2, <2>1, SnapshotMapElim DEF Captured
  <2> QED BY <1>2, <1>3, <2>2 DEF Sound, Faithful, Captured
<1> HIDE DEF m
<1>7. /\ Sound(history', truth, savedModel)
      /\ history'.current = target /\ history'.nextTimestamp = history.nextTimestamp
  BY <1>2, <1>3, <1>5, EnforceSound
<1>8. UNCHANGED <<presets, truth, savedModel, retired>> /\ rendered' \in Models
  <2>1. PICK P \in ChainsTo(history, target) :
           rendered' = Patched(MergedDelta(P), live'.model)
    BY DEF Restore
  <2>2. rendered \in Models /\ live'.model \in Models
    BY <1>6 DEF IInv, TypeOK, Roots
  <2>3. Patched(MergedDelta(P), live'.model) \in Models
    BY <2>2 DEF Patched, Models
  <2> QED BY <2>1, <2>3 DEF Restore
<1>9. TypeOK'
  BY <1>6, <1>7, <1>8 DEF IInv, TypeOK, Sound
<1> QED BY <1>6, <1>7, <1>8, <1>9 DEF IInv

\* begin_operation captures the cursor with the model committed there.
LEMMA BeginStep ==
  ASSUME IInv, NEW kind \in Kinds, BeginOperation(kind)
  PROVE  IInv'
<1> DEFINE h == SnapshotAt(history, history.current, live)
           prior == {history.snapshots[t] : t \in DOMAIN history.snapshots \cap {history.current}}
           session == IF history.session = {} THEN 0
                      ELSE (CHOOSE s \in history.session : TRUE).id
           op == [before |-> history.current, depth |-> 1, prior |-> prior,
                  scene |-> live.model, kind |-> kind, session |-> session]
<1>1. /\ Sound(history, truth, savedModel) /\ Idle /\ HistoryTypeOK(history)
      /\ live \in Roots /\ live.model = truth[history.current]
  BY DEF IInv, TypeOK, BeginOperation
<1>2. /\ Sound(h, truth, savedModel)
      /\ h.current = history.current /\ h.nextTimestamp = history.nextTimestamp
      /\ h.entries = history.entries
      /\ Captured(h, h.current)
  <2> HIDE DEF h
  <2>1. /\ Sound(h, truth, savedModel)
        /\ h.current = history.current /\ h.nextTimestamp = history.nextTimestamp
        /\ h.entries = history.entries
        /\ DOMAIN h.snapshots = DOMAIN history.snapshots \cup {history.current}
    BY <1>1, SnapshotSound DEF h
  <2> QED BY <2>1 DEF Captured
<1>3. history' = [h EXCEPT !.operation = {op}]
  BY DEF BeginOperation
<1>4. session \in Nat
  <2>1. history.session \in SUBSET Sessions
    BY <1>1 DEF HistoryTypeOK
  <2>2. CASE history.session # {}
    <3>1. (CHOOSE s \in history.session : TRUE) \in Sessions
      BY <2>1, <2>2
    <3> QED BY <2>2, <3>1 DEF Sessions
  <2> QED BY <2>2
<1>5. /\ prior \in SUBSET Roots
      /\ \A s, t \in prior : s = t
      /\ \A s \in prior : s.model = truth[history.current]
      /\ prior = {} => ~Captured(history, history.current)
  <2>1. history.snapshots \in SnapshotMaps(history.nextTimestamp)
    BY <1>1 DEF HistoryTypeOK, SnapshotMaps
  <2>2. history.snapshots \in [DOMAIN history.snapshots -> Roots]
    BY <2>1, SnapshotMapElim
  <2> QED BY <1>1, <2>2 DEF Sound, Faithful, Captured
<1>6. prior = {} => \A e \in h.entries : e.before # h.current
  BY <1>1, <1>2, <1>5 DEF Sound, Navigable
<1> HIDE DEF h, prior, session
<1>7. /\ op \in Operations /\ op.prior = prior /\ op.before = h.current
      /\ op.scene = truth[h.current]
  <2>1. history.current \in Nat /\ live.model \in Models
    BY <1>1 DEF HistoryTypeOK, Roots
  <2> QED BY <1>1, <1>2, <1>4, <1>5, <2>1 DEF Operations
<1>8. Sound(history', truth, savedModel)
  <2> HIDE DEF op
  <2> QED BY <1>2, <1>3, <1>5, <1>6, <1>7, OpenSound
<1>9. /\ history'.nextTimestamp = history.nextTimestamp
      /\ history'.operation # {}
  <2> HIDE DEF op
  <2>1. HistoryTypeOK(h)
    BY <1>2 DEF Sound
  <2> QED BY <1>2, <1>3, <2>1 DEF HistoryTypeOK
<1>10. UNCHANGED <<live, rendered, presets, truth, savedModel, retired>>
  BY DEF BeginOperation
<1>11. TypeOK'
  BY <1>8, <1>9, <1>10 DEF IInv, TypeOK, Sound
<1> QED BY <1>8, <1>9, <1>10, <1>11 DEF IInv, Idle

\* A nested begin or commit only counts.
LEMMA NestedStep ==
  ASSUME IInv, NEW op \in history.operation, NEW depth \in Nat \ {0},
         history' = [history EXCEPT !.operation = {[op EXCEPT !.depth = depth]}],
         UNCHANGED <<live, rendered, presets, truth, savedModel, retired>>
  PROVE  IInv'
<1> DEFINE nested == [op EXCEPT !.depth = depth]
<1>1. Sound(history, truth, savedModel) /\ HistoryTypeOK(history)
  BY DEF IInv, TypeOK
<1>2. op \in Operations /\ \A s, t \in op.prior : s = t
  BY <1>1 DEF HistoryTypeOK
<1>3. /\ nested \in Operations /\ nested.prior = op.prior
      /\ nested.before = op.before /\ nested.scene = op.scene
  BY <1>2 DEF Operations
<1>4. /\ op.before = history.current /\ Captured(history, history.current)
      /\ op.scene = truth[history.current]
      /\ \A s \in op.prior : s.model = truth[history.current]
      /\ op.prior = {} => \A e \in history.entries : e.before # history.current
  BY <1>1 DEF Sound, OperationSound
<1> HIDE DEF nested
<1>5. history' = [history EXCEPT !.operation = {nested}]
  BY DEF nested
<1>6. Sound(history', truth, savedModel)
  BY <1>1, <1>2, <1>3, <1>4, <1>5, OpenSound
<1>7. history'.nextTimestamp = history.nextTimestamp /\ history'.operation # {}
  BY <1>1, <1>5 DEF HistoryTypeOK
<1>8. TypeOK'
  BY <1>6, <1>7 DEF IInv, TypeOK, Sound
<1> QED BY <1>6, <1>7, <1>8 DEF IInv, Idle

\* commit_operation gives the live model to a timestamp nobody has seen.
LEMMA CommitStep ==
  ASSUME IInv, CommitOperation
  PROVE  IInv'
<1>1. PICK op \in history.operation :
         /\ history' = Committed(history, op, live.model)
         /\ truth' = [t \in DOMAIN truth \cup {history.nextTimestamp} |->
                        IF t = history.nextTimestamp THEN live.model ELSE truth[t]]
         /\ rendered' = Patched(Touched(op.scene, live.model), live.model)
         /\ UNCHANGED <<live, presets, savedModel, retired>>
  BY DEF CommitOperation
<1>2. /\ Sound(history, truth, savedModel) /\ HistoryTypeOK(history)
      /\ live \in Roots /\ live.model \in Models /\ rendered \in Models
      /\ truth \in [0..history.nextTimestamp - 1 -> Models]
  BY DEF IInv, TypeOK, Roots
<1>3. history.nextTimestamp \in Nat
  BY <1>2 DEF HistoryTypeOK
<1>4. /\ truth' \in [0..history.nextTimestamp -> Models]
      /\ \A t \in 0..history.nextTimestamp - 1 : truth'[t] = truth[t]
      /\ truth'[history.nextTimestamp] = live.model
  <2>1. DOMAIN truth \cup {history.nextTimestamp} = 0..history.nextTimestamp
    BY <1>2, <1>3
  <2> QED BY <1>1, <1>2, <1>3, <2>1
<1>5. /\ Sound(history', truth', savedModel)
      /\ history'.operation = {}
      /\ history'.current = history.nextTimestamp
      /\ history'.nextTimestamp = history.nextTimestamp + 1
  BY <1>1, <1>2, <1>4, CommitSound
<1>6. rendered' \in Models
  BY <1>1, <1>2 DEF Patched, Models
<1>7. 0..history'.nextTimestamp - 1 = 0..history.nextTimestamp
  BY <1>3, <1>5
<1>8. TypeOK'
  BY <1>1, <1>4, <1>5, <1>6, <1>7 DEF IInv, TypeOK, Sound
<1> QED BY <1>1, <1>4, <1>5, <1>8 DEF IInv

\* abort_operation returns the caller and the cursor to where they were.
LEMMA AbortStep ==
  ASSUME IInv, AbortOperation
  PROVE  IInv'
<1>1. PICK op \in history.operation :
         /\ history' = Aborted(history, op)
         /\ \/ live' = history.snapshots[op.before]
            \/ live.model = op.scene /\ UNCHANGED live
         /\ rendered' = live'.model
         /\ UNCHANGED <<presets, truth, savedModel, retired>>
  BY DEF AbortOperation
<1>2. Sound(history, truth, savedModel) /\ HistoryTypeOK(history) /\ live \in Roots
  BY DEF IInv, TypeOK
<1>3. /\ Sound(history', truth, savedModel)
      /\ history'.operation = {}
      /\ history'.current = history.current
      /\ history'.nextTimestamp = history.nextTimestamp
  BY <1>1, <1>2, AbortSound
<1>4. /\ op.before = history.current /\ Captured(history, history.current)
      /\ op.scene = truth[history.current]
  BY <1>2 DEF Sound, OperationSound
<1>5. live' \in Roots /\ live'.model = truth[history.current]
  <2>1. history.snapshots \in SnapshotMaps(history.nextTimestamp)
    BY <1>2 DEF HistoryTypeOK, SnapshotMaps
  <2>2. /\ history.snapshots[history.current] \in Roots
        /\ history.snapshots[history.current].model = truth[history.current]
    BY <1>2, <1>4, <2>1, SnapshotMapElim DEF Captured, Sound, Faithful
  <2> QED BY <1>1, <1>2, <1>4, <2>2
<1>6. rendered' \in Models
  BY <1>1, <1>5 DEF Roots
<1>7. TypeOK'
  BY <1>1, <1>3, <1>5, <1>6 DEF IInv, TypeOK, Sound
<1> QED BY <1>1, <1>3, <1>5, <1>7 DEF IInv

\* clear() starts over with the roots of the new project.
LEMMA ClearStep ==
  ASSUME IInv, NEW roots \in Roots, Clear(roots)
  PROVE  IInv'
<1>1. /\ HistoryTypeOK(history) /\ retired \subseteq Nat \ {0}
      /\ presets \subseteq Presets
  BY DEF IInv, TypeOK
<1>2. /\ Sound(history', truth', savedModel)
      /\ history'.nextTimestamp = 1 /\ history'.current = 0
  BY <1>1, NewHistorySound DEF Clear, HistoryTypeOK
<1>3. /\ truth' \in [0..history'.nextTimestamp - 1 -> Models]
      /\ truth'[0] = roots.model /\ roots.model \in Models
  BY <1>2 DEF Clear, Roots
<1>4. retired' \subseteq Nat \ {0}
  <2>1. \A s \in history.session : s.id \in Nat \ {0}
    BY <1>1 DEF HistoryTypeOK, Sessions
  <2>2. retired' = retired \cup {s.id : s \in history.session}
    BY DEF Clear
  <2> QED BY <1>1, <2>1, <2>2
<1>5. TypeOK'
  BY <1>2, <1>3, <1>4 DEF Clear, IInv, TypeOK, Sound
<1> QED BY <1>2, <1>3, <1>5 DEF IInv, Clear

\* mark_current_as_saved names the model that the caller has just written.
LEMMA SavedStep ==
  ASSUME IInv, MarkCurrentAsSaved
  PROVE  IInv'
<1>1. /\ Sound(history, truth, savedModel) /\ HistoryTypeOK(history) /\ Idle
      /\ live \in Roots /\ live.model = truth[history.current]
  BY DEF IInv, TypeOK, MarkCurrentAsSaved
<1>2. history' = [history EXCEPT !.saved = {history.current}, !.savedEvicted = FALSE]
  BY DEF MarkCurrentAsSaved
<1>3. /\ HistoryTypeOK(history') /\ history'.operation = history.operation
      /\ history'.current = history.current
      /\ history'.nextTimestamp = history.nextTimestamp
      /\ history'.snapshots = history.snapshots
      /\ history'.entries = history.entries
      /\ history'.saved = {history.current}
  BY <1>1, <1>2 DEF HistoryTypeOK
<1>4. UNCHANGED <<live, rendered, presets, truth, retired>> /\ savedModel' = live.model
  BY DEF MarkCurrentAsSaved
<1>5. /\ Ordered(history') /\ Unforked(history') /\ Navigable(history')
      /\ SavedAvailable(history')
  BY <1>1, <1>3 DEF Sound, Ordered, Unforked, Navigable, SavedAvailable, Available, Captured
<1>6. Faithful(history', truth, savedModel')
  BY <1>1, <1>3, <1>4 DEF Sound, Faithful
<1>7. OperationSound(history', truth)
  BY <1>1, <1>3 DEF Sound, OperationSound, Captured
<1>8. Sound(history', truth', savedModel')
  BY <1>3, <1>4, <1>5, <1>6, <1>7 DEF Sound
<1>9. TypeOK'
  BY <1>1, <1>3, <1>4 DEF IInv, TypeOK, Roots
<1> QED BY <1>1, <1>3, <1>4, <1>8, <1>9 DEF IInv

\* The actions that change only the timeline, and neither its cursor nor its
\* operation.
LEMMA TimelineStep ==
  ASSUME IInv,
         Sound(history', truth, savedModel),
         history'.current = history.current,
         history'.nextTimestamp = history.nextTimestamp,
         history'.operation = history.operation,
         UNCHANGED <<live, rendered, presets, truth, savedModel>>,
         retired' \subseteq Nat \ {0}
  PROVE  IInv'
<1>1. TypeOK'
  BY DEF IInv, TypeOK, Sound
<1> QED BY <1>1 DEF IInv, Idle

\* set_byte_budget evicts at once, and never the cursor or a neighbour.
LEMMA BudgetStep ==
  ASSUME IInv, NEW bytes \in Budgets, SetByteBudget(bytes)
  PROVE  IInv'
<1> DEFINE h == [history EXCEPT !.budget = bytes]
<1>1. Sound(history, truth, savedModel) /\ HistoryTypeOK(history) /\ bytes \in Nat
  BY BudgetAssumption DEF IInv, TypeOK
<1>2. h = [history EXCEPT !.budget = bytes, !.floor = history.floor,
                          !.session = history.session,
                          !.nextSession = history.nextSession]
  BY <1>1 DEF HistoryTypeOK
<1>3. /\ history.floor \in SUBSET Nat /\ (\A s, t \in history.floor : s = t)
      /\ history.session \in SUBSET Sessions /\ (\A s, t \in history.session : s = t)
      /\ history.nextSession \in Nat
      /\ h.current = history.current /\ h.nextTimestamp = history.nextTimestamp
      /\ h.operation = history.operation
  BY <1>1 DEF HistoryTypeOK
<1> HIDE DEF h
<1>4. Sound(h, truth, savedModel)
  BY <1>1, <1>2, <1>3, BookkeepingSound
<1>5. history' = EnforceBudget(h, FALSE)
  BY DEF SetByteBudget, h
<1>6. /\ Sound(history', truth, savedModel)
      /\ history'.current = h.current /\ history'.nextTimestamp = h.nextTimestamp
      /\ history'.operation = h.operation
  BY <1>4, <1>5, EnforceSound
<1> QED BY <1>3, <1>6, TimelineStep DEF SetByteBudget, IInv, TypeOK

\* set_navigation_floor changes nothing that the timeline retains.
LEMMA FloorStep ==
  ASSUME IInv, NEW floor \in Floors, SetNavigationFloor(floor)
  PROVE  IInv'
<1>1. Sound(history, truth, savedModel) /\ HistoryTypeOK(history)
  BY DEF IInv, TypeOK
<1>2. floor \in SUBSET Nat /\ \A s, t \in floor : s = t
  BY FloorAssumption
<1>3. /\ history.budget \in Nat /\ history.nextSession \in Nat
      /\ history.session \in SUBSET Sessions /\ (\A s, t \in history.session : s = t)
  BY <1>1 DEF HistoryTypeOK
<1>4. history' = [history EXCEPT !.budget = history.budget, !.floor = floor,
                                 !.session = history.session,
                                 !.nextSession = history.nextSession]
  BY <1>1 DEF SetNavigationFloor, HistoryTypeOK
<1>5. /\ history'.current = history.current
      /\ history'.nextTimestamp = history.nextTimestamp
      /\ history'.operation = history.operation
  BY <1>1 DEF SetNavigationFloor, HistoryTypeOK
<1>6. Sound(history', truth, savedModel)
  BY <1>1, <1>2, <1>3, <1>4, BookkeepingSound
<1> QED BY <1>5, <1>6, TimelineStep DEF SetNavigationFloor, IInv, TypeOK

\* begin_editing_session only puts the floor under the cursor.
LEMMA OpenSessionStep ==
  ASSUME IInv, BeginEditingSession
  PROVE  IInv'
<1> DEFINE session == {[id |-> history.nextSession, entry |-> history.current,
                        effective |-> FALSE]}
           next == IF history.nextSession = MaxSessionId THEN 0 ELSE history.nextSession + 1
           floor == {history.current}
<1>1. Sound(history, truth, savedModel) /\ HistoryTypeOK(history)
  BY DEF IInv, TypeOK
<1>2. /\ history.budget \in Nat /\ history.current \in Nat
      /\ history.nextSession \in Nat /\ history.nextSession # 0
  BY <1>1 DEF HistoryTypeOK, BeginEditingSession
<1>3. /\ session \in SUBSET Sessions /\ (\A s, t \in session : s = t)
      /\ next \in Nat
      /\ floor \in SUBSET Nat /\ (\A s, t \in floor : s = t)
  BY <1>2 DEF Sessions
<1>4. history' = [history EXCEPT !.session = session, !.floor = floor,
                                 !.nextSession = next]
  BY <1>1 DEF BeginEditingSession, HistoryTypeOK
<1> HIDE DEF session, next, floor
<1>5. history' = [history EXCEPT !.budget = history.budget, !.floor = floor,
                                 !.session = session, !.nextSession = next]
  BY <1>1, <1>4 DEF HistoryTypeOK
<1>6. /\ history'.current = history.current
      /\ history'.nextTimestamp = history.nextTimestamp
      /\ history'.operation = history.operation
  BY <1>1, <1>4 DEF HistoryTypeOK
<1>7. Sound(history', truth, savedModel)
  BY <1>1, <1>2, <1>3, <1>5, BookkeepingSound
<1> QED BY <1>6, <1>7, TimelineStep DEF BeginEditingSession, IInv, TypeOK

\* compact_editing_session merges runs of strokes and evicts.
LEMMA CompactStep ==
  ASSUME IInv, CompactEditingSession
  PROVE  IInv'
<1> DEFINE h == CompactSession(history)
<1>1. Sound(history, truth, savedModel) /\ history.operation = {}
  BY DEF IInv, CompactEditingSession, Idle
<1>2. /\ Sound(h, truth, savedModel)
      /\ h.current = history.current /\ h.nextTimestamp = history.nextTimestamp
      /\ h.operation = history.operation
  BY <1>1, CompactSound
<1>3. history' = EnforceBudget(h, TRUE)
  BY DEF CompactEditingSession
<1> HIDE DEF h
<1>4. /\ Sound(history', truth, savedModel)
      /\ history'.current = h.current /\ history'.nextTimestamp = h.nextTimestamp
      /\ history'.operation = h.operation
  BY <1>2, <1>3, EnforceSound
<1> QED BY <1>2, <1>4, TimelineStep DEF CompactEditingSession, IInv, TypeOK

\* close_editing_session compacts, truncates when effective, and evicts.
LEMMA CloseStep ==
  ASSUME IInv, CloseEditingSession
  PROVE  IInv'
<1> DEFINE compacted == CompactSession(history)
<1>1. /\ Sound(history, truth, savedModel) /\ HistoryTypeOK(history)
      /\ history.operation = {}
  BY DEF IInv, TypeOK, CloseEditingSession, Idle
<1>2. /\ Sound(compacted, truth, savedModel)
      /\ compacted.current = history.current
      /\ compacted.nextTimestamp = history.nextTimestamp
      /\ compacted.operation = {}
  BY <1>1, CompactSound
<1>3. PICK s \in history.session :
         LET base == IF s.effective THEN TruncateRedoBranch(compacted) ELSE compacted
         IN  /\ history' = EnforceBudget([base EXCEPT !.floor = {}, !.session = {}],
                                         ~s.effective)
             /\ retired' = retired \cup {s.id}
  BY DEF CloseEditingSession
<1> DEFINE base == IF s.effective THEN TruncateRedoBranch(compacted) ELSE compacted
           h == [base EXCEPT !.floor = {}, !.session = {}]
<1> HIDE DEF compacted
<1>4. /\ Sound(base, truth, savedModel)
      /\ base.current = history.current
      /\ base.nextTimestamp = history.nextTimestamp
      /\ base.operation = {}
  BY <1>2, TruncateSound
<1>5. s \in Sessions
  BY <1>1 DEF HistoryTypeOK
<1>6. history' = EnforceBudget(h, ~s.effective) /\ retired' = retired \cup {s.id}
  BY <1>3
<1> HIDE DEF base
<1>7. HistoryTypeOK(base)
  BY <1>4 DEF Sound
<1>8. /\ h = [base EXCEPT !.budget = base.budget, !.floor = {}, !.session = {},
                          !.nextSession = base.nextSession]
      /\ h.current = base.current /\ h.nextTimestamp = base.nextTimestamp
      /\ h.operation = base.operation
      /\ base.budget \in Nat /\ base.nextSession \in Nat
  BY <1>7 DEF HistoryTypeOK
<1> HIDE DEF h
<1>9. Sound(h, truth, savedModel)
  BY <1>4, <1>8, BookkeepingSound
<1>10. (~s.effective) \in BOOLEAN
  OBVIOUS
<1>11. /\ Sound(history', truth, savedModel)
       /\ history'.current = h.current /\ history'.nextTimestamp = h.nextTimestamp
       /\ history'.operation = h.operation
  BY <1>6, <1>9, <1>10, EnforceSound
<1>12. retired' \subseteq Nat \ {0}
  BY <1>5, <1>6 DEF IInv, TypeOK, Sessions
<1> QED BY <1>1, <1>4, <1>8, <1>11, <1>12, TimelineStep DEF CloseEditingSession

\* A preset that is renamed keeps its users.
LEMMA RewriteStep ==
  ASSUME IInv, NEW from \in Presets, NEW to \in Presets, NEW rebind \in BOOLEAN,
         RewriteContexts(from, to, rebind)
  PROVE  IInv'
<1> DEFINE f == [t \in DOMAIN history.snapshots |->
                   IF rebind /\ t = history.current
                     THEN [history.snapshots[t] EXCEPT !.context = live'.context]
                     ELSE Renamed(history.snapshots[t], from, to)]
           O == {RewrittenOperation(op, from, to) : op \in history.operation}
<1>1. /\ Sound(history, truth, savedModel) /\ HistoryTypeOK(history)
      /\ live \in Roots /\ presets \subseteq Presets
  BY DEF IInv, TypeOK
<1>2. live' \in Roots /\ live'.model = live.model
  BY <1>1, RenamedRoots DEF RewriteContexts
<1>3. history.snapshots \in [DOMAIN history.snapshots -> Roots]
  <2>1. history.snapshots \in SnapshotMaps(history.nextTimestamp)
    BY <1>1 DEF HistoryTypeOK, SnapshotMaps
  <2> QED BY <2>1, SnapshotMapElim
<1>4. \A t \in DOMAIN history.snapshots :
         f[t] \in Roots /\ f[t].model = history.snapshots[t].model
  <2> SUFFICES ASSUME NEW t \in DOMAIN history.snapshots
               PROVE  f[t] \in Roots /\ f[t].model = history.snapshots[t].model
    OBVIOUS
  <2>1. history.snapshots[t] \in Roots
    BY <1>3
  <2>2. CASE rebind /\ t = history.current
    <3>1. f[t] = [history.snapshots[t] EXCEPT !.context = live'.context]
      BY <2>2
    <3> QED BY <1>2, <2>1, <3>1 DEF Roots
  <2>3. CASE ~(rebind /\ t = history.current)
    <3>1. f[t] = Renamed(history.snapshots[t], from, to)
      BY <2>3
    <3> QED BY <2>1, <3>1, RenamedRoots
  <2> QED BY <2>2, <2>3
<1>5. f \in [DOMAIN history.snapshots -> Roots]
  BY <1>4
<1>6. history' = [history EXCEPT !.snapshots = f, !.operation = O]
  BY DEF RewriteContexts
<1>7. Sound(history', truth, savedModel)
  <2>1. O = {RewrittenOperation(op, from, to) : op \in history.operation}
    OBVIOUS
  <2>2. \A t \in DOMAIN history.snapshots : f[t].model = history.snapshots[t].model
    BY <1>4
  <2> HIDE DEF f, O
  <2> QED BY <1>1, <1>5, <1>6, <2>1, <2>2, RewriteSound, ZenonT(60)
<1> HIDE DEF f
<1>8. /\ history'.current = history.current
      /\ history'.nextTimestamp = history.nextTimestamp
      /\ history'.operation = O
  <2> HIDE DEF O
  <2> QED BY <1>1, <1>6 DEF HistoryTypeOK
<1>9. O = {} => Idle
  BY DEF Idle
<1>10. presets' \subseteq Presets /\ UNCHANGED <<rendered, truth, savedModel, retired>>
  BY <1>1 DEF RewriteContexts
<1>11. TypeOK'
  BY <1>2, <1>7, <1>8, <1>10 DEF IInv, TypeOK, Sound
<1> QED BY <1>2, <1>7, <1>8, <1>9, <1>10, <1>11 DEF IInv, Idle

\* Edits between the begin and the end of an operation, and of the context.
LEMMA CallerStep ==
  ASSUME IInv, UNCHANGED <<history, rendered, truth, savedModel, retired>>,
         live' \in Roots, Idle => live'.model = live.model, presets' \subseteq Presets
  PROVE  IInv'
<1>1. TypeOK'
  BY DEF IInv, TypeOK
<1> QED BY <1>1 DEF IInv, Idle

\* Every step of the specification preserves the invariant.
LEMMA StepInvariant == IInv /\ [Next]_vars => IInv'
<1> SUFFICES ASSUME IInv, [Next]_vars PROVE IInv'
  OBVIOUS
<1>0. live \in Roots /\ presets \subseteq Presets
  BY DEF IInv, TypeOK
<1>1. ASSUME NEW roots \in Roots, Clear(roots) PROVE IInv'
  BY <1>1, ClearStep
<1>2. ASSUME NEW kind \in Kinds, BeginOperation(kind) PROVE IInv'
  BY <1>2, BeginStep
<1>3. ASSUME BeginNested PROVE IInv'
  <2>1. PICK op \in history.operation :
          /\ history' = [history EXCEPT !.operation = {[op EXCEPT !.depth = op.depth + 1]}]
          /\ UNCHANGED <<live, rendered, presets, truth, savedModel, retired>>
    BY <1>3 DEF BeginNested
  <2>2. op.depth + 1 \in Nat \ {0}
    BY DEF IInv, TypeOK, HistoryTypeOK, Operations
  <2> QED BY <2>1, <2>2, NestedStep
<1>4. ASSUME NEW o \in Objects, NEW v \in Versions, EditModel(o, v) PROVE IInv'
  <2>1. live' \in Roots
    BY <1>0, <1>4 DEF EditModel, Roots, Models
  <2> QED BY <1>0, <1>4, <2>1, CallerStep DEF EditModel
<1>5. ASSUME NEW p \in Presets, EditContext(p) PROVE IInv'
  <2>1. live' \in Roots /\ live'.model = live.model
    BY <1>0, <1>5 DEF EditContext, Roots
  <2> QED BY <1>0, <1>5, <2>1, CallerStep DEF EditContext
<1>6. ASSUME CommitNested PROVE IInv'
  <2>1. PICK op \in history.operation :
          /\ op.depth > 1
          /\ history' = [history EXCEPT !.operation = {[op EXCEPT !.depth = op.depth - 1]}]
          /\ UNCHANGED <<live, rendered, presets, truth, savedModel, retired>>
    BY <1>6 DEF CommitNested
  <2>2. op.depth - 1 \in Nat \ {0}
    BY <2>1 DEF IInv, TypeOK, HistoryTypeOK, Operations
  <2> QED BY <2>1, <2>2, NestedStep
<1>7. ASSUME CommitOperation PROVE IInv'
  BY <1>7, CommitStep
<1>8. ASSUME AbortOperation PROVE IInv'
  BY <1>8, AbortStep
<1>9. ASSUME Undo PROVE IInv'
  BY <1>9, RestoreStep DEF Undo
<1>10. ASSUME Redo PROVE IInv'
  BY <1>10, RestoreStep DEF Redo
<1>11. ASSUME NEW e \in history.entries, RestoreBefore(e) PROVE IInv'
  BY <1>11, RestoreStep DEF RestoreBefore
<1>12. ASSUME NEW e \in history.entries, RestoreAfter(e) PROVE IInv'
  BY <1>12, RestoreStep DEF RestoreAfter
<1>13. ASSUME MarkCurrentAsSaved PROVE IInv'
  BY <1>13, SavedStep
<1>14. ASSUME NEW floor \in Floors, SetNavigationFloor(floor) PROVE IInv'
  BY <1>14, FloorStep
<1>15. ASSUME NEW bytes \in Budgets, SetByteBudget(bytes) PROVE IInv'
  BY <1>15, BudgetStep
<1>16. ASSUME BeginEditingSession PROVE IInv'
  BY <1>16, OpenSessionStep
<1>17. ASSUME CompactEditingSession PROVE IInv'
  BY <1>17, CompactStep
<1>18. ASSUME CloseEditingSession PROVE IInv'
  BY <1>18, CloseStep
<1>19. ASSUME NEW from \in Presets, NEW to \in Presets, NEW rebind \in BOOLEAN,
              RewriteContexts(from, to, rebind)
       PROVE  IInv'
  BY <1>19, RewriteStep
<1>20. ASSUME NEW p \in Presets, AddPreset(p) PROVE IInv'
  BY <1>0, <1>20, CallerStep DEF AddPreset
<1>21. ASSUME UNCHANGED vars PROVE IInv'
  BY <1>0, <1>21, CallerStep DEF vars
<1> QED
  BY <1>1, <1>2, <1>3, <1>4, <1>5, <1>6, <1>7, <1>8, <1>9, <1>10, <1>11, <1>12, <1>13,
     <1>14, <1>15, <1>16, <1>17, <1>18, <1>19, <1>20, <1>21 DEF Next

-----------------------------------------------------------------------------
(* Theorems about what the timeline holds *)

\* The timeline is sound in every reachable state.
THEOREM Invariance == Spec => []IInv
BY InitInvariant, StepInvariant, PTL DEF Spec

\* Every reachable state is well typed, and an optional of Impl holds at most
\* one value.
THEOREM TypeCorrect == Spec => []TypeOK
<1>1. IInv => TypeOK
  BY DEF IInv
<1> QED BY <1>1, Invariance, PTL

\* Undo, Redo and the jumps bring back what was committed, for every sequence of
\* operations, budget and session.
THEOREM RestoringIsFaithful == Spec => []RestoresWhatWasCommitted
<1>1. IInv => RestoresWhatWasCommitted
  BY DEF IInv, Sound, Faithful, RestoresWhatWasCommitted
<1> QED BY <1>1, Invariance, PTL

\* Every listed entry can be navigated, whatever was evicted.
THEOREM EveryEntryNavigable == Spec => []EntriesNavigable
<1>1. IInv => EntriesNavigable
  BY DEF IInv, Sound, Navigable, EntriesNavigable
<1> QED BY <1>1, Invariance, PTL

\* There is one entry to undo and one to redo, at most.
THEOREM NeverForks == Spec => []TimelineNeverForks
<1>1. IInv => TimelineNeverForks
  BY DEF IInv, Sound, Unforked, TimelineNeverForks
<1> QED BY <1>1, Invariance, PTL

\* A saved marker that is still set can still be restored.
THEOREM SavedMarkerKept == Spec => []SavedMarkerHonest
<1>1. IInv => SavedMarkerHonest
  BY DEF IInv, Sound, SavedAvailable, SavedMarkerHonest
<1> QED BY <1>1, Invariance, PTL

\* An unmodified project is the one that was saved: the saved marker never
\* survives a change of what it stands for.
THEOREM CleanIsSaved == Spec => []CleanMeansSaved
<1>1. IInv => CleanMeansSaved
  BY DEF IInv, Sound, Faithful, CleanMeansSaved, ProjectModified
<1> QED BY <1>1, Invariance, PTL

-----------------------------------------------------------------------------
(* Sessions, contexts and the renderer: what the sound timeline also keeps *)

\* While a session is open the cursor stays above its entry, and no token is given twice.
Confined(h, spent) ==
  /\ \A s \in h.session : h.floor = {s.entry} /\ s.entry <= h.current /\ s.id \notin spent
  /\ h.nextSession # 0 => /\ \A i \in spent : i < h.nextSession
                          /\ \A s \in h.session : s.id < h.nextSession

\* Every context refers to one of the names.
Resolved(h, names) ==
  /\ \A t \in DOMAIN h.snapshots : h.snapshots[t].context \in names
  /\ \A op \in h.operation : \A s \in op.prior : s.context \in names

\* An object that a delta does not name is the same on both sides of the entry.
DeltasTell(h, committed) ==
  \A e \in h.entries : \A o \in Objects :
    o \notin e.delta => committed[e.before][o] = committed[e.after][o]

\* The renderer shows the model, or that of the open operation's beginning.
InStep(h, shown, model) ==
  /\ h.operation = {} => shown = model
  /\ \A op \in h.operation : shown = op.scene

Kept(h, spent, names, committed) ==
  Confined(h, spent) /\ Resolved(h, names) /\ DeltasTell(h, committed)

\* The second invariant, inductive together with IInv.
JInv ==
  /\ Kept(history, retired, presets, truth)
  /\ live.context \in presets
  /\ InStep(history, rendered, live.model)

\* A set of timestamps has a least one.
LEMMA EarliestOf ==
  ASSUME NEW n \in Nat, NEW S, S \subseteq 0..n, S # {}
  PROVE  \E m \in S : \A t \in S : m <= t
<1> DEFINE Before(t) == {u \in S : u < t}
           T == {Before(t) : t \in S}
<1>1. IsFiniteSet(S)
  <2>1. IsFiniteSet(0..n)
    BY FS_Interval
  <2> QED  BY <2>1, FS_Subset
<1>2. T \subseteq FiniteSubsetsOf(S) /\ T # {}
  <2>1. FiniteSubsetsOf(S) = SUBSET S
    BY <1>1, FS_FiniteSubsetsOfFinite
  <2>2. \A t \in S : Before(t) \in SUBSET S
    OBVIOUS
  <2> HIDE DEF Before
  <2>3. \A y \in T : y \in SUBSET S
    BY <2>2
  <2>4. \E y : y \in T
    OBVIOUS
  <2> HIDE DEF T
  <2> QED  BY <2>1, <2>3, <2>4
<1>3. PICK x \in T : \A y \in T : <<y, x>> \notin StrictSubsetOrdering(S)
  <2> HIDE DEF T
  <2> QED  BY <1>2, FS_StrictSubsetOrderingWellFounded, WFMin
<1>4. PICK m \in S : x = Before(m)
  OBVIOUS
<1>5. ASSUME NEW t \in S, t < m
      PROVE  FALSE
  <2>1. Before(t) \in T /\ Before(t) \subseteq Before(m) /\ Before(m) \subseteq S
    <3>1. \A u \in S : u < t => u < m
      BY <1>5
    <3> QED  BY <3>1
  <2>2. t \in Before(m) /\ t \notin Before(t)
    BY <1>5
  <2>3. <<Before(t), Before(m)>> \in StrictSubsetOrdering(S)
    BY <2>1, <2>2 DEF StrictSubsetOrdering
  <2> QED  BY <1>3, <1>4, <2>1, <2>3
<1> QED  BY <1>5

\* And a greatest one.
LEMMA LatestOf ==
  ASSUME NEW n \in Nat, NEW S, S \subseteq 0..n, S # {}
  PROVE  \E m \in S : \A t \in S : t <= m
<1> DEFINE R == {n - t : t \in S}
<1>1. R \subseteq 0..n /\ R # {}
  <2>1. \A t \in S : n - t \in 0..n
    OBVIOUS
  <2>2. PICK t : t \in S
    OBVIOUS
  <2>3. n - t \in R
    BY <2>2
  <2> QED  BY <2>1, <2>3
<1>2. PICK r \in R : \A t \in R : r <= t
  <2> HIDE DEF R
  <2> QED  BY <1>1, EarliestOf
<1>3. PICK m \in S : r = n - m
  OBVIOUS
<1>4. \A t \in S : r <= n - t
  BY <1>2
<1> QED  BY <1>3, <1>4

-----------------------------------------------------------------------------
(* A walk along entries *)

\* What a walk does not touch is the same at both of its ends.
LEMMA ChainTells ==
  ASSUME NEW h, NEW committed, NEW saved, Sound(h, committed, saved), DeltasTell(h, committed),
         NEW low, NEW high, NEW P \in Chains(h, low, high),
         NEW o \in Objects, o \notin MergedDelta(P)
  PROVE  committed[low][o] = committed[high][o]
<1> DEFINE n == h.nextTimestamp
<1>0. n \in Nat
  BY DEF Sound, HistoryTypeOK
<1>1. \A e \in P : /\ e.before \in 0..n /\ e.after \in 0..n /\ e.before < e.after
                   /\ committed[e.before][o] = committed[e.after][o]
  <2> SUFFICES ASSUME NEW e \in P
               PROVE  /\ e.before \in 0..n /\ e.after \in 0..n /\ e.before < e.after
                      /\ committed[e.before][o] = committed[e.after][o]
    OBVIOUS
  <2>1. e \in h.entries /\ o \notin e.delta
    BY DEF Chains, MergedDelta
  <2>2. e.before \in Nat /\ e.after \in Nat /\ e.before < e.after /\ e.after < n
    BY <2>1 DEF Sound, HistoryTypeOK, Ordered, Entries
  <2> QED  BY <1>0, <2>1, <2>2 DEF DeltasTell
<1>2. /\ (P = {}) = (low = high)
      /\ \A e \in P : /\ e.before = low \/ \E f \in P : f.after = e.before
                      /\ e.after = high \/ \E f \in P : f.before = e.after
  BY DEF Chains
<1> HIDE DEF n
<1>3. \A e \in P : committed[e.before][o] = committed[low][o]
  <2> DEFINE S == {e.before : e \in {x \in P : committed[x.before][o] # committed[low][o]}}
  <2> SUFFICES ASSUME S # {} PROVE FALSE
    OBVIOUS
  <2>1. S \subseteq 0..n
    BY <1>1
  <2>2. PICK m \in S : \A t \in S : m <= t
    <3> HIDE DEF S
    <3> QED  BY <1>0, <2>1, EarliestOf
  <2>3. PICK e \in P : e.before = m /\ committed[e.before][o] # committed[low][o]
    OBVIOUS
  <2>4. PICK f \in P : f.after = e.before
    BY <1>2, <2>3
  <2>5. f.before \in S
    BY <1>1, <2>3, <2>4
  <2>6. f.before < e.before /\ e.before <= f.before
    BY <1>1, <2>2, <2>3, <2>4, <2>5
  <2> QED  BY <1>1, <2>6
<1>4. CASE P = {}
  BY <1>2, <1>4
<1>5. CASE P # {}
  <2> DEFINE S == {e.after : e \in P}
  <2>1. S \subseteq 0..n /\ S # {}
    BY <1>1, <1>5
  <2>2. PICK m \in S : \A t \in S : t <= m
    <3> HIDE DEF S
    <3> QED  BY <1>0, <2>1, LatestOf
  <2>3. PICK e \in P : e.after = m
    OBVIOUS
  <2>4. e.after = high
    <3> SUFFICES ASSUME NEW f \in P, f.before = e.after PROVE FALSE
      BY <1>2
    <3>1. f.after <= e.after /\ e.after < f.after
      BY <1>1, <2>2, <2>3
    <3> QED  BY <1>1, <3>1
  <2> QED  BY <1>1, <1>3, <2>4
<1> QED  BY <1>4, <1>5

\* The same along the run of strokes that begins with e.
LEMMA RunTells ==
  ASSUME NEW h, NEW committed, NEW saved, Sound(h, committed, saved), DeltasTell(h, committed),
         NEW e \in h.entries, NEW f \in Run(h, e),
         NEW o \in Objects, o \notin MergedDelta(Run(h, e))
  PROVE  committed[e.before][o] = committed[f.after][o]
<1> DEFINE n == h.nextTimestamp
           R == Run(h, e)
<1>0. n \in Nat
  BY DEF Sound, HistoryTypeOK
<1>1. \A x \in h.entries : x.before \in 0..n /\ x.after \in 0..n /\ x.before < x.after
  <2>1. \A x \in h.entries : x.before \in Nat /\ x.after \in Nat /\ x.before < x.after /\ x.after < n
    BY DEF Sound, HistoryTypeOK, Ordered, Entries
  <2> QED  BY <1>0, <2>1
<1>2. \A x \in R : /\ x \in h.entries /\ e.after <= x.after
                   /\ committed[x.before][o] = committed[x.after][o]
                   /\ \A y \in h.entries : e.after < y.after /\ y.after <= x.after => Continues(h, y)
  BY DEF Run, MergedDelta, DeltasTell
<1> HIDE DEF n
<1>3. \A x \in R : committed[x.before][o] = committed[e.before][o]
  <2> DEFINE S == {x.before : x \in {y \in R : committed[y.before][o] # committed[e.before][o]}}
  <2> SUFFICES ASSUME S # {} PROVE FALSE
    OBVIOUS
  <2>1. S \subseteq 0..n
    BY <1>1, <1>2
  <2>2. PICK m \in S : \A t \in S : m <= t
    <3> HIDE DEF S
    <3> QED  BY <1>0, <2>1, EarliestOf
  <2>3. PICK x \in R : x.before = m /\ committed[x.before][o] # committed[e.before][o]
    OBVIOUS
  <2>4. x \in h.entries /\ x.after # e.after
    BY <1>2, <2>3 DEF Sound, Unforked
  <2>5. e.after < x.after /\ Continues(h, x)
    BY <1>1, <1>2, <2>3, <2>4
  <2>6. PICK d \in h.entries : /\ d.after = x.before
                               /\ ~\E y \in h.entries : d.after < y.after /\ y.after < x.after
    BY <2>5 DEF Continues
  <2>7. e.after <= d.after /\ d.after < x.after
    BY <1>1, <2>4, <2>5, <2>6
  <2>8. d \in R
    <3>1. \A y \in h.entries : e.after < y.after /\ y.after <= d.after => Continues(h, y)
      BY <1>1, <1>2, <2>3, <2>7
    <3> QED  BY <2>7, <3>1 DEF Run
  <2>9. d.before \in S
    BY <1>2, <2>3, <2>6, <2>8
  <2>10. d.before < x.before /\ x.before <= d.before
    BY <1>1, <2>2, <2>3, <2>6, <2>9
  <2> QED  BY <1>1, <2>4, <2>10
<1> QED  BY <1>2, <1>3

-----------------------------------------------------------------------------
(* Operators that take something away *)

\* Only snapshots and entries go.
Narrows(g, h) ==
  /\ HistoryTypeOK(g)
  /\ g.session = h.session /\ g.floor = h.floor /\ g.nextSession = h.nextSession
  /\ g.current = h.current /\ g.operation = h.operation /\ g.nextTimestamp = h.nextTimestamp
  /\ g.entries \subseteq h.entries
  /\ DOMAIN g.snapshots \subseteq DOMAIN h.snapshots
  /\ \A t \in DOMAIN g.snapshots : g.snapshots[t] = h.snapshots[t]

LEMMA NarrowsTrans ==
  ASSUME NEW f, NEW g, NEW h, Narrows(g, h), Narrows(f, g)
  PROVE  Narrows(f, h)
BY DEF Narrows

LEMMA NarrowsKeeps ==
  ASSUME NEW h, NEW g, Narrows(g, h), NEW spent, NEW names, NEW committed,
         Kept(h, spent, names, committed)
  PROVE  Kept(g, spent, names, committed)
BY DEF Narrows, Kept, Confined, Resolved, DeltasTell

LEMMA EvictNarrows ==
  ASSUME NEW h, HistoryTypeOK(h), NEW gone
  PROVE  /\ Narrows(Evict(h, gone), h)
         /\ DOMAIN Evict(h, gone).snapshots = DOMAIN h.snapshots \ gone
         /\ \A e \in h.entries :
              e.before \in DOMAIN h.snapshots \ gone /\ e.after \in DOMAIN h.snapshots \ gone
                => e \in Evict(h, gone).entries
<1> DEFINE m == EraseSnapshots(h, gone)
           E == {e \in m.entries : Available(m, e.before) /\ Available(m, e.after)}
           g == [m EXCEPT !.entries = E]
<1>1. /\ HistoryTypeOK(m)
      /\ DOMAIN m.snapshots = DOMAIN h.snapshots \ gone
      /\ \A t \in DOMAIN m.snapshots : m.snapshots[t] = h.snapshots[t]
      /\ m.entries = h.entries /\ m.current = h.current
      /\ m.nextTimestamp = h.nextTimestamp /\ m.operation = h.operation
      /\ m.session = h.session /\ m.floor = h.floor /\ m.nextSession = h.nextSession
  BY EraseType
<1>2. m.entries \subseteq Entries
  BY <1>1 DEF HistoryTypeOK
<1>3. g = Evict(h, gone)
  BY DEF Evict, PruneUnusableEntries
<1> HIDE DEF m
<1>4. /\ E \subseteq h.entries /\ E \in SUBSET Entries
      /\ \A e \in h.entries :
           e.before \in DOMAIN h.snapshots \ gone /\ e.after \in DOMAIN h.snapshots \ gone => e \in E
  BY <1>1, <1>2 DEF Available, Captured
<1>5. /\ HistoryTypeOK(g)
      /\ g.entries = E
      /\ g.snapshots = m.snapshots
      /\ g.current = m.current /\ g.nextTimestamp = m.nextTimestamp
      /\ g.operation = m.operation
      /\ g.session = m.session /\ g.floor = m.floor /\ g.nextSession = m.nextSession
  <2> HIDE DEF E
  <2> QED BY <1>1, <1>4, FewerEntriesType
<1> HIDE DEF E, g
<1>6. Narrows(g, h)
  BY <1>1, <1>4, <1>5 DEF Narrows
<1> QED  BY <1>1, <1>3, <1>4, <1>5, <1>6

\* The budget spares the cursor, its neighbours, and what it is told to.
LEMMA EnforceNarrows ==
  ASSUME NEW h, HistoryTypeOK(h), NEW preserveRedo \in BOOLEAN
  PROVE  LET g == EnforceBudget(h, preserveRedo) IN
         /\ Narrows(g, h)
         /\ \A t \in DOMAIN h.snapshots :
              t \in Protected(h) \/ (preserveRedo /\ ~(t <= h.current)) => t \in DOMAIN g.snapshots
         /\ \A e \in h.entries :
              e.before \in DOMAIN g.snapshots /\ e.after \in DOMAIN g.snapshots => e \in g.entries
<1> DEFINE gone == Evicted(h, preserveRedo)
           g == EnforceBudget(h, preserveRedo)
<1>1. \A t \in gone : t \notin Protected(h) /\ (preserveRedo => t <= h.current)
  BY DEF Evicted, Evictable
<1>2. g = IF gone = {} THEN h ELSE Evict(h, gone)
  BY DEF EnforceBudget
<1>3. Narrows(h, h)
  BY DEF Narrows
<1>4. /\ Narrows(Evict(h, gone), h)
      /\ DOMAIN Evict(h, gone).snapshots = DOMAIN h.snapshots \ gone
      /\ \A e \in h.entries :
           e.before \in DOMAIN h.snapshots \ gone /\ e.after \in DOMAIN h.snapshots \ gone
             => e \in Evict(h, gone).entries
  <2> HIDE DEF gone
  <2> QED  BY EvictNarrows
<1> HIDE DEF gone, g
<1>5. CASE gone = {}
  BY <1>2, <1>3, <1>5 DEF g
<1>6. CASE gone # {}
  BY <1>1, <1>2, <1>4, <1>6 DEF g
<1> QED  BY <1>5, <1>6

LEMMA TruncateNarrows ==
  ASSUME NEW h, HistoryTypeOK(h)
  PROVE  Narrows(TruncateRedoBranch(h), h)
<1>1. CASE RedoEntry(h) = {}
  BY <1>1 DEF TruncateRedoBranch, Narrows
<1>2. CASE RedoEntry(h) # {}
  <2> DEFINE kept == {e \in h.entries : \A f \in RedoEntry(h) : e.after < f.after}
             gone == DOMAIN h.snapshots \ ({h.current} \cup Referenced(kept))
             m == [h EXCEPT !.entries = kept]
             g == EraseSnapshots(m, gone)
  <2>1. g = TruncateRedoBranch(h)
    BY <1>2 DEF TruncateRedoBranch
  <2>2. kept \in SUBSET Entries /\ kept \subseteq h.entries
    BY DEF HistoryTypeOK
  <2>3. /\ HistoryTypeOK(m) /\ m.entries = kept
        /\ m.snapshots = h.snapshots
        /\ m.current = h.current /\ m.nextTimestamp = h.nextTimestamp
        /\ m.operation = h.operation
        /\ m.session = h.session /\ m.floor = h.floor /\ m.nextSession = h.nextSession
    <3> HIDE DEF kept
    <3> QED BY <2>2, FewerEntriesType
  <2>4. /\ HistoryTypeOK(g)
        /\ DOMAIN g.snapshots = DOMAIN m.snapshots \ gone
        /\ \A t \in DOMAIN g.snapshots : g.snapshots[t] = m.snapshots[t]
        /\ g.entries = m.entries /\ g.current = m.current
        /\ g.nextTimestamp = m.nextTimestamp /\ g.operation = m.operation
        /\ g.session = m.session /\ g.floor = m.floor /\ g.nextSession = m.nextSession
    <3> HIDE DEF gone, m
    <3> QED BY <2>3, EraseType
  <2> HIDE DEF kept, gone, m, g
  <2>5. Narrows(g, h)
    BY <2>2, <2>3, <2>4 DEF Narrows
  <2> QED  BY <2>1, <2>5
<1> QED  BY <1>1, <1>2

\* Merging strokes takes away entries and what only they stood on; a merged entry still names
\* all that its strokes changed.
LEMMA CompactKeeps ==
  ASSUME NEW h, NEW committed, NEW saved, Sound(h, committed, saved), h.operation = {},
         NEW spent, NEW names, Kept(h, spent, names, committed)
  PROVE  LET g == CompactSession(h) IN
         /\ HistoryTypeOK(g) /\ Kept(g, spent, names, committed)
         /\ g.session = h.session /\ g.floor = h.floor /\ g.nextSession = h.nextSession
         /\ g.operation = {} /\ g.current = h.current
         /\ DOMAIN g.snapshots \subseteq DOMAIN h.snapshots
         /\ \A t \in DOMAIN h.snapshots : t >= h.current => t \in DOMAIN g.snapshots
         /\ \A e \in h.entries : e.before >= h.current => e \in g.entries
<1> DEFINE C == CompactEntries(h)
           gone == {e.before : e \in h.entries \ RunStarts(h)}
                     \ ({h.current} \cup h.floor \cup Referenced(C))
           m == [h EXCEPT !.entries = C]
           g == EraseSnapshots(m, gone)
<1>1. g = CompactSession(h)
  BY DEF CompactSession
<1>2. /\ HistoryTypeOK(h) /\ h.entries \subseteq Entries /\ h.current \in Nat
      /\ \A e \in h.entries : e.before \in Nat /\ e.after \in Nat /\ e.before < e.after
  BY DEF Sound, HistoryTypeOK, Ordered, Entries
<1>3. ASSUME NEW c \in C
      PROVE  \E e \in RunStarts(h) : \E f \in RunEnd(h, e) : c = Merged(h, e, f)
  BY <1>3 DEF CompactEntries
<1>4. ASSUME NEW e \in RunStarts(h), NEW f \in RunEnd(h, e)
      PROVE  /\ Merged(h, e, f) \in Entries
             /\ Merged(h, e, f).before = e.before
             /\ Merged(h, e, f).after = f.after
             /\ Merged(h, e, f).delta = MergedDelta(Run(h, e))
             /\ e \in h.entries /\ f \in Run(h, e)
  <2>1. e \in Entries /\ f \in Entries /\ f \in Run(h, e) /\ e \in h.entries
    BY <1>2 DEF RunStarts, RunEnd, Run
  <2>2. MergedDelta(Run(h, e)) \in SUBSET Objects
    BY <1>2 DEF MergedDelta, Run, Entries
  <2> QED BY <2>1, <2>2 DEF Merged, Entries
<1>5. C \in SUBSET Entries
  BY <1>3, <1>4
<1>6. \A c \in C : \A o \in Objects :
         o \notin c.delta => committed[c.before][o] = committed[c.after][o]
  <2> SUFFICES ASSUME NEW c \in C, NEW o \in Objects, o \notin c.delta
               PROVE  committed[c.before][o] = committed[c.after][o]
    OBVIOUS
  <2>a. PICK e \in RunStarts(h) : \E f \in RunEnd(h, e) : c = Merged(h, e, f)
    BY <1>3
  <2>1. PICK f \in RunEnd(h, e) : c = Merged(h, e, f)
    BY <2>a
  <2>2. /\ c.before = e.before /\ c.after = f.after /\ c.delta = MergedDelta(Run(h, e))
        /\ e \in h.entries /\ f \in Run(h, e)
    BY <1>4, <2>1
  <2>3. DeltasTell(h, committed)
    BY DEF Kept
  <2> QED  BY <2>2, <2>3, RunTells
<1>7. \A e \in h.entries : Continues(h, e) => e.after <= h.current
  BY DEF Continues, SessionPaint
<1>8. \A e \in h.entries : e.before >= h.current => e \in C
  <2> SUFFICES ASSUME NEW e \in h.entries, e.before >= h.current PROVE e \in C
    OBVIOUS
  <2>1. e.after > h.current /\ e \in RunStarts(h)
    BY <1>2, <1>7 DEF RunStarts
  <2>2. Run(h, e) = {e}
    <3>1. \A f \in Run(h, e) : f.after = e.after
      <4> SUFFICES ASSUME NEW f \in Run(h, e), f.after # e.after PROVE FALSE
        OBVIOUS
      <4>1. f \in h.entries /\ e.after < f.after /\ Continues(h, f)
        BY <1>2 DEF Run
      <4> QED  BY <1>2, <1>7, <2>1, <4>1
    <3>2. \A f \in Run(h, e) : f \in h.entries /\ f = e
      BY <3>1 DEF Run, Sound, Unforked
    <3>3. e \in Run(h, e)
      BY <1>2 DEF Run
    <3> QED  BY <3>2, <3>3
  <2>3. e \in RunEnd(h, e)
    BY <1>2, <2>2 DEF RunEnd
  <2>4. Merged(h, e, e) = e
    <3>1. MergedDelta({e}) = e.delta
      BY DEF MergedDelta
    <3>2. e \in Entries
      BY <1>2
    <3> QED  BY <2>2, <3>1, <3>2 DEF Merged, Entries
  <2> QED  BY <2>1, <2>3, <2>4 DEF CompactEntries
<1>9. \A t \in gone : t < h.current
  <2> SUFFICES ASSUME NEW t \in gone PROVE t < h.current
    OBVIOUS
  <2>1. PICK e \in h.entries : t = e.before /\ Continues(h, e)
    BY DEF RunStarts
  <2> QED  BY <1>2, <1>7, <2>1
<1>10. /\ HistoryTypeOK(m)
       /\ m.entries = C
       /\ m.snapshots = h.snapshots
       /\ m.current = h.current
       /\ m.operation = h.operation
       /\ m.session = h.session /\ m.floor = h.floor /\ m.nextSession = h.nextSession
  <2> HIDE DEF C
  <2> QED BY <1>2, <1>5, FewerEntriesType
<1>11. /\ HistoryTypeOK(g)
       /\ DOMAIN g.snapshots = DOMAIN m.snapshots \ gone
       /\ \A t \in DOMAIN g.snapshots : g.snapshots[t] = m.snapshots[t]
       /\ g.entries = m.entries /\ g.current = m.current /\ g.operation = m.operation
       /\ g.session = m.session /\ g.floor = m.floor /\ g.nextSession = m.nextSession
  <2> HIDE DEF gone, m
  <2> QED BY <1>10, EraseType
<1> HIDE DEF C, gone, m, g
<1>12. Kept(g, spent, names, committed)
  <2>1. Confined(g, spent)
    BY <1>10, <1>11 DEF Kept, Confined
  <2>2. Resolved(g, names)
    BY <1>10, <1>11 DEF Kept, Resolved
  <2>3. DeltasTell(g, committed)
    BY <1>6, <1>10, <1>11 DEF DeltasTell
  <2> QED  BY <2>1, <2>2, <2>3 DEF Kept
<1>13. \A t \in DOMAIN h.snapshots : t >= h.current => t \in DOMAIN g.snapshots
  <2> SUFFICES ASSUME NEW t \in DOMAIN h.snapshots, t >= h.current PROVE t \in DOMAIN g.snapshots
    OBVIOUS
  <2>1. t \notin gone
    <3> SUFFICES ASSUME t \in gone PROVE FALSE
      OBVIOUS
    <3>1. t < h.current
      BY <1>9
    <3>2. t \in Int
      <4>1. h.snapshots \in SnapshotMaps(h.nextTimestamp)
        BY <1>2 DEF HistoryTypeOK, SnapshotMaps
      <4> QED  BY <4>1, SnapshotMapElim
    <3> QED  BY <1>2, <3>1, <3>2
  <2> QED  BY <1>10, <1>11, <2>1
<1> QED  BY <1>1, <1>8, <1>10, <1>11, <1>12, <1>13

-----------------------------------------------------------------------------
(* The steps *)

LEMMA InitKeeps == Init => JInv
<1> SUFFICES ASSUME Init PROVE JInv
  OBVIOUS
<1>1. /\ history.session = {} /\ history.nextSession = FirstSessionId /\ history.snapshots = <<>>
      /\ history.operation = {} /\ history.entries = {}
  BY DEF Init, NewHistory
<1>2. DOMAIN history.snapshots = {}
  BY <1>1
<1>3. retired = {} /\ live.context \in presets /\ rendered = live.model
  BY DEF Init
<1>4. Confined(history, retired)
  BY <1>1, <1>3 DEF Confined
<1>5. Resolved(history, presets) /\ DeltasTell(history, truth)
  BY <1>1, <1>2 DEF Resolved, DeltasTell
<1> QED  BY <1>1, <1>3, <1>4, <1>5 DEF JInv, Kept, InStep

\* What the actions find.
LEMMA Given ==
  ASSUME IInv, JInv
  PROVE  /\ Sound(history, truth, savedModel) /\ HistoryTypeOK(history) /\ live \in Roots
         /\ live.model \in Models /\ rendered \in Models /\ retired \subseteq Nat
         /\ history.current \in Nat /\ history.nextTimestamp \in Nat
         /\ Kept(history, retired, presets, truth) /\ live.context \in presets
         /\ InStep(history, rendered, live.model)
         /\ \A s \in history.session : s.id \in Nat /\ s.entry \in Nat
         /\ \A s, t \in history.session : s = t
         /\ history.snapshots \in [DOMAIN history.snapshots -> Roots]
<1>1. /\ Sound(history, truth, savedModel) /\ HistoryTypeOK(history) /\ live \in Roots
      /\ live.model \in Models /\ rendered \in Models /\ retired \subseteq Nat
  BY DEF IInv, TypeOK, Roots
<1>2. /\ history.current \in Nat /\ history.nextTimestamp \in Nat
      /\ \A s \in history.session : s.id \in Nat /\ s.entry \in Nat
      /\ \A s, t \in history.session : s = t
      /\ history.snapshots \in SnapshotMaps(history.nextTimestamp)
  BY <1>1 DEF HistoryTypeOK, Sessions, SnapshotMaps
<1> QED  BY <1>1, <1>2, SnapshotMapElim DEF JInv

\* Clearing starts over; the token of the session that goes is spent.
LEMMA ClearKeeps ==
  ASSUME IInv, JInv, NEW roots \in Roots, Clear(roots)
  PROVE  JInv'
<1>1. /\ history'.session = {} /\ history'.nextSession = history.nextSession
      /\ history'.snapshots = <<>> /\ history'.operation = {} /\ history'.entries = {}
  BY DEF Clear, NewHistory
<1>2. DOMAIN history'.snapshots = {}
  BY <1>1
<1>3. /\ live'.context \in presets' /\ rendered' = live'.model
      /\ retired' = retired \cup {s.id : s \in history.session}
  BY DEF Clear
<1>4. Confined(history', retired')
  BY <1>1, <1>3, Given DEF Kept, Confined
<1>5. Resolved(history', presets') /\ DeltasTell(history', truth')
  BY <1>1, <1>2 DEF Resolved, DeltasTell
<1> QED  BY <1>1, <1>3, <1>4, <1>5 DEF JInv, Kept, InStep

\* A captured cursor has the caller's context.
LEMMA SnapshotKeeps ==
  ASSUME NEW h, HistoryTypeOK(h), NEW t, NEW roots, NEW names, roots.context \in names,
         NEW spent, NEW committed, Kept(h, spent, names, committed)
  PROVE  LET g == SnapshotAt(h, t, roots) IN
         /\ Kept(g, spent, names, committed)
         /\ g.current = h.current /\ g.entries = h.entries /\ g.operation = h.operation
         /\ g.session = h.session /\ g.floor = h.floor /\ g.nextSession = h.nextSession
         /\ DOMAIN g.snapshots = DOMAIN h.snapshots \cup {t}
         /\ \A u \in DOMAIN g.snapshots : g.snapshots[u] = IF u = t THEN roots ELSE h.snapshots[u]
<1> DEFINE f == [u \in DOMAIN h.snapshots \cup {t} |-> IF u = t THEN roots ELSE h.snapshots[u]]
           g == [h EXCEPT !.snapshots = f]
<1>1. g = SnapshotAt(h, t, roots)
  BY DEF SnapshotAt
<1>2. /\ DOMAIN f = DOMAIN h.snapshots \cup {t}
      /\ \A u \in DOMAIN f : f[u] = IF u = t THEN roots ELSE h.snapshots[u]
  OBVIOUS
<1> HIDE DEF f
<1>3. /\ g.snapshots = f /\ g.current = h.current /\ g.entries = h.entries
      /\ g.operation = h.operation
      /\ g.session = h.session /\ g.floor = h.floor /\ g.nextSession = h.nextSession
  BY DEF HistoryTypeOK
<1> HIDE DEF g
<1>4. Confined(g, spent) /\ DeltasTell(g, committed)
  BY <1>3 DEF Kept, Confined, DeltasTell
<1>5. Resolved(g, names)
  BY <1>2, <1>3 DEF Kept, Resolved
<1> QED  BY <1>1, <1>2, <1>3, <1>4, <1>5 DEF Kept

LEMMA BeginKeeps ==
  ASSUME IInv, JInv, NEW kind \in Kinds, BeginOperation(kind)
  PROVE  JInv'
<1> DEFINE h == SnapshotAt(history, history.current, live)
           prior == {history.snapshots[t] : t \in DOMAIN history.snapshots \cap {history.current}}
           op == [before |-> history.current, depth |-> 1, prior |-> prior,
                  scene |-> live.model, kind |-> kind,
                  session |-> IF history.session = {} THEN 0
                              ELSE (CHOOSE s \in history.session : TRUE).id]
<1>1. /\ HistoryTypeOK(history) /\ Kept(history, retired, presets, truth)
      /\ live.context \in presets /\ Idle /\ rendered = live.model
      /\ live \in Roots /\ live.model = truth[history.current]
      /\ Sound(history, truth, savedModel)
  BY Given DEF BeginOperation, Idle, InStep, IInv
<1>2. /\ Kept(h, retired, presets, truth) /\ HistoryTypeOK(h)
  <2> HIDE DEF h
  <2>1. Kept(h, retired, presets, truth)
    BY <1>1, SnapshotKeeps DEF h
  <2>2. Sound(h, truth, savedModel)
    BY <1>1, SnapshotSound DEF h
  <2> QED  BY <2>1, <2>2 DEF Sound
<1>3. history' = [h EXCEPT !.operation = {op}]
  BY DEF BeginOperation
<1>4. \A s \in prior : s.context \in presets
  BY <1>1 DEF Kept, Resolved
<1> HIDE DEF h, prior
<1>5. op.prior = prior /\ op.scene = live.model
  OBVIOUS
<1> HIDE DEF op
<1>6. /\ history'.operation = {op} /\ history'.snapshots = h.snapshots
      /\ history'.current = h.current /\ history'.entries = h.entries
      /\ history'.session = h.session /\ history'.floor = h.floor
      /\ history'.nextSession = h.nextSession
  BY <1>2, <1>3 DEF HistoryTypeOK
<1>7. Kept(history', retired, presets, truth)
  <2>1. Confined(history', retired) /\ DeltasTell(history', truth)
    BY <1>2, <1>6 DEF Kept, Confined, DeltasTell
  <2>2. Resolved(history', presets)
    BY <1>2, <1>4, <1>5, <1>6 DEF Kept, Resolved
  <2> QED  BY <2>1, <2>2 DEF Kept
<1>8. InStep(history', rendered, live.model)
  BY <1>1, <1>5, <1>6 DEF InStep
<1> QED  BY <1>1, <1>7, <1>8 DEF JInv, BeginOperation

LEMMA NestedKeeps ==
  ASSUME IInv, JInv, NEW op \in history.operation, NEW depth,
         history' = [history EXCEPT !.operation = {[op EXCEPT !.depth = depth]}],
         UNCHANGED <<live, rendered, presets, truth, savedModel, retired>>
  PROVE  JInv'
<1> DEFINE nested == [op EXCEPT !.depth = depth]
<1>1. HistoryTypeOK(history) /\ Kept(history, retired, presets, truth) /\ live.context \in presets
      /\ InStep(history, rendered, live.model)
  BY Given
<1>2. nested.prior = op.prior /\ nested.scene = op.scene
  BY <1>1 DEF HistoryTypeOK, Operations
<1> HIDE DEF nested
<1>3. history' = [history EXCEPT !.operation = {nested}]
  BY DEF nested
<1>4. /\ history'.operation = {nested} /\ history'.snapshots = history.snapshots
      /\ history'.current = history.current /\ history'.entries = history.entries
      /\ history'.session = history.session /\ history'.floor = history.floor
      /\ history'.nextSession = history.nextSession
  BY <1>1, <1>3 DEF HistoryTypeOK
<1>5. Kept(history', retired, presets, truth)
  <2>1. Confined(history', retired) /\ DeltasTell(history', truth)
    BY <1>1, <1>4 DEF Kept, Confined, DeltasTell
  <2>2. Resolved(history', presets)
    BY <1>1, <1>2, <1>4 DEF Kept, Resolved
  <2> QED  BY <2>1, <2>2 DEF Kept
<1>6. InStep(history', rendered, live.model)
  BY <1>1, <1>2, <1>4 DEF InStep
<1> QED  BY <1>1, <1>5, <1>6 DEF JInv

\* A commit tells the renderer what the operation changed since it began.
LEMMA CommitKeeps ==
  ASSUME IInv, JInv, CommitOperation
  PROVE  JInv'
<1>1. PICK op \in history.operation :
         /\ history' = Committed(history, op, live.model)
         /\ truth' = [t \in DOMAIN truth \cup {history.nextTimestamp} |->
                        IF t = history.nextTimestamp THEN live.model ELSE truth[t]]
         /\ rendered' = Patched(Touched(op.scene, live.model), live.model)
         /\ UNCHANGED <<live, presets, savedModel, retired>>
  BY DEF CommitOperation
<1> DEFINE n == history.nextTimestamp
           free == [history EXCEPT !.operation = {}]
           base == TruncateRedoBranch(free)
           entry == [before |-> op.before, after |-> n,
                     delta |-> Touched(op.scene, live.model),
                     kind |-> op.kind, session |-> op.session]
           sessions == {[s EXCEPT !.effective = @ \/ s.id = op.session] : s \in base.session}
           g == Appended(history, op, live.model)
<1>2. /\ Sound(history, truth, savedModel) /\ HistoryTypeOK(history)
      /\ live.model \in Models /\ rendered \in Models
      /\ truth \in [0..n - 1 -> Models] /\ n \in Nat
      /\ Kept(history, retired, presets, truth) /\ live.context \in presets
      /\ rendered = op.scene
  BY Given DEF IInv, TypeOK, InStep
<1>3. /\ n \in DOMAIN truth' /\ truth'[n] = live.model
      /\ \A t \in 0..n - 1 : truth'[t] = truth[t]
  BY <1>1, <1>2
<1>4. op.before = history.current /\ op.scene = truth[history.current] /\ history.current \in 0..n - 1
  BY <1>2 DEF Sound, OperationSound, Ordered, HistoryTypeOK
<1>5. /\ history' = EnforceBudget(g, FALSE) /\ HistoryTypeOK(g)
  <2>1. Committed(history, op, live.model) = EnforceBudget(Appended(history, op, live.model), FALSE)
    BY DEF Committed, Appended
  <2>2. HistoryTypeOK(Appended(history, op, live.model))
    <3>1. \A t \in 0..history.nextTimestamp - 1 : truth'[t] = truth[t]
      BY <1>3
    <3> DEFINE k == Appended(history, op, live.model)
    <3>2. Sound(k, truth', savedModel)
      <4> HIDE DEF g, n
      <4> QED  BY <1>2, <3>1, AppendSound
    <3> QED  BY <3>2 DEF Sound
  <2> QED  BY <1>1, <2>1, <2>2
<1>6. /\ HistoryTypeOK(free) /\ free.operation = {} /\ free.current = history.current
      /\ free.snapshots = history.snapshots /\ free.entries = history.entries
      /\ free.session = history.session /\ free.floor = history.floor
      /\ free.nextSession = history.nextSession /\ free.nextTimestamp = n
  BY <1>2 DEF HistoryTypeOK
<1> HIDE DEF free
<1>7. Kept(free, retired, presets, truth)
  <2>1. Confined(free, retired) /\ DeltasTell(free, truth)
    BY <1>2, <1>6 DEF Kept, Confined, DeltasTell
  <2>2. Resolved(free, presets)
    BY <1>2, <1>6 DEF Kept, Resolved
  <2> QED  BY <2>1, <2>2 DEF Kept
<1>8. Narrows(base, free)
  BY <1>6, TruncateNarrows
<1> HIDE DEF base
<1>9. Kept(base, retired, presets, truth)
  BY <1>7, <1>8, NarrowsKeeps
<1>10. g = [base EXCEPT !.nextTimestamp = @ + 1, !.entries = @ \cup {entry},
                        !.current = n, !.session = sessions]
  BY DEF Appended, base, free
<1> HIDE DEF entry, sessions, g
<1>11. /\ g.entries = base.entries \cup {entry} /\ g.current = n /\ g.session = sessions
       /\ g.floor = base.floor /\ g.nextSession = base.nextSession
       /\ g.snapshots = base.snapshots /\ g.operation = base.operation
  BY <1>8, <1>10 DEF Narrows, HistoryTypeOK
<1>12. Confined(g, retired)
  <2>1. \A r \in sessions : \E s \in base.session : r.id = s.id /\ r.entry = s.entry /\ s.entry \in Nat
    <3>1. \A s \in base.session : s \in Sessions
      BY <1>8 DEF Narrows, HistoryTypeOK
    <3>2. \A s \in Sessions : LET r == [s EXCEPT !.effective = @ \/ s.id = op.session] IN
             r.id = s.id /\ r.entry = s.entry /\ s.entry \in Nat
      BY DEF Sessions
    <3> QED  BY <3>1, <3>2 DEF sessions
  <2>2. /\ \A s \in base.session : base.floor = {s.entry} /\ s.entry <= base.current /\ s.id \notin retired
        /\ base.nextSession # 0 => /\ \A i \in retired : i < base.nextSession
                                   /\ \A s \in base.session : s.id < base.nextSession
    BY <1>9 DEF Kept, Confined
  <2>3. base.current < n /\ base.current \in Nat
    BY <1>2, <1>4, <1>6, <1>8 DEF Narrows
  <2>4. \A r \in sessions : g.floor = {r.entry} /\ r.entry <= g.current /\ r.id \notin retired
    BY <1>2, <1>11, <2>1, <2>2, <2>3
  <2> QED  BY <1>11, <2>1, <2>2, <2>4 DEF Confined
<1>13. Resolved(g, presets)
  BY <1>9, <1>11 DEF Kept, Resolved
<1>14. DeltasTell(g, truth')
  <2>1. ASSUME NEW e \in base.entries, NEW o \in Objects, o \notin e.delta
        PROVE  truth'[e.before][o] = truth'[e.after][o]
    <3>1. e.before \in 0..n - 1 /\ e.after \in 0..n - 1
      <4>1. e \in history.entries
        BY <1>6, <1>8 DEF Narrows
      <4>2. e.before \in Nat /\ e.after \in Nat /\ e.before < e.after /\ e.after < n
        BY <1>2, <4>1 DEF Sound, Ordered, HistoryTypeOK, Entries
      <4> QED  BY <1>2, <4>2
    <3>2. truth[e.before][o] = truth[e.after][o]
      BY <1>9, <2>1 DEF Kept, DeltasTell
    <3> QED  BY <1>3, <3>1, <3>2
  <2>2. ASSUME NEW o \in Objects, o \notin entry.delta
        PROVE  truth'[entry.before][o] = truth'[entry.after][o]
    <3>1. op.scene[o] = live.model[o]
      BY <2>2 DEF entry, Touched
    <3>2. entry.before = history.current /\ entry.after = n
      BY <1>4 DEF entry
    <3> QED  BY <1>3, <1>4, <3>1, <3>2
  <2> QED  BY <1>11, <2>1, <2>2 DEF DeltasTell
<1>15. Kept(g, retired, presets, truth')
  BY <1>12, <1>13, <1>14 DEF Kept
<1>16. Narrows(history', g)
  BY <1>5, EnforceNarrows
<1>17. Kept(history', retired, presets, truth')
  BY <1>15, <1>16, NarrowsKeeps
<1>18. history'.operation = {}
  BY <1>6, <1>8, <1>11, <1>16 DEF Narrows
<1>19. rendered' = live.model
  <2>1. \A o \in Objects :
          (IF o \in Touched(op.scene, live.model) THEN live.model[o] ELSE rendered[o]) = live.model[o]
    BY <1>2 DEF Touched
  <2>2. rendered' = [o \in Objects |-> live.model[o]]
    BY <1>1, <2>1 DEF Patched
  <2> QED  BY <1>2, <2>2 DEF Models
<1> QED  BY <1>1, <1>2, <1>17, <1>18, <1>19 DEF JInv, InStep

LEMMA AbortKeeps ==
  ASSUME IInv, JInv, AbortOperation
  PROVE  JInv'
<1>1. PICK op \in history.operation :
         /\ history' = Aborted(history, op)
         /\ \/ live' = history.snapshots[op.before]
            \/ live.model = op.scene /\ UNCHANGED live
         /\ rendered' = live'.model
         /\ UNCHANGED <<presets, truth, savedModel, retired>>
  BY DEF AbortOperation
<1> DEFINE left == IF op.prior = {} THEN DOMAIN history.snapshots \ {op.before}
                                    ELSE DOMAIN history.snapshots
           back == [t \in left |-> IF t = op.before THEN CHOOSE s \in op.prior : TRUE
                                                    ELSE history.snapshots[t]]
<1>2. /\ Sound(history, truth, savedModel) /\ HistoryTypeOK(history)
      /\ Kept(history, retired, presets, truth) /\ live.context \in presets
  BY Given
<1>3. op.before = history.current /\ op.before \in DOMAIN history.snapshots
  BY <1>2 DEF Sound, OperationSound, Captured
<1>4. /\ \A t \in DOMAIN history.snapshots : history.snapshots[t].context \in presets
      /\ \A s \in op.prior : s.context \in presets
  BY <1>2 DEF Kept, Resolved
<1>5. \A t \in DOMAIN back : back[t].context \in presets
  <2> SUFFICES ASSUME NEW t \in left PROVE back[t].context \in presets
    OBVIOUS
  <2>1. CASE t = op.before
    <3>1. op.prior # {}
      BY <2>1
    <3>2. (CHOOSE s \in op.prior : TRUE) \in op.prior
      BY <3>1
    <3> QED  BY <1>4, <2>1, <3>2
  <2>2. CASE t # op.before
    BY <1>4, <2>2
  <2> QED  BY <2>1, <2>2
<1> HIDE DEF back, left
<1>6. history' = [history EXCEPT !.operation = {}, !.snapshots = back]
  BY <1>1 DEF Aborted, back, left
<1>7. /\ history'.operation = {} /\ history'.snapshots = back
      /\ history'.current = history.current /\ history'.entries = history.entries
      /\ history'.session = history.session /\ history'.floor = history.floor
      /\ history'.nextSession = history.nextSession
  BY <1>2, <1>6 DEF HistoryTypeOK
<1>8. Kept(history', retired, presets, truth)
  <2>1. Confined(history', retired) /\ DeltasTell(history', truth)
    BY <1>2, <1>7 DEF Kept, Confined, DeltasTell
  <2>2. Resolved(history', presets)
    BY <1>5, <1>7 DEF Resolved
  <2> QED  BY <2>1, <2>2 DEF Kept
<1>9. live'.context \in presets
  BY <1>1, <1>2, <1>3, <1>4
<1> QED  BY <1>1, <1>7, <1>8, <1>9 DEF JInv, InStep

\* restore() before the budget is enforced.
Moved(h, roots, target) == [Capture(h, roots) EXCEPT !.current = target]

LEMMA RestoreMoves ==
  ASSUME IInv, JInv, NEW target, Restore(target)
  PROVE  LET m == Moved(history, live, target) IN
         /\ Sound(m, truth, savedModel)
         /\ HistoryTypeOK(m) /\ Kept(m, retired, presets, truth)
         /\ m.current = target /\ m.operation = {} /\ m.entries = history.entries
         /\ history.current \in DOMAIN m.snapshots /\ target \in DOMAIN m.snapshots
         /\ history' = EnforceBudget(m, FALSE)
         /\ live' = m.snapshots[target] /\ live'.model = truth[target]
         /\ live'.context \in presets
<1> DEFINE h == Capture(history, live)
           m == [h EXCEPT !.current = target]
<1>1. /\ Sound(history, truth, savedModel) /\ HistoryTypeOK(history) /\ Idle
      /\ live \in Roots /\ live.model = truth[history.current] /\ live.context \in presets
      /\ Kept(history, retired, presets, truth)
  BY Given DEF IInv, Restore
<1>2. ~BelowFloor(history, target) /\ Available(history, target)
  BY DEF Restore
<1>3. /\ Sound(h, truth, savedModel) /\ Kept(h, retired, presets, truth)
      /\ h.current = history.current /\ h.entries = history.entries /\ h.operation = {}
      /\ h.session = history.session /\ h.floor = history.floor
      /\ h.nextTimestamp = history.nextTimestamp
      /\ history.current \in DOMAIN h.snapshots /\ target \in DOMAIN h.snapshots
  <2>1. CASE Captured(history, history.current)
    BY <1>1, <1>2, <2>1 DEF Capture, Captured, Available, Idle
  <2>2. CASE ~Captured(history, history.current)
    <3>1. h = SnapshotAt(history, history.current, live)
      BY <2>2 DEF Capture
    <3> HIDE DEF h
    <3>2. /\ Sound(h, truth, savedModel)
          /\ h.current = history.current /\ h.nextTimestamp = history.nextTimestamp
          /\ h.operation = history.operation
          /\ h.session = history.session /\ h.floor = history.floor
          /\ h.entries = history.entries
          /\ DOMAIN h.snapshots = DOMAIN history.snapshots \cup {history.current}
      BY <1>1, <3>1, SnapshotSound
    <3>3. Kept(h, retired, presets, truth)
      BY <1>1, <3>1, SnapshotKeeps
    <3> QED  BY <1>1, <1>2, <3>2, <3>3 DEF Captured, Available, Idle
  <2> QED  BY <2>1, <2>2
<1>4. history' = EnforceBudget(m, FALSE) /\ live' = h.snapshots[target]
  BY DEF Restore
<1> HIDE DEF h
<1>5. HistoryTypeOK(h) /\ Captured(h, h.current) /\ Captured(h, target)
  BY <1>3 DEF Sound, Captured
<1>6. Sound(m, truth, savedModel)
  BY <1>3, <1>5, MoveSound
<1>7. /\ m.current = target /\ m.operation = h.operation /\ m.entries = h.entries
      /\ m.snapshots = h.snapshots
      /\ m.session = h.session /\ m.floor = h.floor /\ m.nextSession = h.nextSession
  BY <1>5 DEF HistoryTypeOK
<1> HIDE DEF m
<1>8. /\ HistoryTypeOK(m) /\ m.current \in Nat
  BY <1>6 DEF Sound, HistoryTypeOK
<1>9. Kept(m, retired, presets, truth)
  <2>1. \A s \in h.session : h.floor = {s.entry} /\ s.entry <= target
    <3>1. \A s \in history.session : history.floor = {s.entry} /\ s.entry \in Nat
      BY Given DEF Kept, Confined
    <3>2. target \in Nat
      BY <1>7, <1>8
    <3> QED  BY <1>2, <1>3, <3>1, <3>2 DEF BelowFloor
  <2>2. Confined(m, retired)
    BY <1>3, <1>7, <2>1 DEF Kept, Confined
  <2>3. Resolved(m, presets) /\ DeltasTell(m, truth)
    BY <1>3, <1>7 DEF Kept, Resolved, DeltasTell
  <2> QED  BY <2>2, <2>3 DEF Kept
<1>10. live'.model = truth[target] /\ live'.context \in presets
  BY <1>3, <1>4 DEF Sound, Faithful, Kept, Resolved
<1> QED  BY <1>3, <1>4, <1>6, <1>7, <1>8, <1>9, <1>10 DEF Moved, m, h

\* The deltas between the two ends tell the renderer all that differs.
LEMMA RestoreKeeps ==
  ASSUME IInv, JInv, NEW target, Restore(target)
  PROVE  JInv'
<1> DEFINE m == Moved(history, live, target)
<1>1. /\ HistoryTypeOK(m) /\ Kept(m, retired, presets, truth) /\ m.operation = {}
      /\ history' = EnforceBudget(m, FALSE)
      /\ live'.model = truth[target] /\ live'.context \in presets
      /\ live' = m.snapshots[target] /\ target \in DOMAIN m.snapshots
  BY RestoreMoves
<1> HIDE DEF m
<1>2. Narrows(history', m)
  BY <1>1, EnforceNarrows
<1>3. Kept(history', retired, presets, truth) /\ history'.operation = {}
  BY <1>1, <1>2, NarrowsKeeps DEF Narrows
<1>4. UNCHANGED <<presets, truth, retired>>
  BY DEF Restore
<1>5. /\ Sound(history, truth, savedModel) /\ DeltasTell(history, truth)
      /\ rendered = live.model /\ live.model = truth[history.current]
  BY Given DEF Restore, Idle, IInv, InStep, Kept
<1>6. live'.model \in Models
  <2>1. m.snapshots \in SnapshotMaps(m.nextTimestamp)
    BY <1>1 DEF HistoryTypeOK, SnapshotMaps
  <2>2. live' \in Roots
    BY <1>1, <2>1, SnapshotMapElim
  <2> QED  BY <2>2 DEF Roots
<1>7. PICK P \in ChainsTo(history, target) : rendered' = Patched(MergedDelta(P), live'.model)
  BY DEF Restore
<1>8. ASSUME NEW o \in Objects, o \notin MergedDelta(P)
      PROVE  truth[target][o] = truth[history.current][o]
  <2>1. CASE target < history.current
    <3>1. P \in Chains(history, target, history.current)
      BY <1>7, <2>1 DEF ChainsTo
    <3> QED  BY <1>5, <1>8, <3>1, ChainTells
  <2>2. CASE ~(target < history.current)
    <3>1. P \in Chains(history, history.current, target)
      BY <1>7, <2>2 DEF ChainsTo
    <3>2. truth[history.current][o] = truth[target][o]
      BY <1>5, <1>8, <3>1, ChainTells
    <3> QED  BY <3>2
  <2> QED  BY <2>1, <2>2
<1>9. rendered' = live'.model
  <2>1. \A o \in Objects :
          (IF o \in MergedDelta(P) THEN live'.model[o] ELSE rendered[o]) = live'.model[o]
    BY <1>1, <1>5, <1>8
  <2>2. rendered' = [o \in Objects |-> live'.model[o]]
    BY <1>7, <2>1 DEF Patched
  <2> QED  BY <1>6, <2>2 DEF Models
<1> QED  BY <1>1, <1>3, <1>4, <1>9 DEF JInv, InStep

\* The steps that change neither what is retained nor where the cursor is.
LEMMA SameKeeps ==
  ASSUME JInv, UNCHANGED <<live, rendered, presets, truth, retired>>,
         history'.session = history.session, history'.nextSession = history.nextSession,
         history'.floor = history.floor \/ history.session = {},
         history'.current = history.current, history'.snapshots = history.snapshots,
         history'.operation = history.operation, history'.entries = history.entries
  PROVE  JInv'
<1>1. Confined(history', retired)
  BY DEF JInv, Kept, Confined
<1>2. Resolved(history', presets) /\ DeltasTell(history', truth)
  BY DEF JInv, Kept, Resolved, DeltasTell
<1>3. InStep(history', rendered, live.model)
  BY DEF JInv, InStep
<1> QED  BY <1>1, <1>2, <1>3 DEF JInv, Kept

\* The steps that only take away.
LEMMA FewerKeeps ==
  ASSUME JInv, UNCHANGED <<live, rendered, presets, truth>>,
         NEW h, Kept(h, retired', presets, truth), Narrows(history', h),
         h.operation = history.operation
  PROVE  JInv'
<1>1. Kept(history', retired', presets, truth)
  BY NarrowsKeeps
<1>2. InStep(history', rendered, live.model)
  BY DEF JInv, InStep, Narrows
<1> QED  BY <1>1, <1>2 DEF JInv

LEMMA BudgetKeeps ==
  ASSUME IInv, JInv, NEW bytes \in Budgets, SetByteBudget(bytes)
  PROVE  JInv'
<1> DEFINE h == [history EXCEPT !.budget = bytes]
<1>1. HistoryTypeOK(history) /\ Kept(history, retired, presets, truth) /\ bytes \in Nat
  BY Given, BudgetAssumption
<1>2. /\ HistoryTypeOK(h)
      /\ h.session = history.session /\ h.nextSession = history.nextSession
      /\ h.floor = history.floor /\ h.current = history.current
      /\ h.snapshots = history.snapshots /\ h.operation = history.operation
      /\ h.entries = history.entries
  BY <1>1 DEF HistoryTypeOK
<1>3. history' = EnforceBudget(h, FALSE) /\ UNCHANGED <<live, rendered, presets, truth, retired>>
  BY DEF SetByteBudget
<1> HIDE DEF h
<1>4. Kept(h, retired, presets, truth)
  <2>1. Confined(h, retired)
    BY <1>1, <1>2 DEF Kept, Confined
  <2>2. Resolved(h, presets) /\ DeltasTell(h, truth)
    BY <1>1, <1>2 DEF Kept, Resolved, DeltasTell
  <2> QED  BY <2>1, <2>2 DEF Kept
<1>5. Narrows(history', h)
  BY <1>2, <1>3, EnforceNarrows
<1> QED  BY <1>2, <1>3, <1>4, <1>5, FewerKeeps

\* A new token is above those that are spent.
LEMMA OpenSessionKeeps ==
  ASSUME IInv, JInv, BeginEditingSession
  PROVE  JInv'
<1> DEFINE n == history.nextSession
           opened == [id |-> n, entry |-> history.current, effective |-> FALSE]
           next == IF n = MaxSessionId THEN 0 ELSE n + 1
<1>1. /\ HistoryTypeOK(history) /\ Kept(history, retired, presets, truth)
      /\ live.context \in presets /\ InStep(history, rendered, live.model)
      /\ retired \subseteq Nat /\ history.current \in Nat /\ n \in Nat /\ n # 0
  BY Given DEF HistoryTypeOK, BeginEditingSession
<1>2. opened.id = n /\ opened.entry = history.current
  OBVIOUS
<1>3. next # 0 => next = n + 1
  OBVIOUS
<1>4. history' = [history EXCEPT !.session = {opened}, !.floor = {history.current},
                                 !.nextSession = next]
  BY DEF BeginEditingSession
<1>5. UNCHANGED <<live, rendered, presets, truth, retired>>
  BY DEF BeginEditingSession
<1> HIDE DEF opened, next
<1>6. /\ history'.session = {opened} /\ history'.floor = {history.current}
      /\ history'.nextSession = next /\ history'.current = history.current
      /\ history'.snapshots = history.snapshots /\ history'.operation = history.operation
      /\ history'.entries = history.entries
  BY <1>1, <1>4 DEF HistoryTypeOK
<1>7. \A i \in retired : i < n
  BY <1>1 DEF Kept, Confined
<1>8. Confined(history', retired)
  <2>1. n \notin retired /\ \A i \in retired : i < n + 1
    BY <1>1, <1>7
  <2>2. history.current <= history.current /\ n < n + 1
    BY <1>1
  <2> QED  BY <1>2, <1>3, <1>6, <2>1, <2>2 DEF Confined
<1>9. Resolved(history', presets) /\ DeltasTell(history', truth)
  BY <1>1, <1>6 DEF Kept, Resolved, DeltasTell
<1>10. InStep(history', rendered, live.model)
  BY <1>1, <1>6 DEF InStep
<1> QED  BY <1>1, <1>5, <1>8, <1>9, <1>10 DEF JInv, Kept

LEMMA CompactStepKeeps ==
  ASSUME IInv, JInv, CompactEditingSession
  PROVE  JInv'
<1> DEFINE h == CompactSession(history)
<1>1. /\ Sound(history, truth, savedModel) /\ Kept(history, retired, presets, truth)
      /\ history.operation = {}
  BY Given DEF CompactEditingSession, Idle
<1>2. HistoryTypeOK(h) /\ Kept(h, retired, presets, truth) /\ h.operation = {}
  BY <1>1, CompactKeeps
<1>3. history' = EnforceBudget(h, TRUE) /\ UNCHANGED <<live, rendered, presets, truth, retired>>
  BY DEF CompactEditingSession
<1> HIDE DEF h
<1>4. Narrows(history', h)
  BY <1>2, <1>3, EnforceNarrows
<1> QED  BY <1>1, <1>2, <1>3, <1>4, FewerKeeps

\* What a session leaves when it closes, before the budget is enforced; without an effect
\* nothing at or above the cursor is gone.
LEMMA CloseLeaves ==
  ASSUME IInv, JInv, CloseEditingSession
  PROVE  \E s \in history.session : \E h :
           /\ HistoryTypeOK(h) /\ Kept(h, retired \cup {s.id}, presets, truth)
           /\ h.operation = {} /\ h.current = history.current
           /\ history' = EnforceBudget(h, ~s.effective)
           /\ retired' = retired \cup {s.id}
           /\ ~s.effective =>
                /\ \A t \in DOMAIN history.snapshots :
                     t >= history.current => t \in DOMAIN h.snapshots
                /\ \A e \in history.entries : e.before >= history.current => e \in h.entries
<1> DEFINE compacted == CompactSession(history)
<1>1. /\ Sound(history, truth, savedModel) /\ HistoryTypeOK(history)
      /\ Kept(history, retired, presets, truth) /\ history.operation = {}
  BY Given DEF CloseEditingSession, Idle
<1>2. /\ Sound(compacted, truth, savedModel)
      /\ compacted.current = history.current /\ compacted.operation = {}
  BY <1>1, CompactSound
<1>3. /\ Kept(compacted, retired, presets, truth) /\ HistoryTypeOK(compacted)
      /\ compacted.session = history.session
      /\ compacted.nextSession = history.nextSession
      /\ \A t \in DOMAIN history.snapshots :
           t >= history.current => t \in DOMAIN compacted.snapshots
      /\ \A e \in history.entries : e.before >= history.current => e \in compacted.entries
  BY <1>1, CompactKeeps
<1>4. PICK s \in history.session :
         LET base == IF s.effective THEN TruncateRedoBranch(compacted) ELSE compacted
         IN  /\ history' = EnforceBudget([base EXCEPT !.floor = {}, !.session = {}],
                                         ~s.effective)
             /\ retired' = retired \cup {s.id}
  BY DEF CloseEditingSession
<1> DEFINE base == IF s.effective THEN TruncateRedoBranch(compacted) ELSE compacted
           h == [base EXCEPT !.floor = {}, !.session = {}]
<1>5. history' = EnforceBudget(h, ~s.effective) /\ retired' = retired \cup {s.id}
  BY <1>4
<1> HIDE DEF compacted
<1>6. Narrows(base, compacted)
  <2>1. Narrows(TruncateRedoBranch(compacted), compacted)
    BY <1>3, TruncateNarrows
  <2>2. Narrows(compacted, compacted)
    BY <1>3 DEF Narrows
  <2> QED  BY <2>1, <2>2
<1>7. ~s.effective => base = compacted
  OBVIOUS
<1> HIDE DEF base
<1>8. Kept(base, retired, presets, truth) /\ HistoryTypeOK(base)
  BY <1>3, <1>6, NarrowsKeeps DEF Narrows
<1>9. /\ HistoryTypeOK(h)
      /\ h.floor = {} /\ h.session = {} /\ h.nextSession = base.nextSession
      /\ h.current = base.current /\ h.operation = base.operation
      /\ h.snapshots = base.snapshots /\ h.entries = base.entries
  BY <1>8 DEF HistoryTypeOK
<1> HIDE DEF h
<1>10. Kept(h, retired \cup {s.id}, presets, truth)
  <2>1. Confined(h, retired \cup {s.id})
    <3>1. base.session = history.session /\ base.nextSession = history.nextSession
      BY <1>3, <1>6 DEF Narrows
    <3>2. base.nextSession # 0 => /\ \A i \in retired : i < base.nextSession
                                  /\ s.id < base.nextSession
      BY <1>8, <3>1 DEF Kept, Confined
    <3> QED  BY <1>9, <3>2 DEF Confined
  <2>2. Resolved(h, presets) /\ DeltasTell(h, truth)
    BY <1>8, <1>9 DEF Kept, Resolved, DeltasTell
  <2> QED  BY <2>1, <2>2 DEF Kept
<1>11. h.operation = {} /\ h.current = history.current
  BY <1>2, <1>6, <1>9 DEF Narrows
<1>12. ~s.effective =>
         /\ \A t \in DOMAIN history.snapshots : t >= history.current => t \in DOMAIN h.snapshots
         /\ \A e \in history.entries : e.before >= history.current => e \in h.entries
  BY <1>3, <1>7, <1>9
<1> QED  BY <1>5, <1>9, <1>10, <1>11, <1>12

LEMMA CloseKeeps ==
  ASSUME IInv, JInv, CloseEditingSession
  PROVE  JInv'
<1>a. PICK s \in history.session : \E h :
         /\ HistoryTypeOK(h) /\ Kept(h, retired \cup {s.id}, presets, truth)
         /\ h.operation = {}
         /\ history' = EnforceBudget(h, ~s.effective)
         /\ retired' = retired \cup {s.id}
  BY CloseLeaves
<1>1. PICK h :
         /\ HistoryTypeOK(h) /\ Kept(h, retired \cup {s.id}, presets, truth)
         /\ h.operation = {}
         /\ history' = EnforceBudget(h, ~s.effective)
         /\ retired' = retired \cup {s.id}
  BY <1>a
<1>2. history.operation = {} /\ UNCHANGED <<live, rendered, presets, truth>>
  BY DEF CloseEditingSession, Idle
<1>3. Narrows(history', h)
  <2>1. (~s.effective) \in BOOLEAN
    OBVIOUS
  <2> QED  BY <1>1, <2>1, EnforceNarrows
<1>4. Kept(h, retired', presets, truth) /\ h.operation = history.operation
  BY <1>1, <1>2
<1> QED  BY <1>2, <1>3, <1>4, FewerKeeps

\* A renamed context refers to the new name.
LEMMA RenamedResolves ==
  ASSUME NEW roots \in Roots, NEW names, roots.context \in names, NEW from, NEW to
  PROVE  Renamed(roots, from, to).context \in (names \ {from}) \cup {to}
BY DEF Renamed, Roots

LEMMA RewriteKeeps ==
  ASSUME IInv, JInv, NEW from \in Presets, NEW to \in Presets, NEW rebind \in BOOLEAN,
         RewriteContexts(from, to, rebind)
  PROVE  JInv'
<1> DEFINE names == (presets \ {from}) \cup {to}
           f == [t \in DOMAIN history.snapshots |->
                   IF rebind /\ t = history.current
                     THEN [history.snapshots[t] EXCEPT !.context = live'.context]
                     ELSE Renamed(history.snapshots[t], from, to)]
           O == {RewrittenOperation(op, from, to) : op \in history.operation}
<1>1. /\ HistoryTypeOK(history) /\ live \in Roots
      /\ Kept(history, retired, presets, truth) /\ live.context \in presets
      /\ InStep(history, rendered, live.model)
      /\ history.snapshots \in [DOMAIN history.snapshots -> Roots]
  BY Given
<1>2. /\ presets' = names /\ live' = Renamed(live, from, to)
      /\ UNCHANGED <<rendered, truth, savedModel, retired>>
  BY DEF RewriteContexts
<1>3. live'.context \in names /\ live'.model = live.model
  BY <1>1, <1>2, RenamedResolves, RenamedRoots
<1>4. history' = [history EXCEPT !.snapshots = f, !.operation = O]
  BY DEF RewriteContexts
<1>5. \A t \in DOMAIN history.snapshots : f[t].context \in names
  <2> SUFFICES ASSUME NEW t \in DOMAIN history.snapshots PROVE f[t].context \in names
    OBVIOUS
  <2>1. history.snapshots[t] \in Roots /\ history.snapshots[t].context \in presets
    BY <1>1 DEF Kept, Resolved
  <2>2. CASE rebind /\ t = history.current
    <3>1. f[t] = [history.snapshots[t] EXCEPT !.context = live'.context]
      BY <2>2
    <3> HIDE DEF f
    <3> QED  BY <1>3, <2>1, <3>1 DEF Roots
  <2>3. CASE ~(rebind /\ t = history.current)
    <3>1. f[t] = Renamed(history.snapshots[t], from, to)
      BY <2>3
    <3> HIDE DEF f
    <3> QED  BY <2>1, <3>1, RenamedResolves
  <2> QED  BY <2>2, <2>3
<1>6. ASSUME NEW op \in history.operation
      PROVE  /\ RewrittenOperation(op, from, to).scene = op.scene
             /\ \A s \in RewrittenOperation(op, from, to).prior : s.context \in names
  <2> DEFINE P == {Renamed(s, from, to) : s \in op.prior}
  <2>1. op \in Operations
    BY <1>1 DEF HistoryTypeOK
  <2>2. \A s \in op.prior : s \in Roots /\ s.context \in presets
    BY <1>1, <2>1 DEF Operations, Kept, Resolved
  <2>3. \A s \in P : s.context \in names
    BY <2>2, RenamedResolves
  <2>4. RewrittenOperation(op, from, to) = [op EXCEPT !.prior = P]
    BY DEF RewrittenOperation
  <2> HIDE DEF P
  <2> QED  BY <2>1, <2>3, <2>4 DEF Operations
<1>7. DOMAIN f = DOMAIN history.snapshots
  OBVIOUS
<1>8. /\ \A op \in O : \A s \in op.prior : s.context \in names
      /\ O = {} => history.operation = {}
      /\ \A op \in O : rendered = op.scene
  BY <1>1, <1>6 DEF InStep
<1> HIDE DEF f, O
<1>9. /\ history'.snapshots = f /\ history'.operation = O
      /\ history'.current = history.current /\ history'.entries = history.entries
      /\ history'.session = history.session /\ history'.floor = history.floor
      /\ history'.nextSession = history.nextSession
  BY <1>1, <1>4 DEF HistoryTypeOK
<1>10. Confined(history', retired) /\ DeltasTell(history', truth)
  BY <1>1, <1>9 DEF Kept, Confined, DeltasTell
<1>11. Resolved(history', names)
  BY <1>5, <1>7, <1>8, <1>9 DEF Resolved
<1>12. InStep(history', rendered, live'.model)
  BY <1>1, <1>3, <1>8, <1>9 DEF InStep
<1> QED  BY <1>2, <1>3, <1>10, <1>11, <1>12 DEF JInv, Kept

\* Every step preserves both invariants.
LEMMA StepKeeps == IInv /\ JInv /\ [Next]_vars => JInv'
<1> SUFFICES ASSUME IInv, JInv, [Next]_vars PROVE JInv'
  OBVIOUS
<1>0. live \in Roots /\ HistoryTypeOK(history)
  BY Given
<1>1. ASSUME NEW roots \in Roots, Clear(roots) PROVE JInv'
  BY <1>1, ClearKeeps
<1>2. ASSUME NEW kind \in Kinds, BeginOperation(kind) PROVE JInv'
  BY <1>2, BeginKeeps
<1>3. CASE BeginNested
  <2>1. PICK op \in history.operation :
          /\ history' = [history EXCEPT !.operation = {[op EXCEPT !.depth = op.depth + 1]}]
          /\ UNCHANGED <<live, rendered, presets, truth, savedModel, retired>>
    BY <1>3 DEF BeginNested
  <2> QED  BY <2>1, NestedKeeps
<1>4. ASSUME NEW o \in Objects, NEW v \in Versions, EditModel(o, v) PROVE JInv'
  <2>1. live'.context = live.context /\ UNCHANGED <<history, rendered, presets, truth, retired>>
    BY <1>0, <1>4 DEF EditModel, Roots
  <2>2. InStep(history, rendered, live'.model)
    BY <1>4 DEF JInv, InStep, EditModel, Idle
  <2> QED  BY <2>1, <2>2 DEF JInv, Kept, Confined, Resolved, DeltasTell, InStep
<1>5. ASSUME NEW p \in Presets, EditContext(p) PROVE JInv'
  <2>1. /\ live'.context \in presets /\ live'.model = live.model
        /\ UNCHANGED <<history, rendered, presets, truth, retired>>
    BY <1>0, <1>5 DEF EditContext, Roots
  <2> QED  BY <2>1 DEF JInv, Kept, Confined, Resolved, DeltasTell, InStep
<1>6. CASE CommitNested
  <2>1. PICK op \in history.operation :
          /\ history' = [history EXCEPT !.operation = {[op EXCEPT !.depth = op.depth - 1]}]
          /\ UNCHANGED <<live, rendered, presets, truth, savedModel, retired>>
    BY <1>6 DEF CommitNested
  <2> QED  BY <2>1, NestedKeeps
<1>7. CASE CommitOperation
  BY <1>7, CommitKeeps
<1>8. CASE AbortOperation
  BY <1>8, AbortKeeps
<1>9. CASE Undo \/ Redo
  BY <1>9, RestoreKeeps DEF Undo, Redo
<1>10. ASSUME NEW e \in history.entries, RestoreBefore(e) \/ RestoreAfter(e) PROVE JInv'
  BY <1>10, RestoreKeeps DEF RestoreBefore, RestoreAfter
<1>11. CASE MarkCurrentAsSaved
  <2>1. /\ history'.session = history.session /\ history'.nextSession = history.nextSession
        /\ history'.floor = history.floor
        /\ history'.current = history.current /\ history'.snapshots = history.snapshots
        /\ history'.operation = history.operation /\ history'.entries = history.entries
    BY <1>0, <1>11 DEF MarkCurrentAsSaved, HistoryTypeOK
  <2> QED  BY <1>11, <2>1, SameKeeps DEF MarkCurrentAsSaved
<1>12. ASSUME NEW floor \in Floors, SetNavigationFloor(floor) PROVE JInv'
  <2>1. /\ history'.session = history.session /\ history'.nextSession = history.nextSession
        /\ history.session = {}
        /\ history'.current = history.current /\ history'.snapshots = history.snapshots
        /\ history'.operation = history.operation /\ history'.entries = history.entries
    BY <1>0, <1>12 DEF SetNavigationFloor, HistoryTypeOK
  <2> QED  BY <1>12, <2>1, SameKeeps DEF SetNavigationFloor
<1>13. ASSUME NEW bytes \in Budgets, SetByteBudget(bytes) PROVE JInv'
  BY <1>13, BudgetKeeps
<1>14. CASE BeginEditingSession
  BY <1>14, OpenSessionKeeps
<1>15. CASE CompactEditingSession
  BY <1>15, CompactStepKeeps
<1>16. CASE CloseEditingSession
  BY <1>16, CloseKeeps
<1>17. ASSUME NEW from \in Presets, NEW to \in Presets, NEW rebind \in BOOLEAN,
              RewriteContexts(from, to, rebind)
       PROVE  JInv'
  BY <1>17, RewriteKeeps
<1>18. ASSUME NEW p \in Presets, AddPreset(p) PROVE JInv'
  <2>1. Resolved(history, presets')
    BY <1>18 DEF JInv, Kept, Resolved, AddPreset
  <2> QED  BY <1>18, <2>1 DEF JInv, Kept, Confined, Resolved, DeltasTell, InStep, AddPreset
<1>19. CASE UNCHANGED vars
  BY <1>19 DEF vars, JInv, Kept, Confined, Resolved, DeltasTell, InStep
<1> QED
  BY <1>1, <1>2, <1>3, <1>4, <1>5, <1>6, <1>7, <1>8, <1>9, <1>10, <1>11, <1>12, <1>13,
     <1>14, <1>15, <1>16, <1>17, <1>18, <1>19 DEF Next

-----------------------------------------------------------------------------
(* Theorems about sessions, contexts, the renderer and navigation *)

\* Both invariants hold in every reachable state.
THEOREM KeptInvariance == Spec => [](IInv /\ JInv)
<1>1. Init => IInv /\ JInv
  BY InitInvariant, InitKeeps
<1>2. IInv /\ JInv /\ [Next]_vars => (IInv /\ JInv)'
  BY StepInvariant, StepKeeps
<1> QED  BY <1>1, <1>2, PTL DEF Spec

\* The cursor never leaves an open session, whose token no earlier session held.
THEOREM SessionsConfined == Spec => []SessionConfined
<1>1. IInv /\ JInv => SessionConfined
  BY DEF JInv, Kept, Confined, SessionConfined
<1> QED  BY <1>1, KeptInvariance, PTL

\* No retained context refers to a preset that was renamed away.
THEOREM ContextsAlwaysResolve == Spec => []ContextsResolve
<1>1. IInv /\ JInv => ContextsResolve
  BY DEF JInv, Kept, Resolved, ContextsResolve
<1> QED  BY <1>1, KeptInvariance, PTL

\* The published deltas are enough: a renderer that applies only them shows the live model.
THEOREM RendererStaysInStep == Spec => []RendererInStep
<1>1. IInv /\ JInv => RendererInStep
  BY DEF JInv, InStep, RendererInStep, Idle
<1> QED  BY <1>1, KeptInvariance, PTL

\* The entry that an Undo or a Redo has just used survives the eviction of that step.
LEMMA StepsBack ==
  ASSUME IInv, JInv, NEW target, Restore(target), NEW e \in history.entries,
         {e.before, e.after} = {history.current, target}
  PROVE  /\ history'.current = target /\ e \in history'.entries
         /\ Captured(history', history.current)
<1> DEFINE m == Moved(history, live, target)
<1>1. /\ HistoryTypeOK(m) /\ m.current = target /\ m.entries = history.entries
      /\ history.current \in DOMAIN m.snapshots /\ target \in DOMAIN m.snapshots
      /\ history' = EnforceBudget(m, FALSE)
  BY RestoreMoves
<1> HIDE DEF m
<1>2. e.before \in Protected(m) /\ e.after \in Protected(m)
  BY <1>1 DEF Protected, UndoEntry, RedoEntry
<1>3. e.before \in DOMAIN m.snapshots /\ e.after \in DOMAIN m.snapshots
  BY <1>1
<1>4. /\ Narrows(history', m)
      /\ \A t \in DOMAIN m.snapshots : t \in Protected(m) => t \in DOMAIN history'.snapshots
      /\ e.before \in DOMAIN history'.snapshots /\ e.after \in DOMAIN history'.snapshots
           => e \in history'.entries
  BY <1>1, EnforceNarrows
<1> QED  BY <1>1, <1>2, <1>3, <1>4 DEF Narrows, Captured

\* One step of Undo or Redo can be taken back at once, whatever the budget.
THEOREM NavigationIsReversible == Spec => NavigationReversible
<1> DEFINE A == /\ Undo => \E e \in RedoEntry(history') : e.after = history.current
                                                          /\ Captured(history', e.after)
                /\ Redo => \E e \in UndoEntry(history') : e.before = history.current
                                                          /\ Captured(history', e.before)
<1>1. IInv /\ JInv => A
  <2> SUFFICES ASSUME IInv, JInv PROVE A
    OBVIOUS
  <2>1. ASSUME Undo
        PROVE  \E e \in RedoEntry(history') : e.after = history.current /\ Captured(history', e.after)
    <3>1. PICK e \in history.entries : e.after = history.current /\ Restore(e.before)
      BY <2>1 DEF Undo, UndoEntry
    <3>2. /\ history'.current = e.before /\ e \in history'.entries
          /\ Captured(history', history.current)
      BY <3>1, StepsBack
    <3> QED  BY <3>1, <3>2 DEF RedoEntry
  <2>2. ASSUME Redo
        PROVE  \E e \in UndoEntry(history') : e.before = history.current /\ Captured(history', e.before)
    <3>1. PICK e \in history.entries : e.before = history.current /\ Restore(e.after)
      BY <2>2 DEF Redo, RedoEntry
    <3>2. /\ history'.current = e.after /\ e \in history'.entries
          /\ Captured(history', history.current)
      BY <3>1, StepsBack
    <3> QED  BY <3>1, <3>2 DEF UndoEntry
  <2> QED  BY <2>1, <2>2
<1> HIDE DEF A
<1>2. Spec => [][A]_vars
  BY <1>1, KeptInvariance, PTL
<1> QED  BY <1>2 DEF NavigationReversible, A

\* Closing a session that committed nothing costs no step that could be redone.
THEOREM NoEffectCloseIsHarmless == Spec => NoEffectCloseKeepsRedo
<1> DEFINE A == CloseEditingSession /\ (\A s \in history.session : ~s.effective) =>
                  /\ {e \in history.entries : e.before >= history.current} \subseteq history'.entries
                  /\ \A t \in DOMAIN history.snapshots :
                        t >= history.current => t \in DOMAIN history'.snapshots
<1>1. IInv /\ JInv => A
  <2> SUFFICES ASSUME IInv, JInv, CloseEditingSession, \A s \in history.session : ~s.effective
               PROVE  /\ {e \in history.entries : e.before >= history.current} \subseteq history'.entries
                      /\ \A t \in DOMAIN history.snapshots :
                            t >= history.current => t \in DOMAIN history'.snapshots
    OBVIOUS
  <2>a. PICK s \in history.session : \E h :
           /\ HistoryTypeOK(h) /\ h.current = history.current
           /\ history' = EnforceBudget(h, ~s.effective)
           /\ ~s.effective =>
                /\ \A t \in DOMAIN history.snapshots :
                     t >= history.current => t \in DOMAIN h.snapshots
                /\ \A e \in history.entries : e.before >= history.current => e \in h.entries
    BY CloseLeaves
  <2>1. PICK h :
           /\ HistoryTypeOK(h) /\ h.current = history.current
           /\ history' = EnforceBudget(h, ~s.effective)
           /\ ~s.effective =>
                /\ \A t \in DOMAIN history.snapshots :
                     t >= history.current => t \in DOMAIN h.snapshots
                /\ \A e \in history.entries : e.before >= history.current => e \in h.entries
    BY <2>a
  <2>2. (~s.effective) = TRUE /\ history' = EnforceBudget(h, TRUE)
    BY <2>1
  <2>3. /\ \A t \in DOMAIN h.snapshots :
             t \in Protected(h) \/ ~(t <= h.current) => t \in DOMAIN history'.snapshots
        /\ \A e \in h.entries :
             e.before \in DOMAIN history'.snapshots /\ e.after \in DOMAIN history'.snapshots
               => e \in history'.entries
    BY <2>1, <2>2, EnforceNarrows
  <2>4. /\ history.current \in Nat
        /\ \A t \in DOMAIN history.snapshots : t \in Nat
        /\ \A e \in history.entries : e.before \in Nat /\ e.after \in Nat /\ e.before < e.after
    <3>1. Sound(history, truth, savedModel) /\ HistoryTypeOK(history)
      BY Given
    <3>2. DOMAIN history.snapshots \subseteq 0..history.nextTimestamp - 1
      BY <3>1, SnapshotMapElim DEF HistoryTypeOK, SnapshotMaps
    <3> QED  BY <3>1, <3>2 DEF Sound, Ordered, HistoryTypeOK, Entries
  <2>5. ASSUME NEW t \in DOMAIN history.snapshots, t >= history.current
        PROVE  t \in DOMAIN history'.snapshots
    <3>1. t \in DOMAIN h.snapshots
      BY <2>1, <2>5
    <3>2. t = h.current \/ ~(t <= h.current)
      BY <2>1, <2>4, <2>5
    <3> QED  BY <2>3, <3>1, <3>2 DEF Protected
  <2>6. ASSUME NEW e \in history.entries, e.before >= history.current
        PROVE  e \in history'.entries
    <3>1. e.before \in DOMAIN history.snapshots /\ e.after \in DOMAIN history.snapshots
      <4>1. Navigable(history) /\ e.after # history.current
        BY <2>4, <2>6, Given DEF Sound
      <4> QED  BY <4>1 DEF Navigable, Captured, Available
    <3>2. e.after >= history.current /\ e \in h.entries
      BY <2>1, <2>4, <2>6
    <3> QED  BY <2>3, <2>5, <2>6, <3>1, <3>2
  <2> QED  BY <2>5, <2>6
<1> QED  BY <1>1, KeptInvariance, PTL DEF NoEffectCloseKeepsRedo

-----------------------------------------------------------------------------
(* The line of states: which timestamps the entries join *)

Joined(h, a, b) == Chains(h, a, b) # {}

\* The entries as a partial order of steps.
Steps(h) ==
  /\ h.nextTimestamp \in Nat
  /\ \A e \in h.entries : /\ e.before \in 0..h.nextTimestamp /\ e.after \in 0..h.nextTimestamp
                          /\ e.before < e.after
  /\ Unforked(h)

\* A sound timeline has such steps.
LEMMA SoundSteps ==
  ASSUME NEW h, NEW committed, NEW saved, Sound(h, committed, saved)
  PROVE  Steps(h)
<1>1. h.nextTimestamp \in Nat /\ Unforked(h)
  BY DEF Sound, HistoryTypeOK
<1>2. \A e \in h.entries : /\ e.before \in Nat /\ e.after \in Nat
                           /\ e.before < e.after /\ e.after < h.nextTimestamp
  BY DEF Sound, HistoryTypeOK, Ordered, Entries
<1> QED  BY <1>1, <1>2 DEF Steps

\* What a walk from a to b is.
LEMMA ChainsAre ==
  ASSUME NEW h, NEW a, NEW b, NEW P
  PROVE  P \in Chains(h, a, b) <=>
           /\ P \subseteq h.entries
           /\ (P = {} <=> a = b)
           /\ \A e \in P : /\ e.before = a \/ \E f \in P : f.after = e.before
                           /\ e.after = b \/ \E f \in P : f.before = e.after
BY DEF Chains

\* A chain lies between its ends, and has an entry at each of them.
LEMMA ChainWithin ==
  ASSUME NEW h, Steps(h), NEW a, NEW b, NEW P \in Chains(h, a, b), P # {}
  PROVE  /\ a \in Nat /\ b \in Nat /\ a < b
         /\ \A e \in P : a <= e.before /\ e.after <= b
         /\ \E e \in P : e.before = a
         /\ \E e \in P : e.after = b
<1> DEFINE n == h.nextTimestamp
           S == {e.before : e \in P}
           T == {e.after : e \in P}
<1>1. n \in Nat /\ \A e \in P : e.before \in 0..n /\ e.after \in 0..n /\ e.before < e.after
  BY ChainsAre DEF Steps
<1>2. \A e \in P : /\ e.before = a \/ \E f \in P : f.after = e.before
                   /\ e.after = b \/ \E f \in P : f.before = e.after
  BY ChainsAre
<1>3. S \subseteq 0..n /\ S # {} /\ T \subseteq 0..n /\ T # {}
  BY <1>1
<1> HIDE DEF n
<1>4. PICK m \in S : \A t \in S : m <= t
  <2> HIDE DEF S
  <2> QED  BY <1>1, <1>3, EarliestOf
<1>5. PICK d \in P : d.before = m
  OBVIOUS
<1>6. d.before = a
  <2> SUFFICES ASSUME NEW f \in P, f.after = d.before PROVE FALSE
    BY <1>2
  <2>1. m <= f.before /\ f.before < m
    BY <1>1, <1>4, <1>5
  <2> QED  BY <1>1, <1>5, <2>1
<1>7. PICK k \in T : \A t \in T : t <= k
  <2> HIDE DEF T
  <2> QED  BY <1>1, <1>3, LatestOf
<1>8. PICK e \in P : e.after = k
  OBVIOUS
<1>9. e.after = b
  <2> SUFFICES ASSUME NEW f \in P, f.before = e.after PROVE FALSE
    BY <1>2
  <2>1. f.after <= k /\ k < f.after
    BY <1>1, <1>7, <1>8
  <2> QED  BY <1>1, <1>8, <2>1
<1>10. \A x \in P : a <= x.before /\ x.after <= b
  BY <1>4, <1>5, <1>6, <1>7, <1>8, <1>9
<1>11. a \in Nat /\ b \in Nat /\ a < b
  BY <1>1, <1>5, <1>6, <1>8, <1>9, <1>10
<1> QED  BY <1>5, <1>6, <1>8, <1>9, <1>10, <1>11

\* The walk that does not move.
LEMMA JoinSelf ==
  ASSUME NEW h, NEW a
  PROVE  Joined(h, a, a)
<1>1. {} \in Chains(h, a, a)
  BY ChainsAre
<1> QED  BY <1>1 DEF Joined

\* An entry is a walk.
LEMMA JoinStep ==
  ASSUME NEW h, Steps(h), NEW e \in h.entries
  PROVE  Joined(h, e.before, e.after)
<1>1. e.before # e.after
  BY DEF Steps
<1>2. {e} \in Chains(h, e.before, e.after)
  BY <1>1 DEF Chains
<1> QED  BY <1>2 DEF Joined

\* One walk after another.
LEMMA JoinTrans ==
  ASSUME NEW h, Steps(h), NEW a, NEW b, NEW c, Joined(h, a, b), Joined(h, b, c)
  PROVE  Joined(h, a, c)
<1>1. PICK P : P \in Chains(h, a, b)
  BY DEF Joined
<1>2. PICK Q : Q \in Chains(h, b, c)
  BY DEF Joined
<1>3. CASE P = {} \/ Q = {}
  <2>1. a = b \/ b = c
    BY <1>1, <1>2, <1>3, ChainsAre
  <2> QED  BY <2>1
<1>4. CASE P # {} /\ Q # {}
  <2>1. /\ a \in Nat /\ b \in Nat /\ c \in Nat /\ a < b /\ b < c
        /\ \E e \in P : e.after = b
        /\ \E e \in Q : e.before = b
    BY <1>1, <1>2, <1>4, ChainWithin
  <2>2. a # c
    BY <2>1
  <2>3. P \cup Q \in Chains(h, a, c)
    <3>1. /\ P \subseteq h.entries /\ Q \subseteq h.entries
          /\ \A e \in P : /\ e.before = a \/ \E f \in P : f.after = e.before
                          /\ e.after = b \/ \E f \in P : f.before = e.after
          /\ \A e \in Q : /\ e.before = b \/ \E f \in Q : f.after = e.before
                          /\ e.after = c \/ \E f \in Q : f.before = e.after
      BY <1>1, <1>2, ChainsAre
    <3>2. \A e \in P \cup Q :
            /\ e.before = a \/ \E f \in P \cup Q : f.after = e.before
            /\ e.after = c \/ \E f \in P \cup Q : f.before = e.after
      BY <2>1, <3>1
    <3>3. P \cup Q # {} /\ P \cup Q \subseteq h.entries
      BY <1>4, <3>1
    <3> QED  BY <2>2, <3>2, <3>3 DEF Chains
  <2> QED  BY <2>3 DEF Joined
<1> QED  BY <1>3, <1>4

\* Of two chains to one place, the shorter one is the end of the longer one.
LEMMA ChainEnds ==
  ASSUME NEW h, Steps(h), NEW a \in Nat, NEW b \in Nat, NEW c, a <= b,
         NEW P \in Chains(h, a, c), NEW Q \in Chains(h, b, c)
  PROVE  Q \subseteq P /\ P \ Q \in Chains(h, a, b)
<1> DEFINE n == h.nextTimestamp
<1>1. /\ n \in Nat /\ P \subseteq h.entries /\ Q \subseteq h.entries
      /\ \A e \in h.entries : e.before \in 0..n /\ e.after \in 0..n /\ e.before < e.after
      /\ \A d, e \in h.entries : d.before = e.before \/ d.after = e.after => d = e
  BY ChainsAre DEF Steps, Unforked
<1>2. /\ (P = {} <=> a = c)
      /\ (Q = {} <=> b = c)
      /\ \A e \in P : /\ e.before = a \/ \E f \in P : f.after = e.before
                      /\ e.after = c \/ \E f \in P : f.before = e.after
      /\ \A e \in Q : /\ e.before = b \/ \E f \in Q : f.after = e.before
                      /\ e.after = c \/ \E f \in Q : f.before = e.after
  BY ChainsAre
<1>3. Q # {} => /\ b < c /\ c \in Nat
                /\ \A e \in Q : b <= e.before /\ e.after <= c
                /\ \E e \in Q : e.before = b
                /\ \E e \in Q : e.after = c
  BY ChainWithin
<1>4. P # {} => /\ a < c /\ c \in Nat
                /\ \A e \in P : a <= e.before /\ e.after <= c
                /\ \E e \in P : e.before = a
                /\ \E e \in P : e.after = c
  BY ChainWithin
<1> HIDE DEF n
<1>5. Q \subseteq P
  <2> DEFINE S == {e.after : e \in Q \ P}
  <2> SUFFICES ASSUME Q \ P # {} PROVE FALSE
    OBVIOUS
  <2>1. S \subseteq 0..n /\ S # {}
    BY <1>1
  <2>2. PICK m \in S : \A t \in S : t <= m
    <3> HIDE DEF S
    <3> QED  BY <1>1, <2>1, LatestOf
  <2>3. PICK e \in Q \ P : e.after = m
    OBVIOUS
  <2>4. b < c /\ c \in Nat /\ P # {}
    BY <1>2, <1>3
  <2>5. e.after # c
    <3>1. PICK x \in P : x.after = c
      BY <1>4, <2>4
    <3> QED  BY <1>1, <2>3, <3>1
  <2>6. PICK f \in Q : f.before = e.after
    BY <1>2, <2>3, <2>5
  <2>7. f \in P
    <3> SUFFICES ASSUME f \notin P PROVE FALSE
      OBVIOUS
    <3>1. f.after \in S
      OBVIOUS
    <3>2. f.after <= m /\ m < f.after
      BY <1>1, <2>2, <2>3, <2>6, <3>1
    <3> QED  BY <1>1, <2>3, <3>2
  <2>8. f.before # a
    <3>1. b <= e.before /\ e.before < f.before
      BY <1>1, <1>3, <2>3, <2>6
    <3> QED  BY <1>1, <2>3, <3>1
  <2>9. PICK g \in P : g.after = f.before
    BY <1>2, <2>7, <2>8
  <2> QED  BY <1>1, <2>3, <2>6, <2>9
<1>6. \A e \in P \ Q : /\ e.before = a \/ \E f \in P \ Q : f.after = e.before
                       /\ e.after = b \/ \E f \in P \ Q : f.before = e.after
  <2> SUFFICES ASSUME NEW e \in P \ Q
               PROVE  /\ e.before = a \/ \E f \in P \ Q : f.after = e.before
                      /\ e.after = b \/ \E f \in P \ Q : f.before = e.after
    OBVIOUS
  <2>1. ASSUME NEW f \in P, f.after = e.before PROVE f \notin Q
    <3> SUFFICES ASSUME f \in Q PROVE FALSE
      OBVIOUS
    <3>1. f.after # c
      <4>1. e.before < e.after /\ e.after <= c
        BY <1>1, <1>4
      <4> QED  BY <1>1, <1>4, <2>1, <4>1
    <3>2. PICK x \in Q : x.before = f.after
      BY <1>2, <3>1
    <3> QED  BY <1>1, <2>1, <3>2
  <2>2. ASSUME NEW f \in P, f.before = e.after, f \in Q PROVE e.after = b
    <3> SUFFICES ASSUME f.before # b PROVE FALSE
      BY <2>2
    <3>1. PICK x \in Q : x.after = f.before
      BY <1>2, <2>2
    <3> QED  BY <1>1, <2>2, <3>1
  <2>3. ASSUME e.after = c PROVE e.after = b
    <3>1. Q = {}
      BY <1>1, <1>3, <2>3
    <3> QED  BY <1>2, <2>3, <3>1
  <2> QED  BY <1>2, <2>1, <2>2, <2>3
<1>7. P \ Q = {} <=> a = b
  <2>1. ASSUME a = b PROVE P \ Q = {}
    <3> SUFFICES ASSUME P \ Q # {} PROVE FALSE
      OBVIOUS
    <3>1. PICK x \in P : x.before = a
      BY <1>4
    <3>2. Q # {}
      BY <1>2, <2>1
    <3>3. PICK y \in Q : y.before = b
      BY <1>3, <3>2
    <3> DEFINE S == {e.before : e \in P \ Q}
    <3>4. S \subseteq 0..n /\ S # {}
      BY <1>1
    <3>5. PICK m \in S : \A t \in S : m <= t
      <4> HIDE DEF S
      <4> QED  BY <1>1, <3>4, EarliestOf
    <3>6. PICK e \in P \ Q : e.before = m
      OBVIOUS
    <3>7. e.before # a
      BY <1>1, <2>1, <3>3, <3>6
    <3>8. PICK f \in P \ Q : f.after = e.before
      BY <1>6, <3>6, <3>7
    <3>9. m <= f.before /\ f.before < m
      BY <1>1, <3>5, <3>6, <3>8
    <3> QED  BY <1>1, <3>6, <3>9
  <2>2. ASSUME P \ Q = {} PROVE a = b
    <3>1. P = Q
      BY <1>5, <2>2
    <3>2. CASE P = {}
      BY <1>2, <3>1, <3>2
    <3>3. CASE P # {}
      <4>1. PICK x \in P : x.before = a
        BY <1>4, <3>3
      <4>2. b <= x.before
        BY <1>3, <3>1
      <4> QED  BY <4>1, <4>2
    <3> QED  BY <3>2, <3>3
  <2> QED  BY <2>1, <2>2
<1>8. P \ Q \subseteq h.entries
  BY <1>1
<1>9. P \ Q \in Chains(h, a, b)
  BY <1>6, <1>7, <1>8 DEF Chains
<1> QED  BY <1>5, <1>9

\* And of two chains from one place, the shorter one is the beginning of the longer one.
LEMMA ChainStarts ==
  ASSUME NEW h, Steps(h), NEW a, NEW b \in Nat, NEW c \in Nat, b <= c,
         NEW P \in Chains(h, a, c), NEW Q \in Chains(h, a, b)
  PROVE  Q \subseteq P /\ P \ Q \in Chains(h, b, c)
<1> DEFINE n == h.nextTimestamp
<1>1. /\ n \in Nat /\ P \subseteq h.entries /\ Q \subseteq h.entries
      /\ \A e \in h.entries : e.before \in 0..n /\ e.after \in 0..n /\ e.before < e.after
      /\ \A d, e \in h.entries : d.before = e.before \/ d.after = e.after => d = e
  BY ChainsAre DEF Steps, Unforked
<1>2. /\ (P = {} <=> a = c)
      /\ (Q = {} <=> a = b)
      /\ \A e \in P : /\ e.before = a \/ \E f \in P : f.after = e.before
                      /\ e.after = c \/ \E f \in P : f.before = e.after
      /\ \A e \in Q : /\ e.before = a \/ \E f \in Q : f.after = e.before
                      /\ e.after = b \/ \E f \in Q : f.before = e.after
  BY ChainsAre
<1>3. Q # {} => /\ a < b /\ a \in Nat
                /\ \A e \in Q : a <= e.before /\ e.after <= b
                /\ \E e \in Q : e.before = a
                /\ \E e \in Q : e.after = b
  BY ChainWithin
<1>4. P # {} => /\ a < c /\ a \in Nat
                /\ \A e \in P : a <= e.before /\ e.after <= c
                /\ \E e \in P : e.before = a
                /\ \E e \in P : e.after = c
  BY ChainWithin
<1> HIDE DEF n
<1>5. Q \subseteq P
  <2> DEFINE S == {e.before : e \in Q \ P}
  <2> SUFFICES ASSUME Q \ P # {} PROVE FALSE
    OBVIOUS
  <2>1. S \subseteq 0..n /\ S # {}
    BY <1>1
  <2>2. PICK m \in S : \A t \in S : m <= t
    <3> HIDE DEF S
    <3> QED  BY <1>1, <2>1, EarliestOf
  <2>3. PICK e \in Q \ P : e.before = m
    OBVIOUS
  <2>4. a < b /\ a \in Nat /\ P # {}
    BY <1>2, <1>3
  <2>5. e.before # a
    <3>1. PICK x \in P : x.before = a
      BY <1>4, <2>4
    <3> QED  BY <1>1, <2>3, <3>1
  <2>6. PICK f \in Q : f.after = e.before
    BY <1>2, <2>3, <2>5
  <2>7. f \in P
    <3> SUFFICES ASSUME f \notin P PROVE FALSE
      OBVIOUS
    <3>1. f.before \in S
      OBVIOUS
    <3>2. m <= f.before /\ f.before < m
      BY <1>1, <2>2, <2>3, <2>6, <3>1
    <3> QED  BY <1>1, <2>3, <3>2
  <2>8. f.after # c
    <3>1. f.after < e.after /\ e.after <= b
      BY <1>1, <1>3, <2>3, <2>6
    <3> QED  BY <1>1, <2>3, <3>1
  <2>9. PICK g \in P : g.before = f.after
    BY <1>2, <2>7, <2>8
  <2> QED  BY <1>1, <2>3, <2>6, <2>9
<1>6. \A e \in P \ Q : /\ e.before = b \/ \E f \in P \ Q : f.after = e.before
                       /\ e.after = c \/ \E f \in P \ Q : f.before = e.after
  <2> SUFFICES ASSUME NEW e \in P \ Q
               PROVE  /\ e.before = b \/ \E f \in P \ Q : f.after = e.before
                      /\ e.after = c \/ \E f \in P \ Q : f.before = e.after
    OBVIOUS
  <2>1. ASSUME NEW f \in P, f.before = e.after PROVE f \notin Q
    <3> SUFFICES ASSUME f \in Q PROVE FALSE
      OBVIOUS
    <3>1. f.before # a
      <4>1. e.before < e.after /\ a <= e.before
        BY <1>1, <1>4
      <4> QED  BY <1>1, <1>4, <2>1, <4>1
    <3>2. PICK x \in Q : x.after = f.before
      BY <1>2, <3>1
    <3> QED  BY <1>1, <2>1, <3>2
  <2>2. ASSUME NEW f \in P, f.after = e.before, f \in Q PROVE e.before = b
    <3> SUFFICES ASSUME f.after # b PROVE FALSE
      BY <2>2
    <3>1. PICK x \in Q : x.before = f.after
      BY <1>2, <2>2
    <3> QED  BY <1>1, <2>2, <3>1
  <2>3. ASSUME e.before = a PROVE e.before = b
    <3>1. Q = {}
      BY <1>1, <1>3, <2>3
    <3> QED  BY <1>2, <2>3, <3>1
  <2> QED  BY <1>2, <2>1, <2>2, <2>3
<1>7. P \ Q = {} <=> b = c
  <2>1. ASSUME b = c PROVE P \ Q = {}
    <3> SUFFICES ASSUME P \ Q # {} PROVE FALSE
      OBVIOUS
    <3>1. Q # {}
      BY <1>2, <2>1
    <3>2. PICK y \in Q : y.after = b
      BY <1>3, <3>1
    <3> DEFINE S == {e.after : e \in P \ Q}
    <3>3. S \subseteq 0..n /\ S # {}
      BY <1>1
    <3>4. PICK m \in S : \A t \in S : t <= m
      <4> HIDE DEF S
      <4> QED  BY <1>1, <3>3, LatestOf
    <3>5. PICK e \in P \ Q : e.after = m
      OBVIOUS
    <3>6. e.after # c
      BY <1>1, <2>1, <3>2, <3>5
    <3>7. PICK f \in P \ Q : f.before = e.after
      BY <1>6, <3>5, <3>6
    <3>8. f.after <= m /\ m < f.after
      BY <1>1, <3>4, <3>5, <3>7
    <3> QED  BY <1>1, <3>5, <3>8
  <2>2. ASSUME P \ Q = {} PROVE b = c
    <3>1. P = Q
      BY <1>5, <2>2
    <3>2. CASE P = {}
      BY <1>2, <3>1, <3>2
    <3>3. CASE P # {}
      <4>1. PICK x \in P : x.after = c
        BY <1>4, <3>3
      <4>2. x.after <= b
        BY <1>3, <3>1
      <4> QED  BY <4>1, <4>2
    <3> QED  BY <3>2, <3>3
  <2> QED  BY <2>1, <2>2
<1>8. P \ Q \subseteq h.entries
  BY <1>1
<1>9. P \ Q \in Chains(h, b, c)
  BY <1>6, <1>7, <1>8 DEF Chains
<1> QED  BY <1>5, <1>9

\* The same of joined timestamps, without the walk.
LEMMA JoinOrder ==
  ASSUME NEW h, Steps(h), NEW a, NEW b, Joined(h, a, b)
  PROVE  a = b \/ (/\ a \in Nat /\ b \in Nat /\ a < b
                   /\ \E e \in h.entries : e.before = a
                   /\ \E e \in h.entries : e.after = b)
<1>1. PICK P : P \in Chains(h, a, b)
  BY DEF Joined
<1>2. P = {} => a = b
  BY <1>1, ChainsAre
<1>3. P \subseteq h.entries
  BY <1>1, ChainsAre
<1> QED  BY <1>1, <1>2, <1>3, ChainWithin

\* Of two timestamps joined to a third, the earlier is joined to the later.
LEMMA JoinEnds ==
  ASSUME NEW h, Steps(h), NEW a \in Nat, NEW b \in Nat, NEW c, a <= b,
         Joined(h, a, c), Joined(h, b, c)
  PROVE  Joined(h, a, b)
BY ChainEnds DEF Joined

\* And of two that a third is joined to.
LEMMA JoinStarts ==
  ASSUME NEW h, Steps(h), NEW a, NEW b \in Nat, NEW c \in Nat, b <= c,
         Joined(h, a, c), Joined(h, a, b)
  PROVE  Joined(h, b, c)
BY ChainStarts DEF Joined

\* A walk that needs only entries of g is one of g.
LEMMA JoinPart ==
  ASSUME NEW h, NEW g, Steps(h), NEW a, NEW b, Joined(h, a, b),
         \A e \in h.entries : a <= e.before /\ e.after <= b => e \in g.entries
  PROVE  Joined(g, a, b)
<1>1. PICK P : P \in Chains(h, a, b)
  BY DEF Joined
<1>2. \A e \in P : a <= e.before /\ e.after <= b
  BY <1>1, ChainWithin
<1>3. P \subseteq g.entries
  BY <1>1, <1>2, ChainsAre
<1>4. P \in Chains(g, a, b)
  BY <1>1, <1>3, ChainsAre
<1> QED  BY <1>4 DEF Joined

\* More entries join more.
LEMMA JoinMore ==
  ASSUME NEW h, NEW g, g.entries \subseteq h.entries, NEW a, NEW b, Joined(g, a, b)
  PROVE  Joined(h, a, b)
<1>1. PICK P : P \in Chains(g, a, b)
  BY DEF Joined
<1>2. P \in Chains(h, a, b)
  BY <1>1, ChainsAre
<1> QED  BY <1>2 DEF Joined

\* What lies on a walk of g between its ends is on it.
LEMMA JoinBetween ==
  ASSUME NEW h, NEW g, Steps(h), g.entries \subseteq h.entries,
         NEW a \in Nat, NEW b \in Nat, NEW c \in Nat, a <= b, b <= c
  PROVE  /\ Joined(g, a, c) /\ Joined(h, b, c) => Joined(g, b, c)
         /\ Joined(g, a, c) /\ Joined(h, a, b) => Joined(g, a, b)
<1>1. ASSUME Joined(g, a, c), Joined(h, b, c) PROVE Joined(g, b, c)
  <2>1. PICK P : P \in Chains(g, a, c)
    BY <1>1 DEF Joined
  <2>2. PICK Q : Q \in Chains(h, b, c)
    BY <1>1 DEF Joined
  <2>3. P \in Chains(h, a, c) /\ P \subseteq g.entries
    BY <2>1, ChainsAre
  <2>4. Q \subseteq P
    BY <2>2, <2>3, ChainEnds
  <2>5. Q \in Chains(g, b, c)
    BY <2>2, <2>3, <2>4, ChainsAre
  <2> QED  BY <2>5 DEF Joined
<1>2. ASSUME Joined(g, a, c), Joined(h, a, b) PROVE Joined(g, a, b)
  <2>1. PICK P : P \in Chains(g, a, c)
    BY <1>2 DEF Joined
  <2>2. PICK Q : Q \in Chains(h, a, b)
    BY <1>2 DEF Joined
  <2>3. P \in Chains(h, a, c) /\ P \subseteq g.entries
    BY <2>1, ChainsAre
  <2>4. Q \subseteq P
    BY <2>2, <2>3, ChainStarts
  <2>5. Q \in Chains(g, a, b)
    BY <2>2, <2>3, <2>4, ChainsAre
  <2> QED  BY <2>5 DEF Joined
<1> QED  BY <1>1, <1>2

\* What one reaches from the cursor, below it and above it.
LEMMA ReachableIs ==
  ASSUME NEW h, Steps(h), h.current \in Nat
  PROVE  /\ Reachable(h) \subseteq Nat /\ h.current \in Reachable(h)
         /\ \A t \in Nat : t < h.current =>
              (t \in Reachable(h) <=> Joined(h, t, h.current))
         /\ \A t \in Nat : h.current < t =>
              (t \in Reachable(h) <=> Joined(h, h.current, t))
<1> DEFINE c == h.current
<1>1. \A e \in h.entries : e.before \in Nat /\ e.after \in Nat
  BY DEF Steps
<1>2. \A t : t \in Reachable(h) <=>
         /\ t \in Referenced(h.entries) \cup {c}
         /\ IF t < c THEN Joined(h, t, c) ELSE Joined(h, c, t)
  BY DEF Reachable, ChainsTo, Joined
<1>3. Reachable(h) \subseteq Nat
  BY <1>1, <1>2 DEF Referenced
<1>4. c \in Reachable(h)
  <2>1. ~(c < c)
    OBVIOUS
  <2> QED  BY <1>2, <2>1, JoinSelf
<1>5. ASSUME NEW t \in Nat, t < c, Joined(h, t, c) PROVE t \in Referenced(h.entries)
  <2>1. t # c
    BY <1>5
  <2>2. \E e \in h.entries : e.before = t
    BY <1>5, <2>1, JoinOrder
  <2> QED  BY <2>2 DEF Referenced
<1>6. ASSUME NEW t \in Nat, c < t, Joined(h, c, t) PROVE t \in Referenced(h.entries) /\ ~(t < c)
  <2>1. t # c /\ ~(t < c)
    BY <1>6
  <2>2. \E e \in h.entries : e.after = t
    BY <1>6, <2>1, JoinOrder
  <2> QED  BY <2>1, <2>2 DEF Referenced
<1>7. \A t \in Nat : c < t => ~(t < c)
  OBVIOUS
<1> QED  BY <1>2, <1>3, <1>4, <1>5, <1>6, <1>7

\* Any two of the timestamps that one reaches are joined.
LEMMA LineTotal ==
  ASSUME NEW h, Steps(h), h.current \in Nat,
         NEW t \in Reachable(h), NEW u \in Reachable(h), t <= u
  PROVE  Joined(h, t, u)
<1> DEFINE c == h.current
<1>1. /\ t \in Nat /\ u \in Nat /\ c \in Nat
      /\ t < c => Joined(h, t, c)
      /\ u < c => Joined(h, u, c)
      /\ c < t => Joined(h, c, t)
      /\ c < u => Joined(h, c, u)
  BY ReachableIs
<1>2. Joined(h, c, c)
  BY JoinSelf
<1> HIDE DEF c
<1>3. CASE u <= c
  <2>1. t <= c
    BY <1>1, <1>3
  <2>2. Joined(h, u, c) /\ Joined(h, t, c)
    BY <1>1, <1>2, <1>3, <2>1
  <2> QED  BY <1>1, <2>2, JoinEnds
<1>4. CASE c < u
  <2>1. CASE t <= c
    <3>1. Joined(h, t, c)
      BY <1>1, <1>2, <2>1
    <3> QED  BY <1>1, <1>4, <3>1, JoinTrans
  <2>2. CASE c < t
    BY <1>1, <1>4, <2>2, JoinStarts
  <2> QED  BY <1>1, <2>1, <2>2
<1> QED  BY <1>1, <1>3, <1>4

\* The line depends on the entries and the cursor only.
LEMMA ReachableSame ==
  ASSUME NEW h, NEW g, g.entries = h.entries, g.current = h.current
  PROVE  Reachable(g) = Reachable(h)
BY DEF Reachable, ChainsTo, Chains

\* Moving the cursor along the line leaves the line as it is.
LEMMA LineMoves ==
  ASSUME NEW h, Steps(h), h.current \in Nat,
         NEW g, Steps(g), g.entries = h.entries, g.current \in Reachable(h)
  PROVE  Reachable(g) = Reachable(h)
<1>1. /\ Reachable(h) \subseteq Nat /\ h.current \in Reachable(h)
      /\ g.current \in Nat
      /\ Reachable(g) \subseteq Nat /\ g.current \in Reachable(g)
  BY ReachableIs
<1>2. \A a, b : Joined(g, a, b) <=> Joined(h, a, b)
  BY JoinMore
<1>3. ASSUME NEW t \in Reachable(h) PROVE t \in Reachable(g)
  <2>1. t < g.current => Joined(g, t, g.current)
    BY <1>1, <1>2, <1>3, LineTotal
  <2>2. g.current < t => Joined(g, g.current, t)
    BY <1>1, <1>2, <1>3, LineTotal
  <2>3. t \in Nat /\ (t < g.current \/ t = g.current \/ g.current < t)
    BY <1>1
  <2> QED  BY <1>1, <2>1, <2>2, <2>3, ReachableIs
<1>4. h.current \in Reachable(g)
  BY <1>1, <1>3
<1>5. ASSUME NEW t \in Reachable(g) PROVE t \in Reachable(h)
  <2>1. t < h.current => Joined(h, t, h.current)
    BY <1>1, <1>2, <1>4, <1>5, LineTotal
  <2>2. h.current < t => Joined(h, h.current, t)
    BY <1>1, <1>2, <1>4, <1>5, LineTotal
  <2>3. t \in Nat /\ (t < h.current \/ t = h.current \/ h.current < t)
    BY <1>1
  <2> QED  BY <1>1, <2>1, <2>2, <2>3, ReachableIs
<1> QED  BY <1>3, <1>5

\* Entries are forgotten, none of them next to the cursor.
LEMMA LineRemains ==
  ASSUME NEW h, Steps(h), h.current \in Nat,
         NEW g, Steps(g), g.current = h.current, g.entries \subseteq h.entries,
         UndoEntry(h) \cup RedoEntry(h) \subseteq g.entries
  PROVE  Reachable(g) \in Stack!Remains(Reachable(h), h.current)
<1> DEFINE c == h.current
           D == Reachable(h)
           K == Reachable(g)
<1>1. /\ D \subseteq Nat /\ K \subseteq Nat /\ c \in K /\ c \in D /\ c \in Nat
      /\ \A t \in Nat : t < c => (t \in D <=> Joined(h, t, c)) /\ (t \in K <=> Joined(g, t, c))
      /\ \A t \in Nat : c < t => (t \in D <=> Joined(h, c, t)) /\ (t \in K <=> Joined(g, c, t))
  BY ReachableIs
<1>2. /\ \A e \in h.entries : e.before \in Nat /\ e.after \in Nat /\ e.before < e.after
      /\ \A e \in h.entries : e.before = c \/ e.after = c => e \in g.entries
  BY DEF Steps, UndoEntry, RedoEntry
<1>3. \A t \in Nat : t < c \/ t = c \/ c < t
  BY <1>1
<1>4. K \subseteq D
  <2> SUFFICES ASSUME NEW t \in K PROVE t \in D
    OBVIOUS
  <2>1. t \in Nat /\ (t < c => Joined(h, t, c)) /\ (c < t => Joined(h, c, t))
    BY <1>1, JoinMore
  <2> QED  BY <1>1, <1>3, <2>1
<1>5. ASSUME NEW i \in K, NEW j \in D, (i <= j /\ j <= c) \/ (c <= j /\ j <= i)
      PROVE  j \in K
  <2>1. i \in Nat /\ j \in Nat /\ i \in D
    BY <1>1, <1>4
  <2>2. CASE j = c
    BY <1>1, <2>2
  <2>3. CASE i <= j /\ j < c
    <3>1. i < c
      BY <1>1, <2>1, <2>3
    <3>2. Joined(g, i, c) /\ Joined(h, j, c)
      BY <1>1, <2>1, <2>3, <3>1
    <3>3. Joined(g, j, c)
      BY <1>1, <2>1, <2>3, <3>2, JoinBetween
    <3> QED  BY <1>1, <2>1, <2>3, <3>3
  <2>4. CASE c < j /\ j <= i
    <3>1. c < i
      BY <1>1, <2>1, <2>4
    <3>2. Joined(g, c, i) /\ Joined(h, c, j)
      BY <1>1, <2>1, <2>4, <3>1
    <3>3. Joined(g, c, j)
      BY <1>1, <2>1, <2>4, <3>2, JoinBetween
    <3> QED  BY <1>1, <2>1, <2>4, <3>3
  <2> QED  BY <1>1, <1>5, <2>1, <2>2, <2>3, <2>4
<1>6. ASSUME NEW t \in D, t < c PROVE \E i \in K : i < c
  <2>1. Joined(h, t, c) /\ t # c
    BY <1>1, <1>6
  <2>2. PICK e \in h.entries : e.after = c
    BY <2>1, JoinOrder
  <2>3. Joined(g, e.before, c)
    BY <1>2, <2>2, JoinStep
  <2> QED  BY <1>1, <1>2, <2>2, <2>3
<1>7. ASSUME NEW t \in D, c < t PROVE \E i \in K : c < i
  <2>1. Joined(h, c, t) /\ t # c
    BY <1>1, <1>7
  <2>2. PICK e \in h.entries : e.before = c
    BY <2>1, JoinOrder
  <2>3. Joined(g, c, e.after)
    BY <1>2, <2>2, JoinStep
  <2> QED  BY <1>1, <1>2, <2>2, <2>3
<1> HIDE DEF c, D, K
<1>8. K \in Stack!Remains(D, c)
  BY <1>1, <1>4, <1>5, <1>6, <1>7 DEF Stack!Remains, Stack!Before, Stack!After
<1> QED  BY <1>8 DEF c, D, K

\* The budget forgets the far ends of the line only.
LEMMA EnforceSpares ==
  ASSUME NEW h, NEW committed, NEW saved, Sound(h, committed, saved),
         NEW preserveRedo \in BOOLEAN
  PROVE  UndoEntry(h) \cup RedoEntry(h) \subseteq EnforceBudget(h, preserveRedo).entries
<1> DEFINE gone == Evicted(h, preserveRedo)
           m == EraseSnapshots(h, gone)
<1>1. HistoryTypeOK(h) /\ h.current \in Nat
  BY DEF Sound, HistoryTypeOK
<1>2. gone \cap Protected(h) = {}
  BY DEF Evicted, Evictable
<1>3. EnforceBudget(h, preserveRedo) = IF gone = {} THEN h ELSE Evict(h, gone)
  BY DEF EnforceBudget
<1>4. DOMAIN m.snapshots = DOMAIN h.snapshots \ gone /\ m.entries = h.entries /\ m.current = h.current
      /\ HistoryTypeOK(m)
  BY <1>1, EraseType
<1>5. Evict(h, gone) = [m EXCEPT !.entries = {e \in m.entries : Available(m, e.before) /\ Available(m, e.after)}]
  BY DEF Evict, PruneUnusableEntries
<1> HIDE DEF gone, m
<1>6. \A t \in Protected(h) : Available(h, t) => Available(m, t)
  BY <1>2, <1>4 DEF Available, Captured
<1>7. ASSUME NEW e \in UndoEntry(h) \cup RedoEntry(h)
      PROVE  e \in h.entries /\ Available(m, e.before) /\ Available(m, e.after)
  <2>1. e \in h.entries /\ e.before \in Protected(h) /\ e.after \in Protected(h)
    BY DEF UndoEntry, RedoEntry, Protected
  <2>2. Available(h, e.before) /\ Available(h, e.after)
    BY <2>1 DEF Sound, Navigable, Available
  <2> QED  BY <1>6, <2>1, <2>2
<1>8. Evict(h, gone).entries = {e \in m.entries : Available(m, e.before) /\ Available(m, e.after)}
  BY <1>4, <1>5 DEF HistoryTypeOK
<1> QED  BY <1>3, <1>4, <1>7, <1>8

\* So the line that is left is a part of the line without its ends.
LEMMA EnforceRemains ==
  ASSUME NEW h, NEW committed, NEW saved, Sound(h, committed, saved),
         NEW preserveRedo \in BOOLEAN
  PROVE  LET g == EnforceBudget(h, preserveRedo)
         IN  g.current = h.current /\ Reachable(g) \in Stack!Remains(Reachable(h), h.current)
<1> DEFINE g == EnforceBudget(h, preserveRedo)
<1>1. Sound(g, committed, saved) /\ g.current = h.current /\ g.entries \subseteq h.entries
  BY EnforceSound
<1>2. UndoEntry(h) \cup RedoEntry(h) \subseteq g.entries
  BY EnforceSpares
<1> HIDE DEF g
<1>3. Steps(h) /\ Steps(g) /\ h.current \in Nat
  BY <1>1, SoundSteps DEF Sound, HistoryTypeOK
<1>4. Reachable(g) \in Stack!Remains(Reachable(h), h.current)
  BY <1>1, <1>2, <1>3, LineRemains
<1> QED  BY <1>1, <1>4 DEF g

-----------------------------------------------------------------------------
(* The steps of the timeline as steps of the line *)

\* The line that the timeline shows becomes l, less what is forgotten.
LEMMA LineBecomes ==
  ASSUME NEW l, NEW c, history'.current = c,
         Reachable(history') \in Stack!Remains(DOMAIN l, c),
         \A t \in Reachable(history') : truth'[t] = l[t]
  PROVE  Stack!Becomes(l, c)
<1>1. [t \in Reachable(history') |-> truth'[t]] = [i \in Reachable(history') |-> l[i]]
  OBVIOUS
<1>2. \E K \in Stack!Remains(DOMAIN l, c) :
        [t \in Reachable(history') |-> truth'[t]] = [i \in K |-> l[i]]
  BY <1>1
<1> QED  BY <1>2 DEF Stack!Becomes

\* Steps that neither move the cursor nor change an entry.
LEMMA LineStays ==
  ASSUME history'.entries = history.entries, history'.current = history.current,
         \A t \in Reachable(history) : truth'[t] = truth[t]
  PROVE  UNCHANGED Stack!stack
<1>1. Reachable(history') = Reachable(history)
  BY ReachableSame
<1>2. [t \in Reachable(history') |-> truth'[t]] = [t \in Reachable(history) |-> truth[t]]
  BY <1>1
<1> QED  BY <1>2 DEF Stack!stack

\* The cursor moves along the line, and the budget may forget its ends.
LEMMA LineMoved ==
  ASSUME NEW c, c \in Reachable(history), history'.current = c,
         Reachable(history') \in Stack!Remains(Reachable(history), c), UNCHANGED truth
  PROVE  Stack!Move
<1> DEFINE K == Reachable(history')
           l == [t \in Reachable(history) |-> truth[t]]
<1>1. K \subseteq Reachable(history)
  BY DEF Stack!Remains
<1>2. [t \in K |-> truth'[t]] = [i \in K |-> l[i]]
  BY <1>1
<1>3. DOMAIN l = Reachable(history)
  OBVIOUS
<1>4. Stack!Becomes(l, c)
  BY <1>2, <1>3 DEF Stack!Becomes
<1> QED  BY <1>3, <1>4 DEF Stack!Move

\* Enforcing the budget after moving the cursor to a place that one reaches.
LEMMA LineForgets ==
  ASSUME NEW h, Sound(h, truth, savedModel), NEW preserveRedo \in BOOLEAN,
         history' = EnforceBudget(h, preserveRedo), UNCHANGED truth,
         Reachable(h) = Reachable(history), h.current \in Reachable(history)
  PROVE  Stack!Move
BY EnforceRemains, LineMoved

\* undo, redo and the jumps move along the line.
LEMMA RestoreLine ==
  ASSUME IInv, JInv, NEW target, Restore(target)
  PROVE  Stack!Move
<1> DEFINE m == Moved(history, live, target)
<1>1. /\ Sound(m, truth, savedModel) /\ m.current = target /\ m.entries = history.entries
      /\ history' = EnforceBudget(m, FALSE)
  BY RestoreMoves
<1> HIDE DEF m
<1>2. Steps(history) /\ Steps(m) /\ history.current \in Nat /\ target \in Nat
  BY <1>1, SoundSteps DEF IInv, Sound, HistoryTypeOK
<1>3. target \in Reachable(history)
  <2>1. ChainsTo(history, target) # {}
    BY DEF Restore
  <2>2. CASE target < history.current
    BY <1>2, <2>1, <2>2, ReachableIs DEF ChainsTo, Joined
  <2>3. CASE target = history.current
    BY <1>2, <2>3, ReachableIs
  <2>4. CASE history.current < target
    <3>1. ~(target < history.current)
      BY <1>2, <2>4
    <3> QED  BY <1>2, <2>1, <2>4, <3>1, ReachableIs DEF ChainsTo, Joined
  <2> QED  BY <1>2, <2>2, <2>3, <2>4
<1>4. Reachable(m) = Reachable(history)
  BY <1>1, <1>2, <1>3, LineMoves
<1>5. UNCHANGED truth
  BY DEF Restore
<1> QED  BY <1>1, <1>3, <1>4, <1>5, LineForgets

\* A new budget may forget its ends.
LEMMA BudgetLine ==
  ASSUME IInv, NEW bytes \in Budgets, SetByteBudget(bytes)
  PROVE  Stack!Move
<1> DEFINE h == [history EXCEPT !.budget = bytes]
<1>1. Sound(history, truth, savedModel) /\ HistoryTypeOK(history) /\ bytes \in Nat
  BY BudgetAssumption DEF IInv, TypeOK
<1>2. h = [history EXCEPT !.budget = bytes, !.floor = history.floor,
                          !.session = history.session,
                          !.nextSession = history.nextSession]
  BY <1>1 DEF HistoryTypeOK
<1>3. /\ history.floor \in SUBSET Nat /\ (\A s, t \in history.floor : s = t)
      /\ history.session \in SUBSET Sessions /\ (\A s, t \in history.session : s = t)
      /\ history.nextSession \in Nat
      /\ h.current = history.current /\ h.entries = history.entries
      /\ history.current \in Nat
  BY <1>1 DEF HistoryTypeOK
<1>4. history' = EnforceBudget(h, FALSE) /\ UNCHANGED truth
  BY DEF SetByteBudget
<1> HIDE DEF h
<1>5. Sound(h, truth, savedModel)
  BY <1>1, <1>2, <1>3, BookkeepingSound
<1>6. Reachable(h) = Reachable(history)
  BY <1>3, ReachableSame
<1>7. h.current \in Reachable(history)
  BY <1>1, <1>3, SoundSteps, ReachableIs
<1> QED  BY <1>4, <1>5, <1>6, <1>7, LineForgets

\* clear() starts another line.
LEMMA ClearLine ==
  ASSUME NEW roots \in Roots, Clear(roots)
  PROVE  Stack!Replace
<1>1. history' = NewHistory(history.budget, history.nextSession) /\ truth' = [t \in {0} |-> roots.model]
  BY DEF Clear
<1>2. history'.entries = {} /\ history'.current = 0
  BY <1>1 DEF NewHistory
<1>3. Reachable(history') = {0}
  <2>1. Chains(history', 0, 0) # {}
    BY JoinSelf DEF Joined
  <2>2. ChainsTo(history', 0) # {}
    BY <1>2, <2>1 DEF ChainsTo
  <2>3. Referenced(history'.entries) = {}
    BY <1>2 DEF Referenced
  <2> QED  BY <1>2, <2>2, <2>3 DEF Reachable
<1>4. roots.model \in Models
  BY DEF Roots
<1>5. [t \in Reachable(history') |-> truth'[t]] = [i \in {0} |-> roots.model]
  BY <1>1, <1>3
<1> QED  BY <1>2, <1>4, <1>5 DEF Stack!Replace

\* A walk comes in by the only entry that leads to its end.
LEMMA JoinLast ==
  ASSUME NEW h, Steps(h), NEW a, NEW e \in h.entries, a # e.after, Joined(h, a, e.after)
  PROVE  a \in Nat /\ a <= e.before /\ Joined(h, a, e.before)
<1>1. PICK P : P \in Chains(h, a, e.after)
  BY DEF Joined
<1>2. P # {} /\ P \subseteq h.entries
  BY <1>1, ChainsAre
<1>3. /\ a \in Nat /\ \A f \in P : a <= f.before
      /\ \E f \in P : f.after = e.after
  BY <1>1, <1>2, ChainWithin
<1>4. e \in P
  BY <1>2, <1>3 DEF Steps, Unforked
<1>5. a <= e.before /\ e.before \in Nat /\ e.before < e.after
  BY <1>3, <1>4 DEF Steps
<1>6. Joined(h, e.before, e.after)
  BY JoinStep
<1>7. Joined(h, a, e.before)
  BY <1>3, <1>5, <1>6, JoinEnds
<1> QED  BY <1>3, <1>5, <1>7

\* What a truncation leaves of the line: nothing to redo, and all there is to undo.
LEMMA TruncateLine ==
  ASSUME NEW h, NEW committed, NEW saved, Sound(h, committed, saved), h.operation = {}
  PROVE  LET g == TruncateRedoBranch(h)
         IN  /\ \A e \in h.entries : e.after <= h.current => e \in g.entries
             /\ Reachable(g) = Stack!Before(Reachable(h), h.current) \cup {h.current}
<1> DEFINE g == TruncateRedoBranch(h)
           c == h.current
<1>1. /\ Sound(g, committed, saved) /\ g.current = c /\ g.entries \subseteq h.entries
      /\ \A e \in g.entries : e.before # c
  BY TruncateSound
<1>2. c \in Nat /\ Steps(h) /\ Steps(g)
  BY <1>1, SoundSteps DEF Sound, HistoryTypeOK
<1>3. \A e \in h.entries : e.after <= c => e \in g.entries
  <2>1. HistoryTypeOK(h)
    BY DEF Sound
  <2>2. \A e \in h.entries : e.before \in Nat /\ e.after \in Nat /\ e.before < e.after
    BY <1>2 DEF Steps
  <2>3. CASE RedoEntry(h) = {}
    BY <2>3 DEF TruncateRedoBranch
  <2>4. CASE RedoEntry(h) # {}
    <3> DEFINE kept == {e \in h.entries : \A f \in RedoEntry(h) : e.after < f.after}
               m == [h EXCEPT !.entries = kept]
               gone == DOMAIN h.snapshots \ ({c} \cup Referenced(kept))
    <3>1. g = EraseSnapshots(m, gone)
      BY <2>4 DEF TruncateRedoBranch
    <3>2. m.entries = kept
      BY <2>1 DEF HistoryTypeOK
    <3>3. \A e \in h.entries : e.after <= c => e \in kept
      BY <1>2, <2>2 DEF RedoEntry
    <3> HIDE DEF kept, gone
    <3>4. EraseSnapshots(m, gone).entries = kept
      BY <2>1, <3>2 DEF EraseSnapshots, HistoryTypeOK
    <3> QED  BY <3>1, <3>3, <3>4
  <2> QED  BY <2>3, <2>4
<1> HIDE DEF g
<1>4. ASSUME NEW t \in Nat, t < c PROVE t \in Reachable(g) <=> t \in Reachable(h)
  <2>1. Joined(h, t, c) => Joined(g, t, c)
    BY <1>2, <1>3, JoinPart
  <2>2. Joined(g, t, c) => Joined(h, t, c)
    BY <1>1, JoinMore
  <2>3. (t \in Reachable(h) <=> Joined(h, t, c)) /\ (t \in Reachable(g) <=> Joined(g, t, c))
    BY <1>1, <1>2, <1>4, ReachableIs
  <2> QED  BY <2>1, <2>2, <2>3
<1>5. ASSUME NEW t \in Nat, c < t PROVE t \notin Reachable(g)
  <2> SUFFICES ASSUME t \in Reachable(g) PROVE FALSE
    OBVIOUS
  <2>1. Joined(g, c, t) /\ c # t
    BY <1>1, <1>2, <1>5, ReachableIs
  <2> QED  BY <1>1, <1>2, <2>1, JoinOrder
<1>6. /\ Reachable(h) \subseteq Nat /\ Reachable(g) \subseteq Nat
      /\ c \in Reachable(g)
  BY <1>1, <1>2, ReachableIs
<1>7. \A t \in Nat : t < c \/ t = c \/ c < t
  BY <1>2
<1> HIDE DEF c
<1>8. Reachable(g) = Stack!Before(Reachable(h), c) \cup {c}
  BY <1>4, <1>5, <1>6, <1>7 DEF Stack!Before
<1> QED  BY <1>3, <1>8 DEF g, c

\* What a commit makes of it, before the budget is enforced.
LEMMA AppendLine ==
  ASSUME NEW h, NEW committed, NEW saved, Sound(h, committed, saved),
         NEW op \in h.operation, NEW model \in Models,
         NEW more, \A t \in 0..h.nextTimestamp - 1 : more[t] = committed[t]
  PROVE  /\ \A t \in Reachable(h) : t \in Nat /\ t < h.nextTimestamp
         /\ Reachable(Appended(h, op, model))
              = Stack!Before(Reachable(h), h.current) \cup {h.current, h.nextTimestamp}
<1> DEFINE free == [h EXCEPT !.operation = {}]
           base == TruncateRedoBranch(free)
           a == Appended(h, op, model)
           c == h.current
           n == h.nextTimestamp
           entry == [before |-> op.before, after |-> n,
                     delta |-> Touched(op.scene, model),
                     kind |-> op.kind, session |-> op.session]
<1>1. /\ Sound(free, committed, saved) /\ free.operation = {}
      /\ free.current = c /\ free.entries = h.entries
  BY NoOperationSound
<1>2. Sound(a, more, saved) /\ a.current = n /\ a.nextTimestamp = n + 1
  BY AppendSound
<1>3. op.before = c /\ c \in Nat /\ n \in Nat /\ c < n
  BY DEF Sound, OperationSound, Ordered, HistoryTypeOK
<1>4. /\ Sound(base, committed, saved) /\ base.current = c
      /\ Reachable(base) = Stack!Before(Reachable(free), c) \cup {c}
  <2> HIDE DEF free
  <2> QED  BY <1>1, TruncateSound, TruncateLine
<1>5. Reachable(free) = Reachable(h)
  BY <1>1, ReachableSame
<1>6. a.entries = base.entries \cup {entry}
  <2>1. HistoryTypeOK(base)
    BY <1>4 DEF Sound
  <2> HIDE DEF free, base, entry
  <2>2. a.entries = base.entries \cup {entry}
    BY <2>1 DEF Appended, HistoryTypeOK, base, free, entry
  <2> QED  BY <2>2
<1>7. entry.before = c /\ entry.after = n /\ entry \in a.entries
  BY <1>3, <1>6
<1> HIDE DEF free, base, a, entry
<1>8. Steps(h) /\ Steps(base) /\ Steps(a)
  BY <1>2, <1>4, SoundSteps
<1>9. /\ Reachable(h) \subseteq Nat /\ Reachable(a) \subseteq Nat /\ Reachable(base) \subseteq Nat
      /\ n \in Reachable(a) /\ c \in Reachable(base)
  BY <1>2, <1>3, <1>4, <1>8, ReachableIs
<1>10. Joined(a, c, n)
  BY <1>7, <1>8, JoinStep
<1>11. ASSUME NEW t \in Reachable(base) PROVE t \in Reachable(a)
  <2>1. t = c \/ (t < c /\ Joined(base, t, c))
    <3>1. t \in Nat /\ (t = c \/ t < c)
      BY <1>4, <1>9, <1>11 DEF Stack!Before
    <3> QED  BY <1>3, <1>4, <1>8, <1>11, <3>1, ReachableIs
  <2>2. Joined(a, t, c)
    BY <1>6, <2>1, JoinMore, JoinSelf
  <2>3. Joined(a, t, n)
    BY <1>8, <1>10, <2>2, JoinTrans
  <2>4. t \in Nat /\ t < n
    BY <1>3, <1>9, <1>11, <2>1
  <2> QED  BY <1>2, <1>3, <1>8, <2>3, <2>4, ReachableIs
<1>12. ASSUME NEW t \in Reachable(a), t # n PROVE t \in Reachable(base)
  <2>1. t \in Nat
    BY <1>9, <1>12
  <2>2. ~(n < t)
    <3> SUFFICES ASSUME n < t PROVE FALSE
      OBVIOUS
    <3>1. Joined(a, n, t)
      BY <1>2, <1>3, <1>8, <1>12, <2>1, ReachableIs
    <3>2. PICK e \in a.entries : e.before = n
      BY <1>8, <1>12, <3>1, JoinOrder
    <3>3. e.after \in Nat /\ e.before < e.after /\ e.after < n + 1
      BY <1>2, <1>8, <3>2 DEF Sound, Ordered, Steps
    <3> QED  BY <1>3, <3>2, <3>3
  <2>3. t < n /\ Joined(a, t, n)
    <3>1. t < n
      BY <1>3, <1>12, <2>1, <2>2
    <3> QED  BY <1>2, <1>3, <1>8, <1>12, <2>1, <3>1, ReachableIs
  <2>4. t <= c /\ Joined(a, t, c)
    BY <1>7, <1>8, <1>12, <2>3, JoinLast
  <2>5. CASE t = c
    BY <1>9, <2>5
  <2>6. CASE t < c
    <3>1. \A e \in a.entries : t <= e.before /\ e.after <= c => e \in base.entries
      BY <1>3, <1>6, <1>7
    <3>2. Joined(base, t, c)
      BY <1>8, <2>4, <3>1, JoinPart
    <3> QED  BY <1>3, <1>4, <1>8, <2>1, <2>6, <3>2, ReachableIs
  <2> QED  BY <1>3, <2>1, <2>4, <2>5, <2>6
<1>13. ASSUME NEW t \in Reachable(h) PROVE t \in Nat /\ t < n
  <2>1. t \in Nat
    BY <1>9, <1>13
  <2>2. CASE t <= c
    BY <1>3, <2>1, <2>2
  <2>3. CASE c < t
    <3>1. Joined(h, c, t) /\ c # t
      BY <1>3, <1>8, <1>13, <2>1, <2>3, ReachableIs
    <3>2. PICK e \in h.entries : e.after = t
      BY <1>8, <3>1, JoinOrder
    <3> QED  BY <2>1, <3>2 DEF Sound, Ordered
  <2> QED  BY <1>3, <2>1, <2>2, <2>3
<1> HIDE DEF c, n
<1>14. Reachable(a) = Stack!Before(Reachable(h), c) \cup {c, n}
  BY <1>4, <1>5, <1>9, <1>11, <1>12
<1> QED  BY <1>13, <1>14 DEF a, c, n

\* commit_operation adds a state after the cursor, and nothing can be redone.
LEMMA CommitLine ==
  ASSUME IInv, CommitOperation
  PROVE  Stack!Edit
<1>1. PICK op \in history.operation :
         /\ history' = Committed(history, op, live.model)
         /\ truth' = [t \in DOMAIN truth \cup {history.nextTimestamp} |->
                        IF t = history.nextTimestamp THEN live.model ELSE truth[t]]
  BY DEF CommitOperation
<1> DEFINE a == Appended(history, op, live.model)
           R == Reachable(history)
<1>2. PICK c, n : c = history.current /\ n = history.nextTimestamp
  OBVIOUS
<1>3. PICK s : s = live.model
  OBVIOUS
<1>4. /\ Sound(history, truth, savedModel) /\ s \in Models /\ n \in Nat /\ c \in Nat /\ c < n
      /\ truth \in [0..n - 1 -> Models]
  BY <1>2, <1>3 DEF IInv, TypeOK, Roots, Sound, HistoryTypeOK, Ordered
<1>5. /\ truth' = [t \in 0..n |-> IF t = n THEN s ELSE truth[t]]
      /\ \A t \in 0..n - 1 : truth'[t] = truth[t]
  <2>1. DOMAIN truth \cup {n} = 0..n
    BY <1>4
  <2> QED  BY <1>1, <1>2, <1>3, <1>4, <2>1
<1>6. history' = EnforceBudget(a, FALSE)
  BY <1>1 DEF Committed, Appended
<1>7. /\ Sound(a, truth', savedModel) /\ a.current = n
      /\ \A t \in R : t \in Nat /\ t < n
      /\ Reachable(a) = Stack!Before(R, c) \cup {c, n}
  <2>1. /\ live.model \in Models
        /\ \A t \in 0..history.nextTimestamp - 1 : truth'[t] = truth[t]
    BY <1>2, <1>3, <1>4, <1>5
  <2>2. Sound(a, truth', savedModel) /\ a.current = history.nextTimestamp
    BY <1>4, <2>1, AppendSound
  <2>3. /\ \A t \in R : t \in Nat /\ t < history.nextTimestamp
        /\ Reachable(a) = Stack!Before(R, history.current)
                             \cup {history.current, history.nextTimestamp}
    BY <1>4, <2>1, AppendLine
  <2> QED  BY <1>2, <2>2, <2>3
<1> HIDE DEF a
<1>8. /\ history'.current = n
      /\ Reachable(history') \in Stack!Remains(Stack!Before(R, c) \cup {c, n}, n)
  BY <1>6, <1>7, EnforceRemains
<1>9. c \in R
  BY <1>2, <1>4, SoundSteps, ReachableIs
<1> DEFINE K == Reachable(history')
           D == Stack!Before(R, c) \cup {c, n}
           line == [t \in R |-> truth[t]]
<1>10. K \subseteq D /\ \A t \in D : t = n \/ t \in R
  BY <1>8, <1>9 DEF Stack!Remains, Stack!Before
<1>11. \A t \in K : truth'[t] = IF t = n THEN s ELSE line[t]
  <2> SUFFICES ASSUME NEW t \in K PROVE truth'[t] = IF t = n THEN s ELSE line[t]
    OBVIOUS
  <2> HIDE DEF K, D
  <2>1. t = n \/ t \in R
    BY <1>10
  <2> HIDE DEF R
  <2> QED  BY <1>4, <1>5, <1>7, <2>1
<1> HIDE DEF K
<1>12. [t \in K |-> truth'[t]] = [i \in K |-> [j \in D |-> IF j = n THEN s ELSE line[j]][i]]
  BY <1>10, <1>11
<1>13. DOMAIN line = R
  OBVIOUS
<1>14. \A i \in DOMAIN line : i < n
  BY <1>7, <1>13
<1> DEFINE l == [j \in D |-> IF j = n THEN s ELSE line[j]]
<1>15. \E J \in Stack!Remains(DOMAIN l, n) :
         [t \in Reachable(history') |-> truth'[t]] = [i \in J |-> l[i]]
  BY <1>8, <1>12 DEF K
<1> DEFINE m == [i \in Stack!Before(DOMAIN line, history.current)
                        \cup {history.current, (history.current)'} |->
                  IF i = (history.current)' THEN s ELSE line[i]]
<1>16. l = m
  BY <1>2, <1>8, <1>13
<1>17. \A i \in DOMAIN line : i < (history.current)'
  BY <1>8, <1>14
<1>18. Stack!Becomes(m, (history.current)')
  <2> HIDE DEF l, m
  <2> QED  BY <1>8, <1>15, <1>16 DEF Stack!Becomes
<1> QED  BY <1>4, <1>17, <1>18 DEF Stack!Edit

-----------------------------------------------------------------------------
(* The line under compaction *)

\* A run of strokes is a walk.
LEMMA RunJoins ==
  ASSUME NEW h, Steps(h), NEW e \in h.entries, NEW f \in Run(h, e)
  PROVE  Joined(h, e.before, f.after)
<1> DEFINE n == h.nextTimestamp
           R == Run(h, e)
           S == {x.after : x \in {y \in R : ~Joined(h, e.before, y.after)}}
<1>1. /\ n \in Nat
      /\ \A x \in h.entries : x.before \in 0..n /\ x.after \in 0..n /\ x.before < x.after
      /\ \A d, x \in h.entries : d.after = x.after => d = x
  BY DEF Steps, Unforked
<1> HIDE DEF n
<1>2. \A x \in R : /\ x \in h.entries /\ e.after <= x.after
                   /\ \A y \in h.entries : e.after < y.after /\ y.after <= x.after => Continues(h, y)
  BY DEF Run
<1>3. SUFFICES ASSUME S # {} PROVE FALSE
  OBVIOUS
<1>4. S \subseteq 0..n
  BY <1>1, <1>2
<1>5. PICK m \in S : \A t \in S : m <= t
  <2> HIDE DEF S
  <2> QED  BY <1>1, <1>3, <1>4, EarliestOf
<1>6. PICK x \in R : x.after = m /\ ~Joined(h, e.before, x.after)
  OBVIOUS
<1>7. Joined(h, e.before, e.after)
  BY JoinStep
<1>8. x \in h.entries /\ e.after < x.after /\ Continues(h, x)
  BY <1>1, <1>2, <1>6, <1>7
<1>9. PICK d \in h.entries : /\ d.after = x.before
                             /\ ~\E y \in h.entries : d.after < y.after /\ y.after < x.after
  BY <1>8 DEF Continues
<1>10. e.after <= d.after /\ d.after < x.after
  BY <1>1, <1>8, <1>9
<1>11. d \in R
  <2>1. \A y \in h.entries : e.after < y.after /\ y.after <= d.after => Continues(h, y)
    BY <1>1, <1>2, <1>6, <1>8, <1>10
  <2> QED  BY <1>10, <2>1 DEF Run
<1>12. Joined(h, e.before, x.before)
  <2> SUFFICES ASSUME ~Joined(h, e.before, x.before) PROVE FALSE
    OBVIOUS
  <2>1. d.after \in S
    BY <1>9, <1>11
  <2>2. x.after <= d.after
    BY <1>5, <1>6, <2>1
  <2> QED  BY <1>1, <1>8, <1>10, <2>2
<1>13. Joined(h, x.before, x.after)
  BY <1>8, JoinStep
<1>14. Joined(h, e.before, x.after)
  BY <1>12, <1>13, JoinTrans
<1> QED  BY <1>6, <1>14

\* When each entry of g is a walk of h, so is each walk of g.
LEMMA JoinCoarse ==
  ASSUME NEW h, Steps(h), NEW g, Steps(g),
         \A x \in g.entries : Joined(h, x.before, x.after),
         NEW a, NEW b, Joined(g, a, b)
  PROVE  Joined(h, a, b)
<1> DEFINE n == g.nextTimestamp
<1>1. PICK P : P \in Chains(g, a, b)
  BY DEF Joined
<1>2. /\ P \subseteq g.entries /\ (P = {} <=> a = b)
      /\ \A e \in P : e.before = a \/ \E f \in P : f.after = e.before
  BY <1>1, ChainsAre
<1>3. /\ n \in Nat
      /\ \A x \in P : x.before \in 0..n /\ x.after \in 0..n /\ x.before < x.after
  BY <1>2 DEF Steps
<1> HIDE DEF n
<1>4. \A e \in P : Joined(h, a, e.after)
  <2> DEFINE S == {e.after : e \in {x \in P : ~Joined(h, a, x.after)}}
  <2> SUFFICES ASSUME S # {} PROVE FALSE
    OBVIOUS
  <2>1. S \subseteq 0..n
    BY <1>3
  <2>2. PICK m \in S : \A t \in S : m <= t
    <3> HIDE DEF S
    <3> QED  BY <1>3, <2>1, EarliestOf
  <2>3. PICK e \in P : e.after = m /\ ~Joined(h, a, e.after)
    OBVIOUS
  <2>4. Joined(h, a, e.before)
    <3>1. CASE e.before = a
      BY <3>1, JoinSelf
    <3>2. ASSUME NEW f \in P, f.after = e.before PROVE Joined(h, a, e.before)
      <4> SUFFICES ASSUME ~Joined(h, a, f.after) PROVE FALSE
        BY <3>2
      <4>1. f.after \in S
        OBVIOUS
      <4>2. e.after <= f.after
        BY <2>2, <2>3, <4>1
      <4> QED  BY <1>3, <3>2, <4>2
    <3> QED  BY <1>2, <3>1, <3>2
  <2>5. Joined(h, a, e.after)
    BY <1>2, <2>4, JoinTrans
  <2> QED  BY <2>3, <2>5
<1>5. CASE P = {}
  BY <1>2, <1>5, JoinSelf
<1>6. CASE P # {}
  <2>1. PICK e \in P : e.after = b
    BY <1>1, <1>6, ChainWithin
  <2> QED  BY <1>4, <2>1
<1> QED  BY <1>5, <1>6

\* The entry that leads to the cursor belongs to a run that ends with it.
LEMMA LastRun ==
  ASSUME NEW h, Steps(h), h.current \in Nat, NEW u \in h.entries, u.after = h.current
  PROVE  \E e \in RunStarts(h) : u \in RunEnd(h, e)
<1> DEFINE n == h.nextTimestamp
           S == {e.after : e \in {x \in h.entries : u \in Run(h, x)}}
<1>1. /\ n \in Nat
      /\ \A x \in h.entries : x.before \in 0..n /\ x.after \in 0..n /\ x.before < x.after
      /\ \A d, x \in h.entries : d.after = x.after => d = x
  BY DEF Steps, Unforked
<1> HIDE DEF n
<1>2. u \in Run(h, u)
  BY <1>1 DEF Run
<1>3. S \subseteq 0..n /\ S # {}
  BY <1>1, <1>2
<1>4. PICK m \in S : \A t \in S : m <= t
  <2> HIDE DEF S
  <2> QED  BY <1>1, <1>3, EarliestOf
<1>5. PICK e \in h.entries : e.after = m /\ u \in Run(h, e)
  OBVIOUS
<1>6. /\ e.after <= u.after
      /\ \A x \in h.entries : e.after < x.after /\ x.after <= u.after => Continues(h, x)
  BY <1>5 DEF Run
<1>7. e \in RunStarts(h)
  <2> SUFFICES ASSUME Continues(h, e) PROVE FALSE
    BY DEF RunStarts
  <2>1. PICK d \in h.entries : /\ d.after = e.before
                               /\ ~\E x \in h.entries : d.after < x.after /\ x.after < e.after
    BY DEF Continues
  <2>2. d.after < e.after /\ d.after <= u.after
    BY <1>1, <1>6, <2>1
  <2>3. \A x \in h.entries : d.after < x.after /\ x.after <= u.after => Continues(h, x)
    <3> SUFFICES ASSUME NEW x \in h.entries, d.after < x.after, x.after <= u.after
                 PROVE  Continues(h, x)
      OBVIOUS
    <3>1. x.after = e.after \/ e.after < x.after
      BY <1>1, <2>1
    <3> QED  BY <1>1, <1>6, <3>1
  <2>4. u \in Run(h, d)
    BY <2>2, <2>3 DEF Run
  <2>5. d.after \in S
    BY <2>4
  <2>6. e.after <= d.after
    BY <1>4, <1>5, <2>5
  <2> QED  BY <1>1, <2>2, <2>6
<1>8. \A f \in Run(h, e) : f.after <= u.after
  <2> SUFFICES ASSUME NEW f \in Run(h, e), u.after < f.after PROVE FALSE
    BY <1>1 DEF Run
  <2>1. f \in h.entries /\ e.after < f.after
    BY <1>1, <1>6 DEF Run
  <2>2. Continues(h, f)
    BY <1>1, <2>1 DEF Run
  <2>3. f.after <= h.current
    BY <2>2 DEF Continues, SessionPaint
  <2> QED  BY <1>1, <2>1, <2>3
<1> QED  BY <1>5, <1>7, <1>8 DEF RunEnd

\* Compaction joins steps that can be undone, and leaves those that can be redone.
LEMMA CompactLine ==
  ASSUME NEW h, NEW committed, NEW saved, Sound(h, committed, saved), h.operation = {},
         NEW spent, NEW names, Kept(h, spent, names, committed)
  PROVE  LET g == CompactSession(h) IN
         /\ \A t \in Nat : t < h.current /\ t \in Reachable(g) => t \in Reachable(h)
         /\ \A t \in Nat : h.current < t => (t \in Reachable(g) <=> t \in Reachable(h))
         /\ (\E t \in Reachable(h) : t < h.current) => \E t \in Reachable(g) : t < h.current
<1> DEFINE g == CompactSession(h)
           c == h.current
           C == CompactEntries(h)
<1>1. /\ Sound(g, committed, saved) /\ g.current = c
      /\ \A e \in h.entries : e.before >= c => e \in g.entries
  BY CompactSound, CompactKeeps
<1>2. c \in Nat /\ Steps(h) /\ Steps(g) /\ HistoryTypeOK(h)
  BY <1>1, SoundSteps DEF Sound, HistoryTypeOK
<1>3. g.entries = C
  <2> DEFINE m == [h EXCEPT !.entries = C]
             gone == {e.before : e \in h.entries \ RunStarts(h)}
                       \ ({c} \cup h.floor \cup Referenced(C))
  <2>1. g = EraseSnapshots(m, gone)
    BY DEF CompactSession
  <2> HIDE DEF C, gone
  <2>2. m.entries = C
    BY <1>2 DEF HistoryTypeOK
  <2>3. EraseSnapshots(m, gone).entries = m.entries
    BY <1>2 DEF EraseSnapshots, HistoryTypeOK
  <2> QED  BY <2>1, <2>2, <2>3
<1> HIDE DEF g
<1>4. \A e, f \in h.entries : /\ Merged(h, e, f).before = e.before
                              /\ Merged(h, e, f).after = f.after
  <2>1. h.entries \subseteq Entries
    BY <1>2 DEF HistoryTypeOK
  <2> QED  BY <2>1 DEF Merged, Entries
<1>5. \A x \in g.entries : Joined(h, x.before, x.after)
  <2> SUFFICES ASSUME NEW x \in g.entries PROVE Joined(h, x.before, x.after)
    OBVIOUS
  <2>1. PICK e \in RunStarts(h) : \E f \in RunEnd(h, e) : x = Merged(h, e, f)
    BY <1>3 DEF CompactEntries
  <2>2. PICK f \in RunEnd(h, e) : x = Merged(h, e, f)
    BY <2>1
  <2>3. e \in h.entries /\ f \in Run(h, e) /\ f \in h.entries
    BY <2>1, <2>2 DEF RunStarts, RunEnd, Run
  <2> QED  BY <1>2, <1>4, <2>2, <2>3, RunJoins
<1>6. \A a, b : Joined(g, a, b) => Joined(h, a, b)
  BY <1>2, <1>5, JoinCoarse
<1>7. \A t \in Nat : t < c /\ t \in Reachable(g) => t \in Reachable(h)
  BY <1>1, <1>2, <1>6, ReachableIs
<1>8. ASSUME NEW t \in Nat, c < t PROVE t \in Reachable(g) <=> t \in Reachable(h)
  <2>1. \A e \in h.entries : c <= e.before /\ e.after <= t => e \in g.entries
    BY <1>1, <1>2 DEF Steps
  <2>2. Joined(h, c, t) => Joined(g, c, t)
    BY <1>2, <2>1, JoinPart
  <2>3. Joined(h, c, t) <=> Joined(g, c, t)
    BY <1>6, <2>2
  <2> QED  BY <1>1, <1>2, <1>8, <2>3, ReachableIs
<1>9. ASSUME NEW t \in Reachable(h), t < c PROVE \E i \in Reachable(g) : i < c
  <2>1. t \in Nat /\ Joined(h, t, c) /\ t # c
    BY <1>2, <1>9, ReachableIs
  <2>2. PICK u \in h.entries : u.after = c
    BY <1>2, <2>1, JoinOrder
  <2>3. PICK e \in RunStarts(h) : u \in RunEnd(h, e)
    BY <1>2, <2>2, LastRun
  <2>4. Merged(h, e, u) \in g.entries
    BY <1>3, <2>3 DEF CompactEntries
  <2>5. PICK x \in g.entries : x.after = c
    BY <1>4, <2>2, <2>3, <2>4 DEF RunStarts
  <2>6. Joined(g, x.before, c)
    BY <1>2, <2>5, JoinStep
  <2>7. x.before \in Nat /\ x.before < c
    BY <1>2, <2>5 DEF Steps
  <2> QED  BY <1>1, <1>2, <2>6, <2>7, ReachableIs
<1> QED  BY <1>7, <1>8, <1>9 DEF g, c

\* The steps before the cursor become fewer, and those after it stay or go.
LEMMA LineSquash ==
  ASSUME NEW c, c = history.current,
         NEW D \in SUBSET Stack!Before(Reachable(history), c),
         NEW F \in {{}, Stack!After(Reachable(history), c)},
         Stack!Before(Reachable(history), c) # {} => D # {},
         c \in Reachable(history), history'.current = c, UNCHANGED truth,
         Reachable(history') \in Stack!Remains(D \cup {c} \cup F, c)
  PROVE  Stack!Squash
<1> DEFINE R == Reachable(history)
           K == Reachable(history')
           E == D \cup {c} \cup F
           line == [t \in R |-> truth[t]]
           l == [i \in D \cup {history.current} \cup F |-> line[i]]
<1>1. K \subseteq E /\ E \subseteq R
  BY DEF Stack!Remains, Stack!Before, Stack!After
<1>2. DOMAIN line = R /\ DOMAIN l = E
  OBVIOUS
<1>3. [t \in K |-> truth'[t]] = [i \in K |-> l[i]]
  BY <1>1
<1>4. Stack!Becomes(l, history.current)
  <2> HIDE DEF l
  <2> QED  BY <1>2, <1>3 DEF Stack!Becomes
<1> QED  BY <1>2, <1>4 DEF Stack!Squash

\* compact_editing_session joins steps before the cursor.
LEMMA CompactStepLine ==
  ASSUME IInv, JInv, CompactEditingSession
  PROVE  Stack!Squash
<1> DEFINE h == CompactSession(history)
           R == Reachable(history)
<1>1. PICK c : c = history.current
  OBVIOUS
<1>2. /\ Sound(history, truth, savedModel) /\ Kept(history, retired, presets, truth)
      /\ history.operation = {} /\ c \in Nat
  BY <1>1, Given DEF CompactEditingSession, Idle, HistoryTypeOK, Sound
<1>3. /\ Sound(h, truth, savedModel) /\ h.current = c
      /\ \A t \in Nat : t < c /\ t \in Reachable(h) => t \in R
      /\ \A t \in Nat : c < t => (t \in Reachable(h) <=> t \in R)
      /\ (\E t \in R : t < c) => \E t \in Reachable(h) : t < c
  BY <1>1, <1>2, CompactSound, CompactLine
<1>4. history' = EnforceBudget(h, TRUE) /\ UNCHANGED truth
  BY DEF CompactEditingSession
<1> HIDE DEF h
<1>5. /\ history'.current = c
      /\ Reachable(history') \in Stack!Remains(Reachable(h), c)
  BY <1>3, <1>4, EnforceRemains
<1>6. c \in R /\ R \subseteq Nat /\ c \in Reachable(h) /\ Reachable(h) \subseteq Nat
  BY <1>1, <1>2, <1>3, SoundSteps, ReachableIs
<1> DEFINE D == Stack!Before(Reachable(h), c)
           F == Stack!After(R, c)
<1>7. Reachable(h) = D \cup {c} \cup F
  BY <1>2, <1>3, <1>6 DEF Stack!Before, Stack!After
<1>8. D \in SUBSET Stack!Before(R, c) /\ (Stack!Before(R, c) # {} => D # {})
  BY <1>2, <1>3, <1>6 DEF Stack!Before
<1> QED  BY <1>1, <1>4, <1>5, <1>6, <1>7, <1>8, LineSquash

\* close_editing_session does so, and an effective session gives up what could be redone.
LEMMA CloseLine ==
  ASSUME IInv, JInv, CloseEditingSession
  PROVE  Stack!Squash
<1> DEFINE g == CompactSession(history)
           R == Reachable(history)
<1>1. PICK c : c = history.current
  OBVIOUS
<1>2. /\ Sound(history, truth, savedModel) /\ Kept(history, retired, presets, truth)
      /\ history.operation = {} /\ c \in Nat
  BY <1>1, Given DEF CloseEditingSession, Idle, HistoryTypeOK, Sound
<1>3. /\ Sound(g, truth, savedModel) /\ g.current = c /\ g.operation = {}
      /\ \A t \in Nat : t < c /\ t \in Reachable(g) => t \in R
      /\ \A t \in Nat : c < t => (t \in Reachable(g) <=> t \in R)
      /\ (\E t \in R : t < c) => \E t \in Reachable(g) : t < c
  BY <1>1, <1>2, CompactSound, CompactLine
<1>4. PICK s \in history.session :
         LET base == IF s.effective THEN TruncateRedoBranch(g) ELSE g
         IN  history' = EnforceBudget([base EXCEPT !.floor = {}, !.session = {}], ~s.effective)
  BY DEF CloseEditingSession
<1>5. UNCHANGED truth
  BY DEF CloseEditingSession
<1> DEFINE base == IF s.effective THEN TruncateRedoBranch(g) ELSE g
           h == [base EXCEPT !.floor = {}, !.session = {}]
           keep == ~s.effective
<1>6. history' = EnforceBudget(h, keep) /\ keep \in BOOLEAN
  BY <1>4
<1> HIDE DEF g, keep
<1>7. c \in R /\ R \subseteq Nat /\ c \in Reachable(g) /\ Reachable(g) \subseteq Nat
  BY <1>1, <1>2, <1>3, SoundSteps, ReachableIs
<1> DEFINE D == Stack!Before(Reachable(g), c)
           F == IF s.effective THEN {} ELSE Stack!After(R, c)
<1>8. Sound(base, truth, savedModel) /\ base.current = c
  BY <1>3, TruncateSound
<1>9. Reachable(base) = D \cup {c} \cup F
  <2>1. CASE s.effective
    <3>1. Reachable(TruncateRedoBranch(g)) = D \cup {c}
      BY <1>3, TruncateLine
    <3> QED  BY <2>1, <3>1
  <2>2. CASE ~s.effective
    <3>1. Reachable(g) = D \cup {c} \cup Stack!After(R, c)
      BY <1>2, <1>3, <1>7 DEF Stack!Before, Stack!After
    <3> QED  BY <2>2, <3>1
  <2> QED  BY <2>1, <2>2
<1> HIDE DEF base
<1>10. /\ h = [base EXCEPT !.budget = base.budget, !.floor = {}, !.session = {},
                           !.nextSession = base.nextSession]
       /\ h.current = base.current /\ h.entries = base.entries
       /\ base.budget \in Nat /\ base.nextSession \in Nat
  BY <1>8 DEF Sound, HistoryTypeOK
<1> HIDE DEF h
<1>11. Sound(h, truth, savedModel)
  BY <1>8, <1>10, BookkeepingSound
<1>12. Reachable(h) = Reachable(base)
  BY <1>10, ReachableSame
<1>13. /\ history'.current = c
       /\ Reachable(history') \in Stack!Remains(D \cup {c} \cup F, c)
  <2> HIDE DEF D, F
  <2> QED  BY <1>6, <1>8, <1>9, <1>10, <1>11, <1>12, EnforceRemains
<1>14. D \in SUBSET Stack!Before(R, c) /\ (Stack!Before(R, c) # {} => D # {})
  BY <1>2, <1>3, <1>7 DEF Stack!Before
<1>15. F \in {{}, Stack!After(R, c)}
  OBVIOUS
<1> HIDE DEF D, F
<1> QED  BY <1>1, <1>5, <1>7, <1>13, <1>14, <1>15, LineSquash

\* Every other step leaves the entries, the cursor and what was committed.
LEMMA LineKept ==
  ASSUME history'.entries = history.entries, history'.current = history.current,
         UNCHANGED truth
  PROVE  UNCHANGED Stack!stack
BY LineStays

\* The timeline begins as a line of one state.
LEMMA LineInit ==
  ASSUME Init
  PROVE  Stack!Init
<1>1. history.entries = {} /\ history.current = 0
  BY DEF Init, NewHistory
<1>2. Reachable(history) = {0}
  <2>1. Chains(history, 0, 0) # {}
    BY JoinSelf DEF Joined
  <2>2. ChainsTo(history, 0) # {}
    BY <1>1, <2>1 DEF ChainsTo
  <2>3. Referenced(history.entries) = {}
    BY <1>1 DEF Referenced
  <2> QED  BY <1>1, <2>2, <2>3 DEF Reachable
<1>3. truth = [t \in {0} |-> live.model] /\ live.model \in Models
  BY DEF Init
<1>4. [t \in Reachable(history) |-> truth[t]] = [i \in {0} |-> live.model]
  BY <1>2, <1>3
<1> QED  BY <1>1, <1>3, <1>4 DEF Stack!Init

\* Every step of the timeline is one of the line, or leaves it alone.
LEMMA LineStep == IInv /\ JInv /\ [Next]_vars => [Stack!Next]_(Stack!stack)
<1> SUFFICES ASSUME IInv, JInv, [Next]_vars PROVE Stack!Next \/ UNCHANGED Stack!stack
  OBVIOUS
<1>0. HistoryTypeOK(history)
  BY Given
<1>1. ASSUME NEW roots \in Roots, Clear(roots) PROVE Stack!Next
  BY <1>1, ClearLine DEF Stack!Next
<1>2. ASSUME NEW kind \in Kinds, BeginOperation(kind) PROVE UNCHANGED Stack!stack
  <2>1. /\ history'.entries = history.entries /\ history'.current = history.current
        /\ UNCHANGED truth
    BY <1>0, <1>2 DEF BeginOperation, SnapshotAt, HistoryTypeOK
  <2> QED  BY <2>1, LineKept
<1>3. CASE BeginNested \/ CommitNested
  <2>1. /\ history'.entries = history.entries /\ history'.current = history.current
        /\ UNCHANGED truth
    BY <1>0, <1>3 DEF BeginNested, CommitNested, HistoryTypeOK
  <2> QED  BY <2>1, LineKept
<1>4. ASSUME NEW o \in Objects, NEW v \in Versions, EditModel(o, v) PROVE UNCHANGED Stack!stack
  BY <1>4, LineKept DEF EditModel
<1>5. ASSUME NEW p \in Presets, EditContext(p) \/ AddPreset(p) PROVE UNCHANGED Stack!stack
  BY <1>5, LineKept DEF EditContext, AddPreset
<1>6. CASE CommitOperation
  BY <1>6, CommitLine DEF Stack!Next
<1>7. CASE AbortOperation
  <2>1. /\ history'.entries = history.entries /\ history'.current = history.current
        /\ UNCHANGED truth
    BY <1>0, <1>7 DEF AbortOperation, Aborted, HistoryTypeOK
  <2> QED  BY <2>1, LineKept
<1>8. CASE Undo \/ Redo
  BY <1>8, RestoreLine DEF Undo, Redo, Stack!Next
<1>9. ASSUME NEW e \in history.entries, RestoreBefore(e) \/ RestoreAfter(e) PROVE Stack!Next
  BY <1>9, RestoreLine DEF RestoreBefore, RestoreAfter, Stack!Next
<1>10. CASE MarkCurrentAsSaved
  <2>1. /\ history'.entries = history.entries /\ history'.current = history.current
        /\ UNCHANGED truth
    BY <1>0, <1>10 DEF MarkCurrentAsSaved, HistoryTypeOK
  <2> QED  BY <2>1, LineKept
<1>11. ASSUME NEW floor \in Floors, SetNavigationFloor(floor) PROVE UNCHANGED Stack!stack
  <2>1. /\ history'.entries = history.entries /\ history'.current = history.current
        /\ UNCHANGED truth
    BY <1>0, <1>11 DEF SetNavigationFloor, HistoryTypeOK
  <2> QED  BY <2>1, LineKept
<1>12. ASSUME NEW bytes \in Budgets, SetByteBudget(bytes) PROVE Stack!Next
  BY <1>12, BudgetLine DEF Stack!Next
<1>13. CASE BeginEditingSession
  <2>1. /\ history'.entries = history.entries /\ history'.current = history.current
        /\ UNCHANGED truth
    BY <1>0, <1>13 DEF BeginEditingSession, HistoryTypeOK
  <2> QED  BY <2>1, LineKept
<1>14. CASE CompactEditingSession
  BY <1>14, CompactStepLine DEF Stack!Next
<1>15. CASE CloseEditingSession
  BY <1>15, CloseLine DEF Stack!Next
<1>16. ASSUME NEW from \in Presets, NEW to \in Presets, NEW rebind \in BOOLEAN,
              RewriteContexts(from, to, rebind)
       PROVE  UNCHANGED Stack!stack
  <2>1. /\ history'.entries = history.entries /\ history'.current = history.current
        /\ UNCHANGED truth
    BY <1>0, <1>16 DEF RewriteContexts, HistoryTypeOK
  <2> QED  BY <2>1, LineKept
<1>17. CASE UNCHANGED vars
  BY <1>17, LineKept DEF vars
<1> QED
  BY <1>1, <1>2, <1>3, <1>4, <1>5, <1>6, <1>7, <1>8, <1>9, <1>10, <1>11, <1>12, <1>13,
     <1>14, <1>15, <1>16, <1>17 DEF Next

\* The timeline implements the line of states of UndoStack: a commit leaves nothing to redo
\* and adds one state after the cursor, navigation goes only to states on the line, merging
\* strokes and closing a session join steps before the cursor, and what eviction forgets is
\* at the ends of the line, never next to the cursor.
THEOREM TimelineImplementsUndoStack == Spec => ImplementsUndoStack
<1>1. Init => Stack!Init
  BY LineInit
<1>2. IInv /\ JInv /\ [Next]_vars => [Stack!Next]_(Stack!stack)
  BY LineStep
<1> QED  BY <1>1, <1>2, KeptInvariance, PTL DEF Spec, ImplementsUndoStack, Stack!Spec
=============================================================================
