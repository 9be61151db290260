------------------------- MODULE PlateRuntime_proofs -------------------------
(***************************************************************************)
(* Proofs about the plate runtime, for any plates, contents and bounds.    *)
(* What makes a readable result current is that a stamp of a plate stands  *)
(* for one content for ever: every step that changes what a plate holds    *)
(* hands out a stamp nobody was given yet, and a transaction that rolls    *)
(* the stamps back rolls back what they stood for.  A job, an entry and a  *)
(* receipt each quote a stamp and a content, and all of them agree.        *)
(***************************************************************************)
EXTENDS PlateRuntime, SequenceTheorems, TLAPS

\* Stamp s of plate p stands for content c, now and in the predecessor of the transaction.
StandsFor(p, s, c) ==
  /\ p \in plates /\ revisions[p] = s => input[p].content = c
  /\ p \in DOMAIN transaction.before /\ transaction.revisions[p] = s
       => transaction.before[p].content = c

\* An entry, a job and a retained request.
EntryType ==
  [presentation : Presentations, completed : Int, producer : Nat, generation : Nat,
   leased : BOOLEAN, task : Nat, cancel : BOOLEAN, sliced : Inputs \cup {NoInput}]

RequestType == [task : Nat \ {0}, plate : Plates, incarnation : Nat \ {0}]

JobType ==
  [task : Nat \ {0}, plate : Plates, incarnation : Nat \ {0}, revision : Nat,
   input : Inputs, outcome : {"processing", "completed", "failed"}]

ReceiptType ==
  [plate : Plates, incarnation : Nat \ {0}, revision : Nat, generation : Nat,
   input : Inputs \cup {NoInput}]

\* What a plate of a session may hold.
IsSession(f) == /\ DOMAIN f \in (SUBSET Plates) \ {{}}
                /\ f \in [DOMAIN f -> Inputs]

SessionOK ==
  /\ IsSession(input) /\ \A f \in past : IsSession(f)
  /\ revisions \in [Plates -> 0..MaxStamps] /\ nextStamp \in 1..MaxStamps + 1
  /\ \A p \in Plates : revisions[p] < nextStamp

\* The snapshots of an open transaction.
TransactionOK ==
  transaction # NoTransaction =>
     /\ IsSession(transaction.before)
     /\ transaction.revisions \in [Plates -> 0..MaxStamps]
     /\ \A p \in Plates : transaction.revisions[p] < nextStamp
     /\ \A p \in DOMAIN transaction.before : entries[p] # <<>>
     /\ DOMAIN transaction.lifecycle = DOMAIN transaction.before
     /\ \A p \in DOMAIN transaction.before : transaction.lifecycle[p].presentation \in Presentations

\* A plate without a stamp of its own is new, or holds what its transaction found.
PlatesQuote == \A p \in plates : StandsFor(p, revisions[p], input[p].content)

\* The registry es: every plate has an entry.
RegistryOK(es) == /\ es \in [Plates -> Seq(EntryType)]
                  /\ \A p \in plates : es[p] # <<>>

\* What its entries quote was handed out; n tasks were accepted, of which g have ended.
EntriesQuote(es, n, g) ==
  \A p \in Plates : \A i \in 1..Len(es[p]) :
    /\ -1 <= es[p][i].completed /\ es[p][i].completed < nextStamp
    /\ es[p][i].completed # -1 => StandsFor(p, es[p][i].completed, es[p][i].sliced.content)
    /\ es[p][i].task <= n /\ es[p][i].producer <= n /\ es[p][i].generation <= g

\* The lease of an entry is that of the job j.
LeasedTo(es, j) ==
  \A p \in Plates : \A i \in 1..Len(es[p]) :
    es[p][i].leased <=> (j # NoJob /\ j.plate = p /\ j.incarnation = i)

\* A receipt quotes what was handed out ...
ReceiptsQuote(es, rs) ==
  \A r \in rs :
    /\ r \in ReceiptType /\ r.revision < nextStamp
    /\ r.incarnation <= Len(es[r.plate])
    /\ StandsFor(r.plate, r.revision, r.input.content)

\* ... and one of a live entry is of the entry's result, or of an earlier one.
ReceiptsCount(es, rs) ==
  \A r \in rs :
    r.plate \in plates /\ r.incarnation = Len(es[r.plate]) =>
      /\ r.generation <= es[r.plate][r.incarnation].generation
      /\ r.generation = es[r.plate][r.incarnation].generation
           => es[r.plate][r.incarnation].sliced = r.input

\* Every accepted task was answered once, but for those of ts.
Unanswered(ans, ts) ==
  /\ ans \in Seq(Nat) /\ Len(ans) <= MaxTasks
  /\ \A t \in 1..Len(ans) : ans[t] = IF t \in ts THEN 0 ELSE 1

\* The active job j ...
JobOK(j, es, n) ==
  j # NoJob =>
    /\ j \in JobType /\ j.task <= n /\ j.incarnation <= Len(es[j.plate])
    /\ j.revision < nextStamp /\ StandsFor(j.plate, j.revision, j.input.content)

\* ... and the request q that waits for it.
PendingOK(q, j, es, n) ==
  q # NoJob =>
    /\ q \in RequestType /\ q.task <= n /\ q.incarnation <= Len(es[q.plate])
    /\ j # NoJob /\ j.task < q.task

\* The tasks before the job j, or before the next one.
Ended(j, n) == IF j = NoJob THEN n ELSE j.task - 1

SliceOK(es, j, q, ans, rs) ==
  /\ RegistryOK(es) /\ EntriesQuote(es, Len(ans), Ended(j, Len(ans))) /\ LeasedTo(es, j)
  /\ JobOK(j, es, Len(ans)) /\ PendingOK(q, j, es, Len(ans))
  /\ Unanswered(ans, {j.task, q.task})
  /\ ReceiptsQuote(es, rs) /\ ReceiptsCount(es, rs)

IInv ==
  /\ SessionOK /\ TransactionOK /\ PlatesQuote
  /\ SliceOK(entries, job, pending, answers, receipts)

-----------------------------------------------------------------------------
(* Registries *)

\* f is the entry e but for its availability and the request to stop.
SameEntry(f, e) ==
  /\ f.completed = e.completed /\ f.producer = e.producer /\ f.generation = e.generation
  /\ f.leased = e.leased /\ f.task = e.task /\ f.sliced = e.sliced

\* An entry that was never sliced.
Fresh(e) == SameEntry(e, NewEntry)

\* The registry fs follows es when the plates ps stay: entries are added or emptied, but
\* a leased one and the live one of a plate that was there are kept.
Follows(fs, es, ps) ==
  /\ fs \in [Plates -> Seq(EntryType)]
  /\ \A p \in Plates :
       /\ Len(es[p]) <= Len(fs[p])
       /\ \A i \in 1..Len(fs[p]) :
            \/ Fresh(fs[p][i]) /\ (i <= Len(es[p]) => ~es[p][i].leased)
            \/ i <= Len(es[p]) /\ SameEntry(fs[p][i], es[p][i])
       /\ p \in ps => fs[p] # <<>>
       /\ p \in ps /\ Len(fs[p]) = Len(es[p]) =>
            p \in plates /\ SameEntry(fs[p][Len(fs[p])], es[p][Len(es[p])])

\* The last entry of a sequence is replaced.
LEMMA ReplaceLast ==
  ASSUME NEW S, NEW s \in Seq(S), s # <<>>, NEW x \in S
  PROVE  LET t == [s EXCEPT ![Len(s)] = x]
         IN  /\ t \in Seq(S) /\ Len(t) = Len(s) /\ t[Len(s)] = x
             /\ \A i \in 1..Len(s) : i # Len(s) => t[i] = s[i]
<1>1. Len(s) \in 1..Len(s)
  BY EmptySeq
<1> QED  BY <1>1, ExceptSeq

\* The numbers an entry quotes are naturals.
LEMMA EntryNumbers ==
  ASSUME NEW es \in [Plates -> Seq(EntryType)]
  PROVE  \A p \in Plates : \A i \in 1..Len(es[p]) :
           es[p][i].generation \in Nat /\ es[p][i].task \in Nat /\ es[p][i].producer \in Nat
<1> SUFFICES ASSUME NEW p \in Plates, NEW i \in 1..Len(es[p])
    PROVE  es[p][i].generation \in Nat /\ es[p][i].task \in Nat /\ es[p][i].producer \in Nat
  OBVIOUS
<1>1. es[p] \in Seq(EntryType)
  OBVIOUS
<1>2. es[p][i] \in EntryType
  BY <1>1, ElementOfSeq
<1> QED  BY <1>2 DEF EntryType

\* A new entry is an entry.
LEMMA NewEntryType == NewEntry \in EntryType
BY DEF NewEntry, EntryType, Presentations, None

\* An entry of type EntryType whose availability, request to stop, or both change.
LEMMA EntryChanges ==
  ASSUME NEW e \in EntryType, NEW v \in Presentations, NEW c \in BOOLEAN
  PROVE  LET f == [e EXCEPT !.presentation = v]
             g == [e EXCEPT !.presentation = v, !.cancel = c]
         IN  f \in EntryType /\ SameEntry(f, e) /\ g \in EntryType /\ SameEntry(g, e)
BY DEF EntryType, SameEntry

\* reconcile() keeps what the plates that stay have.
LEMMA ReconciledFollows ==
  ASSUME RegistryOK(entries), NEW ps \in SUBSET Plates
  PROVE  Follows(Reconciled(ps), entries, ps)
<1> DEFINE fs == Reconciled(ps)
<1>1. fs = [p \in Plates |-> fs[p]]
  BY DEF Reconciled
<1>2. ASSUME NEW p \in Plates
      PROVE  /\ fs[p] \in Seq(EntryType)
             /\ Len(entries[p]) <= Len(fs[p])
             /\ \A i \in 1..Len(fs[p]) :
                  \/ Fresh(fs[p][i]) /\ (i <= Len(entries[p]) => ~entries[p][i].leased)
                  \/ i <= Len(entries[p]) /\ SameEntry(fs[p][i], entries[p][i])
             /\ p \in ps => fs[p] # <<>>
             /\ p \in ps /\ Len(fs[p]) = Len(entries[p]) =>
                  p \in plates /\ SameEntry(fs[p][Len(fs[p])], entries[p][Len(entries[p])])
  <2>0. entries[p] \in Seq(EntryType) /\ Len(entries[p]) \in Nat
    BY DEF RegistryOK
  <2>1. CASE p \in plates \ ps
    <3> DEFINE e == entries[p][Len(entries[p])]
    <3>1. entries[p] # <<>> /\ e \in EntryType
      BY <2>0, <2>1, EmptySeq, ElementOfSeq DEF RegistryOK
    <3>2. Retired(e) \in EntryType /\ (SameEntry(Retired(e), e) \/ (Fresh(Retired(e)) /\ ~e.leased))
      BY ZenonT(60), <3>1, EntryChanges, NewEntryType DEF Retired, Fresh, SameEntry, Presentations, EntryType
    <3>3. fs[p] = [entries[p] EXCEPT ![Len(entries[p])] = Retired(e)]
      BY <2>1 DEF Reconciled
    <3> QED  BY SMTT(40), <2>0, <2>1, <3>1, <3>2, <3>3, ReplaceLast DEF SameEntry
  <2>2. CASE p \in ps \ plates
    <3>1. fs[p] = Append(entries[p], NewEntry)
      BY <2>2 DEF Reconciled
    <3>2. fs[p] \in Seq(EntryType) /\ Len(fs[p]) = Len(entries[p]) + 1
      BY <2>0, <3>1, NewEntryType
    <3>3. \A i \in 1..Len(fs[p]) : fs[p][i] = IF i <= Len(entries[p]) THEN entries[p][i] ELSE NewEntry
      BY <2>0, <3>1
    <3> QED  BY <2>0, <3>2, <3>3, EmptySeq DEF SameEntry, Fresh
  <2>3. CASE ~(p \in plates \ ps) /\ ~(p \in ps \ plates)
    <3>1. fs[p] = entries[p]
      BY <2>3 DEF Reconciled
    <3> QED  BY <2>0, <2>3, <3>1 DEF SameEntry, RegistryOK
  <2> QED  BY <2>1, <2>2, <2>3
<1>3. fs \in [Plates -> Seq(EntryType)]
  BY <1>1, <1>2
<1> QED  BY <1>2, <1>3 DEF Follows

\* One entry of a registry that follows another one is replaced by itself but for its
\* availability and the request to stop.
LEMMA ChangedFollows ==
  ASSUME RegistryOK(entries), NEW ps \in SUBSET Plates, NEW es, Follows(es, entries, ps),
         NEW fs \in [Plates -> Seq(EntryType)],
         \A p \in Plates :
           /\ Len(fs[p]) = Len(es[p])
           /\ \A i \in 1..Len(es[p]) : SameEntry(fs[p][i], es[p][i])
  PROVE  Follows(fs, entries, ps)
<1> SUFFICES ASSUME NEW p \in Plates
    PROVE  /\ Len(entries[p]) <= Len(fs[p])
           /\ \A i \in 1..Len(fs[p]) :
                \/ Fresh(fs[p][i]) /\ (i <= Len(entries[p]) => ~entries[p][i].leased)
                \/ i <= Len(entries[p]) /\ SameEntry(fs[p][i], entries[p][i])
           /\ p \in ps => fs[p] # <<>>
           /\ p \in ps /\ Len(fs[p]) = Len(entries[p]) =>
                p \in plates /\ SameEntry(fs[p][Len(fs[p])], entries[p][Len(entries[p])])
  BY DEF Follows
<1>1. /\ es[p] \in Seq(EntryType) /\ fs[p] \in Seq(EntryType) /\ entries[p] \in Seq(EntryType)
      /\ Len(entries[p]) \in Nat /\ Len(es[p]) \in Nat
  BY DEF Follows, RegistryOK
<1>2. \A i \in 1..Len(fs[p]) :
        \/ Fresh(fs[p][i]) /\ (i <= Len(entries[p]) => ~entries[p][i].leased)
        \/ i <= Len(entries[p]) /\ SameEntry(fs[p][i], entries[p][i])
  BY DEF Follows, SameEntry, Fresh
<1>3. p \in ps => fs[p] # <<>> /\ Len(fs[p]) \in 1..Len(fs[p])
  BY <1>1, EmptySeq DEF Follows
<1>4. p \in ps /\ Len(fs[p]) = Len(entries[p]) =>
        p \in plates /\ SameEntry(fs[p][Len(fs[p])], entries[p][Len(entries[p])])
  BY SMTT(40), <1>3 DEF Follows, SameEntry
<1> QED  BY <1>2, <1>3, <1>4 DEF Follows

\* The last entry of some plates changes so.
LEMMA LastChanges ==
  ASSUME NEW es \in [Plates -> Seq(EntryType)], NEW fs, NEW f, fs = [p \in Plates |-> fs[p]],
         \A p \in Plates : \/ fs[p] = es[p]
                           \/ /\ es[p] # <<>> /\ f[p] \in EntryType
                              /\ SameEntry(f[p], es[p][Len(es[p])])
                              /\ fs[p] = [es[p] EXCEPT ![Len(es[p])] = f[p]]
  PROVE  /\ fs \in [Plates -> Seq(EntryType)]
         /\ \A p \in Plates : /\ Len(fs[p]) = Len(es[p])
                              /\ \A i \in 1..Len(es[p]) : SameEntry(fs[p][i], es[p][i])
<1>1. ASSUME NEW p \in Plates
      PROVE  /\ fs[p] \in Seq(EntryType) /\ Len(fs[p]) = Len(es[p])
             /\ \A i \in 1..Len(es[p]) : SameEntry(fs[p][i], es[p][i])
  <2>1. CASE fs[p] = es[p]
    BY <2>1 DEF SameEntry
  <2>2. CASE /\ es[p] # <<>> /\ f[p] \in EntryType
             /\ SameEntry(f[p], es[p][Len(es[p])])
             /\ fs[p] = [es[p] EXCEPT ![Len(es[p])] = f[p]]
    <3> DEFINE s == es[p]
               x == f[p]
               t == [s EXCEPT ![Len(s)] = x]
    <3>1. s \in Seq(EntryType) /\ s # <<>> /\ x \in EntryType
      BY <2>2
    <3>2. /\ t \in Seq(EntryType) /\ Len(t) = Len(s) /\ t[Len(s)] = x
          /\ \A i \in 1..Len(s) : i # Len(s) => t[i] = s[i]
      <4> HIDE DEF s, x
      <4> QED  BY <3>1, ReplaceLast
    <3>3. fs[p] = t /\ SameEntry(x, s[Len(s)])
      BY <2>2
    <3> HIDE DEF s, x, t
    <3>4. \A i \in 1..Len(s) : SameEntry(t[i], s[i])
      BY <3>2, <3>3 DEF SameEntry
    <3> QED  BY <3>2, <3>3, <3>4 DEF s
  <2> QED  BY <2>1, <2>2
<1> QED  BY <1>1

\* invalidate_presentations() of plates that have an entry.
LEMMA InvalidatedFollows ==
  ASSUME RegistryOK(entries), NEW ps \in SUBSET Plates, NEW es, Follows(es, entries, ps),
         NEW qs \in SUBSET Plates, \A p \in qs : es[p] # <<>>
  PROVE  Follows(Invalidated(es, qs), entries, ps)
<1> DEFINE fs == Invalidated(es, qs)
           f == [p \in Plates |-> Withdrawn(es[p][Len(es[p])])]
<1>1. es \in [Plates -> Seq(EntryType)]
  BY DEF Follows
<1>2. ASSUME NEW p \in qs
      PROVE  f[p] \in EntryType /\ SameEntry(f[p], es[p][Len(es[p])])
  <2> DEFINE e == es[p][Len(es[p])]
  <2>1. e \in EntryType
    BY <1>1, EmptySeq, ElementOfSeq
  <2>2. (e.cancel \/ e.leased) \in BOOLEAN /\ "invalid" \in Presentations
    BY <2>1 DEF EntryType, Presentations
  <2> QED  BY <2>1, <2>2 DEF Withdrawn, SameEntry, EntryType
<1>3. fs = [p \in Plates |-> fs[p]]
  BY DEF Invalidated
<1>4. \A p \in Plates : fs[p] = IF p \in qs THEN [es[p] EXCEPT ![Len(es[p])] = f[p]] ELSE es[p]
  BY DEF Invalidated
<1> HIDE DEF fs, f
<1>5. \A p \in Plates : \/ fs[p] = es[p]
                        \/ /\ es[p] # <<>> /\ f[p] \in EntryType
                           /\ SameEntry(f[p], es[p][Len(es[p])])
                           /\ fs[p] = [es[p] EXCEPT ![Len(es[p])] = f[p]]
  BY <1>2, <1>4
<1>6. /\ fs \in [Plates -> Seq(EntryType)]
      /\ \A p \in Plates : /\ Len(fs[p]) = Len(es[p])
                           /\ \A i \in 1..Len(es[p]) : SameEntry(fs[p][i], es[p][i])
  BY ZenonT(60), <1>1, <1>3, <1>5, LastChanges
<1> QED  BY <1>6, ChangedFollows DEF fs

\* restore_lifecycle() of plates that have an entry.
LEMMA WithLifecycleFollows ==
  ASSUME RegistryOK(entries), NEW ps \in SUBSET Plates, NEW es, Follows(es, entries, ps),
         NEW snapshot,
         \A p \in Plates \cap DOMAIN snapshot :
           es[p] # <<>> /\ snapshot[p].presentation \in Presentations
  PROVE  Follows(WithLifecycle(es, snapshot), entries, ps)
<1> DEFINE fs == WithLifecycle(es, snapshot)
           f == [p \in Plates |-> [es[p][Len(es[p])] EXCEPT !.presentation = snapshot[p].presentation]]
<1>1. es \in [Plates -> Seq(EntryType)]
  BY DEF Follows
<1>2. ASSUME NEW p \in Plates \cap DOMAIN snapshot
      PROVE  f[p] \in EntryType /\ SameEntry(f[p], es[p][Len(es[p])])
  <2>1. es[p][Len(es[p])] \in EntryType
    BY <1>1, EmptySeq, ElementOfSeq
  <2> QED  BY <2>1 DEF SameEntry, EntryType
<1>3. fs = [p \in Plates |-> fs[p]]
  BY DEF WithLifecycle
<1>4. \A p \in Plates :
        fs[p] = IF p \in DOMAIN snapshot /\ snapshot[p].identity = Identity(es[p])
                THEN [es[p] EXCEPT ![Len(es[p])] = f[p]] ELSE es[p]
  BY DEF WithLifecycle
<1> HIDE DEF fs, f
<1>5. \A p \in Plates : \/ fs[p] = es[p]
                        \/ /\ es[p] # <<>> /\ f[p] \in EntryType
                           /\ SameEntry(f[p], es[p][Len(es[p])])
                           /\ fs[p] = [es[p] EXCEPT ![Len(es[p])] = f[p]]
  BY <1>2, <1>4
<1>6. /\ fs \in [Plates -> Seq(EntryType)]
      /\ \A p \in Plates : /\ Len(fs[p]) = Len(es[p])
                           /\ \A i \in 1..Len(es[p]) : SameEntry(fs[p][i], es[p][i])
  BY ZenonT(60), <1>1, <1>3, <1>5, LastChanges
<1> QED  BY <1>6, ChangedFollows DEF fs

-----------------------------------------------------------------------------
(* Mutations, restores and rollbacks *)

\* Stamp s of plate p stands for content c after the step.
StandsAfter(p, s, c) ==
  /\ p \in plates' /\ revisions'[p] = s => input'[p].content = c
  /\ p \in DOMAIN transaction'.before /\ transaction'.revisions[p] = s
       => transaction'.before[p].content = c

\* What the stamps of known plates stand for stays true.
StampsStand ==
  \A p \in Plates : entries[p] # <<>> =>
    \A s \in Nat : \A c : s < nextStamp /\ StandsFor(p, s, c) => StandsAfter(p, s, c)

\* A step of the session that leaves the job alone keeps the invariant when the registry
\* follows and the stamps stand.
LEMMA MutationInvariant ==
  ASSUME IInv, Follows(entries', entries, plates'), UNCHANGED sliceVars, SessionOK',
         TransactionOK', nextStamp <= nextStamp', StampsStand, PlatesQuote'
  PROVE  IInv'
<1>1. /\ job' = job /\ pending' = pending /\ answers' = answers /\ receipts' = receipts
      /\ nextStamp \in Nat /\ nextStamp' \in Nat
  BY RuntimeAssumption DEF sliceVars, SessionOK, IInv
<1>2. \A p \in Plates : /\ entries[p] \in Seq(EntryType) /\ entries'[p] \in Seq(EntryType)
                        /\ Len(entries[p]) \in Nat /\ Len(entries'[p]) \in Nat
                        /\ Len(entries[p]) <= Len(entries'[p])
  BY DEF IInv, SliceOK, RegistryOK, Follows
<1>3. RegistryOK(entries)'
  <2>1. plates' \in SUBSET Plates
    BY DEF SessionOK, IsSession, plates
  <2> QED  BY <2>1 DEF RegistryOK, Follows
<1>4. Len(answers) \in Nat /\ Ended(job, Len(answers)) \in Nat
  BY <1>1, LenProperties DEF IInv, SliceOK, Unanswered, Ended, JobOK, JobType
<1>5. EntriesQuote(entries, Len(answers), Ended(job, Len(answers)))'
  <2> SUFFICES ASSUME NEW p \in Plates, NEW i \in 1..Len(entries'[p])
      PROVE  /\ -1 <= entries'[p][i].completed /\ entries'[p][i].completed < nextStamp'
             /\ entries'[p][i].completed # -1 =>
                  StandsAfter(p, entries'[p][i].completed, entries'[p][i].sliced.content)
             /\ entries'[p][i].task <= Len(answers) /\ entries'[p][i].producer <= Len(answers)
             /\ entries'[p][i].generation <= Ended(job, Len(answers))
    BY <1>1, <1>4 DEF EntriesQuote, StandsFor, StandsAfter, Ended
  <2>1. CASE Fresh(entries'[p][i])
    BY <2>1, <1>1, <1>4 DEF Fresh, SameEntry, NewEntry, None
  <2>2. CASE i <= Len(entries[p]) /\ SameEntry(entries'[p][i], entries[p][i])
    <3> DEFINE e == entries[p][i]
    <3>1. i \in 1..Len(entries[p]) /\ e \in EntryType /\ entries[p] # <<>>
      BY <2>2, <1>2, ElementOfSeq
    <3>2. /\ -1 <= e.completed /\ e.completed < nextStamp
          /\ e.completed # -1 => StandsFor(p, e.completed, e.sliced.content)
          /\ e.task <= Len(answers) /\ e.producer <= Len(answers) /\ e.generation <= Ended(job, Len(answers))
      BY <3>1 DEF IInv, SliceOK, EntriesQuote
    <3>3. e.completed # -1 => e.completed \in Nat
      BY <3>1, <3>2 DEF EntryType
    <3>4. e.completed # -1 => StandsAfter(p, e.completed, e.sliced.content)
      BY <3>1, <3>2, <3>3 DEF StampsStand
    <3>5. entries'[p][i].completed = e.completed /\ entries'[p][i].sliced = e.sliced
      BY <2>2 DEF SameEntry
    <3>6. entries'[p][i].completed # -1 =>
            StandsAfter(p, entries'[p][i].completed, entries'[p][i].sliced.content)
      BY <3>4, <3>5
    <3>7. e.completed < nextStamp'
      BY <3>1, <3>2, <1>1 DEF EntryType
    <3> QED  BY <2>2, <3>2, <3>6, <3>7 DEF SameEntry
  <2> QED  BY <2>1, <2>2 DEF Follows
<1>6. LeasedTo(entries, job)'
  <2> SUFFICES ASSUME NEW p \in Plates, NEW i \in 1..Len(entries'[p])
      PROVE  entries'[p][i].leased <=> (job # NoJob /\ job.plate = p /\ job.incarnation = i)
    BY <1>1 DEF LeasedTo
  <2>1. CASE i <= Len(entries[p]) /\ SameEntry(entries'[p][i], entries[p][i])
    BY <2>1, <1>2 DEF IInv, SliceOK, LeasedTo, SameEntry
  <2>2. CASE Fresh(entries'[p][i]) /\ (i <= Len(entries[p]) => ~entries[p][i].leased)
    <3>1. ~entries'[p][i].leased
      BY <2>2 DEF Fresh, SameEntry, NewEntry
    <3>2. CASE i <= Len(entries[p])
      BY <3>1, <3>2, <2>2, <1>2 DEF IInv, SliceOK, LeasedTo
    <3>3. CASE ~(i <= Len(entries[p]))
      BY <3>1, <3>3, <1>2 DEF IInv, SliceOK, JobOK, JobType
    <3> QED  BY <3>2, <3>3
  <2> QED  BY <2>1, <2>2 DEF Follows
<1>7. JobOK(job, entries, Len(answers))' /\ PendingOK(pending, job, entries, Len(answers))'
  <2>1. ASSUME job # NoJob
        PROVE  /\ job \in JobType /\ job.task <= Len(answers)
               /\ job.incarnation <= Len(entries'[job.plate])
               /\ job.revision < nextStamp' /\ StandsAfter(job.plate, job.revision, job.input.content)
    <3>1. /\ job \in JobType /\ job.task <= Len(answers)
          /\ job.incarnation <= Len(entries[job.plate])
          /\ job.revision < nextStamp /\ StandsFor(job.plate, job.revision, job.input.content)
      BY <2>1 DEF IInv, SliceOK, JobOK
    <3>2. job.plate \in Plates /\ job.incarnation \in Nat \ {0} /\ job.revision \in Nat
      BY <3>1 DEF JobType
    <3>3. entries[job.plate] # <<>>
      BY <3>1, <3>2, EmptySeq
    <3>4. StandsAfter(job.plate, job.revision, job.input.content)
      BY <3>1, <3>2, <3>3 DEF StampsStand
    <3> QED  BY <3>1, <3>2, <3>4, <1>1, <1>2
  <2>2. JobOK(job, entries, Len(answers))'
    BY <1>1, <2>1 DEF JobOK, StandsFor, StandsAfter
  <2>3. PendingOK(pending, job, entries, Len(answers))'
    BY <1>1, <1>2 DEF IInv, SliceOK, PendingOK, RequestType
  <2> QED  BY <2>2, <2>3
<1>8. ReceiptsQuote(entries, receipts)' /\ ReceiptsCount(entries, receipts)'
  <2>1. ASSUME NEW r \in receipts
        PROVE  /\ r \in ReceiptType /\ r.revision < nextStamp' /\ r.plate \in Plates
               /\ r.incarnation \in 1..Len(entries[r.plate])
               /\ r.incarnation <= Len(entries'[r.plate])
               /\ StandsAfter(r.plate, r.revision, r.input.content)
    <3>1. /\ r \in ReceiptType /\ r.revision < nextStamp
          /\ r.incarnation <= Len(entries[r.plate])
          /\ StandsFor(r.plate, r.revision, r.input.content)
      BY DEF IInv, SliceOK, ReceiptsQuote
    <3>2. r.plate \in Plates /\ r.incarnation \in Nat \ {0} /\ r.revision \in Nat
      BY <3>1 DEF ReceiptType
    <3>3. entries[r.plate] # <<>>
      BY <3>1, <3>2, EmptySeq
    <3>4. StandsAfter(r.plate, r.revision, r.input.content)
      BY <3>1, <3>2, <3>3 DEF StampsStand
    <3> QED  BY <3>1, <3>2, <3>4, <1>1, <1>2
  <2>2. ReceiptsQuote(entries, receipts)'
    BY <2>1, <1>1 DEF ReceiptsQuote, StandsFor, StandsAfter
  <2>3. ASSUME NEW r \in receipts, r.plate \in plates', r.incarnation = Len(entries'[r.plate])
        PROVE  /\ r.generation <= entries'[r.plate][r.incarnation].generation
               /\ r.generation = entries'[r.plate][r.incarnation].generation
                    => entries'[r.plate][r.incarnation].sliced = r.input
    <3>1. Len(entries'[r.plate]) = Len(entries[r.plate])
      BY <2>1, <2>3, <1>2
    <3>2. r.plate \in plates /\ SameEntry(entries'[r.plate][r.incarnation], entries[r.plate][r.incarnation])
      BY <2>1, <2>3, <3>1 DEF Follows
    <3> QED  BY <3>1, <3>2, <2>3 DEF IInv, SliceOK, ReceiptsCount, SameEntry
  <2>4. ReceiptsCount(entries, receipts)'
    BY <2>3, <1>1 DEF ReceiptsCount
  <2> QED  BY <2>2, <2>4
<1>9. Unanswered(answers, {job.task, pending.task})'
  BY <1>1 DEF IInv, SliceOK, Unanswered
<1> QED  BY <1>3, <1>5, <1>6, <1>7, <1>8, <1>9 DEF IInv, SliceOK

\* The snapshots of a transaction stay good while stamps and registries only grow.
LEMMA TransactionKept ==
  ASSUME IInv, Follows(entries', entries, plates'), SessionOK', nextStamp <= nextStamp',
         transaction' = transaction \/ transaction' = NoTransaction
  PROVE  TransactionOK'
<1> SUFFICES ASSUME transaction' # NoTransaction
    PROVE  /\ IsSession(transaction.before)
           /\ transaction.revisions \in [Plates -> 0..MaxStamps]
           /\ \A p \in Plates : transaction.revisions[p] < nextStamp'
           /\ \A p \in DOMAIN transaction.before : entries'[p] # <<>>
           /\ DOMAIN transaction.lifecycle = DOMAIN transaction.before
           /\ \A p \in DOMAIN transaction.before :
                transaction.lifecycle[p].presentation \in Presentations
  BY DEF TransactionOK
<1>1. transaction # NoTransaction
  OBVIOUS
<1>2. /\ IsSession(transaction.before)
      /\ transaction.revisions \in [Plates -> 0..MaxStamps]
      /\ \A p \in Plates : transaction.revisions[p] < nextStamp
      /\ \A p \in DOMAIN transaction.before : entries[p] # <<>>
      /\ DOMAIN transaction.lifecycle = DOMAIN transaction.before
      /\ \A p \in DOMAIN transaction.before :
           transaction.lifecycle[p].presentation \in Presentations
  BY <1>1 DEF IInv, SliceOK, TransactionOK
<1>3. nextStamp \in Nat /\ nextStamp' \in Nat
  BY RuntimeAssumption DEF IInv, SliceOK, SessionOK
<1>4. \A p \in Plates : transaction.revisions[p] < nextStamp'
  BY <1>2, <1>3, RuntimeAssumption
<1>5. ASSUME NEW p \in DOMAIN transaction.before
      PROVE  entries'[p] # <<>>
  <2>1. p \in Plates /\ entries[p] # <<>>
    BY <1>2 DEF IsSession
  <2>2. entries[p] \in Seq(EntryType) /\ entries'[p] \in Seq(EntryType) /\ Len(entries[p]) <= Len(entries'[p])
    BY <2>1 DEF IInv, SliceOK, RegistryOK, Follows
  <2> QED  BY <2>1, <2>2, EmptySeq
<1> QED  BY <1>2, <1>4, <1>5

\* A step that gives every plate whose content it changes a new stamp keeps the invariant.
LEMMA StampedStep ==
  ASSUME IInv, Follows(entries', entries, plates'), UNCHANGED sliceVars, SessionOK',
         nextStamp <= nextStamp',
         transaction' = transaction \/ transaction' = NoTransaction,
         \A p \in plates' :
           \/ revisions'[p] = nextStamp
           \/ /\ p \in plates /\ revisions'[p] = revisions[p]
              /\ input'[p].content = input[p].content
           \/ entries[p] = <<>>
  PROVE  IInv'
<1>1. nextStamp \in Nat /\ plates \in SUBSET Plates /\ plates' \in SUBSET Plates
  BY RuntimeAssumption DEF IInv, SliceOK, SessionOK, IsSession, plates
<1>2. ASSUME NEW p \in DOMAIN transaction'.before
      PROVE  /\ transaction' = transaction /\ p \in Plates /\ entries[p] # <<>>
             /\ transaction.revisions[p] \in Int /\ transaction.revisions[p] < nextStamp
  <2>1. transaction' # NoTransaction /\ transaction' = transaction
    BY <1>2 DEF NoTransaction
  <2> QED  BY <2>1, <1>2 DEF IInv, SliceOK, TransactionOK, IsSession
<1>3. StampsStand
  <2> SUFFICES ASSUME NEW p \in Plates, entries[p] # <<>>, NEW s \in Nat, NEW c, s < nextStamp,
                      StandsFor(p, s, c)
      PROVE  StandsAfter(p, s, c)
    BY DEF StampsStand
  <2>1. ASSUME p \in plates', revisions'[p] = s
        PROVE  input'[p].content = c
    BY <2>1, <1>1 DEF StandsFor
  <2>2. ASSUME p \in DOMAIN transaction'.before, transaction'.revisions[p] = s
        PROVE  transaction'.before[p].content = c
    BY <2>2, <1>2 DEF StandsFor
  <2> QED  BY <2>1, <2>2 DEF StandsAfter
<1>4. PlatesQuote'
  <2> SUFFICES ASSUME NEW p \in plates', p \in DOMAIN transaction'.before,
                      transaction'.revisions[p] = revisions'[p]
      PROVE  transaction'.before[p].content = input'[p].content
    BY DEF PlatesQuote, StandsFor
  <2>1. transaction' = transaction /\ entries[p] # <<>> /\ revisions'[p] < nextStamp
    BY <1>2
  <2>2. p \in plates /\ revisions'[p] = revisions[p] /\ input'[p].content = input[p].content
    BY <2>1, <1>1
  <2> QED  BY <2>1, <2>2 DEF IInv, SliceOK, PlatesQuote, StandsFor
<1>5. TransactionOK'
  BY TransactionKept
<1> QED  BY <1>3, <1>4, <1>5, MutationInvariant

\* Stamps that are kept, dropped or newly allocated.
LEMMA AllocateTypes ==
  ASSUME SessionOK, NEW ps, Allocate(ps), revisions' = [p \in Plates |-> revisions'[p]],
         \A p \in Plates : \/ revisions'[p] \in {0, revisions[p]}
                           \/ ps # {} /\ revisions'[p] = nextStamp
  PROVE  /\ revisions' \in [Plates -> 0..MaxStamps] /\ nextStamp' \in 1..MaxStamps + 1
         /\ \A p \in Plates : revisions'[p] < nextStamp'
         /\ nextStamp <= nextStamp'
<1>1. /\ MaxStamps \in Nat /\ nextStamp \in 1..MaxStamps + 1
      /\ \A p \in Plates : revisions[p] \in 0..MaxStamps /\ revisions[p] < nextStamp
  BY RuntimeAssumption DEF SessionOK
<1>2. CASE ps = {}
  BY <1>1, <1>2 DEF Allocate
<1>3. CASE ps # {}
  <2>1. nextStamp <= MaxStamps /\ nextStamp' = nextStamp + 1
    BY <1>3 DEF Allocate
  <2>2. \A p \in Plates : revisions'[p] \in 0..MaxStamps /\ revisions'[p] < nextStamp'
    BY <1>1, <2>1
  <2> QED  BY <1>1, <2>1, <2>2
<1> QED  BY <1>2, <1>3

\* The new stamps of the plates ps.
LEMMA StampedValues ==
  ASSUME NEW ps
  PROVE  /\ Stamped(ps) = [p \in Plates |-> Stamped(ps)[p]]
         /\ \A p \in Plates : Stamped(ps)[p] = IF p \in ps THEN nextStamp ELSE revisions[p]
BY DEF Stamped

\* A mutation keeps what history retained.
LEMMA RetainKeeps ==
  ASSUME \A f \in past : IsSession(f), IsSession(input'), Retain
  PROVE  \A f \in past' : IsSession(f)
BY DEF Retain

\* A mutation of plates.
LEMMA EditInvariant ==
  ASSUME IInv, NEW ps \in SUBSET plates, NEW v \in Inputs, Edit(ps, v)
  PROVE  IInv'
<1>1. /\ RegistryOK(entries) /\ SessionOK /\ IsSession(input) /\ plates \in SUBSET Plates
      /\ \A p \in plates : entries[p] # <<>>
  BY DEF IInv, SliceOK, SessionOK, IsSession, plates, RegistryOK
<1>2. /\ plates' = plates
      /\ \A p \in plates : input'[p] = IF p \in ps THEN v ELSE input[p]
      /\ IsSession(input')
  BY <1>1 DEF Edit, plates, IsSession
<1>3. Follows(entries, entries, plates)
  BY <1>1 DEF Follows, RegistryOK, SameEntry
<1>4. Follows(entries', entries, plates')
  BY <1>1, <1>2, <1>3, InvalidatedFollows DEF Edit
<1>5. \A p \in Plates : revisions'[p] = IF p \in ps THEN nextStamp ELSE revisions[p]
  BY StampedValues DEF Edit
<1>6. /\ revisions' \in [Plates -> 0..MaxStamps] /\ nextStamp' \in 1..MaxStamps + 1
      /\ \A p \in Plates : revisions'[p] < nextStamp'
      /\ nextStamp <= nextStamp'
  <2>1. revisions' = [p \in Plates |-> revisions'[p]]
    BY StampedValues DEF Edit
  <2>2. Allocate(ps)
    BY DEF Edit
  <2> QED  BY <1>1, <1>5, <2>1, <2>2, AllocateTypes
<1>7. SessionOK'
  <2>1. \A f \in past' : IsSession(f)
    BY <1>1, <1>2, RetainKeeps DEF SessionOK, Edit
  <2> QED  BY <1>2, <1>6, <2>1 DEF SessionOK, IsSession
<1>8. \A p \in plates' : \/ revisions'[p] = nextStamp
                         \/ /\ p \in plates /\ revisions'[p] = revisions[p]
                            /\ input'[p].content = input[p].content
                         \/ entries[p] = <<>>
  BY <1>1, <1>2, <1>5
<1>9. UNCHANGED sliceVars /\ transaction' = transaction
  BY DEF Edit
<1> QED  BY <1>4, <1>6, <1>7, <1>8, <1>9, StampedStep

\* What every mutation starts from.
LEMMA SessionFacts ==
  ASSUME IInv
  PROVE  /\ RegistryOK(entries) /\ SessionOK /\ TransactionOK /\ IsSession(input)
         /\ plates \in SUBSET Plates /\ plates # {}
         /\ \A p \in plates : entries[p] # <<>> /\ input[p] \in Inputs
         /\ \A f \in past : IsSession(f)
         /\ nextStamp \in Nat
<1>1. RegistryOK(entries) /\ SessionOK /\ TransactionOK
  BY DEF IInv, SliceOK
<1>2. IsSession(input) /\ (\A f \in past : IsSession(f)) /\ nextStamp \in Nat
  BY <1>1, RuntimeAssumption DEF SessionOK
<1>3. plates \in SUBSET Plates /\ plates # {} /\ \A p \in plates : input[p] \in Inputs
  BY <1>2 DEF IsSession, plates
<1>4. \A p \in plates : entries[p] # <<>>
  BY <1>1 DEF RegistryOK
<1> QED  BY <1>1, <1>2, <1>3, <1>4

\* A new plate has an entry that nobody refers to yet.
LEMMA AddPlateInvariant ==
  ASSUME IInv, NEW p \in Plates, NEW held \in Inputs, NEW moved \in SUBSET plates,
         AddPlate(p, held, moved)
  PROVE  IInv'
<1> DEFINE qs == plates \cup {p}
<1>1. /\ RegistryOK(entries) /\ SessionOK /\ plates \in SUBSET Plates
      /\ \A q \in plates : entries[q] # <<>> /\ input[q] \in Inputs
      /\ \A f \in past : IsSession(f)
  BY SessionFacts
<1>2. entries[p] = <<>> /\ p \notin plates
  BY <1>1 DEF AddPlate
<1>3. input' = [q \in qs |-> IF q = p THEN held ELSE input[q]]
  BY DEF AddPlate
<1>4. plates' = qs /\ \A q \in plates : input'[q] = input[q]
  BY <1>2, <1>3 DEF plates
<1>5. IsSession(input')
  BY <1>1, <1>3 DEF IsSession
<1>6. Follows(entries', entries, plates')
  <2>1. Follows(Reconciled(qs), entries, qs)
    BY <1>1, ReconciledFollows
  <2>2. \A q \in moved : Reconciled(qs)[q] # <<>>
    BY <2>1, <1>1 DEF Follows
  <2>3. entries' = Invalidated(Reconciled(qs), moved)
    BY DEF AddPlate
  <2> HIDE DEF qs
  <2> QED  BY <1>1, <1>2, <1>4, <2>1, <2>2, <2>3, InvalidatedFollows DEF qs
<1>7. \A q \in Plates : revisions'[q] = IF q = p THEN 0 ELSE IF q \in moved THEN nextStamp ELSE revisions[q]
  BY StampedValues DEF AddPlate, GridMoved
<1>8. /\ revisions' \in [Plates -> 0..MaxStamps] /\ nextStamp' \in 1..MaxStamps + 1
      /\ \A q \in Plates : revisions'[q] < nextStamp'
      /\ nextStamp <= nextStamp'
  <2>1. revisions' = [q \in Plates |-> revisions'[q]]
    BY ZenonT(60), StampedValues DEF AddPlate, GridMoved
  <2>2. Allocate(moved)
    BY DEF AddPlate, GridMoved
  <2> QED  BY <1>1, <1>7, <2>1, <2>2, AllocateTypes
<1>9. SessionOK'
  <2>1. \A f \in past' : IsSession(f)
    BY <1>1, <1>5, RetainKeeps DEF AddPlate
  <2> QED  BY <1>5, <1>8, <2>1 DEF SessionOK, IsSession
<1>10. \A q \in plates' : \/ revisions'[q] = nextStamp
                          \/ /\ q \in plates /\ revisions'[q] = revisions[q]
                             /\ input'[q].content = input[q].content
                          \/ entries[q] = <<>>
  BY <1>1, <1>2, <1>4, <1>7
<1>11. UNCHANGED sliceVars /\ transaction' = transaction
  BY DEF AddPlate
<1> QED  BY <1>6, <1>8, <1>9, <1>10, <1>11, StampedStep

\* A deleted plate leaves a tombstone or nothing.
LEMMA DeletePlateInvariant ==
  ASSUME IInv, NEW p \in plates, NEW moved \in SUBSET plates, DeletePlate(p, moved)
  PROVE  IInv'
<1> DEFINE qs == plates \ {p}
<1>1. /\ RegistryOK(entries) /\ SessionOK /\ plates \in SUBSET Plates
      /\ \A q \in plates : entries[q] # <<>> /\ input[q] \in Inputs
      /\ \A f \in past : IsSession(f)
  BY SessionFacts
<1>2. qs # {} /\ moved \subseteq qs
  BY DEF DeletePlate
<1>3. input' = [q \in qs |-> input[q]]
  BY DEF DeletePlate, Restrict
<1>4. plates' = qs /\ \A q \in qs : input'[q] = input[q]
  BY <1>3 DEF plates
<1>5. IsSession(input')
  BY <1>1, <1>2, <1>3 DEF IsSession
<1>6. Follows(entries', entries, plates')
  <2> DEFINE ms == moved \cup {p}
  <2>1. Follows(Reconciled(qs), entries, qs)
    BY <1>1, ReconciledFollows
  <2>2. \A q \in ms : Reconciled(qs)[q] # <<>>
    <3> SUFFICES ASSUME NEW q \in ms PROVE Reconciled(qs)[q] # <<>>
      OBVIOUS
    <3>1. q \in Plates /\ entries[q] # <<>> /\ entries[q] \in Seq(EntryType)
      BY <1>1 DEF RegistryOK
    <3>2. Reconciled(qs)[q] \in Seq(EntryType) /\ Len(entries[q]) <= Len(Reconciled(qs)[q])
      BY <2>1, <3>1 DEF Follows
    <3> QED  BY <3>1, <3>2, EmptySeq
  <2>3. entries' = Invalidated(Reconciled(qs), ms)
    BY DEF DeletePlate
  <2>4. ms \in SUBSET Plates /\ qs \in SUBSET Plates
    BY <1>1
  <2> HIDE DEF qs, ms
  <2> QED  BY <1>1, <1>4, <2>1, <2>2, <2>3, <2>4, InvalidatedFollows
<1>7. \A q \in Plates : revisions'[q] = IF q = p THEN 0 ELSE IF q \in moved THEN nextStamp ELSE revisions[q]
  <2>1. GridMoved(p, moved)
    BY DEF DeletePlate
  <2> QED  BY <2>1, StampedValues DEF GridMoved
<1>8. /\ revisions' \in [Plates -> 0..MaxStamps] /\ nextStamp' \in 1..MaxStamps + 1
      /\ \A q \in Plates : revisions'[q] < nextStamp'
      /\ nextStamp <= nextStamp'
  <2>1. GridMoved(p, moved)
    BY DEF DeletePlate
  <2>2. revisions' = [q \in Plates |-> revisions'[q]] /\ Allocate(moved)
    BY <2>1, StampedValues DEF GridMoved
  <2> QED  BY <1>1, <1>7, <2>2, AllocateTypes
<1>9. SessionOK'
  <2>1. \A f \in past' : IsSession(f)
    BY <1>1, <1>5, RetainKeeps DEF DeletePlate
  <2> QED  BY <1>5, <1>8, <2>1 DEF SessionOK, IsSession
<1>10. \A q \in plates' : \/ revisions'[q] = nextStamp
                          \/ /\ q \in plates /\ revisions'[q] = revisions[q]
                             /\ input'[q].content = input[q].content
                          \/ entries[q] = <<>>
  BY <1>1, <1>4, <1>7
<1>11. UNCHANGED sliceVars /\ transaction' = transaction
  BY DEF DeletePlate
<1> QED  BY <1>6, <1>8, <1>9, <1>10, <1>11, StampedStep

\* The registry that follows the plates of a restored state.
LEMMA RestoredFollows ==
  ASSUME RegistryOK(entries), NEW ps \in SUBSET Plates, NEW affected \in SUBSET ps
  PROVE  Follows(RestoredEntries(ps, affected), entries, ps)
<1>1. Follows(Reconciled(ps), entries, ps)
  BY ReconciledFollows
<1>2. affected \in SUBSET Plates /\ \A p \in affected : Reconciled(ps)[p] # <<>>
  BY <1>1 DEF Follows
<1> QED  BY <1>1, <1>2, InvalidatedFollows DEF RestoredEntries

\* A restore affects plates that were away and those whose content it changes.
LEMMA AffectedPlates ==
  ASSUME NEW target, NEW affected \in Affected(target)
  PROVE  /\ affected \in SUBSET DOMAIN target
         /\ \A p \in (DOMAIN target) \ affected :
              p \in plates /\ target[p].content = input[p].content
BY DEF Affected

\* Undo, Redo and a jump.
LEMMA HistoryRestoreInvariant ==
  ASSUME IInv, NEW target \in past, HistoryRestore(target)
  PROVE  IInv'
<1> DEFINE qs == DOMAIN target
<1>1. /\ RegistryOK(entries) /\ SessionOK /\ plates \in SUBSET Plates
      /\ \A f \in past : IsSession(f)
  BY SessionFacts
<1>2. PICK affected \in Affected(target) :
        /\ entries' = RestoredEntries(qs, affected)
        /\ revisions' = RestoredStamps(qs, affected) /\ Allocate(affected)
  BY DEF HistoryRestore
<1>3. /\ affected \in SUBSET qs
      /\ \A p \in qs \ affected : p \in plates /\ target[p].content = input[p].content
  BY AffectedPlates
<1>4. input' = target /\ IsSession(target) /\ plates' = qs /\ qs \in SUBSET Plates
  BY <1>1 DEF HistoryRestore, plates, IsSession
<1>5. Follows(entries', entries, plates')
  <2> HIDE DEF qs
  <2> QED  BY <1>1, <1>2, <1>3, <1>4, RestoredFollows
<1>6. \A q \in Plates : revisions'[q] = IF q \in qs THEN (IF q \in affected THEN nextStamp ELSE revisions[q]) ELSE 0
  BY <1>2, StampedValues DEF RestoredStamps
<1>7. /\ revisions' \in [Plates -> 0..MaxStamps] /\ nextStamp' \in 1..MaxStamps + 1
      /\ \A q \in Plates : revisions'[q] < nextStamp'
      /\ nextStamp <= nextStamp'
  <2>1. revisions' = [q \in Plates |-> revisions'[q]]
    BY <1>2 DEF RestoredStamps
  <2> QED  BY <1>1, <1>2, <1>6, <2>1, AllocateTypes
<1>8. past' = past /\ UNCHANGED sliceVars /\ transaction' = transaction
  BY DEF HistoryRestore
<1>9. SessionOK'
  BY <1>1, <1>4, <1>7, <1>8 DEF SessionOK, IsSession
<1>10. \A q \in plates' : \/ revisions'[q] = nextStamp
                          \/ /\ q \in plates /\ revisions'[q] = revisions[q]
                             /\ input'[q].content = input[q].content
                          \/ entries[q] = <<>>
  BY <1>3, <1>4, <1>6
<1> QED  BY <1>5, <1>7, <1>8, <1>9, <1>10, StampedStep

\* A registry follows itself.
LEMMA FollowsItself ==
  ASSUME RegistryOK(entries)
  PROVE  Follows(entries, entries, plates)
BY DEF Follows, RegistryOK, SameEntry

\* capture_lifecycle() of the live entries.
LEMMA LifecycleOK ==
  ASSUME IInv
  PROVE  /\ DOMAIN Lifecycle = plates
         /\ \A p \in plates : Lifecycle[p].presentation \in Presentations
<1>1. \A p \in plates : entries[p] \in Seq(EntryType) /\ entries[p] # <<>>
  BY SessionFacts DEF RegistryOK
<1>2. \A p \in plates : entries[p][Len(entries[p])] \in EntryType
  BY <1>1, EmptySeq, ElementOfSeq
<1>3. \A p \in plates : Entry(p) \in EntryType
  BY <1>2 DEF Entry, Last
<1> QED  BY <1>3 DEF Lifecycle, EntryType

\* The entries a failed restore had dropped come back as new ones.
LEMMA DroppedFollows ==
  ASSUME IInv, NEW dropped \in SUBSET plates, NEW affected \in SUBSET (plates \ dropped)
  PROVE  Follows([p \in Plates |->
                    IF p \in dropped
                    THEN Append(Reconciled(plates \ dropped)[p], NewEntry)
                    ELSE Invalidated(entries, affected)[p]], entries, plates)
<1> DEFINE rs == Reconciled(plates \ dropped)
           is == Invalidated(entries, affected)
           fs == [p \in Plates |-> IF p \in dropped THEN Append(rs[p], NewEntry) ELSE is[p]]
<1>1. RegistryOK(entries) /\ plates \in SUBSET Plates /\ \A p \in plates : entries[p] # <<>>
  BY SessionFacts
<1>2. Follows(rs, entries, plates \ dropped)
  BY <1>1, ReconciledFollows
<1>3. Follows(is, entries, plates)
  BY <1>1, FollowsItself, InvalidatedFollows
<1> HIDE DEF rs, is
<1>4. ASSUME NEW p \in dropped
      PROVE  /\ fs[p] \in Seq(EntryType)
             /\ Len(entries[p]) < Len(fs[p]) /\ fs[p] # <<>>
             /\ \A i \in 1..Len(fs[p]) :
                  \/ Fresh(fs[p][i]) /\ (i <= Len(entries[p]) => ~entries[p][i].leased)
                  \/ i <= Len(entries[p]) /\ SameEntry(fs[p][i], entries[p][i])
  <2>1. /\ p \in Plates /\ rs[p] \in Seq(EntryType) /\ Len(entries[p]) <= Len(rs[p])
        /\ entries[p] \in Seq(EntryType) /\ Len(entries[p]) \in Nat /\ Len(rs[p]) \in Nat
        /\ \A i \in 1..Len(rs[p]) :
             \/ Fresh(rs[p][i]) /\ (i <= Len(entries[p]) => ~entries[p][i].leased)
             \/ i <= Len(entries[p]) /\ SameEntry(rs[p][i], entries[p][i])
    BY <1>1, <1>2 DEF Follows, RegistryOK
  <2>2. fs[p] = Append(rs[p], NewEntry)
    BY <2>1
  <2>3. fs[p] \in Seq(EntryType) /\ Len(fs[p]) = Len(rs[p]) + 1
    BY <2>1, <2>2, NewEntryType
  <2>4. \A i \in 1..Len(fs[p]) : fs[p][i] = IF i <= Len(rs[p]) THEN rs[p][i] ELSE NewEntry
    BY <2>1, <2>2
  <2>5. Fresh(NewEntry)
    BY DEF Fresh, SameEntry
  <2>6. fs[p] # <<>>
    BY <2>1, <2>3, EmptySeq
  <2>7. \A i \in 1..Len(fs[p]) :
          \/ Fresh(fs[p][i]) /\ (i <= Len(entries[p]) => ~entries[p][i].leased)
          \/ i <= Len(entries[p]) /\ SameEntry(fs[p][i], entries[p][i])
    BY <2>1, <2>3, <2>4, <2>5
  <2> QED  BY <2>1, <2>3, <2>6, <2>7
<1>5. \A p \in Plates \ dropped : fs[p] = is[p]
  OBVIOUS
<1>6. \A p \in Plates : fs[p] \in Seq(EntryType)
  BY <1>3, <1>4, <1>5 DEF Follows
<1>7. fs \in [Plates -> Seq(EntryType)]
  BY <1>6
<1> HIDE DEF fs
<1>8. ASSUME NEW p \in Plates
      PROVE  /\ Len(entries[p]) <= Len(fs[p])
             /\ \A i \in 1..Len(fs[p]) :
                  \/ Fresh(fs[p][i]) /\ (i <= Len(entries[p]) => ~entries[p][i].leased)
                  \/ i <= Len(entries[p]) /\ SameEntry(fs[p][i], entries[p][i])
             /\ p \in plates => fs[p] # <<>>
             /\ p \in plates /\ Len(fs[p]) = Len(entries[p]) =>
                  p \in plates /\ SameEntry(fs[p][Len(fs[p])], entries[p][Len(entries[p])])
  <2>1. CASE p \in dropped
    <3>1. Len(entries[p]) \in Nat /\ Len(fs[p]) \in Nat
      BY <1>1, <1>7 DEF RegistryOK
    <3> QED  BY <1>4, <2>1, <3>1
  <2>2. CASE p \notin dropped
    BY <1>3, <1>5, <2>2 DEF Follows
  <2> QED  BY <2>1, <2>2
<1>9. Follows(fs, entries, plates)
  BY <1>7, <1>8 DEF Follows
<1> QED  BY <1>9 DEF fs, rs, is

\* A restore that fails gives back plates and stamps, and the availability it took.
LEMMA RestoreFailsInvariant ==
  ASSUME IInv, NEW dropped \in SUBSET plates, NEW affected \in SUBSET plates,
         RestoreFails(dropped, affected)
  PROVE  IInv'
<1> DEFINE fs == [p \in Plates |->
                    IF p \in dropped
                    THEN Append(Reconciled(plates \ dropped)[p], NewEntry)
                    ELSE Invalidated(entries, affected)[p]]
<1>1. RegistryOK(entries) /\ SessionOK /\ plates \in SUBSET Plates
  BY SessionFacts
<1>2. /\ affected \in SUBSET (plates \ dropped)
      /\ entries' = WithLifecycle(fs, Lifecycle)
      /\ Allocate(affected)
      /\ transaction' = NoTransaction
      /\ input' = input /\ revisions' = revisions /\ past' = past /\ UNCHANGED sliceVars
  BY DEF RestoreFails
<1>3. Follows(fs, entries, plates)
  BY <1>2, DroppedFollows
<1> HIDE DEF fs
<1>4. \A p \in Plates \cap DOMAIN Lifecycle :
        fs[p] # <<>> /\ Lifecycle[p].presentation \in Presentations
  BY <1>3, LifecycleOK DEF Follows
<1>5. plates' = plates
  BY <1>2 DEF plates
<1>6. Follows(entries', entries, plates')
  BY <1>1, <1>2, <1>3, <1>4, <1>5, WithLifecycleFollows
<1>7. /\ nextStamp' \in 1..MaxStamps + 1 /\ nextStamp <= nextStamp'
      /\ \A p \in Plates : revisions'[p] < nextStamp'
  <2>1. revisions' = [p \in Plates |-> revisions'[p]] /\ \A p \in Plates : revisions'[p] = revisions[p]
    BY <1>1, <1>2 DEF SessionOK
  <2> QED  BY <1>1, <1>2, <2>1, AllocateTypes
<1>8. SessionOK'
  BY <1>1, <1>2, <1>7 DEF SessionOK, IsSession
<1>9. \A p \in plates' : p \in plates /\ revisions'[p] = revisions[p] /\ input'[p].content = input[p].content
  BY <1>2, <1>5
<1> QED  BY <1>2, <1>6, <1>7, <1>8, <1>9, StampedStep

\* orc_history_begin() notes what the stamps stand for.
LEMMA BeginTransactionInvariant ==
  ASSUME IInv, BeginTransaction
  PROVE  IInv'
<1>1. /\ transaction' = [before |-> input, revisions |-> revisions, lifecycle |-> Lifecycle]
      /\ input' = input /\ entries' = entries /\ revisions' = revisions /\ nextStamp' = nextStamp
      /\ past' = past /\ UNCHANGED sliceVars
  BY DEF BeginTransaction
<1>2. plates' = plates
  BY <1>1 DEF plates
<1>3. Follows(entries', entries, plates')
  BY <1>1, <1>2, SessionFacts, FollowsItself
<1>4. SessionOK'
  BY <1>1, SessionFacts DEF SessionOK, IsSession
<1>5. TransactionOK'
  <2>1. DOMAIN input = plates
    BY DEF plates
  <2>2. /\ IsSession(input) /\ revisions \in [Plates -> 0..MaxStamps]
        /\ \A p \in Plates : revisions[p] < nextStamp
        /\ \A p \in plates : entries[p] # <<>>
    BY SessionFacts DEF SessionOK
  <2>3. IsSession(transaction'.before)
    BY <1>1, <2>2
  <2> QED  BY <1>1, <2>1, <2>2, <2>3, LifecycleOK DEF TransactionOK, IsSession
<1>6. StampsStand
  BY <1>1, <1>2 DEF StampsStand, StandsFor, StandsAfter, plates
<1>7. PlatesQuote'
  BY <1>1, <1>2 DEF PlatesQuote, StandsFor, plates
<1>8. nextStamp <= nextStamp'
  BY <1>1, SessionFacts
<1> QED  BY <1>1, <1>3, <1>4, <1>5, <1>6, <1>7, <1>8, MutationInvariant

\* A transaction that ends without a restore.
LEMMA EndedInvariant ==
  ASSUME IInv, transaction' = NoTransaction,
         UNCHANGED <<input, entries, revisions, nextStamp>>, UNCHANGED sliceVars,
         past' \in {past, past \cup {input}}
  PROVE  IInv'
<1>1. plates' = plates
  BY DEF plates
<1>2. Follows(entries', entries, plates')
  BY <1>1, SessionFacts, FollowsItself
<1>3. SessionOK'
  BY SessionFacts DEF SessionOK, IsSession
<1>4. \A p \in plates' : p \in plates /\ revisions'[p] = revisions[p] /\ input'[p].content = input[p].content
  BY <1>1
<1>5. nextStamp <= nextStamp'
  BY SessionFacts
<1> QED  BY <1>2, <1>3, <1>4, <1>5, StampedStep

\* orc_history_abort() rolls the stamps back together with what they stand for.
LEMMA AbortTransactionInvariant ==
  ASSUME IInv, AbortTransaction
  PROVE  IInv'
<1> DEFINE qs == DOMAIN transaction.before
<1>1. /\ transaction # NoTransaction
      /\ input' = transaction.before /\ revisions' = transaction.revisions
      /\ transaction' = NoTransaction /\ past' = past /\ UNCHANGED sliceVars
  BY DEF AbortTransaction
<1>2. PICK affected \in Affected(transaction.before) :
        /\ entries' = WithLifecycle(RestoredEntries(plates', affected), transaction.lifecycle)
        /\ Allocate(affected)
  BY DEF AbortTransaction
<1>3. /\ IsSession(transaction.before)
      /\ transaction.revisions \in [Plates -> 0..MaxStamps]
      /\ \A p \in Plates : transaction.revisions[p] < nextStamp
      /\ DOMAIN transaction.lifecycle = qs
      /\ \A p \in qs : transaction.lifecycle[p].presentation \in Presentations
  BY <1>1 DEF IInv, SliceOK, TransactionOK
<1>4. plates' = qs /\ qs \in SUBSET Plates /\ affected \in SUBSET qs
  BY <1>1, <1>2, <1>3, AffectedPlates DEF plates, IsSession
<1>5. RegistryOK(entries) /\ SessionOK
  BY SessionFacts
<1>6. Follows(entries', entries, plates')
  <2> DEFINE es == RestoredEntries(plates', affected)
  <2>1. Follows(es, entries, plates')
    BY <1>4, <1>5, RestoredFollows
  <2> HIDE DEF es
  <2>2. \A p \in Plates \cap DOMAIN transaction.lifecycle :
          es[p] # <<>> /\ transaction.lifecycle[p].presentation \in Presentations
    BY <1>3, <1>4, <2>1 DEF Follows
  <2>3. entries' = WithLifecycle(es, transaction.lifecycle)
    BY <1>2 DEF es
  <2> QED  BY <1>4, <1>5, <2>1, <2>2, <2>3, WithLifecycleFollows
<1>7. nextStamp' \in 1..MaxStamps + 1 /\ nextStamp <= nextStamp'
  <2>1. MaxStamps \in Nat /\ nextStamp \in 1..MaxStamps + 1
    BY <1>5, RuntimeAssumption DEF SessionOK
  <2> QED  BY <1>2, <2>1 DEF Allocate
<1>8. SessionOK'
  <2>1. \A p \in Plates : revisions'[p] < nextStamp'
    BY <1>1, <1>3, <1>5, <1>7, RuntimeAssumption DEF SessionOK
  <2> QED  BY <1>1, <1>3, <1>5, <1>7, <2>1 DEF SessionOK, IsSession
<1>9. TransactionOK'
  BY <1>1 DEF TransactionOK
<1>10. StampsStand
  BY <1>1, <1>4 DEF StampsStand, StandsFor, StandsAfter, NoTransaction
<1>11. PlatesQuote'
  BY <1>1, <1>4 DEF PlatesQuote, StandsFor, NoTransaction
<1> QED  BY <1>1, <1>6, <1>7, <1>8, <1>9, <1>10, <1>11, MutationInvariant

-----------------------------------------------------------------------------
(* The slice job *)

\* A step of the slice job leaves the session alone: its invariant is that of the job.
LEMMA SliceStep ==
  ASSUME IInv, UNCHANGED <<input, revisions, nextStamp, past, transaction>>,
         \A p \in Plates : Len(entries'[p]) = Len(entries[p]),
         SliceOK(entries', job', pending', answers', receipts')
  PROVE  IInv'
<1>1. plates' = plates
  BY DEF plates
<1>2. \A p \in Plates : entries'[p] \in Seq(EntryType) /\ entries[p] \in Seq(EntryType)
  BY SessionFacts DEF SliceOK, RegistryOK
<1>3. \A p \in Plates : entries[p] # <<>> => entries'[p] # <<>>
  BY <1>2, EmptySeq
<1>4. SessionOK' /\ PlatesQuote'
  BY <1>1 DEF IInv, SessionOK, IsSession, PlatesQuote, StandsFor
<1>5. TransactionOK'
  BY <1>3 DEF IInv, TransactionOK, IsSession
<1>6. SliceOK(entries, job, pending, answers, receipts)'
  <2>1. RegistryOK(entries)' /\ Unanswered(answers, {job.task, pending.task})'
    BY <1>1 DEF SliceOK, RegistryOK, Unanswered
  <2>2. EntriesQuote(entries, Len(answers), Ended(job, Len(answers)))'
    BY <1>1 DEF SliceOK, EntriesQuote, StandsFor, Ended
  <2>3. LeasedTo(entries, job)' /\ PendingOK(pending, job, entries, Len(answers))'
    BY DEF SliceOK, LeasedTo, PendingOK
  <2>4. JobOK(job, entries, Len(answers))'
    BY <1>1 DEF SliceOK, JobOK, StandsFor
  <2>5. ReceiptsQuote(entries, receipts)'
    BY <1>1 DEF SliceOK, ReceiptsQuote, StandsFor
  <2>6. ReceiptsCount(entries, receipts)'
    BY <1>1 DEF SliceOK, ReceiptsCount
  <2> QED  BY <2>1, <2>2, <2>3, <2>4, <2>5, <2>6 DEF SliceOK
<1> QED  BY <1>4, <1>5, <1>6 DEF IInv

\* One entry of a registry is replaced.
LEMMA ReplaceEntry ==
  ASSUME NEW es \in [Plates -> Seq(EntryType)], NEW p \in Plates, NEW i \in 1..Len(es[p]),
         NEW x \in EntryType
  PROVE  LET fs == [es EXCEPT ![p][i] = x]
         IN  /\ fs \in [Plates -> Seq(EntryType)]
             /\ \A q \in Plates : /\ Len(fs[q]) = Len(es[q])
                                  /\ \A k \in 1..Len(es[q]) :
                                       fs[q][k] = IF q = p /\ k = i THEN x ELSE es[q][k]
<1> DEFINE s == es[p]
           t == [s EXCEPT ![i] = x]
           fs == [es EXCEPT ![p][i] = x]
<1>1. s \in Seq(EntryType) /\ i \in 1..Len(s)
  OBVIOUS
<1>2. /\ t \in Seq(EntryType) /\ Len(t) = Len(s)
      /\ \A k \in 1..Len(s) : t[k] = IF k = i THEN x ELSE s[k]
  <2> HIDE DEF s
  <2> QED  BY <1>1, ExceptSeq
<1>3. fs = [es EXCEPT ![p] = t]
  OBVIOUS
<1> HIDE DEF t
<1>4. fs \in [Plates -> Seq(EntryType)] /\ fs[p] = t /\ \A q \in Plates \ {p} : fs[q] = es[q]
  BY <1>2, <1>3
<1> HIDE DEF fs
<1>5. ASSUME NEW q \in Plates
      PROVE  /\ Len(fs[q]) = Len(es[q])
             /\ \A k \in 1..Len(es[q]) : fs[q][k] = IF q = p /\ k = i THEN x ELSE es[q][k]
  BY <1>2, <1>4
<1> QED  BY <1>4, <1>5 DEF fs

\* A registry that changes no more than availability and the request to stop is as good.
LEMMA SameRegistryOK ==
  ASSUME NEW j, NEW q, NEW ans, NEW rs, NEW es, NEW fs \in [Plates -> Seq(EntryType)],
         plates \in SUBSET Plates, SliceOK(es, j, q, ans, rs),
         \A p \in Plates :
           /\ Len(fs[p]) = Len(es[p])
           /\ \A i \in 1..Len(es[p]) : SameEntry(fs[p][i], es[p][i])
  PROVE  SliceOK(fs, j, q, ans, rs)
<1>1. RegistryOK(fs)
  <2>1. \A p \in Plates : es[p] \in Seq(EntryType) /\ fs[p] \in Seq(EntryType)
    BY DEF SliceOK, RegistryOK
  <2> QED  BY <2>1, EmptySeq DEF SliceOK, RegistryOK
<1>2. EntriesQuote(fs, Len(ans), Ended(j, Len(ans)))
  BY DEF SliceOK, EntriesQuote, SameEntry
<1>3. LeasedTo(fs, j)
  BY DEF SliceOK, LeasedTo, SameEntry
<1>4. JobOK(j, fs, Len(ans)) /\ PendingOK(q, j, fs, Len(ans))
  BY DEF SliceOK, JobOK, PendingOK, JobType, RequestType
<1>5. ReceiptsQuote(fs, rs)
  BY DEF SliceOK, ReceiptsQuote, ReceiptType
<1>6. ReceiptsCount(fs, rs)
  <2> SUFFICES ASSUME NEW r \in rs, r.plate \in plates, r.incarnation = Len(fs[r.plate])
      PROVE  /\ r.generation <= fs[r.plate][r.incarnation].generation
             /\ r.generation = fs[r.plate][r.incarnation].generation
                  => fs[r.plate][r.incarnation].sliced = r.input
    BY DEF ReceiptsCount
  <2>1. r.plate \in Plates /\ r.incarnation \in 1..Len(es[r.plate])
    BY DEF SliceOK, ReceiptsQuote, ReceiptType
  <2>2. SameEntry(fs[r.plate][r.incarnation], es[r.plate][r.incarnation]) /\ r.incarnation = Len(es[r.plate])
    BY <2>1
  <2> QED  BY <2>2 DEF SliceOK, ReceiptsCount, SameEntry
<1> QED  BY <1>1, <1>2, <1>3, <1>4, <1>5, <1>6 DEF SliceOK

\* The active job refers to an entry of its plate.
LEMMA JobEntry ==
  ASSUME IInv, job # NoJob
  PROVE  /\ job \in JobType /\ job.plate \in Plates /\ job.task \in Nat \ {0}
         /\ job.incarnation \in 1..Len(entries[job.plate])
         /\ job.task \in 1..Len(answers)
         /\ entries \in [Plates -> Seq(EntryType)]
         /\ entries[job.plate][job.incarnation] \in EntryType
         /\ answers \in Seq(Nat) /\ Len(answers) \in Nat
<1>1. job \in JobType /\ job.task <= Len(answers) /\ job.incarnation <= Len(entries[job.plate])
  BY DEF IInv, SliceOK, JobOK
<1>2. job.plate \in Plates /\ job.task \in Nat \ {0} /\ job.incarnation \in Nat \ {0}
  BY <1>1 DEF JobType
<1>3. entries \in [Plates -> Seq(EntryType)] /\ answers \in Seq(Nat) /\ Len(answers) \in Nat
  BY DEF IInv, SliceOK, RegistryOK, Unanswered
<1>4. job.incarnation \in 1..Len(entries[job.plate])
  BY <1>1, <1>2, <1>3
<1>5. entries[job.plate][job.incarnation] \in EntryType
  BY <1>2, <1>3, <1>4, ElementOfSeq
<1> QED  BY <1>1, <1>2, <1>3, <1>4, <1>5

\* The active job is asked to stop.
LEMMA AskedToStop ==
  ASSUME IInv, job # NoJob, NEW x \in EntryType,
         SameEntry(x, entries[job.plate][job.incarnation])
  PROVE  LET fs == [entries EXCEPT ![job.plate][job.incarnation] = x]
         IN  /\ fs \in [Plates -> Seq(EntryType)]
             /\ \A p \in Plates :
                  /\ Len(fs[p]) = Len(entries[p])
                  /\ \A i \in 1..Len(entries[p]) : SameEntry(fs[p][i], entries[p][i])
<1> DEFINE p == job.plate
           i == job.incarnation
           fs == [entries EXCEPT ![p][i] = x]
<1>1. p \in Plates /\ i \in 1..Len(entries[p]) /\ entries \in [Plates -> Seq(EntryType)]
  BY JobEntry
<1>2. SameEntry(x, entries[p][i])
  OBVIOUS
<1> SUFFICES /\ fs \in [Plates -> Seq(EntryType)]
             /\ \A q \in Plates :
                  /\ Len(fs[q]) = Len(entries[q])
                  /\ \A k \in 1..Len(entries[q]) : SameEntry(fs[q][k], entries[q][k])
  OBVIOUS
<1> HIDE DEF p, i
<1>3. /\ fs \in [Plates -> Seq(EntryType)]
      /\ \A q \in Plates : /\ Len(fs[q]) = Len(entries[q])
                           /\ \A k \in 1..Len(entries[q]) :
                                fs[q][k] = IF q = p /\ k = i THEN x ELSE entries[q][k]
  BY <1>1, ReplaceEntry
<1> HIDE DEF fs
<1> QED  BY <1>2, <1>3 DEF SameEntry

\* orc_cancel().
LEMMA CancelSliceInvariant ==
  ASSUME IInv, CancelSlice
  PROVE  IInv'
<1> DEFINE x == Withdrawn(entries[job.plate][job.incarnation])
<1>1. job # NoJob /\ entries' = [entries EXCEPT ![job.plate][job.incarnation] = x]
  BY DEF CancelSlice
<1>2. x \in EntryType /\ SameEntry(x, entries[job.plate][job.incarnation])
  <2> DEFINE e == entries[job.plate][job.incarnation]
  <2>1. e \in EntryType
    BY <1>1, JobEntry
  <2> HIDE DEF e
  <2>2. (e.cancel \/ e.leased) \in BOOLEAN /\ "invalid" \in Presentations
    BY <2>1 DEF EntryType, Presentations
  <2>3. Withdrawn(e) \in EntryType /\ SameEntry(Withdrawn(e), e)
    BY <2>1, <2>2 DEF Withdrawn, SameEntry, EntryType
  <2> QED  BY <2>3 DEF e
<1> HIDE DEF x
<1>3. /\ entries' \in [Plates -> Seq(EntryType)]
      /\ \A p \in Plates :
           /\ Len(entries'[p]) = Len(entries[p])
           /\ \A i \in 1..Len(entries[p]) : SameEntry(entries'[p][i], entries[p][i])
  BY <1>1, <1>2, AskedToStop
<1>4. SliceOK(entries', job, pending, answers, receipts)
  BY <1>3, SessionFacts, SameRegistryOK DEF IInv
<1>5. /\ UNCHANGED <<input, revisions, nextStamp, past, transaction>>
      /\ job' = job /\ pending' = pending /\ answers' = answers /\ receipts' = receipts
  BY DEF CancelSlice, sliceVars
<1> QED  BY <1>3, <1>4, <1>5, SliceStep

\* Print::process() ends.
LEMMA ProcessEndsInvariant ==
  ASSUME IInv, NEW outcome \in {"completed", "failed"}, ProcessEnds(outcome)
  PROVE  IInv'
<1>1. /\ job # NoJob /\ job' = [job EXCEPT !.outcome = outcome]
      /\ entries' = entries /\ pending' = pending /\ answers' = answers /\ receipts' = receipts
      /\ UNCHANGED <<input, revisions, nextStamp, past, transaction>>
  BY DEF ProcessEnds
<1>2. job \in JobType
  BY <1>1, JobEntry
<1>3. /\ job' \in JobType /\ job'.task = job.task /\ job'.plate = job.plate
      /\ job'.incarnation = job.incarnation /\ job'.revision = job.revision /\ job'.input = job.input
  BY <1>1, <1>2 DEF JobType
<1>4. job' # NoJob
  BY <1>3 DEF JobType, NoJob, None
<1>5. LeasedTo(entries, job')
  BY <1>1, <1>3, <1>4 DEF IInv, SliceOK, LeasedTo
<1>6. JobOK(job', entries, Len(answers)) /\ PendingOK(pending, job', entries, Len(answers))
  BY <1>1, <1>3, <1>4 DEF IInv, SliceOK, JobOK, PendingOK
<1>7. Ended(job', Len(answers)) = Ended(job, Len(answers))
  BY <1>1, <1>3, <1>4 DEF Ended
<1>8. SliceOK(entries', job', pending', answers', receipts')
  BY <1>1, <1>3, <1>5, <1>6, <1>7 DEF IInv, SliceOK
<1> QED  BY <1>1, <1>8, SliceStep

\* Only the accepted tasks matter for who is unanswered.
LEMMA UnansweredSame ==
  ASSUME NEW ans, NEW ts, NEW us, Unanswered(ans, ts),
         \A t \in 1..Len(ans) : t \in us <=> t \in ts
  PROVE  Unanswered(ans, us)
BY DEF Unanswered

\* A terminal answers its task.
LEMMA AnsweredTask ==
  ASSUME NEW ans, NEW ts, Unanswered(ans, ts), NEW t \in 1..Len(ans), t \in ts
  PROVE  Unanswered(Answered(ans, t), ts \ {t}) /\ Len(Answered(ans, t)) = Len(ans)
<1>1. ans \in Seq(Nat) /\ ans[t] = 0 /\ 1 \in Nat
  BY DEF Unanswered
<1>2. Answered(ans, t) = [ans EXCEPT ![t] = 1]
  BY <1>1 DEF Answered
<1>3. /\ Answered(ans, t) \in Seq(Nat) /\ Len(Answered(ans, t)) = Len(ans)
      /\ \A k \in 1..Len(ans) : Answered(ans, t)[k] = IF k = t THEN 1 ELSE ans[k]
  BY <1>1, <1>2, ExceptSeq
<1> QED  BY <1>3 DEF Unanswered

\* An accepted task is unanswered.
LEMMA AcceptedTask ==
  ASSUME NEW ans, NEW ts, Unanswered(ans, ts), Len(ans) < MaxTasks
  PROVE  /\ Unanswered(Append(ans, 0), ts \cup {Len(ans) + 1})
         /\ Len(Append(ans, 0)) = Len(ans) + 1
<1>1. ans \in Seq(Nat) /\ Len(ans) \in Nat /\ MaxTasks \in Nat
  BY RuntimeAssumption DEF Unanswered
<1>2. /\ Append(ans, 0) \in Seq(Nat) /\ Len(Append(ans, 0)) = Len(ans) + 1
      /\ \A k \in 1..Len(ans) + 1 : Append(ans, 0)[k] = IF k <= Len(ans) THEN ans[k] ELSE 0
  BY <1>1
<1> QED  BY <1>1, <1>2 DEF Unanswered

\* The registry es while no job is active and task t is being answered.
Idle(es, t, ans, rs) ==
  /\ RegistryOK(es) /\ EntriesQuote(es, Len(ans), t - 1) /\ LeasedTo(es, NoJob)
  /\ t \in 1..Len(ans) /\ Unanswered(ans, {t})
  /\ ReceiptsQuote(es, rs) /\ ReceiptsCount(es, rs)

\* f keeps the result of e.
SameResult(f, e) ==
  /\ f.completed = e.completed /\ f.producer = e.producer
  /\ f.generation = e.generation /\ f.sliced = e.sliced

\* The live entry of a plate is replaced, and keeps its result.
LEMMA LastReplaced ==
  ASSUME NEW es, NEW p \in Plates, p \in plates, plates \in SUBSET Plates, RegistryOK(es),
         NEW n \in Nat, NEW g \in Int, EntriesQuote(es, n, g),
         NEW rs, ReceiptsQuote(es, rs), ReceiptsCount(es, rs),
         NEW x \in EntryType, SameResult(x, es[p][Len(es[p])]), x.task <= n
  PROVE  /\ RegistryOK(WithEntry(es, p, x))
         /\ \A q \in Plates :
              /\ Len(WithEntry(es, p, x)[q]) = Len(es[q])
              /\ \A k \in 1..Len(es[q]) :
                   WithEntry(es, p, x)[q][k] = IF q = p /\ k = Len(es[p]) THEN x ELSE es[q][k]
         /\ EntriesQuote(WithEntry(es, p, x), n, g)
         /\ ReceiptsQuote(WithEntry(es, p, x), rs) /\ ReceiptsCount(WithEntry(es, p, x), rs)
<1> DEFINE i == Len(es[p])
           fs == WithEntry(es, p, x)
<1>1. es \in [Plates -> Seq(EntryType)] /\ i \in 1..Len(es[p])
  BY EmptySeq DEF RegistryOK
<1>2. fs = [es EXCEPT ![p][i] = x]
  BY <1>1 DEF WithEntry
<1> HIDE DEF i, fs
<1>3. /\ fs \in [Plates -> Seq(EntryType)]
      /\ \A q \in Plates : /\ Len(fs[q]) = Len(es[q])
                           /\ \A k \in 1..Len(es[q]) :
                                fs[q][k] = IF q = p /\ k = i THEN x ELSE es[q][k]
  BY <1>1, <1>2, ReplaceEntry
<1>4. \A q \in Plates : es[q] \in Seq(EntryType) /\ fs[q] \in Seq(EntryType)
  BY <1>1, <1>3
<1>5. RegistryOK(fs)
  BY <1>3, <1>4, EmptySeq DEF RegistryOK
<1>6. SameResult(x, es[p][i])
  BY DEF i
<1>7. \A q \in Plates : \A k \in 1..Len(es[q]) : SameResult(fs[q][k], es[q][k])
  BY <1>3, <1>6 DEF SameResult
<1>8. EntriesQuote(fs, n, g)
  BY <1>3, <1>7 DEF EntriesQuote, SameResult
<1>9. ReceiptsQuote(fs, rs)
  BY <1>3 DEF ReceiptsQuote, ReceiptType
<1>10. ReceiptsCount(fs, rs)
  <2> SUFFICES ASSUME NEW r \in rs, r.plate \in plates, r.incarnation = Len(fs[r.plate])
      PROVE  /\ r.generation <= fs[r.plate][r.incarnation].generation
             /\ r.generation = fs[r.plate][r.incarnation].generation
                  => fs[r.plate][r.incarnation].sliced = r.input
    BY DEF ReceiptsCount
  <2>1. r.plate \in Plates /\ r.incarnation \in 1..Len(es[r.plate])
    BY <1>1 DEF ReceiptsQuote, ReceiptType
  <2>2. r.incarnation = Len(es[r.plate]) /\ SameResult(fs[r.plate][r.incarnation], es[r.plate][r.incarnation])
    BY <2>1, <1>3, <1>7
  <2> QED  BY <2>2 DEF ReceiptsCount, SameResult
<1> QED  BY <1>3, <1>5, <1>8, <1>9, <1>10 DEF i, fs

\* slice_for_plate(): the job starts with what the plate holds, or its task is answered.
LEMMA LaunchOK ==
  ASSUME IInv, NEW es, NEW t, NEW ans, NEW rs, Idle(es, t, ans, rs),
         NEW p \in plates, Launch(es, t, p, ans)
  PROVE  /\ SliceOK(entries', job', NoJob, answers', rs)
         /\ \A q \in Plates : Len(entries'[q]) = Len(es[q])
<1> DEFINE e == es[p][Len(es[p])]
<1>1. /\ p \in Plates /\ plates \in SUBSET Plates /\ input[p] \in Inputs
      /\ revisions[p] \in Nat /\ revisions[p] < nextStamp
  BY SessionFacts, RuntimeAssumption DEF SessionOK
<1>2. /\ es \in [Plates -> Seq(EntryType)] /\ es[p] # <<>> /\ es[p] \in Seq(EntryType)
      /\ Len(es[p]) \in 1..Len(es[p]) /\ Len(es[p]) \in Nat \ {0}
  BY <1>1, EmptySeq DEF Idle, RegistryOK
<1>3. e \in EntryType /\ ~e.leased /\ Last(es[p]) = e
  BY <1>1, <1>2, ElementOfSeq DEF Idle, LeasedTo, Last
<1>4. t \in Nat \ {0} /\ Len(ans) \in Nat /\ t <= Len(ans) /\ t \in 1..Len(ans)
  BY LenProperties DEF Idle, Unanswered
<1>5. NoJob.task = 0
  BY DEF NoJob, None
<1>6. CASE LaunchSucceeds(es, t, p, ans)
  <2> DEFINE x == Begun(e, t)
  <2>1. /\ x \in EntryType /\ SameResult(x, e) /\ x.leased /\ x.task <= Len(ans)
    BY <1>3, <1>4 DEF Begun, EntryType, Presentations, SameResult
  <2>2. /\ entries' = WithEntry(es, p, x) /\ answers' = ans
        /\ job' = [task |-> t, plate |-> p, incarnation |-> Len(es[p]),
                   revision |-> revisions[p], input |-> input[p], outcome |-> "processing"]
    BY <1>6, <1>3 DEF LaunchSucceeds
  <2> HIDE DEF x
  <2>3. /\ RegistryOK(entries') /\ EntriesQuote(entries', Len(ans), t - 1)
        /\ \A q \in Plates :
             /\ Len(entries'[q]) = Len(es[q])
             /\ \A k \in 1..Len(es[q]) :
                  entries'[q][k] = IF q = p /\ k = Len(es[p]) THEN x ELSE es[q][k]
        /\ ReceiptsQuote(entries', rs) /\ ReceiptsCount(entries', rs)
    BY <1>1, <1>4, <2>1, <2>2, LastReplaced DEF Idle
  <2>4. job' # NoJob /\ job'.task = t /\ job'.plate = p /\ job'.incarnation = Len(es[p])
    BY <2>2, <1>4 DEF NoJob, None
  <2>5. LeasedTo(entries', job')
    BY <2>1, <2>3, <2>4 DEF LeasedTo, Idle
  <2>6. JobOK(job', entries', Len(ans))
    <3>1. StandsFor(p, revisions[p], input[p].content)
      BY DEF IInv, PlatesQuote
    <3>2. job' \in JobType /\ job'.revision = revisions[p] /\ job'.input = input[p]
      BY <1>1, <1>2, <1>4, <2>2 DEF JobType
    <3> QED  BY <3>1, <3>2, <1>1, <1>2, <1>4, <2>3, <2>4 DEF JobOK
  <2>7. PendingOK(NoJob, job', entries', Len(ans))
    BY DEF PendingOK
  <2>8. Unanswered(ans, {job'.task, NoJob.task})
    BY <1>4, <1>5, <2>4, UnansweredSame DEF Idle
  <2>9. Ended(job', Len(ans)) = t - 1
    BY <2>4 DEF Ended
  <2> QED  BY <2>2, <2>3, <2>5, <2>6, <2>7, <2>8, <2>9 DEF SliceOK
<1>7. CASE LaunchFails(es, t, p, ans)
  <2> DEFINE x == GivenUp(e)
  <2>1. /\ x \in EntryType /\ SameResult(x, e) /\ ~x.leased /\ x.task = e.task
    BY <1>3 DEF GivenUp, EntryType, Presentations, SameResult
  <2>2. x.task <= Len(ans)
    BY <1>1, <1>2, <2>1 DEF Idle, EntriesQuote
  <2>3. entries' = WithEntry(es, p, x) /\ answers' = Answered(ans, t) /\ job' = NoJob
    BY <1>7, <1>3 DEF LaunchFails
  <2>4. Unanswered(answers', {t} \ {t}) /\ Len(answers') = Len(ans)
    BY <1>4, <2>3, AnsweredTask DEF Idle
  <2>5. EntriesQuote(es, Len(ans), Len(ans))
    <3>1. EntriesQuote(es, Len(ans), t - 1)
      BY DEF Idle
    <3>2. \A q \in Plates : \A k \in 1..Len(es[q]) : es[q][k].generation \in Nat
      BY <1>2, EntryNumbers
    <3> QED  BY <1>4, <3>1, <3>2 DEF EntriesQuote
  <2> HIDE DEF x
  <2>6. /\ RegistryOK(entries') /\ EntriesQuote(entries', Len(ans), Len(ans))
        /\ \A q \in Plates :
             /\ Len(entries'[q]) = Len(es[q])
             /\ \A k \in 1..Len(es[q]) :
                  entries'[q][k] = IF q = p /\ k = Len(es[p]) THEN x ELSE es[q][k]
        /\ ReceiptsQuote(entries', rs) /\ ReceiptsCount(entries', rs)
    BY <1>1, <1>4, <2>1, <2>2, <2>3, <2>5, LastReplaced DEF Idle
  <2>7. LeasedTo(entries', NoJob)
    BY <2>1, <2>6 DEF LeasedTo, Idle
  <2>8. Unanswered(answers', {NoJob.task, NoJob.task})
    BY <1>5, <2>4, UnansweredSame
  <2>9. /\ JobOK(NoJob, entries', Len(ans)) /\ PendingOK(NoJob, NoJob, entries', Len(ans))
        /\ Ended(NoJob, Len(ans)) = Len(ans)
    BY DEF JobOK, PendingOK, Ended
  <2> QED  BY <2>3, <2>4, <2>6, <2>7, <2>8, <2>9 DEF SliceOK
<1> QED  BY <1>6, <1>7 DEF Launch

\* slice_for_plate() while a job is active: the newest request is the retained one.
LEMMA ReplaceOK ==
  ASSUME IInv, job # NoJob, NEW p \in plates, Len(answers) < MaxTasks, Replace(p)
  PROVE  /\ SliceOK(entries', job', pending', answers', receipts)
         /\ \A q \in Plates : Len(entries'[q]) = Len(entries[q])
<1> DEFINE e == entries[job.plate][job.incarnation]
           x == [e EXCEPT !.cancel = TRUE]
           n == Len(answers)
           asked == IF pending = NoJob THEN answers ELSE Answered(answers, pending.task)
<1>1. /\ job \in JobType /\ job.task \in 1..n /\ n \in Nat /\ e \in EntryType
      /\ answers \in Seq(Nat) /\ p \in Plates /\ plates \in SUBSET Plates /\ entries[p] # <<>>
      /\ entries \in [Plates -> Seq(EntryType)]
  BY JobEntry, SessionFacts
<1>2. /\ pending' = [task |-> n + 1, plate |-> p, incarnation |-> Len(entries[p])]
      /\ answers' = Append(asked, 0)
      /\ entries' = [entries EXCEPT ![job.plate][job.incarnation] = x]
      /\ job' = job
  BY DEF Replace
<1>3. x \in EntryType /\ SameEntry(x, e)
  <2> HIDE DEF e
  <2> QED  BY <1>1 DEF EntryType, SameEntry
<1> HIDE DEF x
<1>4. /\ entries' \in [Plates -> Seq(EntryType)]
      /\ \A q \in Plates :
           /\ Len(entries'[q]) = Len(entries[q])
           /\ \A i \in 1..Len(entries[q]) : SameEntry(entries'[q][i], entries[q][i])
  BY <1>2, <1>3, AskedToStop
<1>5. SliceOK(entries', job, pending, answers, receipts)
  BY <1>1, <1>4, SameRegistryOK DEF IInv
<1>6. Unanswered(asked, {job.task}) /\ Len(asked) = n
  <2>1. Unanswered(answers, {job.task, pending.task})
    BY <1>5 DEF SliceOK
  <2>2. CASE pending = NoJob
    <3>1. asked = answers /\ pending.task = 0
      BY <2>2 DEF NoJob, None
    <3> QED  BY <2>1, <3>1, UnansweredSame
  <2>3. CASE pending # NoJob
    <3>1. pending.task \in 1..n /\ job.task < pending.task
      BY <1>1, <1>5, <2>3 DEF SliceOK, PendingOK, RequestType
    <3>2. Unanswered(asked, {job.task, pending.task} \ {pending.task}) /\ Len(asked) = n
      BY <2>1, <2>3, <3>1, AnsweredTask
    <3> QED  BY <1>1, <3>1, <3>2, UnansweredSame
  <2> QED  BY <2>2, <2>3
<1> HIDE DEF asked
<1>7. Unanswered(answers', {job.task, n + 1}) /\ Len(answers') = n + 1
  <2>1. Unanswered(answers', {job.task} \cup {n + 1}) /\ Len(answers') = n + 1
    BY <1>2, <1>6, AcceptedTask
  <2> QED  BY <2>1, UnansweredSame
<1>8. pending' # NoJob /\ pending' \in RequestType /\ pending'.task = n + 1
  BY <1>1, <1>2, EmptySeq DEF RequestType, NoJob, None
<1>9. EntriesQuote(entries', n + 1, Ended(job, n + 1))
  <2>1. EntriesQuote(entries', n, Ended(job, n))
    BY <1>5 DEF SliceOK
  <2>2. Ended(job, n + 1) = Ended(job, n)
    BY DEF Ended
  <2>3. \A q \in Plates : \A i \in 1..Len(entries'[q]) :
          entries'[q][i].task \in Nat /\ entries'[q][i].producer \in Nat
    BY <1>4, EntryNumbers
  <2> QED  BY SMTT(40), <1>1, <2>1, <2>2, <2>3 DEF EntriesQuote
<1>10. JobOK(job, entries', n + 1) /\ PendingOK(pending', job, entries', n + 1)
  <2>1. JobOK(job, entries', n + 1)
    BY <1>1, <1>5 DEF SliceOK, JobOK, JobType
  <2> QED  BY <1>1, <1>2, <1>4, <1>8, <2>1 DEF PendingOK
<1>11. SliceOK(entries', job', pending', answers', receipts)
  BY <1>2, <1>5, <1>7, <1>8, <1>9, <1>10 DEF SliceOK
<1> QED  BY <1>4, <1>11

\* orc_slice_plate().
LEMMA SliceInvariant ==
  ASSUME IInv, NEW p \in Plates, Slice(p)
  PROVE  IInv'
<1>1. /\ p \in plates /\ Len(answers) < MaxTasks /\ receipts' = receipts
      /\ UNCHANGED <<input, revisions, nextStamp, past, transaction>>
  BY DEF Slice
<1>2. CASE job = NoJob
  <2> DEFINE t == Len(answers) + 1
             ans == Append(answers, 0)
  <2>1. Launch(entries, t, p, ans) /\ pending' = pending
    BY <1>2 DEF Slice
  <2>2. SliceOK(entries, NoJob, pending, answers, receipts) /\ Len(answers) \in Nat
    BY <1>2 DEF IInv, SliceOK, Unanswered
  <2>3. pending = NoJob
    BY <2>2 DEF SliceOK, PendingOK
  <2>4. Unanswered(answers, {NoJob.task, NoJob.task}) /\ NoJob.task = 0
    BY <2>2, <2>3 DEF SliceOK, NoJob, None
  <2>5. Unanswered(ans, {NoJob.task, NoJob.task} \cup {t}) /\ Len(ans) = t
    BY <1>1, <2>4, AcceptedTask
  <2> HIDE DEF t, ans
  <2>6. Unanswered(ans, {t}) /\ t \in 1..Len(ans)
    <3>1. t \in 1..Len(ans)
      BY <2>2, <2>5 DEF t
    <3>2. \A k \in 1..Len(ans) : k \in {t} <=> k \in {NoJob.task, NoJob.task} \cup {t}
      BY <2>4
    <3> QED  BY <2>5, <3>1, <3>2, UnansweredSame
  <2>7. EntriesQuote(entries, Len(ans), t - 1)
    <3>1. EntriesQuote(entries, t - 1, t - 1)
      BY <2>2 DEF SliceOK, Ended, t
    <3>2. \A q \in Plates : \A i \in 1..Len(entries[q]) :
            entries[q][i].task \in Nat /\ entries[q][i].producer \in Nat
      <4>1. entries \in [Plates -> Seq(EntryType)]
        BY <2>2 DEF SliceOK, RegistryOK
      <4> QED  BY <4>1, EntryNumbers
    <3>3. t \in Nat
      BY <2>2 DEF t
    <3> QED  BY <2>5, <3>1, <3>2, <3>3 DEF EntriesQuote
  <2>8. Idle(entries, t, ans, receipts)
    BY <2>2, <2>6, <2>7 DEF Idle, SliceOK
  <2>9. /\ SliceOK(entries', job', NoJob, answers', receipts)
        /\ \A q \in Plates : Len(entries'[q]) = Len(entries[q])
    BY <1>1, <2>1, <2>8, LaunchOK DEF t, ans
  <2>10. SliceOK(entries', job', pending', answers', receipts')
    BY <1>1, <2>1, <2>3, <2>9
  <2> QED  BY <1>1, <2>9, <2>10, SliceStep
<1>3. CASE job # NoJob
  <2>1. Replace(p)
    BY <1>3 DEF Slice
  <2>2. /\ SliceOK(entries', job', pending', answers', receipts')
        /\ \A q \in Plates : Len(entries'[q]) = Len(entries[q])
    BY <1>1, <1>3, <2>1, ReplaceOK
  <2> QED  BY <1>1, <2>2, SliceStep
<1> QED  BY <1>2, <1>3

\* What finalize_slice_task() makes of the entry of the job that ended.
LEMMA FinalizedCases ==
  ASSUME IInv, job # NoJob, NEW stored \in BOOLEAN
  PROVE  LET e == entries[job.plate][job.incarnation]
             done == Finalized(stored)
         IN  /\ done \in EntryType /\ ~done.leased /\ done.task = 0
             /\ \/ /\ ~IsLive(job.plate, job.incarnation)
                   /\ done = NewEntry /\ done.presentation = "invalid"
                \/ /\ IsLive(job.plate, job.incarnation)
                   /\ done.presentation = "invalid" /\ SameResult(done, e)
                \/ /\ IsLive(job.plate, job.incarnation)
                   /\ done.presentation = "valid" /\ done.generation = e.generation + 1
                   /\ done.sliced = job.input /\ done.completed = job.revision
                   /\ done.producer = job.task
<1> DEFINE e == entries[job.plate][job.incarnation]
           f == [e EXCEPT !.leased = FALSE, !.task = None, !.cancel = FALSE]
<1>1. /\ e \in EntryType /\ job.revision \in Nat /\ job.input \in Inputs /\ job.task \in Nat
  BY JobEntry DEF JobType
<1> HIDE DEF e
<1>2. /\ f \in EntryType /\ ~f.leased /\ f.task = 0 /\ SameResult(f, e)
  BY <1>1 DEF EntryType, SameResult, None
<1>3. Finalized(stored) =
        IF ~IsLive(job.plate, job.incarnation) THEN NewEntry
        ELSE IF Produces /\ stored
        THEN [f EXCEPT !.presentation = "valid", !.generation = @ + 1, !.sliced = job.input,
                       !.completed = job.revision, !.producer = job.task]
        ELSE [f EXCEPT !.presentation = "invalid"]
  BY DEF Finalized, e
<1> HIDE DEF f
<1>4. CASE ~IsLive(job.plate, job.incarnation)
  BY <1>3, <1>4, NewEntryType DEF NewEntry, None
<1>5. CASE IsLive(job.plate, job.incarnation) /\ Produces /\ stored
  <2> DEFINE g == [f EXCEPT !.presentation = "valid", !.generation = @ + 1, !.sliced = job.input,
                            !.completed = job.revision, !.producer = job.task]
  <2>1. Finalized(stored) = g
    BY <1>3, <1>5
  <2>2. f.generation + 1 \in Nat /\ job.input \in Inputs \cup {NoInput} /\ "valid" \in Presentations
    BY <1>1, <1>2 DEF EntryType, Presentations
  <2>3. g \in EntryType /\ ~g.leased /\ g.task = 0
    <3>1. g = [presentation |-> "valid", completed |-> job.revision, producer |-> job.task,
               generation |-> f.generation + 1, leased |-> f.leased, task |-> f.task,
               cancel |-> f.cancel, sliced |-> job.input]
      <4>1. f \in EntryType
        BY <1>2
      <4>2. DOMAIN f = {"presentation", "completed", "producer", "generation", "leased", "task",
                        "cancel", "sliced"}
        BY <4>1 DEF EntryType
      <4>3. f = [k \in DOMAIN f |-> f[k]]
        BY <4>1 DEF EntryType
      <4>4. DOMAIN g = DOMAIN f /\ g = [k \in DOMAIN g |-> g[k]]
        BY <4>3
      <4>5. /\ g.presentation = "valid" /\ g.completed = job.revision /\ g.producer = job.task
            /\ g.generation = f.generation + 1 /\ g.sliced = job.input
        BY <4>2, <4>3
      <4>6. g.leased = f.leased
        BY <4>2, <4>3
      <4>7. g.task = f.task
        BY <4>2, <4>3
      <4>8. g.cancel = f.cancel
        BY <4>2, <4>3
      <4> HIDE DEF g
      <4> QED  BY <4>2, <4>4, <4>5, <4>6, <4>7, <4>8
    <3>2. f.leased \in BOOLEAN /\ f.cancel \in BOOLEAN /\ f.task \in Nat /\ job.revision \in Int
      BY <1>1, <1>2 DEF EntryType
    <3>3. g.leased = f.leased /\ g.task = f.task
      BY <3>1
    <3>4. g \in EntryType
      <4> HIDE DEF g
      <4> QED  BY <1>1, <2>2, <3>1, <3>2 DEF EntryType
    <3> HIDE DEF g
    <3> QED  BY <1>2, <3>3, <3>4
  <2>4. /\ g.presentation = "valid" /\ g.generation = f.generation + 1 /\ g.sliced = job.input
        /\ g.completed = job.revision /\ g.producer = job.task
    BY <1>2 DEF EntryType
  <2>5. f.generation = e.generation
    BY <1>2 DEF SameResult
  <2> HIDE DEF g
  <2> QED  BY <1>5, <2>1, <2>3, <2>4, <2>5 DEF e
<1>6. CASE IsLive(job.plate, job.incarnation) /\ ~(Produces /\ stored)
  BY <1>1, <1>2, <1>3, <1>6 DEF EntryType, SameResult, Presentations, e
<1> QED  BY <1>4, <1>5, <1>6

\* The receipts after the terminal of the job was drained.
Reported(done) ==
  IF done.presentation = "valid"
  THEN receipts \cup {[plate |-> job.plate, incarnation |-> job.incarnation,
                       revision |-> job.revision, generation |-> done.generation,
                       input |-> done.sliced]}
  ELSE receipts

\* The registry, the answers and the receipts when the job has ended.
LEMMA FinishedOK ==
  ASSUME IInv, job # NoJob, NEW stored \in BOOLEAN
  PROVE  LET done == Finalized(stored)
             es == [entries EXCEPT ![job.plate][job.incarnation] = done]
             ans == Answered(answers, job.task)
         IN  /\ RegistryOK(es) /\ \A q \in Plates : Len(es[q]) = Len(entries[q])
             /\ EntriesQuote(es, Len(answers), job.task) /\ LeasedTo(es, NoJob)
             /\ Unanswered(ans, {pending.task}) /\ Len(ans) = Len(answers)
             /\ ReceiptsQuote(es, Reported(done)) /\ ReceiptsCount(es, Reported(done))
<1> DEFINE p == job.plate
           i == job.incarnation
           e == entries[p][i]
           done == Finalized(stored)
           es == [entries EXCEPT ![p][i] = done]
           ans == Answered(answers, job.task)
           n == Len(answers)
           live == IsLive(p, i)
<1>1. /\ job \in JobType /\ p \in Plates /\ i \in 1..Len(entries[p]) /\ i \in Nat \ {0}
      /\ job.task \in Nat \ {0} /\ job.task \in 1..n /\ n \in Nat
      /\ entries \in [Plates -> Seq(EntryType)] /\ e \in EntryType
  BY JobEntry DEF JobType
<1>2. /\ job.revision < nextStamp /\ StandsFor(p, job.revision, job.input.content)
      /\ job.revision \in Nat /\ job.input \in Inputs
  BY <1>1 DEF IInv, SliceOK, JobOK, JobType
<1>3. /\ RegistryOK(entries) /\ EntriesQuote(entries, n, job.task - 1) /\ LeasedTo(entries, job)
      /\ Unanswered(answers, {job.task, pending.task})
      /\ ReceiptsQuote(entries, receipts) /\ ReceiptsCount(entries, receipts)
      /\ PendingOK(pending, job, entries, n)
  BY DEF IInv, SliceOK, Ended
<1>4. live <=> p \in plates /\ i = Len(entries[p])
  BY DEF IsLive
<1>5. /\ done \in EntryType /\ ~done.leased /\ done.task = 0
      /\ \/ ~live /\ done = NewEntry /\ done.presentation = "invalid"
         \/ live /\ done.presentation = "invalid" /\ SameResult(done, e)
         \/ /\ live /\ done.presentation = "valid" /\ done.generation = e.generation + 1
            /\ done.sliced = job.input /\ done.completed = job.revision
            /\ done.producer = job.task
  BY FinalizedCases
<1> HIDE DEF done, live
<1>6. /\ es \in [Plates -> Seq(EntryType)]
      /\ \A q \in Plates : /\ Len(es[q]) = Len(entries[q])
                           /\ \A k \in 1..Len(entries[q]) :
                                es[q][k] = IF q = p /\ k = i THEN done ELSE entries[q][k]
  <2> HIDE DEF p, i, e
  <2> QED  BY <1>1, <1>5, ReplaceEntry
<1> HIDE DEF es
<1>7. RegistryOK(es)
  <2>1. \A q \in Plates : es[q] \in Seq(EntryType) /\ entries[q] \in Seq(EntryType)
    BY <1>1, <1>6
  <2>2. \A q \in plates : q \in Plates /\ entries[q] # <<>>
    BY SessionFacts
  <2>3. \A q \in plates : es[q] # <<>>
    BY <1>6, <2>1, <2>2, EmptySeq
  <2> QED  BY <1>6, <2>3 DEF RegistryOK
<1>8. ASSUME NEW q \in Plates, NEW k \in 1..Len(es[q])
      PROVE  /\ -1 <= es[q][k].completed /\ es[q][k].completed < nextStamp
             /\ es[q][k].completed # -1 => StandsFor(q, es[q][k].completed, es[q][k].sliced.content)
             /\ es[q][k].task <= n /\ es[q][k].producer <= n /\ es[q][k].generation <= job.task
  <2>1. /\ -1 <= entries[q][k].completed /\ entries[q][k].completed < nextStamp
        /\ entries[q][k].completed # -1 =>
             StandsFor(q, entries[q][k].completed, entries[q][k].sliced.content)
        /\ entries[q][k].task <= n /\ entries[q][k].producer <= n
        /\ entries[q][k].generation <= job.task - 1 /\ entries[q][k].generation \in Nat
    BY <1>1, <1>3, <1>6, EntryNumbers DEF EntriesQuote
  <2>2. CASE ~(q = p /\ k = i)
    BY <1>1, <1>6, <2>1, <2>2
  <2>3. CASE q = p /\ k = i /\ SameResult(done, e)
    BY SMTT(40), <1>1, <1>5, <1>6, <2>1, <2>3 DEF SameResult
  <2>4. CASE q = p /\ k = i /\ done = NewEntry
    BY <1>1, <1>5, <1>6, <2>4, SessionFacts DEF NewEntry, None
  <2>5. CASE /\ q = p /\ k = i /\ done.generation = e.generation + 1
             /\ done.sliced = job.input /\ done.completed = job.revision
             /\ done.producer = job.task
    <3>1. es[q][k] = done
      BY <1>6, <2>5
    <3>2. entries[q][k].generation = e.generation
      BY <2>5
    <3> QED  BY SMTT(40), <1>1, <1>2, <1>5, <2>1, <2>5, <3>1, <3>2
  <2> QED  BY <1>5, <2>2, <2>3, <2>4, <2>5
<1>9. EntriesQuote(es, n, job.task)
  BY <1>8 DEF EntriesQuote
<1>10. LeasedTo(es, NoJob)
  BY <1>3, <1>5, <1>6 DEF LeasedTo
<1>11. Unanswered(ans, {pending.task}) /\ Len(ans) = n
  <2> DEFINE ts == {job.task, pending.task}
             t == job.task
  <2>1. Unanswered(answers, ts) /\ t \in ts /\ t \in 1..Len(answers)
    BY <1>1, <1>3
  <2>2. pending.task # t
    BY <1>1, <1>3 DEF PendingOK, RequestType, NoJob, None
  <2>3. \A k : k \in {pending.task} <=> k \in ts \ {t}
    BY <2>2
  <2>4. ans = Answered(answers, t)
    OBVIOUS
  <2> HIDE DEF ts, t, ans
  <2>5. Unanswered(ans, ts \ {t}) /\ Len(ans) = n
    BY <2>1, <2>4, AnsweredTask
  <2> QED  BY <2>3, <2>5, UnansweredSame
<1>12. ReceiptsQuote(es, Reported(done))
  <2>1. ReceiptsQuote(es, receipts)
    BY <1>3, <1>6 DEF ReceiptsQuote, ReceiptType
  <2>2. CASE done.presentation # "valid"
    BY <2>1, <2>2 DEF Reported
  <2>3. CASE done.presentation = "valid"
    <3> DEFINE r == [plate |-> p, incarnation |-> i, revision |-> job.revision,
                     generation |-> done.generation, input |-> done.sliced]
    <3>1. done.sliced = job.input /\ done.generation \in Nat
      BY <1>5, <2>3 DEF EntryType
    <3>2. r \in ReceiptType
      BY <1>1, <1>2, <3>1 DEF ReceiptType
    <3>3. r.incarnation <= Len(es[r.plate])
      BY <1>1, <1>6
    <3>4. r.revision < nextStamp /\ StandsFor(r.plate, r.revision, r.input.content)
      BY <1>2, <3>1
    <3>5. Reported(done) = receipts \cup {r}
      BY <2>3 DEF Reported
    <3> HIDE DEF r
    <3> QED  BY <2>1, <3>2, <3>3, <3>4, <3>5 DEF ReceiptsQuote
  <2> QED  BY <2>2, <2>3
<1>13. ReceiptsCount(es, Reported(done))
  <2> SUFFICES ASSUME NEW r \in Reported(done), r.plate \in plates, r.incarnation = Len(es[r.plate])
      PROVE  /\ r.generation <= es[r.plate][r.incarnation].generation
             /\ r.generation = es[r.plate][r.incarnation].generation
                  => es[r.plate][r.incarnation].sliced = r.input
    BY DEF ReceiptsCount
  <2>1. /\ r \in ReceiptType /\ r.plate \in Plates /\ r.generation \in Nat
        /\ r.incarnation \in 1..Len(entries[r.plate]) /\ r.incarnation = Len(entries[r.plate])
    BY <1>6, <1>12 DEF ReceiptsQuote, ReceiptType
  <2>2. CASE r \in receipts
    <3>1. /\ r.generation <= entries[r.plate][r.incarnation].generation
          /\ r.generation = entries[r.plate][r.incarnation].generation
               => entries[r.plate][r.incarnation].sliced = r.input
          /\ entries[r.plate][r.incarnation].generation \in Nat
      BY <1>1, <1>3, <2>1, <2>2, EntryNumbers DEF ReceiptsCount
    <3>2. CASE ~(r.plate = p /\ r.incarnation = i)
      BY <1>6, <2>1, <3>1, <3>2
    <3>3. CASE r.plate = p /\ r.incarnation = i
      <4>1. live /\ es[r.plate][r.incarnation] = done
        BY <1>4, <1>6, <2>1, <3>3
      <4> QED  BY <1>5, <2>1, <3>1, <3>3, <4>1 DEF SameResult
    <3> QED  BY <3>2, <3>3
  <2>3. CASE r \notin receipts
    <3>1. r = [plate |-> p, incarnation |-> i, revision |-> job.revision,
               generation |-> done.generation, input |-> done.sliced]
      BY <2>3 DEF Reported
    <3>2. r.plate = p /\ r.incarnation = i /\ r.generation = done.generation /\ r.input = done.sliced
      BY <3>1
    <3>3. es[r.plate][r.incarnation] = done
      BY <1>6, <2>1, <3>2
    <3> QED  BY <2>1, <3>2, <3>3
  <2> QED  BY <2>2, <2>3
<1> QED  BY <1>6, <1>7, <1>9, <1>10, <1>11, <1>12, <1>13 DEF es, done

\* orc_drain_async_task_mailbox() reaches the terminal.
LEMMA DrainInvariant ==
  ASSUME IInv, Drain
  PROVE  IInv'
<1>1. /\ job # NoJob
      /\ UNCHANGED <<input, revisions, nextStamp, past, transaction>>
  BY DEF Drain
<1>2. PICK stored \in BOOLEAN :
        /\ StartPending([entries EXCEPT ![job.plate][job.incarnation] = Finalized(stored)],
                        Answered(answers, job.task))
        /\ receipts' = Reported(Finalized(stored))
  BY DEF Drain, Reported
<1> DEFINE es == [entries EXCEPT ![job.plate][job.incarnation] = Finalized(stored)]
           ans == Answered(answers, job.task)
           rs == Reported(Finalized(stored))
           n == Len(answers)
<1>3. /\ RegistryOK(es) /\ \A q \in Plates : Len(es[q]) = Len(entries[q])
      /\ EntriesQuote(es, n, job.task) /\ LeasedTo(es, NoJob)
      /\ Unanswered(ans, {pending.task}) /\ Len(ans) = n
      /\ ReceiptsQuote(es, rs) /\ ReceiptsCount(es, rs)
  BY <1>1, FinishedOK
<1>4. StartPending(es, ans) /\ receipts' = rs
  BY <1>2
<1>5. /\ job.task \in 1..n /\ n \in Nat /\ PendingOK(pending, job, entries, n)
      /\ NoJob.task = 0 /\ es \in [Plates -> Seq(EntryType)]
  BY <1>1, <1>3, JobEntry DEF IInv, SliceOK, NoJob, None, RegistryOK
<1> HIDE DEF es, ans, rs, n
<1>6. \A q \in Plates : \A k \in 1..Len(es[q]) : es[q][k].generation \in Nat
  BY <1>5, EntryNumbers
<1>7. EntriesQuote(es, n, n)
  BY <1>3, <1>5, <1>6 DEF EntriesQuote
<1>8. ASSUME NEW bs, Unanswered(bs, {}), Len(bs) = n
      PROVE  SliceOK(es, NoJob, NoJob, bs, rs)
  <2>1. Unanswered(bs, {NoJob.task, NoJob.task})
    BY <1>5, <1>8, UnansweredSame
  <2>2. /\ JobOK(NoJob, es, n) /\ PendingOK(NoJob, NoJob, es, n) /\ Ended(NoJob, n) = n
    BY DEF JobOK, PendingOK, Ended
  <2> QED  BY <1>3, <1>7, <1>8, <2>1, <2>2 DEF SliceOK
<1>9. /\ SliceOK(entries', job', pending', answers', rs)
      /\ \A q \in Plates : Len(entries'[q]) = Len(entries[q])
  <2>1. CASE pending = NoJob
    <3>1. Unanswered(ans, {})
      BY <1>3, <1>5, <2>1, UnansweredSame
    <3> QED  BY <1>3, <1>4, <1>8, <2>1, <3>1 DEF StartPending
  <2>2. CASE pending # NoJob
    <3>1. pending.task \in 1..n /\ job.task < pending.task
      BY <1>5, <2>2 DEF PendingOK, RequestType
    <3>2. pending' = NoJob
      BY <1>4, <2>2 DEF StartPending
    <3>3. CASE entries' = es /\ job' = NoJob /\ answers' = Answered(ans, pending.task)
      <4>1. Unanswered(answers', {pending.task} \ {pending.task}) /\ Len(answers') = n
        BY <1>3, <3>1, <3>3, AnsweredTask
      <4>2. Unanswered(answers', {})
        BY <4>1, UnansweredSame
      <4> QED  BY <1>3, <1>8, <3>2, <3>3, <4>1, <4>2
    <3>4. CASE /\ IsLive(pending.plate, pending.incarnation)
               /\ Launch(es, pending.task, pending.plate, ans)
      <4>1. EntriesQuote(es, n, pending.task - 1)
        BY SMTT(40), <1>3, <1>5, <1>6, <3>1 DEF EntriesQuote
      <4>2. Idle(es, pending.task, ans, rs)
        BY <1>3, <3>1, <4>1 DEF Idle
      <4>3. pending.plate \in plates
        BY <3>4 DEF IsLive
      <4> QED  BY <1>3, <3>2, <3>4, <4>2, <4>3, LaunchOK
    <3> QED  BY <1>4, <2>2, <3>3, <3>4 DEF StartPending
  <2> QED  BY <2>1, <2>2
<1> QED  BY <1>1, <1>4, <1>9, SliceStep

-----------------------------------------------------------------------------
(* The theorems *)

LEMMA InitInvariant == Init => IInv
<1> SUFFICES ASSUME Init PROVE IInv
  OBVIOUS
<1>1. PICK ps \in (SUBSET Plates) \ {{}}, held \in Inputs : input = [p \in ps |-> held]
  BY DEF Init
<1>2. /\ plates = ps /\ IsSession(input) /\ \A p \in plates : input[p] = held
  BY <1>1 DEF plates, IsSession
<1>3. /\ revisions = [p \in Plates |-> 0] /\ nextStamp = 1 /\ past = {input}
      /\ job = NoJob /\ pending = NoJob /\ answers = <<>> /\ receipts = {}
      /\ transaction = NoTransaction
      /\ entries = [p \in Plates |-> IF p \in plates THEN <<NewEntry>> ELSE <<>>]
  BY DEF Init
<1>4. SessionOK
  BY <1>2, <1>3, RuntimeAssumption DEF SessionOK
<1>5. TransactionOK /\ PlatesQuote
  BY <1>3 DEF TransactionOK, PlatesQuote, StandsFor, NoTransaction
<1>6. RegistryOK(entries)
  <2>1. <<NewEntry>> \in Seq(EntryType) /\ <<>> \in Seq(EntryType) /\ <<NewEntry>> # <<>>
    BY NewEntryType
  <2>2. plates \in SUBSET Plates
    BY <1>1, <1>2
  <2> HIDE DEF NewEntry
  <2> QED  BY <1>3, <2>1, <2>2 DEF RegistryOK
<1>7. \A p \in Plates : \A i \in 1..Len(entries[p]) : entries[p][i] = NewEntry
  BY <1>3
<1>8. EntriesQuote(entries, 0, 0) /\ LeasedTo(entries, NoJob)
  BY <1>3, <1>7 DEF EntriesQuote, LeasedTo, NewEntry, None
<1>9. Len(answers) = 0 /\ Unanswered(answers, {job.task, pending.task})
  BY <1>3, RuntimeAssumption DEF Unanswered
<1>10. /\ JobOK(NoJob, entries, 0) /\ PendingOK(NoJob, NoJob, entries, 0) /\ Ended(NoJob, 0) = 0
       /\ ReceiptsQuote(entries, {}) /\ ReceiptsCount(entries, {})
  BY DEF JobOK, PendingOK, Ended, ReceiptsQuote, ReceiptsCount
<1>11. SliceOK(entries, job, pending, answers, receipts)
  BY <1>3, <1>6, <1>8, <1>9, <1>10 DEF SliceOK
<1> QED  BY <1>4, <1>5, <1>11 DEF IInv

LEMMA NextInvariant == IInv /\ [Next]_vars => IInv'
<1> SUFFICES ASSUME IInv, [Next]_vars PROVE IInv'
  OBVIOUS
<1>1. ASSUME NEW p \in Plates, Slice(p)
      PROVE  IInv'
  BY <1>1, SliceInvariant
<1>2. ASSUME NEW outcome \in {"completed", "failed"}, ProcessEnds(outcome)
      PROVE  IInv'
  BY <1>2, ProcessEndsInvariant
<1>3. CASE Drain
  BY <1>3, DrainInvariant
<1>4. CASE CancelSlice
  BY <1>4, CancelSliceInvariant
<1>5. ASSUME NEW target \in past, HistoryRestore(target)
      PROVE  IInv'
  BY <1>5, HistoryRestoreInvariant
<1>6. ASSUME NEW dropped \in SUBSET plates, NEW affected \in SUBSET plates,
             RestoreFails(dropped, affected)
      PROVE  IInv'
  BY <1>6, RestoreFailsInvariant
<1>7. CASE BeginTransaction
  BY <1>7, BeginTransactionInvariant
<1>8. CASE CommitTransaction
  BY <1>8, EndedInvariant DEF CommitTransaction
<1>9. CASE AbortUnchanged
  BY <1>9, EndedInvariant DEF AbortUnchanged
<1>10. CASE AbortTransaction
  BY <1>10, AbortTransactionInvariant
<1>11. ASSUME NEW ps \in SUBSET plates, NEW v \in Inputs, Edit(ps, v)
       PROVE  IInv'
  BY <1>11, EditInvariant
<1>12. ASSUME NEW p \in Plates, NEW held \in Inputs, NEW moved \in SUBSET plates,
              AddPlate(p, held, moved)
       PROVE  IInv'
  BY <1>12, AddPlateInvariant
<1>13. ASSUME NEW p \in plates, NEW moved \in SUBSET plates, DeletePlate(p, moved)
       PROVE  IInv'
  BY <1>13, DeletePlateInvariant
<1>14. CASE UNCHANGED vars
  <2>1. /\ UNCHANGED <<input, entries, revisions, nextStamp, past, transaction>>
        /\ job' = job /\ pending' = pending /\ answers' = answers /\ receipts' = receipts
    BY <1>14 DEF vars, sliceVars
  <2>2. SliceOK(entries', job', pending', answers', receipts')
    BY <2>1 DEF IInv
  <2> QED  BY <2>1, <2>2, SliceStep
<1> QED
  BY <1>1, <1>2, <1>3, <1>4, <1>5, <1>6, <1>7, <1>8, <1>9, <1>10, <1>11, <1>12, <1>13, <1>14
  DEF Next

\* In every state, what a plate, an entry, a job and a receipt quote is what the stamp of
\* the plate stands for.
THEOREM RuntimeInvariance == Spec => []IInv
BY InitInvariant, NextInvariant, PTL DEF Spec

\* A result that Preview, Export and Send may read was made from the content its plate
\* holds now, with any number of plates, slices, restores and transactions.
THEOREM PublishedResultsAreCurrent == Spec => []PublishedIsCurrent
<1>1. IInv => PublishedIsCurrent
  <2> SUFFICES ASSUME IInv, NEW p \in plates, Publishable(p)
      PROVE  Entry(p).sliced.content = input[p].content
    BY DEF PublishedIsCurrent
  <2> DEFINE i == Len(entries[p])
             e == entries[p][i]
  <2>1. p \in Plates /\ entries[p] \in Seq(EntryType) /\ i \in 1..Len(entries[p])
    BY SessionFacts, EmptySeq DEF RegistryOK
  <2>2. Entry(p) = e /\ e.completed = revisions[p] /\ revisions[p] \in Nat
    BY <2>1, SessionFacts, RuntimeAssumption DEF Publishable, Entry, Last, SessionOK
  <2>3. e.completed # -1 => StandsFor(p, e.completed, e.sliced.content)
    BY <2>1 DEF IInv, SliceOK, EntriesQuote
  <2> QED  BY <2>2, <2>3 DEF StandsFor
<1> QED  BY <1>1, RuntimeInvariance, PTL

\* A receipt names one content for ever, also when its plate was deleted and came back,
\* and one result while the plate stays.
THEOREM ReceiptsNameOneResult == Spec => []ReceiptsStayTrue
<1>1. IInv => ReceiptsStayTrue
  <2> SUFFICES ASSUME IInv, NEW r \in receipts, Publishable(r.plate),
                      revisions[r.plate] = r.revision,
                      Entry(r.plate).generation = r.generation
      PROVE  /\ Entry(r.plate).sliced.content = r.input.content
             /\ r.incarnation = Len(entries[r.plate]) => Entry(r.plate).sliced = r.input
    BY DEF ReceiptsStayTrue
  <2> DEFINE i == Len(entries[r.plate])
             e == entries[r.plate][i]
  <2>1. /\ r \in ReceiptType /\ r.plate \in Plates /\ r.plate \in plates
        /\ entries[r.plate] \in Seq(EntryType) /\ i \in 1..Len(entries[r.plate])
    BY SessionFacts, EmptySeq DEF RegistryOK, Publishable, ReceiptType, IInv, SliceOK, ReceiptsQuote
  <2>2. Entry(r.plate) = e /\ e.completed = r.revision /\ r.revision \in Nat
    BY <2>1 DEF Publishable, Entry, Last, ReceiptType
  <2>3. e.completed # -1 => StandsFor(r.plate, e.completed, e.sliced.content)
    BY <2>1 DEF IInv, SliceOK, EntriesQuote
  <2>4. StandsFor(r.plate, r.revision, r.input.content)
    BY DEF IInv, SliceOK, ReceiptsQuote
  <2>5. e.sliced.content = input[r.plate].content /\ r.input.content = input[r.plate].content
    BY <2>1, <2>2, <2>3, <2>4 DEF StandsFor
  <2>6. r.incarnation = i => e.sliced = r.input
    BY <2>1, <2>2 DEF IInv, SliceOK, ReceiptsCount
  <2> QED  BY <2>2, <2>5, <2>6
<1> QED  BY <1>1, RuntimeInvariance, PTL

\* Every accepted request gets one terminal: none while it is the active job or the
\* retained request, and no second one.
THEOREM RequestsAnsweredOnce == Spec => []AnsweredOnce
<1>1. IInv => AnsweredOnce
  BY DEF IInv, SliceOK, Unanswered, AnsweredOnce
<1> QED  BY <1>1, RuntimeInvariance, PTL

\* The runtime keeps its types, and the one lease is that of the active job.
THEOREM RegistryKept == Spec => []RegistryConsistent
<1>1. IInv => RegistryConsistent
  <2> SUFFICES ASSUME IInv PROVE RegistryConsistent
    OBVIOUS
  <2>1. /\ SessionOK /\ RegistryOK(entries) /\ LeasedTo(entries, job)
        /\ EntriesQuote(entries, Len(answers), Ended(job, Len(answers)))
        /\ JobOK(job, entries, Len(answers)) /\ Unanswered(answers, {job.task, pending.task})
    BY DEF IInv, SliceOK
  <2>2. \A p \in Plates : entries[p] \in Seq(EntryType) /\ DOMAIN entries[p] = 1..Len(entries[p])
    BY <2>1 DEF RegistryOK
  <2>3. LeaseIsTheJob
    BY <2>1, <2>2 DEF LeaseIsTheJob, LeasedTo
  <2>4. /\ Len(answers) \in Nat /\ Len(answers) <= MaxTasks /\ MaxTasks \in Nat
        /\ Ended(job, Len(answers)) <= MaxTasks /\ Ended(job, Len(answers)) \in Int
    BY <2>1, RuntimeAssumption, LenProperties DEF Unanswered, Ended, JobOK, JobType
  <2>5. ASSUME NEW p \in Plates, NEW i \in DOMAIN entries[p]
        PROVE  entries[p][i] \in [presentation : Presentations, completed : -1..MaxStamps,
                          producer : 0..MaxTasks, generation : 0..MaxTasks,
                          leased : BOOLEAN, task : 0..MaxTasks, cancel : BOOLEAN,
                          sliced : Inputs \cup {NoInput}]
    <3> DEFINE e == entries[p][i]
    <3>1. i \in 1..Len(entries[p]) /\ e \in EntryType
      BY <2>2, ElementOfSeq
    <3>2. /\ -1 <= e.completed /\ e.completed < nextStamp /\ e.task <= Len(answers)
          /\ e.producer <= Len(answers) /\ e.generation <= Ended(job, Len(answers))
      BY <2>1, <3>1 DEF EntriesQuote
    <3>3. nextStamp \in 1..MaxStamps + 1 /\ MaxStamps \in Nat
      BY <2>1, RuntimeAssumption DEF SessionOK
    <3> HIDE DEF e
    <3>4. /\ e.completed \in -1..MaxStamps /\ e.producer \in 0..MaxTasks
          /\ e.generation \in 0..MaxTasks /\ e.task \in 0..MaxTasks
      BY <2>4, <3>1, <3>2, <3>3 DEF EntryType
    <3>5. e \in [presentation : Presentations, completed : -1..MaxStamps,
                 producer : 0..MaxTasks, generation : 0..MaxTasks,
                 leased : BOOLEAN, task : 0..MaxTasks, cancel : BOOLEAN,
                 sliced : Inputs \cup {NoInput}]
      BY <3>1, <3>4 DEF EntryType
    <3> QED  BY <3>5 DEF e
  <2>6. \A t \in DOMAIN answers : answers[t] \in Nat
    BY <2>1 DEF Unanswered
  <2>7. plates \in (SUBSET Plates) \ {{}} /\ input \in [plates -> Inputs]
    BY <2>1 DEF SessionOK, IsSession, plates
  <2>8. TypeOK
    BY <2>1, <2>5, <2>6, <2>7 DEF TypeOK, SessionOK, RegistryOK
  <2> QED  BY <2>3, <2>8 DEF RegistryConsistent
<1> QED  BY <1>1, RuntimeInvariance, PTL
=============================================================================
