------------------------ MODULE DownloadTasks_proofs ------------------------
(***************************************************************************)
(* What holds of the reader queue, and of the download tasks on top of it, *)
(* for every number of printers, slots, requests and attempts.             *)
(*                                                                         *)
(* The queue comes first and speaks of its own specification only.  Its    *)
(* invariant adds to the checked ones that a ticket that has been started  *)
(* and is not finished is the first of its printer; two readers of one     *)
(* printer would each be the first.                                        *)
(*                                                                         *)
(* The download tasks implement the queue: whatever the tasks, the videos  *)
(* and the renderer do, the variables of the queue take a step of its own  *)
(* specification or none.  What is proved of the queue holds of the tasks. *)
(*                                                                         *)
(* The tasks themselves agree with the queue and with the renderer: of     *)
(* every task the invariant says which ticket it owns, what the queue does *)
(* with that ticket, and what the renderer has been told (TaskOK).         *)
(***************************************************************************)
EXTENDS DownloadTasks, FiniteSetTheorems, SequenceTheorems, WellFoundedInduction, TLAPS

(* The queue *)

\* A started, unfinished ticket heads the line of its printer.
Heads ==
  \A t \in In({"running", "stopping", "blocked"}) :
    \A u \in Before(t) : state[u] = "finished"

IInv == TypeOK /\ BudgetKept /\ Heads

-----------------------------------------------------------------------------
(* Sets of tickets *)

\* A set of tickets is finite, and so are its subsets.
LEMMA TicketsFinite ==
  ASSUME TypeOK, NEW S, S \subseteq Tickets
  PROVE  IsFiniteSet(S) /\ Cardinality(S) \in Nat
<1>1. admitted \in Int
  BY QueueAssumption DEF TypeOK
<1>2. IsFiniteSet(Tickets)
  BY <1>1, FS_Interval DEF Tickets
<1> QED  BY <1>2, FS_Subset, FS_CardinalityType

\* A set of tickets that is not empty has a last one.
LEMMA LastTicket ==
  ASSUME TypeOK, NEW S, S \subseteq Tickets, S # {}
  PROVE  \E m \in S : \A t \in S : t <= m
<1> DEFINE After(t) == {u \in S : t < u}
           T == {After(t) : t \in S}
<1>1. \A t \in S : t \in Int
  BY DEF Tickets
<1>2. IsFiniteSet(S)
  BY TicketsFinite
<1>3. T \subseteq FiniteSubsetsOf(S) /\ T # {}
  <2>1. FiniteSubsetsOf(S) = SUBSET S
    BY <1>2, FS_FiniteSubsetsOfFinite
  <2>2. \A t \in S : After(t) \in SUBSET S
    OBVIOUS
  <2> HIDE DEF After
  <2>3. \A y \in T : y \in SUBSET S
    BY <2>2
  <2>4. \E y : y \in T
    OBVIOUS
  <2> HIDE DEF T
  <2> QED  BY <2>1, <2>3, <2>4
<1>4. PICK x \in T : \A y \in T : <<y, x>> \notin StrictSubsetOrdering(S)
  <2> HIDE DEF T
  <2> QED  BY <1>3, FS_StrictSubsetOrderingWellFounded, WFMin
<1>5. PICK m \in S : x = After(m)
  OBVIOUS
<1>6. ASSUME NEW t \in S, m < t
      PROVE  FALSE
  <2>1. After(t) \in T /\ After(t) \subseteq After(m) /\ After(m) \subseteq S
    BY <1>1, <1>6
  <2>2. t \in After(m) /\ t \notin After(t)
    BY <1>1, <1>6
  <2>3. <<After(t), After(m)>> \in StrictSubsetOrdering(S)
    BY <2>1, <2>2 DEF StrictSubsetOrdering
  <2> QED  BY <1>4, <1>5, <2>1, <2>3
<1> QED  BY <1>1, <1>6

\* One pump starts no more readers than there are free slots.
LEMMA StartedFits ==
  ASSUME IInv
  PROVE  active + Cardinality(Started) <= MaxActive
<1>1. TypeOK /\ active \in Nat /\ active <= MaxActive /\ MaxActive \in Nat
  BY QueueAssumption DEF IInv, TypeOK, BudgetKept
<1>2. Started \subseteq Eligible /\ Eligible \subseteq Tickets
  BY DEF Started, Eligible, In
<1>3. CASE Started = {}
  BY <1>1, <1>3, FS_EmptySet
<1>4. CASE Started # {}
  <2>1. PICK m \in Started : \A t \in Started : t <= m
    BY <1>1, <1>2, <1>4, LastTicket
  <2> DEFINE Earlier == {u \in Eligible : u < m}
  <2>2. active + Cardinality(Earlier) < MaxActive
    BY <2>1 DEF Started
  <2>3. IsFiniteSet(Earlier) /\ Cardinality(Earlier) \in Nat
    BY <1>1, <1>2, TicketsFinite
  <2>4. \A t \in Started : t \in Int /\ m \in Int
    BY <1>1, <1>2, <2>1 DEF Tickets
  <2>5. Started \subseteq Earlier \cup {m}
    BY <1>2, <2>1, <2>4
  <2>6. /\ IsFiniteSet(Earlier \cup {m})
        /\ Cardinality(Earlier \cup {m}) <= Cardinality(Earlier) + 1
    BY <2>3, FS_AddElement
  <2>7. /\ Cardinality(Started) <= Cardinality(Earlier \cup {m})
        /\ Cardinality(Started) \in Nat /\ Cardinality(Earlier \cup {m}) \in Nat
    BY <2>5, <2>6, FS_Subset, FS_CardinalityType
  <2> HIDE DEF Earlier
  <2> QED  BY <1>1, <2>2, <2>3, <2>6, <2>7
<1> QED  BY <1>3, <1>4

-----------------------------------------------------------------------------
(* The steps *)

\* The readers and the counter agree after a step that moves no slot.
LEMMA SlotsUnmoved ==
  ASSUME IInv, TypeOK', active' = active, Reading' = Reading
  PROVE  BudgetKept'
BY DEF IInv, BudgetKept

\* The empty queue.
LEMMA InitInvariant == Init => IInv
<1> SUFFICES ASSUME Init PROVE IInv
  OBVIOUS
<1>1. Tickets = {} /\ 0 \in 0..MaxTickets
  BY QueueAssumption DEF Init, Tickets
<1>2. TypeOK
  <2>1. \A X : <<>> \in [{} -> X]
    OBVIOUS
  <2> QED  BY <1>1, <2>1 DEF Init, TypeOK
<1>3. Reading = {}
  BY <1>1 DEF Reading, In
<1>4. BudgetKept
  BY <1>3, FS_EmptySet, QueueAssumption DEF Init, BudgetKept
<1> QED  BY <1>1, <1>2, <1>4 DEF IInv, Heads, In

\* The requests of a batch join at the end and wait.
LEMMA AdmitStep ==
  ASSUME IInv, NEW n \in 1..MaxTickets, NEW keys \in [1..n -> Printers], Admit(n, keys)
  PROVE  IInv'
<1>1. /\ admitted \in Nat /\ n \in Nat /\ admitted' = admitted + n /\ admitted' <= MaxTickets
      /\ Tickets = 1..admitted /\ Tickets' = 1..admitted + n
  BY QueueAssumption DEF IInv, TypeOK, Admit, Tickets
<1>2. Tickets \subseteq Tickets'
  BY <1>1
<1>3. /\ \A t \in Tickets : /\ printer'[t] = printer[t] /\ state'[t] = state[t]
                             /\ attempt'[t] = attempt[t] /\ outcome'[t] = outcome[t]
      /\ \A t \in Tickets' \ Tickets : /\ printer'[t] \in Printers /\ state'[t] = "waiting"
                                        /\ attempt'[t] = 0 /\ outcome'[t] = "pending"
  <2>1. /\ \A t \in Tickets : t \in 1..admitted + n /\ t <= admitted
        /\ \A t \in Tickets' \ Tickets : /\ t \in 1..admitted + n /\ ~(t <= admitted)
                                         /\ keys[t - admitted] \in Printers
    BY <1>1
  <2> QED  BY <1>1, <2>1 DEF Admit
<1>4. TypeOK'
  <2>1. /\ printer' \in [Tickets' -> Printers] /\ state' \in [Tickets' -> States]
        /\ attempt' \in [Tickets' -> Nat] /\ outcome' \in [Tickets' -> Outcomes]
    <3>1. /\ printer' = [t \in Tickets' |-> printer'[t]]
          /\ state' = [t \in Tickets' |-> state'[t]]
          /\ attempt' = [t \in Tickets' |-> attempt'[t]]
          /\ outcome' = [t \in Tickets' |-> outcome'[t]]
      BY <1>1 DEF Admit
    <3>2. \A t \in Tickets' : /\ printer'[t] \in Printers /\ state'[t] \in States
                              /\ attempt'[t] \in Nat /\ outcome'[t] \in Outcomes
      <4> SUFFICES ASSUME NEW t \in Tickets'
                   PROVE  /\ printer'[t] \in Printers /\ state'[t] \in States
                          /\ attempt'[t] \in Nat /\ outcome'[t] \in Outcomes
        OBVIOUS
      <4>1. CASE t \in Tickets
        BY <1>3, <4>1 DEF IInv, TypeOK
      <4>2. CASE t \notin Tickets
        BY <1>3, <4>2 DEF States, Outcomes
      <4> QED  BY <4>1, <4>2
    <3> QED  BY <3>1, <3>2
  <2>2. admitted' \in 0..MaxTickets
    BY <1>1, QueueAssumption
  <2> QED  BY <2>1, <2>2 DEF IInv, TypeOK, Admit, Schedule
<1>5. In({"running", "stopping"})' = In({"running", "stopping"})
  BY <1>2, <1>3 DEF In
<1>6. BudgetKept'
  BY <1>4, <1>5, SlotsUnmoved DEF Reading, Admit
<1>7. Heads'
  <2> SUFFICES ASSUME NEW t \in In({"running", "stopping", "blocked"})', NEW u \in Before(t)'
               PROVE  state'[u] = "finished"
    BY DEF Heads
  <2>1. t \in In({"running", "stopping", "blocked"})
    BY <1>2, <1>3 DEF In
  <2>2. t \in Tickets /\ u \in Tickets /\ printer'[u] = printer'[t] /\ u \in 1..t - 1
    BY <1>1, <2>1 DEF In, Before
  <2>3. u \in Before(t)
    BY <1>3, <2>2 DEF Before
  <2> QED  BY <1>3, <2>1, <2>2, <2>3 DEF IInv, Heads
<1> QED  BY <1>4, <1>6, <1>7 DEF IInv

\* A step that keeps the tickets and moves no slot keeps the invariant when it starts
\* and blocks nobody who is not at the head, and un-finishes nobody.
LEMMA SameLineStep ==
  ASSUME IInv, TypeOK', UNCHANGED <<admitted, printer, active>>,
         Reading' = Reading,
         \A t \in Tickets : /\ state[t] = "finished" => state'[t] = "finished"
                            /\ state'[t] = "blocked" => state[t] = "blocked"
  PROVE  IInv'
<1>1. Tickets' = Tickets /\ \A t \in Tickets : Before(t)' = Before(t) /\ Before(t) \subseteq Tickets
  BY DEF Tickets, Before, IInv, TypeOK
<1>2. \A t \in In({"running", "stopping", "blocked"})' : t \in In({"running", "stopping", "blocked"})
  BY <1>1 DEF In, Reading
<1>3. Heads'
  BY <1>1, <1>2 DEF Heads, In, IInv
<1> QED  BY <1>3, SlotsUnmoved DEF IInv

\* A pump starts heads of lines only, and no more of them than there are slots.
LEMMA PumpStep ==
  ASSUME IInv, Pump
  PROVE  IInv'
<1>1. /\ Tickets' = Tickets /\ printer' = printer
      /\ Started \subseteq Eligible
      /\ \A t \in Tickets : state'[t] = IF t \in Started THEN "running" ELSE state[t]
  BY DEF Pump, Tickets, Started
<1>2. /\ IsFiniteSet(Reading) /\ IsFiniteSet(Started)
      /\ Cardinality(Reading) \in Nat /\ Cardinality(Started) \in Nat
  <2>1. Reading \subseteq Tickets /\ Started \subseteq Tickets
    BY <1>1 DEF Reading, Eligible, In
  <2> QED  BY <2>1, TicketsFinite DEF IInv
<1>3. TypeOK'
  <2>1. state' \in [Tickets -> States] /\ attempt' \in [Tickets -> Nat]
    BY DEF IInv, TypeOK, Pump, States
  <2>2. active' \in Nat
    BY <1>2 DEF IInv, TypeOK, Pump
  <2> QED  BY <1>1, <2>1, <2>2 DEF IInv, TypeOK, Pump
<1>4. Reading' = Reading \cup Started
  BY <1>1 DEF Reading, In, Eligible
<1>5. Cardinality(Reading \cup Started) = Cardinality(Reading) + Cardinality(Started)
  <2>1. Reading \cap Started = {}
    BY <1>1 DEF Reading, In, Eligible
  <2>2. Cardinality(Reading \cap Started) = 0
    BY <2>1, FS_EmptySet
  <2>3. Cardinality(Reading \cup Started)
          = Cardinality(Reading) + Cardinality(Started) - Cardinality(Reading \cap Started)
    BY <1>2, FS_Union
  <2> QED  BY <1>2, <2>2, <2>3
<1>6. BudgetKept'
  BY <1>4, <1>5, StartedFits DEF IInv, BudgetKept, Pump
<1>7. Heads'
  <2> SUFFICES ASSUME NEW t \in In({"running", "stopping", "blocked"})', NEW u \in Before(t)'
               PROVE  state'[u] = "finished"
    BY DEF Heads
  <2>1. t \in Tickets /\ u \in Before(t)
    BY <1>1 DEF In, Before
  <2>2. u \in Tickets /\ state[u] = "finished"
    <3>1. u \in Tickets
      BY <2>1 DEF Before, Tickets, IInv, TypeOK
    <3>2. CASE t \in Started
      BY <1>1, <2>1, <3>1, <3>2 DEF Eligible
    <3>3. CASE t \notin Started
      <4>1. t \in In({"running", "stopping", "blocked"})
        BY <1>1, <2>1, <3>3 DEF In
      <4> QED  BY <2>1, <3>1, <4>1 DEF IInv, Heads
    <3> QED  BY <3>2, <3>3
  <2>3. u \notin Started
    BY <1>1, <2>2 DEF Eligible, In
  <2> QED  BY <1>1, <2>2, <2>3
<1> QED  BY <1>3, <1>6, <1>7 DEF IInv

\* A reader that ends gives back the one slot it holds.
LEMMA ResumeStep ==
  ASSUME IInv, NEW t \in Tickets, Resume(t)
  PROVE  IInv'
<1>1. /\ Tickets' = Tickets /\ printer' = printer /\ t \in Reading
      /\ state'[t] \in {"blocked", "finished"}
      /\ \A u \in Tickets : u # t => state'[u] = state[u]
  BY DEF Resume, Tickets, IInv, TypeOK
<1>2. IsFiniteSet(Reading) /\ Cardinality(Reading) \in Nat /\ Cardinality(Reading) # 0
  <2>1. Reading \subseteq Tickets
    BY DEF Reading, In
  <2> QED  BY <1>1, <2>1, TicketsFinite, FS_EmptySet DEF IInv
<1>3. TypeOK'
  <2>1. state' \in [Tickets -> States] /\ outcome' \in [Tickets -> Outcomes]
    BY DEF IInv, TypeOK, Resume, States, Outcomes
  <2>2. active' \in Nat
    BY <1>2 DEF IInv, TypeOK, BudgetKept, Resume
  <2> QED  BY <1>1, <2>1, <2>2 DEF IInv, TypeOK, Resume, Schedule
<1>4. Reading' = Reading \ {t}
  BY <1>1 DEF Reading, In
<1>5. BudgetKept'
  <2>1. Cardinality(Reading \ {t}) = Cardinality(Reading) - 1
    BY <1>1, <1>2, FS_RemoveElement
  <2>2. active = Cardinality(Reading) /\ active <= MaxActive /\ active' = active - 1
    BY DEF IInv, BudgetKept, Resume
  <2> QED  BY <1>2, <1>4, <2>1, <2>2, QueueAssumption DEF BudgetKept
<1>6. Heads'
  <2> SUFFICES ASSUME NEW v \in In({"running", "stopping", "blocked"})', NEW u \in Before(v)'
               PROVE  state'[u] = "finished"
    BY DEF Heads
  <2>1. v \in In({"running", "stopping", "blocked"}) /\ u \in Before(v)
    BY <1>1 DEF In, Before, Reading
  <2>2. state[u] = "finished" /\ u \in Tickets
    BY <2>1 DEF IInv, Heads, Before, In, Tickets, TypeOK
  <2>3. u # t
    BY <1>1, <2>2 DEF Reading, In
  <2> QED  BY <1>1, <2>2, <2>3
<1> QED  BY <1>3, <1>5, <1>6 DEF IInv

\* Cancelling one ticket, or stopping the queue, never takes a slot from a reader.
LEMMA CancelledKeeps ==
  ASSUME NEW s \in States
  PROVE  /\ Cancelled(s) \in States
         /\ Cancelled(s) \in {"running", "stopping"} <=> s \in {"running", "stopping"}
         /\ s = "finished" => Cancelled(s) = "finished"
         /\ Cancelled(s) # "blocked"
BY DEF Cancelled, States

\* The calls of the queue's users, and the end of a reader's run().
LEMMA CallStep ==
  ASSUME IInv, NEW t \in Tickets,
         Cancel(t) \/ Retry(t) \/ Continue(t)
           \/ (\E result \in {"finished", "blocked"} : Settle(t, result))
  PROVE  IInv'
<1>1. /\ UNCHANGED <<admitted, printer, active>> /\ Tickets' = Tickets
      /\ TypeOK /\ state[t] \in States
  BY DEF Cancel, Retry, Continue, Settle, Tickets, IInv, TypeOK
<1>2. TypeOK'
  <2>1. CASE Cancel(t)
    BY <1>1, <2>1, CancelledKeeps DEF TypeOK, Cancel, Schedule
  <2>2. CASE Retry(t)
    BY <1>1, <2>2 DEF TypeOK, Retry, Schedule, States
  <2>3. CASE Continue(t)
    BY <1>1, <2>3 DEF TypeOK, Continue, Schedule, States
  <2>4. CASE \E result \in {"finished", "blocked"} : Settle(t, result)
    BY <1>1, <2>4 DEF TypeOK, Settle, Outcomes
  <2> QED  BY <2>1, <2>2, <2>3, <2>4
<1>3. \A u \in Tickets :
        /\ state'[u] \in {"running", "stopping"} <=> state[u] \in {"running", "stopping"}
        /\ state[u] = "finished" => state'[u] = "finished"
        /\ state'[u] = "blocked" => state[u] = "blocked"
  <2>1. CASE Cancel(t)
    BY <1>1, <2>1, CancelledKeeps DEF TypeOK, Cancel
  <2>2. CASE Retry(t)
    BY <1>1, <2>2 DEF TypeOK, Retry, In
  <2>3. CASE Continue(t)
    BY <1>1, <2>3 DEF TypeOK, Continue, In
  <2>4. CASE \E result \in {"finished", "blocked"} : Settle(t, result)
    BY <1>1, <2>4 DEF Settle
  <2> QED  BY <2>1, <2>2, <2>3, <2>4
<1>4. Reading' = Reading
  BY <1>1, <1>3 DEF Reading, In
<1> QED  BY <1>1, <1>2, <1>3, <1>4, SameLineStep

\* stop() finishes what is not read and asks the readers to stop.
LEMMA StopStep ==
  ASSUME IInv, Stop
  PROVE  IInv'
<1>1. /\ UNCHANGED <<admitted, printer, active>> /\ Tickets' = Tickets
      /\ TypeOK /\ \A u \in Tickets : state[u] \in States /\ state'[u] = Cancelled(state[u])
  BY DEF Stop, Tickets, IInv, TypeOK
<1>2. state' \in [Tickets -> States]
  BY <1>1, CancelledKeeps DEF Stop
<1>3. TypeOK'
  BY <1>1, <1>2 DEF TypeOK, Stop
<1>4. Reading' = Reading
  BY <1>1, CancelledKeeps DEF Reading, In
<1> QED  BY <1>1, <1>3, <1>4, CancelledKeeps, SameLineStep

\* Every step of the specification preserves the invariant.
LEMMA StepInvariant == IInv /\ [Next]_queueVars => IInv'
<1> SUFFICES ASSUME IInv, [Next]_queueVars PROVE IInv'
  OBVIOUS
<1>1. CASE \E n \in 1..MaxTickets : \E keys \in [1..n -> Printers] : Admit(n, keys)
  BY <1>1, AdmitStep
<1>2. CASE Pump
  BY <1>2, PumpStep
<1>3. CASE \E t \in Tickets, result \in {"finished", "blocked"} : Settle(t, result)
  BY <1>3, CallStep
<1>4. CASE \E t \in Tickets : Resume(t)
  BY <1>4, ResumeStep
<1>5. CASE \E t \in Tickets : Cancel(t) \/ Retry(t) \/ Continue(t)
  BY <1>5, CallStep
<1>6. CASE Stop
  BY <1>6, StopStep
<1>7. CASE UNCHANGED queueVars
  BY <1>7 DEF queueVars, IInv, TypeOK, BudgetKept, Heads, Reading, In, Tickets, Before
<1> QED  BY <1>1, <1>2, <1>3, <1>4, <1>5, <1>6, <1>7 DEF Next

-----------------------------------------------------------------------------
(* The theorems *)

\* The queue's invariant holds in every reachable state.
THEOREM QueueInvariance == Spec => []IInv
<1> QED  BY InitInvariant, StepInvariant, PTL DEF Spec

\* The queue's fields keep their types.
THEOREM QueueTypeCorrect == Spec => []TypeOK
<1>1. IInv => TypeOK
  BY DEF IInv
<1> QED  BY <1>1, QueueInvariance, PTL

\* No physical printer ever has two readers, however its tickets are cancelled,
\* retried or continued (pump).
THEOREM ReadersExclusive == Spec => []OneReaderPerPrinter
<1>1. IInv => OneReaderPerPrinter
  <2> SUFFICES ASSUME IInv, NEW t \in Reading, NEW u \in Reading,
                      printer[t] = printer[u], t # u
               PROVE  FALSE
    BY DEF OneReaderPerPrinter
  <2>1. /\ t \in In({"running", "stopping", "blocked"}) /\ u \in In({"running", "stopping", "blocked"})
        /\ t \in 1..admitted /\ u \in 1..admitted
    BY DEF Reading, In, Tickets
  <2>2. t \in Before(u) \/ u \in Before(t)
    BY <2>1 DEF Before
  <2> QED  BY <2>1, <2>2 DEF IInv, Heads, Reading, In
<1> QED  BY <1>1, QueueInvariance, PTL

\* The slots in use are counted and never exceed the budget (pump, execute).
THEOREM SlotsCounted == Spec => []BudgetKept
<1>1. IInv => BudgetKept
  BY DEF IInv
<1> QED  BY <1>1, QueueInvariance, PTL

\* No step starts a ticket before the earlier ones of its printer have finished.
THEOREM NobodyPasses == Spec => HeadOfLine
<1> DEFINE Starts == \A t \in Tickets : state[t] = "waiting" /\ state'[t] = "running" =>
                        \A u \in Before(t) : state[u] = "finished"
<1>1. IInv /\ [Next]_queueVars => [Starts]_queueVars
  <2> SUFFICES ASSUME IInv, Next, NEW t \in Tickets,
                      state[t] = "waiting", state'[t] = "running", NEW u \in Before(t)
               PROVE  state[u] = "finished"
    BY DEF Starts
  <2>1. CASE Pump
    <3>1. t \in Started
      BY <2>1 DEF Pump
    <3> QED  BY <3>1 DEF Started, Eligible
  <2>2. CASE ~Pump
    <3>1. state'[t] # "running"
      <4>1. \A s : s # "running" => Cancelled(s) # "running"
        BY DEF Cancelled
      <4>2. admitted \in Nat /\ t \in 1..admitted
        BY DEF Tickets, IInv, TypeOK
      <4>3. CASE \E n \in 1..MaxTickets : \E keys \in [1..n -> Printers] : Admit(n, keys)
        <5>1. PICK n \in 1..MaxTickets : \E keys \in [1..n -> Printers] : Admit(n, keys)
          BY <4>3
        <5>2. t \in 1..admitted + n
          BY <4>2, <5>1, QueueAssumption
        <5> QED  BY <4>2, <5>1, <5>2 DEF Admit
      <4>4. CASE \E v \in Tickets : \/ Resume(v) \/ Cancel(v) \/ Retry(v) \/ Continue(v)
                                     \/ \E result \in {"finished", "blocked"} : Settle(v, result)
        BY <4>1, <4>4 DEF Resume, Cancel, Retry, Continue, Settle, IInv, TypeOK
      <4>5. CASE Stop
        BY <4>1, <4>5 DEF Stop
      <4> QED  BY <2>2, <4>3, <4>4, <4>5 DEF Next
    <3> QED  BY <3>1
  <2> QED  BY <2>1, <2>2
<1> HIDE DEF Starts
<1>2. Spec => [][Starts]_queueVars
  BY <1>1, QueueInvariance, PTL DEF Spec
<1> QED  BY <1>2 DEF HeadOfLine, Starts

-----------------------------------------------------------------------------
(* The tasks and their tickets *)

\* The latest ticket of every task is one of the queue.
TicketsKnown == created \in Nat /\ ticket \in [Tasks -> Tickets]

-----------------------------------------------------------------------------
(* The steps *)

\* A batch, a download or a video is an admission of the queue.
LEMMA AdmissionSteps ==
  ASSUME TypeOK, NEW n \in Nat \ {0}, NEW keys \in [1..n -> Printers], Admit(n, keys)
  PROVE  Next
<1>1. n \in 1..MaxTickets
  BY QueueAssumption DEF Admit, TypeOK
<1> QED  BY <1>1 DEF Next

\* One ticket for a printer.
LEMMA OneAdmission ==
  ASSUME TypeOK, NEW p \in Printers, Admit(1, <<p>>)
  PROVE  Next
<1> DEFINE n == 1
           keys == <<p>>
<1>1. n \in Nat \ {0} /\ keys \in [1..n -> Printers] /\ Admit(n, keys)
  OBVIOUS
<1> HIDE DEF n, keys
<1> QED  BY <1>1, AdmissionSteps

\* What settles, in a download or a video, is a reader of the queue.
LEMMA SettlementSteps ==
  ASSUME NEW t, NEW result \in {"finished", "blocked"}, Settle(t, result)
  PROVE  Next
BY DEF Settle, Reading, In, Next

\* The queue never forgets a ticket.
LEMMA TicketsGrow ==
  ASSUME TypeOK, [Next]_queueVars
  PROVE  Tickets \subseteq Tickets'
<1>1. admitted \in Nat
  BY DEF TypeOK
<1>2. ASSUME NEW n \in 1..MaxTickets, admitted' = admitted + n
      PROVE  Tickets \subseteq Tickets'
  BY <1>1, <1>2 DEF Tickets
<1>3. CASE admitted' = admitted
  BY <1>3 DEF Tickets
<1> QED  BY <1>2, <1>3 DEF Next, queueVars, Admit, Pump, Settle, Resume, Cancel, Retry, Continue, Stop

\* Every step of the tasks is a step of the queue or leaves it alone.
LEMMA TaskStepsQueue ==
  ASSUME TypeOK, TicketsKnown, [TaskNext]_vars
  PROVE  [Next]_queueVars
<1>1. ASSUME NEW n \in 1..MaxBatch, NEW keys \in [1..n -> Printers], Enqueue(n, keys)
      PROVE  Next
  <2>1. n \in Nat \ {0}
    BY TaskAssumption
  <2> QED  BY <1>1, <2>1, AdmissionSteps DEF Enqueue
<1>2. ASSUME NEW p \in Printers, PlayVideo(p)
      PROVE  Next
  BY <1>2, OneAdmission DEF PlayVideo
<1>3. CASE RunStarts
  BY <1>3 DEF RunStarts, Next
<1>4. ASSUME NEW d \in Tasks, NEW result \in Results, RunReturns(d, result)
      PROVE  Next
  BY <1>4, SettlementSteps DEF RunReturns
<1>5. ASSUME NEW t \in Tickets, NEW result \in {"finished", "blocked"}, VideoReturns(t, result)
      PROVE  Next
  BY <1>5, SettlementSteps DEF VideoReturns
<1>6. ASSUME NEW t \in Tickets, ResumeTicket(t)
      PROVE  Next
  BY <1>6 DEF ResumeTicket, Next
<1>7. ASSUME NEW d \in Tasks, CancelTask(d)
      PROVE  [Next]_queueVars
  BY <1>7 DEF CancelTask, Cancel, In, Next
<1>8. ASSUME NEW t \in Tickets, CancelVideo(t)
      PROVE  Next
  BY <1>8 DEF CancelVideo, Next
<1>9. ASSUME NEW d \in Tasks, RetryPaused(d)
      PROVE  Next
  BY <1>9 DEF RetryPaused, Retry, In, Next
<1>10. ASSUME NEW d \in Tasks, RetryCompleted(d)
       PROVE  Next
  <2>1. printer[ticket[d]] \in Printers
    BY DEF TypeOK, TicketsKnown
  <2> QED  BY <1>10, <2>1, OneAdmission DEF RetryCompleted
<1>11. ASSUME NEW d \in Tasks, ContinueTask(d)
       PROVE  Next
  BY <1>11 DEF ContinueTask, Continue, In, Next
<1>12. CASE Close
  BY <1>12 DEF Close, Next
<1>13. ASSUME NEW d \in Tasks, NEW allowed \in BOOLEAN, NEW k \in 1..attempts[d],
              Progress(d, k, allowed)
       PROVE  UNCHANGED queueVars
  BY <1>13 DEF Progress
<1>14. CASE UNCHANGED vars
  BY <1>14 DEF vars
<1> QED
  BY <1>1, <1>2, <1>3, <1>4, <1>5, <1>6, <1>7, <1>8, <1>9, <1>10, <1>11, <1>12, <1>13, <1>14
  DEF TaskNext

\* No tasks, no tickets.
LEMMA TaskInitInvariant == TaskInit => IInv /\ TicketsKnown
<1> SUFFICES ASSUME TaskInit PROVE TicketsKnown
  BY InitInvariant DEF TaskInit
<1>1. Tasks = {} /\ ticket = <<>> /\ created \in Nat
  BY DEF TaskInit, Tasks
<1>2. \A X : <<>> \in [{} -> X]
  OBVIOUS
<1> QED  BY <1>1, <1>2 DEF TicketsKnown

\* A batch gives its tasks the tickets it is admitted under.
LEMMA EnqueueKnown ==
  ASSUME TypeOK, TicketsKnown, NEW n \in 1..MaxBatch, NEW keys \in [1..n -> Printers],
         Enqueue(n, keys)
  PROVE  TicketsKnown'
<1> DEFINE Added == [i \in 1..n |-> admitted + i]
<1>1. /\ created \in Nat /\ admitted \in Nat /\ n \in Nat
      /\ created' = created + n /\ admitted' = admitted + n /\ ticket' = ticket \o Added
  BY TaskAssumption DEF Enqueue, Admit, TypeOK, TicketsKnown
<1>2. ticket \in Seq(Tickets') /\ Len(ticket) = created
  <2>1. ticket \in [1..created -> Tickets'] /\ DOMAIN ticket = 1..created
    BY <1>1 DEF TicketsKnown, Tasks, Tickets
  <2> QED  BY <1>1, <2>1
<1>3. Added \in Seq(Tickets') /\ Len(Added) = n
  <2>1. \A i \in 1..n : admitted + i \in Tickets'
    BY <1>1 DEF Tickets
  <2>2. Added \in [1..n -> Tickets'] /\ DOMAIN Added = 1..n
    BY <2>1
  <2> HIDE DEF Added
  <2> QED  BY <1>1, <2>2
<1>4. ticket' \in Seq(Tickets') /\ Len(ticket') = created'
  <2> HIDE DEF Added
  <2> QED  BY <1>1, <1>2, <1>3, ConcatProperties
<1>5. ticket' \in [1..created' -> Tickets']
  BY <1>4
<1> QED  BY <1>1, <1>5 DEF TicketsKnown, Tasks

\* Every step keeps the tickets of the tasks in the queue.
LEMMA TaskStepInvariant ==
  ASSUME IInv, TicketsKnown, [TaskNext]_vars
  PROVE  IInv' /\ TicketsKnown'
<1>1. TypeOK
  BY DEF IInv
<1>2. [Next]_queueVars
  BY <1>1, TaskStepsQueue
<1>3. IInv'
  BY <1>2, StepInvariant
<1>4. Tickets \subseteq Tickets'
  BY <1>1, <1>2, TicketsGrow
<1>5. CASE \E n \in 1..MaxBatch : \E keys \in [1..n -> Printers] : Enqueue(n, keys)
  BY <1>1, <1>3, <1>5, EnqueueKnown
<1>6. CASE \E d \in Tasks : RetryCompleted(d)
  <2>1. PICK d \in Tasks : RetryCompleted(d)
    BY <1>6
  <2>2. admitted \in Nat /\ admitted' = admitted + 1 /\ admitted + 1 \in Tickets'
    BY <1>1, <2>1 DEF RetryCompleted, Admit, TypeOK, Tickets
  <2> QED  BY <1>3, <1>4, <2>1, <2>2 DEF RetryCompleted, Requeued, TicketsKnown, Tasks
<1>7. CASE UNCHANGED <<created, ticket>>
  BY <1>3, <1>4, <1>7 DEF TicketsKnown, Tasks
<1>8. UNCHANGED <<created, ticket>>
      \/ (\E n \in 1..MaxBatch : \E keys \in [1..n -> Printers] : Enqueue(n, keys))
      \/ (\E d \in Tasks : RetryCompleted(d))
  BY DEF TaskNext, vars, taskVars, PlayVideo, RunStarts, Progress, RunReturns, VideoReturns,
         ResumeTicket, CancelTask, CancelVideo, RetryPaused, Requeued, ContinueTask, Close
<1> QED  BY <1>3, <1>5, <1>6, <1>7, <1>8

-----------------------------------------------------------------------------
(* One task and its ticket *)

\* What a task's state w says of its ticket's state s and of the outcome o that
\* waits for the continuation of execute, in a queue that is closed or not.
Agrees(w, s, o, isClosed) ==
  /\ (w = "waiting" <=> s = "waiting")
  /\ (w = "running" <=> s \in {"running", "stopping"} /\ o = "pending")
  /\ (w = "paused" <=> ~isClosed /\ (s = "blocked" \/ (s = "running" /\ o = "blocked")))
  /\ s = "blocked" => ~isClosed
  /\ o # "pending" => s \in {"running", "stopping"}

\* What the two offers of a task in state w may be.
Offers(w, mayCancel, mayRetry) ==
  /\ mayCancel => w \in Unfinished \cup {"pruned"}
  /\ mayRetry => w \in {"paused", "failed", "cancelled", "pruned"}

\* The tickets of a task, the latest excepted, have left the queue.
OldTicketsGone(d) == \A t \in Tickets : owner[t] = d /\ t # ticket[d] => state[t] = "finished"

TaskOK(d) ==
  /\ owner[ticket[d]] = d
  /\ Agrees(task[d], state[ticket[d]], outcome[ticket[d]], closed)
  /\ Offers(task[d], canCancel[d], canRetry[d])
  /\ OldTicketsGone(d)

TaskIInv == TaskTypeOK /\ \A d \in Tasks : TaskOK(d)

\* The invariant says what the run checks.
LEMMA TaskInvariantSuffices == TaskIInv => TasksConsistent
<1> SUFFICES ASSUME TaskIInv PROVE TasksConsistent
  OBVIOUS
<1>1. ASSUME NEW d \in Tasks
      PROVE  ticket[d] \in Tickets /\ task[d] \in TaskStates /\ TaskOK(d)
  BY DEF TaskIInv, TaskTypeOK
<1>2. TaskFollowsTicket
  <2> SUFFICES ASSUME NEW d \in Tasks
      PROVE LET s == state[ticket[d]]
                returned == ticket[d] \in Reading /\ outcome[ticket[d]] # "pending"
            IN  /\ (task[d] = "waiting") = (s = "waiting")
                /\ (task[d] = "running") = (ticket[d] \in Reading /\ ~returned)
                /\ task[d] = "paused" => s = "blocked" \/ (s = "running" /\ returned)
                /\ s = "blocked" => task[d] = "paused"
                /\ \A t \in Tickets : owner[t] = d /\ t # ticket[d] => state[t] = "finished"
    BY DEF TaskFollowsTicket
  <2>1. ticket[d] \in Reading <=> state[ticket[d]] \in {"running", "stopping"}
    BY <1>1 DEF Reading, In
  <2> QED  BY <1>1, <2>1 DEF TaskOK, Agrees, OldTicketsGone
<1>3. OffersAreCurrent
  BY <1>1 DEF TaskOK, Offers, OffersAreCurrent
<1> QED  BY <1>2, <1>3 DEF TaskIInv, TasksConsistent

\* A step that leaves a task and its latest ticket alone, or prunes the task, and
\* brings back no old ticket.
LEMMA TaskKept ==
  ASSUME TypeOK, NEW d \in Tasks, TaskOK(d), ticket[d] \in Tickets,
         created' = created, Tickets \subseteq Tickets', closed' = closed,
         ticket'[d] = ticket[d],
         task'[d] = task[d] \/ (task[d] \in Terminal /\ task'[d] = "pruned"),
         canCancel'[d] => canCancel[d], canRetry'[d] => canRetry[d],
         state'[ticket[d]] = state[ticket[d]], outcome'[ticket[d]] = outcome[ticket[d]],
         \A t \in Tickets : owner'[t] = owner[t] /\ (state[t] = "finished" => state'[t] = "finished"),
         \A t \in Tickets' \ Tickets : owner'[t] # d
  PROVE  TaskOK(d)'
<1>1. OldTicketsGone(d)'
  BY DEF OldTicketsGone, TaskOK
<1> QED  BY <1>1 DEF TaskOK, Agrees, Offers, Terminal

\* A step that changes the task d alone, among those there are, and perhaps prunes
\* others, needs to be looked at for d only.
LEMMA OneTaskStep ==
  ASSUME TaskIInv, TypeOK', NEW d \in Tasks,
         created' = created, Tickets \subseteq Tickets', closed' = closed,
         \A e \in Tasks : e # d =>
            /\ ticket'[e] = ticket[e]
            /\ task'[e] = task[e] \/ (task[e] \in Terminal /\ task'[e] = "pruned")
            /\ canCancel'[e] = canCancel[e] /\ canRetry'[e] = canRetry[e],
         \A t \in Tickets : /\ owner'[t] = owner[t]
                            /\ state[t] = "finished" => state'[t] = "finished"
                            /\ owner[t] # d => state'[t] = state[t] /\ outcome'[t] = outcome[t],
         \A t \in Tickets' \ Tickets : owner'[t] = d,
         task' \in [Tasks -> TaskStates],
         canCancel' \in [Tasks -> BOOLEAN], canRetry' \in [Tasks -> BOOLEAN],
         attempts' \in [Tasks -> Nat], ticket' \in [Tasks -> Tickets'],
         owner' \in [Tickets' -> 0..created],
         TaskOK(d)'
  PROVE  TaskIInv'
<1>1. Tasks' = Tasks
  BY DEF Tasks
<1>2. TaskTypeOK'
  BY <1>1 DEF TaskIInv, TaskTypeOK
<1>3. ASSUME NEW e \in Tasks, e # d
      PROVE  TaskOK(e)'
  <2>1. TypeOK /\ TaskOK(e) /\ ticket[e] \in Tickets /\ owner[ticket[e]] = e
    BY DEF TaskIInv, TaskTypeOK, TaskOK
  <2>2. /\ ticket'[e] = ticket[e]
        /\ task'[e] = task[e] \/ (task[e] \in Terminal /\ task'[e] = "pruned")
        /\ canCancel'[e] = canCancel[e] /\ canRetry'[e] = canRetry[e]
        /\ state'[ticket[e]] = state[ticket[e]] /\ outcome'[ticket[e]] = outcome[ticket[e]]
        /\ \A t \in Tickets' \ Tickets : owner'[t] # e
    BY <1>3, <2>1
  <2> QED  BY <2>1, <2>2, TaskKept
<1> QED  BY <1>1, <1>2, <1>3 DEF TaskIInv

\* No task is touched by a step of the queue that leaves the tickets of tasks alone.
LEMMA NoTaskStep ==
  ASSUME TaskIInv, TypeOK', Tickets \subseteq Tickets', closed' = closed,
         UNCHANGED <<created, task, canCancel, canRetry, attempts, ticket>>,
         \A t \in Tickets : /\ owner'[t] = owner[t]
                            /\ state[t] = "finished" => state'[t] = "finished"
                            /\ owner[t] \in Tasks => state'[t] = state[t] /\ outcome'[t] = outcome[t],
         \A t \in Tickets' \ Tickets : owner'[t] \notin Tasks,
         owner' \in [Tickets' -> 0..created]
  PROVE  TaskIInv'
<1>1. Tasks' = Tasks
  BY DEF Tasks
<1>2. ticket' \in [Tasks -> Tickets']
  BY DEF TaskIInv, TaskTypeOK
<1>3. TaskTypeOK'
  BY <1>1, <1>2 DEF TaskIInv, TaskTypeOK
<1>4. ASSUME NEW d \in Tasks
      PROVE  TaskOK(d)'
  <2>1. TypeOK /\ TaskOK(d) /\ ticket[d] \in Tickets /\ owner[ticket[d]] = d
    BY DEF TaskIInv, TaskTypeOK, TaskOK
  <2> QED  BY <2>1, TaskKept
<1> QED  BY <1>1, <1>3, <1>4 DEF TaskIInv

\* Only completed tasks are pruned.
LEMMA PruneKeeps ==
  ASSUME NEW f, f \in [Tasks -> TaskStates]
  PROVE  /\ Prune(f) \in [Tasks -> TaskStates]
         /\ \A d \in Tasks : \/ Prune(f)[d] = f[d]
                             \/ f[d] \in Terminal /\ Prune(f)[d] = "pruned"
BY DEF Prune, TaskStates

-----------------------------------------------------------------------------
(* Tables that grow at their end *)

\* A row that is appended leaves the others where they are.
LEMMA LongerTable ==
  ASSUME NEW m \in Nat, NEW S, NEW f \in [1..m -> S], NEW v \in S
  PROVE  /\ Append(f, v) \in [1..m + 1 -> S]
         /\ \A i \in 1..m : Append(f, v)[i] = f[i]
         /\ Append(f, v)[m + 1] = v
<1> DEFINE h == Append(f, v)
<1>1. f \in Seq(S) /\ Len(f) = m
  OBVIOUS
<1>2. /\ h \in Seq(S) /\ Len(h) = m + 1
      /\ \A i \in 1..m : h[i] = f[i]
      /\ h[m + 1] = v
  BY <1>1, AppendProperties
<1> HIDE DEF h
<1>3. h \in [1..m + 1 -> S]
  BY <1>2
<1>4. /\ h \in [1..m + 1 -> S]
      /\ \A i \in 1..m : h[i] = f[i]
      /\ h[m + 1] = v
  BY <1>2, <1>3
<1> QED  BY <1>4 DEF h

\* A table with rows 1..m is a sequence of that length.
LEMMA TableIsSequence ==
  ASSUME NEW m \in Nat, NEW S, NEW f \in [1..m -> S]
  PROVE  f \in Seq(S) /\ Len(f) = m
OBVIOUS

\* Rows that are appended together leave the others where they are.
LEMMA JoinedRows ==
  ASSUME NEW m \in Nat, NEW n \in Nat, NEW S, NEW h \in Seq(S), NEW f, NEW g,
         Len(h) = m + n, \A i \in 1..m + n : h[i] = IF i <= m THEN f[i] ELSE g[i - m]
  PROVE  /\ h \in [1..m + n -> S]
         /\ \A i \in 1..m : h[i] = f[i]
         /\ \A i \in 1..m + n : i > m => i - m \in 1..n /\ h[i] = g[i - m]
<1>1. \A i \in 1..m : i <= m /\ i \in 1..m + n
  OBVIOUS
<1>2. h \in [1..m + n -> S]
  OBVIOUS
<1> QED  BY <1>1, <1>2

-----------------------------------------------------------------------------
(* The steps that change one task, or none *)

\* A video joins the queue, reads or is cancelled.
LEMMA VideoSteps ==
  ASSUME TaskIInv, IInv',
         \/ \E p \in Printers : PlayVideo(p)
         \/ \E t \in Tickets, result \in {"finished", "blocked"} : VideoReturns(t, result)
         \/ \E t \in Tickets : CancelVideo(t)
  PROVE  TaskIInv'
<1>0. /\ TypeOK' /\ TypeOK /\ admitted \in Nat /\ created \in Nat /\ Tasks = 1..created
      /\ owner \in [Tickets -> 0..created] /\ Tickets = 1..admitted
  <2>1. TypeOK' /\ TypeOK
    BY DEF TaskIInv, TaskTypeOK, IInv
  <2> QED  BY <2>1 DEF TaskIInv, TaskTypeOK, TypeOK, Tickets, Tasks
<1>1. ASSUME NEW p \in Printers, PlayVideo(p)
      PROVE  TaskIInv'
  <2>1. /\ admitted' = admitted + 1 /\ Tickets' = 1..admitted + 1
        /\ owner' = Append(owner, 0)
        /\ closed' = closed /\ UNCHANGED <<created, task, canCancel, canRetry, attempts, ticket>>
        /\ \A t \in Tickets : t <= admitted /\ t \in 1..admitted + 1
    BY <1>0, <1>1 DEF PlayVideo, Admit, Tickets
  <2>2. \A t \in Tickets : state'[t] = state[t] /\ outcome'[t] = outcome[t]
    BY <1>0, <1>1, <2>1 DEF PlayVideo, Admit
  <2>3. /\ owner' \in [Tickets' -> 0..created]
        /\ \A t \in Tickets : owner'[t] = owner[t]
        /\ owner'[admitted + 1] = 0
    <3> DEFINE S == 0..created
               v == 0
               h == Append(owner, v)
    <3>1. v \in S /\ owner \in [1..admitted -> S] /\ owner' = h
      BY <1>0, <2>1
    <3> HIDE DEF S, v
    <3>2. /\ h \in [1..admitted + 1 -> S]
          /\ \A t \in 1..admitted : h[t] = owner[t]
          /\ h[admitted + 1] = v
      BY <1>0, <3>1, LongerTable
    <3> HIDE DEF h
    <3> QED  BY <1>0, <2>1, <3>1, <3>2 DEF S, v
  <2>4. /\ Tickets \subseteq Tickets'
        /\ \A t \in Tickets' \ Tickets : t = admitted + 1
    BY <1>0, <2>1
  <2>5. 0 \notin Tasks
    BY <1>0
  <2> QED  BY <1>0, <2>1, <2>2, <2>3, <2>4, <2>5, NoTaskStep
<1>2. ASSUME NEW t \in Tickets, NEW result \in {"finished", "blocked"}, VideoReturns(t, result)
      PROVE  TaskIInv'
  <2>1. /\ Tickets' = Tickets /\ closed' = closed /\ state' = state
        /\ UNCHANGED taskVars /\ owner[t] = 0
        /\ \A u \in Tickets : u # t => outcome'[u] = outcome[u]
    BY <1>0, <1>2 DEF VideoReturns, Settle, Tickets
  <2>2. 0 \notin Tasks
    BY <1>0
  <2> QED  BY <1>0, <2>1, <2>2, NoTaskStep DEF taskVars
<1>3. ASSUME NEW t \in Tickets, CancelVideo(t)
      PROVE  TaskIInv'
  <2>1. /\ Tickets' = Tickets /\ closed' = closed /\ outcome' = outcome
        /\ UNCHANGED taskVars /\ owner[t] = 0 /\ state[t] # "finished"
        /\ \A u \in Tickets : u # t => state'[u] = state[u]
    BY <1>0, <1>3 DEF CancelVideo, Cancel, In, Tickets
  <2>2. 0 \notin Tasks
    BY <1>0
  <2> QED  BY <1>0, <2>1, <2>2, NoTaskStep DEF taskVars
<1> QED  BY <1>1, <1>2, <1>3

\* A ticket that is still in the queue is the latest one of its task.
LEMMA LatestTicket ==
  ASSUME TaskIInv, NEW d \in Tasks
  PROVE  /\ TypeOK /\ d # 0 /\ task[d] \in TaskStates
         /\ ticket[d] \in Tickets /\ owner[ticket[d]] = d
         /\ state[ticket[d]] \in States /\ outcome[ticket[d]] \in Outcomes
         /\ Agrees(task[d], state[ticket[d]], outcome[ticket[d]], closed)
         /\ Offers(task[d], canCancel[d], canRetry[d])
         /\ \A t \in Tickets : owner[t] = d /\ state[t] # "finished" => t = ticket[d]
<1>1. TypeOK /\ TaskOK(d) /\ ticket[d] \in Tickets /\ task[d] \in TaskStates
  BY DEF TaskIInv, TaskTypeOK
<1>2. d # 0
  BY DEF TaskIInv, TaskTypeOK, Tasks
<1>3. state[ticket[d]] \in States /\ outcome[ticket[d]] \in Outcomes
  BY <1>1 DEF TypeOK
<1> QED  BY <1>1, <1>2, <1>3 DEF TaskOK, OldTicketsGone

\* A report of the current execution, of a task that reads.
LEMMA ProgressStep ==
  ASSUME TaskIInv, NEW d \in Tasks, NEW allowed \in BOOLEAN, NEW k \in 1..attempts[d],
         Progress(d, k, allowed)
  PROVE  TaskIInv'
<1>1. /\ UNCHANGED <<queueVars, created, task, canRetry, attempts, ticket, owner>>
      /\ Tickets' = Tickets /\ TypeOK' /\ task[d] = "running"
      /\ \A e \in Tasks : e # d => canCancel'[e] = canCancel[e]
      /\ canCancel' \in [Tasks -> BOOLEAN]
  BY DEF Progress, queueVars, Tickets, TaskIInv, TaskTypeOK, TypeOK
<1>2. TaskOK(d)
  BY DEF TaskIInv
<1>3. TaskOK(d)'
  BY <1>1, <1>2, LatestTicket DEF queueVars, TaskOK, OldTicketsGone, Offers, Unfinished
<1> QED  BY <1>1, <1>3, OneTaskStep DEF queueVars, TaskIInv, TaskTypeOK

\* A download returns: it is saved, fails, or pauses the line of its printer.
LEMMA ReturnStep ==
  ASSUME TaskIInv, IInv', NEW d \in Tasks, NEW result \in Results, RunReturns(d, result)
  PROVE  TaskIInv'
<1> DEFINE t == ticket[d]
           paused == result = "interrupted" /\ state[t] # "stopping" /\ ~closed
           f == [task EXCEPT ![d] = IF paused THEN "paused"
                                    ELSE IF result = "interrupted" THEN "failed" ELSE result]
<1>1. /\ t \in Tickets /\ owner[t] = d /\ state[t] \in {"running", "stopping"}
      /\ outcome[t] = "pending" /\ TypeOK /\ TypeOK'
  BY LatestTicket DEF RunReturns, Settle, Reading, In, IInv
<1>2. /\ UNCHANGED <<admitted, state, closed, created, attempts, ticket, owner>>
      /\ Tickets' = Tickets
      /\ outcome' = [outcome EXCEPT ![t] = IF paused THEN "blocked" ELSE "finished"]
      /\ task' = IF paused THEN f ELSE Prune(f)
      /\ canCancel' = [canCancel EXCEPT ![d] = paused]
      /\ canRetry' = [canRetry EXCEPT ![d] = result # "saved"]
  BY DEF RunReturns, Settle, Tickets
<1>3. /\ f \in [Tasks -> TaskStates]
      /\ f[d] \in {"paused"} \cup Terminal
      /\ paused <=> f[d] = "paused"
      /\ result = "saved" <=> f[d] = "saved"
      /\ \A e \in Tasks : e # d => f[e] = task[e]
  BY DEF TaskIInv, TaskTypeOK, TaskStates, Unfinished, Terminal, Results
<1>4. /\ task' \in [Tasks -> TaskStates]
      /\ \A e \in Tasks : \/ task'[e] = f[e]
                          \/ f[e] \in Terminal /\ task'[e] = "pruned"
      /\ paused => task'[d] = f[d]
  <2> HIDE DEF f, paused
  <2> QED  BY <1>2, <1>3, PruneKeeps
<1>5. /\ canCancel' \in [Tasks -> BOOLEAN] /\ canRetry' \in [Tasks -> BOOLEAN]
      /\ canCancel'[d] = paused /\ canRetry'[d] = (result # "saved")
      /\ \A e \in Tasks : e # d => canCancel'[e] = canCancel[e] /\ canRetry'[e] = canRetry[e]
  BY <1>2 DEF TaskIInv, TaskTypeOK
<1>6. /\ outcome'[t] = IF paused THEN "blocked" ELSE "finished"
      /\ \A u \in Tickets : u # t => outcome'[u] = outcome[u]
  BY <1>1, <1>2 DEF TypeOK
<1>7. TaskOK(d)'
  <2>1. OldTicketsGone(d)'
    BY <1>2 DEF OldTicketsGone, TaskIInv, TaskOK
  <2>2. Agrees(task[d], state[ticket[d]], outcome[ticket[d]], closed)'
    <3>1. paused => task'[d] = "paused" /\ ~closed /\ state[t] = "running"
      BY <1>1, <1>3, <1>4
    <3>2. ~paused => task'[d] \in Terminal \cup {"pruned"}
      <4> HIDE DEF paused, f
      <4> QED  BY <1>3, <1>4
    <3> HIDE DEF paused
    <3> QED  BY <1>1, <1>2, <1>6, <3>1, <3>2 DEF Agrees, Terminal
  <2>3. Offers(task[d], canCancel[d], canRetry[d])'
    <3> HIDE DEF paused, f
    <3> QED  BY <1>3, <1>4, <1>5 DEF Offers, Unfinished, Terminal
  <2> QED  BY <1>1, <1>2, <2>1, <2>2, <2>3 DEF TaskOK
<1>8. \A e \in Tasks : e # d => \/ task'[e] = task[e]
                                \/ task[e] \in Terminal /\ task'[e] = "pruned"
  <2> HIDE DEF f
  <2> QED  BY <1>3, <1>4
<1> HIDE DEF f, paused
<1> QED
  BY <1>1, <1>2, <1>4, <1>5, <1>6, <1>7, <1>8, OneTaskStep DEF TaskIInv, TaskTypeOK

\* The renderer cancels a task: one that waits or is paused is cancelled at once, the
\* ticket of one that reads is asked to stop.
LEMMA CancelStep ==
  ASSUME TaskIInv, IInv', NEW d \in Tasks, CancelTask(d)
  PROVE  TaskIInv'
<1> DEFINE t == ticket[d]
           removed == task[d] \in {"waiting", "paused"}
<1>1. /\ t \in Tickets /\ owner[t] = d /\ TypeOK /\ TypeOK' /\ state[t] \in States
      /\ outcome[t] = "pending" /\ task[d] \in Unfinished
      /\ Agrees(task[d], state[t], outcome[t], closed)
  BY LatestTicket DEF CancelTask, IInv, Quiet, Offers
<1>2. /\ UNCHANGED <<admitted, outcome, closed, created, attempts, ticket, owner>>
      /\ Tickets' = Tickets
      /\ task' = IF removed THEN [task EXCEPT ![d] = "cancelled"] ELSE task
      /\ canCancel' = [canCancel EXCEPT ![d] = FALSE]
      /\ canRetry' = [canRetry EXCEPT ![d] = removed \/ @]
  BY DEF CancelTask, Cancel, Tickets, queueVars
<1>3. /\ state'[t] = Cancelled(state[t])
      /\ \A u \in Tickets : u # t => state'[u] = state[u]
  <2>1. CASE state[t] \in {"waiting", "running", "blocked"}
    BY <1>1, <2>1 DEF CancelTask, Cancel, TypeOK
  <2>2. CASE state[t] \notin {"waiting", "running", "blocked"}
    BY <1>1, <2>2 DEF CancelTask, queueVars, Cancelled
  <2> QED  BY <2>1, <2>2
<1>4. /\ task' \in [Tasks -> TaskStates]
      /\ task'[d] = IF removed THEN "cancelled" ELSE task[d]
      /\ \A e \in Tasks : e # d => task'[e] = task[e]
  BY <1>2 DEF TaskIInv, TaskTypeOK, TaskStates, Terminal
<1>5. /\ canCancel' \in [Tasks -> BOOLEAN] /\ canRetry' \in [Tasks -> BOOLEAN]
      /\ canCancel'[d] = FALSE /\ canRetry'[d] = (removed \/ canRetry[d])
      /\ \A e \in Tasks : e # d => canCancel'[e] = canCancel[e] /\ canRetry'[e] = canRetry[e]
  BY <1>2 DEF TaskIInv, TaskTypeOK
<1>6. TaskOK(d)'
  <2>1. OldTicketsGone(d)'
    BY <1>2, <1>3 DEF OldTicketsGone, TaskIInv, TaskOK
  <2>2. Agrees(task[d], state[ticket[d]], outcome[ticket[d]], closed)'
    BY <1>1, <1>2, <1>3, <1>4 DEF Agrees, Cancelled, Unfinished, States
  <2>3. Offers(task[d], canCancel[d], canRetry[d])'
    BY <1>1, <1>4, <1>5, LatestTicket DEF Offers, Unfinished
  <2> QED  BY <1>1, <1>2, <2>1, <2>2, <2>3 DEF TaskOK
<1>7. \A u \in Tickets : state[u] = "finished" => state'[u] = "finished"
  BY <1>1, <1>3 DEF Cancelled
<1> HIDE DEF removed
<1> QED  BY <1>1, <1>2, <1>3, <1>4, <1>5, <1>6, <1>7, OneTaskStep DEF TaskIInv, TaskTypeOK

\* A paused task goes on in place, and one the user gives up fails.
LEMMA PausedSteps ==
  ASSUME TaskIInv, IInv', NEW d \in Tasks, RetryPaused(d) \/ ContinueTask(d)
  PROVE  TaskIInv'
<1> DEFINE t == ticket[d]
<1>1. /\ t \in Tickets /\ owner[t] = d /\ TypeOK /\ TypeOK' /\ state[t] = "blocked"
      /\ outcome[t] = "pending" /\ task[d] = "paused" /\ ~closed
      /\ Agrees(task[d], state[t], outcome[t], closed)
      /\ Offers(task[d], canCancel[d], canRetry[d])
  BY LatestTicket DEF RetryPaused, ContinueTask, Retry, Continue, In, IInv, Quiet, Agrees
<1>2. /\ UNCHANGED <<admitted, outcome, closed, created, attempts, ticket, owner>>
      /\ Tickets' = Tickets
  BY DEF RetryPaused, ContinueTask, Retry, Continue, Requeued, Tickets
<1>3. \/ RetryPaused(d) /\ state'[t] = "waiting" /\ task'[d] = "waiting" /\ canRetry'[d] = FALSE
      \/ ContinueTask(d) /\ state'[t] = "finished" /\ task'[d] = "failed" /\ canCancel'[d] = FALSE
  BY <1>1 DEF RetryPaused, ContinueTask, Retry, Continue, Requeued, TaskIInv, TaskTypeOK, TypeOK
<1>4. /\ \A u \in Tickets : u # t => state'[u] = state[u]
      /\ task' \in [Tasks -> TaskStates]
      /\ \A e \in Tasks : e # d => task'[e] = task[e]
  BY DEF RetryPaused, ContinueTask, Retry, Continue, Requeued, TaskIInv, TaskTypeOK, TypeOK,
         TaskStates, Terminal, Unfinished
<1>5. /\ canCancel' \in [Tasks -> BOOLEAN] /\ canRetry' \in [Tasks -> BOOLEAN]
      /\ \A e \in Tasks : e # d => canCancel'[e] = canCancel[e] /\ canRetry'[e] = canRetry[e]
  BY DEF RetryPaused, ContinueTask, Requeued, TaskIInv, TaskTypeOK
<1>6. TaskOK(d)'
  <2>1. OldTicketsGone(d)'
    BY <1>2, <1>4 DEF OldTicketsGone, TaskIInv, TaskOK
  <2>2. Agrees(task[d], state[ticket[d]], outcome[ticket[d]], closed)'
    BY <1>1, <1>2, <1>3 DEF Agrees
  <2>3. Offers(task[d], canCancel[d], canRetry[d])'
    BY <1>1, <1>3 DEF Offers, Unfinished
  <2> QED  BY <1>1, <1>2, <2>1, <2>2, <2>3 DEF TaskOK
<1> QED  BY <1>1, <1>2, <1>4, <1>5, <1>6, OneTaskStep DEF TaskIInv, TaskTypeOK

\* A completed task joins the queue again under a new ticket; its old one has left.
LEMMA RetryCompletedStep ==
  ASSUME TaskIInv, IInv', NEW d \in Tasks, RetryCompleted(d)
  PROVE  TaskIInv'
<1> DEFINE t == ticket[d]
           new == admitted + 1
<1>1. /\ t \in Tickets /\ owner[t] = d /\ TypeOK /\ TypeOK' /\ state[t] = "finished"
      /\ admitted \in Nat /\ created \in Nat /\ d \in 0..created
  <2>1. /\ t \in Tickets /\ owner[t] = d /\ state[t] \in States /\ outcome[t] = "pending"
        /\ task[d] \in Terminal /\ Agrees(task[d], state[t], outcome[t], closed)
    BY LatestTicket DEF RetryCompleted, Quiet
  <2>2. state[t] = "finished"
    BY <2>1 DEF Agrees, States, Terminal
  <2>3. TypeOK /\ TypeOK'
    BY DEF TaskIInv, TaskTypeOK, IInv
  <2>4. admitted \in Nat /\ created \in Nat /\ d \in 0..created
    BY <2>3 DEF TaskIInv, TaskTypeOK, TypeOK, Tasks
  <2> QED  BY <2>1, <2>2, <2>3, <2>4
<1>2. /\ Tickets = 1..admitted /\ Tickets' = 1..new
      /\ closed' = closed /\ created' = created /\ attempts' = attempts
      /\ ticket' = [ticket EXCEPT ![d] = new]
      /\ owner' = Append(owner, d)
      /\ task' = [task EXCEPT ![d] = "waiting"]
      /\ canCancel' = [canCancel EXCEPT ![d] = TRUE]
      /\ canRetry' = [canRetry EXCEPT ![d] = FALSE]
  BY DEF RetryCompleted, Requeued, Admit, Tickets
<1>3. /\ Tickets \subseteq Tickets' /\ new \in Tickets'
      /\ \A u \in Tickets' \ Tickets : u = new
      /\ \A u \in Tickets : u # new
  BY <1>1, <1>2
<1>4. /\ \A u \in Tickets : state'[u] = state[u] /\ outcome'[u] = outcome[u]
      /\ state'[new] = "waiting" /\ outcome'[new] = "pending"
  <2>1. /\ \A u \in Tickets : u \in 1..admitted + 1 /\ u <= admitted
        /\ new \in 1..admitted + 1 /\ ~(new <= admitted)
    BY <1>1, <1>2
  <2> QED  BY <2>1 DEF RetryCompleted, Admit
<1>5. /\ owner' \in [Tickets' -> 0..created]
      /\ \A u \in Tickets : owner'[u] = owner[u]
      /\ owner'[new] = d
  <2> DEFINE S == 0..created
             h == Append(owner, d)
  <2>1. owner \in [1..admitted -> S] /\ owner' = h
    BY <1>2 DEF TaskIInv, TaskTypeOK
  <2>2. /\ h \in [1..admitted + 1 -> S]
        /\ \A u \in 1..admitted : h[u] = owner[u]
        /\ h[admitted + 1] = d
    <3> HIDE DEF S
    <3>1. d \in S
      BY <1>1 DEF S
    <3> QED  BY <1>1, <2>1, <3>1, LongerTable
  <2> HIDE DEF h
  <2> QED  BY <1>2, <2>1, <2>2
<1> HIDE DEF new
<1>6. /\ ticket' \in [Tasks -> Tickets'] /\ ticket'[d] = new
      /\ task' \in [Tasks -> TaskStates] /\ task'[d] = "waiting"
      /\ canCancel' \in [Tasks -> BOOLEAN] /\ canRetry' \in [Tasks -> BOOLEAN]
      /\ canCancel'[d] = TRUE /\ canRetry'[d] = FALSE
      /\ \A e \in Tasks : e # d => /\ ticket'[e] = ticket[e] /\ task'[e] = task[e]
                                   /\ canCancel'[e] = canCancel[e] /\ canRetry'[e] = canRetry[e]
  BY <1>2, <1>3 DEF TaskIInv, TaskTypeOK, TaskStates, Unfinished
<1>7. TaskOK(d)'
  <2>1. OldTicketsGone(d)'
    BY <1>1, <1>3, <1>4, <1>5, <1>6 DEF OldTicketsGone, TaskIInv, TaskOK
  <2>2. Agrees(task[d], state[ticket[d]], outcome[ticket[d]], closed)'
    BY <1>4, <1>6 DEF Agrees
  <2>3. Offers(task[d], canCancel[d], canRetry[d])'
    BY <1>6 DEF Offers, Unfinished
  <2> QED  BY <1>5, <1>6, <2>1, <2>2, <2>3 DEF TaskOK
<1>8. attempts' \in [Tasks -> Nat]
  BY <1>2 DEF TaskIInv, TaskTypeOK
<1>9. \A u \in Tickets' \ Tickets : owner'[u] = d
  BY <1>3, <1>5
<1>10. TypeOK' /\ closed' = closed /\ created' = created
  BY <1>1, <1>2
<1>11. \A u \in Tickets : /\ owner'[u] = owner[u] /\ state'[u] = state[u]
                          /\ outcome'[u] = outcome[u]
  BY <1>4, <1>5
<1> HIDE DEF t
<1> QED  BY <1>3, <1>5, <1>6, <1>7, <1>8, <1>9, <1>10, <1>11, OneTaskStep

-----------------------------------------------------------------------------
(* The steps that change several tasks *)

\* A pump runs the tasks whose tickets it starts: waiting ones, each on its latest ticket.
LEMMA RunStep ==
  ASSUME TaskIInv, IInv', RunStarts
  PROVE  TaskIInv'
<1> DEFINE starting == {owner[t] : t \in Started}
<1>1. /\ Tickets' = Tickets /\ Tasks' = Tasks
      /\ UNCHANGED <<outcome, closed, created, ticket, owner>>
      /\ \A t \in Tickets : state'[t] = IF t \in Started THEN "running" ELSE state[t]
      /\ \A t \in Started : t \in Tickets /\ state[t] = "waiting"
  BY DEF RunStarts, Pump, Tickets, Tasks, Started, Eligible, In
<1>2. /\ task' = [d \in Tasks |-> IF d \in starting THEN "running" ELSE task[d]]
      /\ attempts' = [d \in Tasks |-> IF d \in starting THEN attempts[d] + 1 ELSE attempts[d]]
      /\ canCancel' = [d \in Tasks |-> d \in starting \/ canCancel[d]]
      /\ canRetry' = [d \in Tasks |-> d \notin starting /\ canRetry[d]]
  BY DEF RunStarts
<1>3. TaskTypeOK'
  <2>1. TypeOK'
    BY DEF IInv
  <2>2. /\ task' \in [Tasks -> TaskStates] /\ attempts' \in [Tasks -> Nat]
        /\ canCancel' \in [Tasks -> BOOLEAN] /\ canRetry' \in [Tasks -> BOOLEAN]
    <3> HIDE DEF starting
    <3> QED  BY <1>2 DEF TaskIInv, TaskTypeOK, TaskStates, Unfinished
  <2> QED  BY <1>1, <2>1, <2>2 DEF TaskIInv, TaskTypeOK
<1>4. ASSUME NEW d \in Tasks
      PROVE  TaskOK(d)'
  <2>1. d \in starting <=> ticket[d] \in Started
    <3>1. ASSUME NEW t \in Started, owner[t] = d
          PROVE  t = ticket[d]
      BY <1>1, <3>1, LatestTicket
    <3> QED  BY <3>1, LatestTicket
  <2>2. OldTicketsGone(d)'
    <3>1. \A t \in Tickets : state[t] = "finished" => state'[t] = "finished"
      BY <1>1
    <3> QED  BY <1>1, <3>1 DEF OldTicketsGone, TaskIInv, TaskOK
  <2>3. Agrees(task[d], state[ticket[d]], outcome[ticket[d]], closed)'
    <3> HIDE DEF starting
    <3> QED  BY <1>1, <1>2, <2>1, LatestTicket DEF Agrees, Outcomes
  <2>4. Offers(task[d], canCancel[d], canRetry[d])'
    <3> HIDE DEF starting
    <3> QED  BY <1>2, LatestTicket DEF Offers, Unfinished
  <2> QED  BY <1>1, <2>2, <2>3, <2>4, LatestTicket DEF TaskOK
<1> QED  BY <1>1, <1>3, <1>4 DEF TaskIInv

\* The continuation of execute: a reader leaves the queue, or blocks its line when its
\* task is paused.
LEMMA ResumeTicketStep ==
  ASSUME TaskIInv, IInv', NEW t \in Tickets, ResumeTicket(t)
  PROVE  TaskIInv'
<1>1. /\ Tickets' = Tickets /\ Tasks' = Tasks
      /\ UNCHANGED <<closed, created, attempts, ticket, owner>>
      /\ state[t] \in {"running", "stopping"} /\ outcome[t] # "pending"
      /\ state'[t] = IF Blocks(t) THEN "blocked" ELSE "finished"
      /\ outcome'[t] = "pending"
      /\ \A u \in Tickets : u # t => state'[u] = state[u] /\ outcome'[u] = outcome[u]
  BY DEF ResumeTicket, Resume, Reading, In, Tickets, Tasks, TaskIInv, TaskTypeOK, TypeOK
<1>2. DOMAIN task = Tasks
  BY DEF TaskIInv, TaskTypeOK
<1>3. Abandoned(task, IF Blocks(t) THEN {} ELSE {t}) = {}
  <2> SUFFICES ASSUME NEW d \in Tasks, task[d] = "waiting", owner[t] = d
               PROVE  FALSE
    BY <1>2 DEF Abandoned
  <2>1. t = ticket[d]
    BY <1>1, LatestTicket
  <2> QED  BY <1>1, <2>1, LatestTicket DEF Agrees
<1>4. /\ task' = task
      /\ canRetry' = [d \in Tasks |-> canRetry[d]]
      /\ canCancel' = [d \in Tasks |-> canCancel[d]]
  <2>1. task' = [d \in Tasks |-> task[d]]
    BY <1>2, <1>3 DEF ResumeTicket, Abandon
  <2>2. task' = task
    BY <2>1 DEF TaskIInv, TaskTypeOK
  <2> QED  BY <1>2, <1>3, <2>2 DEF ResumeTicket, Abandon, TaskIInv, TaskTypeOK
<1>5. canRetry' = canRetry /\ canCancel' = canCancel
  BY <1>4 DEF TaskIInv, TaskTypeOK
<1>6. TaskTypeOK'
  <2>1. TypeOK'
    BY DEF IInv
  <2> QED  BY <1>1, <1>4, <1>5, <2>1 DEF TaskIInv, TaskTypeOK
<1>7. ASSUME NEW d \in Tasks
      PROVE  TaskOK(d)'
  <2>1. CASE owner[t] # d
    <3>1. TypeOK /\ TaskOK(d) /\ ticket[d] \in Tickets /\ ticket[d] # t
      BY <2>1, LatestTicket DEF TaskIInv
    <3> QED  BY <1>1, <1>4, <1>5, <3>1, TaskKept
  <2>2. CASE owner[t] = d
    <3>1. t = ticket[d]
      BY <1>1, <2>2, LatestTicket
    <3>2. OldTicketsGone(d)'
      BY <1>1, <3>1 DEF OldTicketsGone, TaskIInv, TaskOK
    <3>3. Agrees(task[d], state[ticket[d]], outcome[ticket[d]], closed)'
      BY <1>1, <1>4, <3>1, LatestTicket DEF Agrees, Blocks, Outcomes
    <3> QED  BY <1>1, <1>4, <1>5, <3>2, <3>3, LatestTicket DEF TaskOK
  <2> QED  BY <2>1, <2>2
<1> QED  BY <1>1, <1>6, <1>7 DEF TaskIInv

\* The host closes: what waits or is paused is given up at once, what reads is asked
\* to stop.
LEMMA CloseStep ==
  ASSUME TaskIInv, IInv', Close
  PROVE  TaskIInv'
<1> DEFINE f == [d \in Tasks |-> IF task[d] = "paused" THEN "failed" ELSE task[d]]
           gone == Abandoned(f, In({"waiting", "blocked"}))
<1>1. /\ Tickets' = Tickets /\ Tasks' = Tasks /\ closed' = TRUE
      /\ UNCHANGED <<outcome, created, attempts, ticket, owner>>
      /\ \A u \in Tickets : state'[u] = Cancelled(state[u])
  BY DEF Close, Stop, Tickets, Tasks
<1>2. /\ \A d \in Tasks : d \in gone <=> task[d] = "waiting"
      /\ gone \subseteq Tasks
  <2>1. gone \subseteq Tasks /\ \A d \in gone : f[d] = "waiting"
    BY DEF Abandoned
  <2>2. ASSUME NEW d \in Tasks, task[d] = "waiting"
        PROVE  d \in gone
    <3>1. ticket[d] \in In({"waiting", "blocked"}) /\ owner[ticket[d]] = d
      BY <2>2, LatestTicket DEF Agrees, In
    <3> QED  BY <2>2, <3>1 DEF Abandoned
  <2> QED  BY <2>1, <2>2
<1>3. /\ task' = [d \in Tasks |-> IF d \in gone THEN "cancelled" ELSE f[d]]
      /\ canRetry' = [d \in Tasks |-> d \in gone \/ canRetry[d]]
      /\ canCancel' = [d \in Tasks |-> canCancel[d] /\ task'[d] = task[d]]
  <2>1. DOMAIN f = Tasks
    OBVIOUS
  <2> HIDE DEF f
  <2>2. Abandon(f, In({"waiting", "blocked"}))
    BY DEF Close, f
  <2> QED  BY <2>1, <2>2 DEF Abandon, Close
<1>4. \A d \in Tasks : task'[d] = IF task[d] = "waiting" THEN "cancelled"
                                  ELSE IF task[d] = "paused" THEN "failed" ELSE task[d]
  <2> HIDE DEF gone
  <2> QED  BY <1>2, <1>3
<1>5. /\ \A d \in Tasks : canRetry'[d] = (task[d] = "waiting" \/ canRetry[d])
      /\ \A d \in Tasks : canCancel'[d] = (canCancel[d] /\ task'[d] = task[d])
  <2> HIDE DEF gone, f
  <2> QED  BY <1>2, <1>3
<1>6. TaskTypeOK'
  <2>1. TypeOK'
    BY DEF IInv
  <2>2. /\ task' \in [Tasks -> TaskStates]
        /\ canRetry' \in [Tasks -> BOOLEAN] /\ canCancel' \in [Tasks -> BOOLEAN]
    <3>1. \A d \in Tasks : task'[d] \in TaskStates
      BY <1>4, LatestTicket DEF TaskStates, Terminal
    <3> HIDE DEF gone, f
    <3> QED  BY <1>3, <3>1 DEF TaskIInv, TaskTypeOK
  <2> QED  BY <1>1, <2>1, <2>2 DEF TaskIInv, TaskTypeOK
<1>7. ASSUME NEW d \in Tasks
      PROVE  TaskOK(d)'
  <2>1. OldTicketsGone(d)'
    <3>1. \A u \in Tickets : state[u] = "finished" => state'[u] = "finished"
      BY <1>1 DEF Cancelled
    <3> QED  BY <1>1, <3>1 DEF OldTicketsGone, TaskIInv, TaskOK
  <2>2. Agrees(task[d], state[ticket[d]], outcome[ticket[d]], closed)'
    <3> HIDE DEF gone, f
    <3> QED  BY <1>1, <1>4, LatestTicket DEF Agrees, Cancelled, States, Outcomes
  <2>3. Offers(task[d], canCancel[d], canRetry[d])'
    <3> HIDE DEF gone, f
    <3> QED  BY <1>4, <1>5, LatestTicket DEF Offers, Unfinished
  <2> QED  BY <1>1, <2>1, <2>2, <2>3, LatestTicket DEF TaskOK
<1> QED  BY <1>1, <1>6, <1>7 DEF TaskIInv

\* A batch joins the queue: each new task waits on a new ticket of its own.
LEMMA EnqueueStep ==
  ASSUME TaskIInv, IInv', NEW n \in 1..MaxBatch, NEW keys \in [1..n -> Printers],
         Enqueue(n, keys)
  PROVE  TaskIInv'
<1>1. /\ TypeOK /\ TypeOK' /\ n \in Nat /\ n # 0
      /\ created' \in 0..MaxTasks /\ created \in Nat /\ admitted \in Nat
      /\ created' = created + n /\ admitted' = admitted + n /\ closed' = closed
      /\ Tasks = 1..created /\ Tasks' = 1..created + n
      /\ Tickets = 1..admitted /\ Tickets' = 1..admitted + n
  <2>1. TypeOK /\ TypeOK'
    BY DEF TaskIInv, TaskTypeOK, IInv
  <2> QED  BY <2>1, TaskAssumption DEF TaskIInv, TaskTypeOK, TypeOK, Enqueue, Admit, Tasks, Tickets
<1>2. \A u \in Tickets : /\ u \in Tickets' /\ state'[u] = state[u] /\ outcome'[u] = outcome[u]
  <2>1. \A u \in Tickets : u \in 1..admitted + n /\ u <= admitted
    BY <1>1
  <2> QED  BY <1>1, <2>1 DEF Enqueue, Admit
<1>3. \A u \in Tickets' : u > admitted => state'[u] = "waiting" /\ outcome'[u] = "pending"
  <2>1. \A u \in Tickets' : u > admitted => u \in 1..admitted + n /\ ~(u <= admitted)
    BY <1>1
  <2> QED  BY <2>1 DEF Enqueue, Admit
<1>4. /\ task' \in [1..created + n -> TaskStates]
      /\ \A d \in 1..created : \/ task'[d] = task[d]
                               \/ task[d] \in Terminal /\ task'[d] = "pruned"
      /\ \A d \in 1..created + n : d > created => task'[d] = "waiting"
  <2> DEFINE g == [i \in 1..n |-> "waiting"]
             h == task \o g
  <2>1. task \in [1..created -> TaskStates] /\ g \in [1..n -> TaskStates]
    BY <1>1 DEF TaskIInv, TaskTypeOK, TaskStates, Unfinished
  <2>2. \A i \in 1..n : g[i] = "waiting"
    OBVIOUS
  <2>3. task' = Prune(h)
    BY DEF Enqueue
  <2> HIDE DEF g
  <2>4. task \in Seq(TaskStates) /\ Len(task) = created /\ g \in Seq(TaskStates) /\ Len(g) = n
    BY <1>1, <2>1, TableIsSequence
  <2>5. /\ h \in Seq(TaskStates) /\ Len(h) = created + n
        /\ \A i \in 1..created + n : h[i] = IF i <= created THEN task[i] ELSE g[i - created]
    BY <1>1, <2>4, ConcatProperties
  <2> HIDE DEF h
  <2>6. /\ h \in [1..created + n -> TaskStates]
        /\ \A d \in 1..created : h[d] = task[d]
        /\ \A d \in 1..created + n : d > created => d - created \in 1..n /\ h[d] = g[d - created]
    BY <1>1, <2>5, JoinedRows
  <2>7. /\ Prune(h) \in [1..created + n -> TaskStates]
        /\ \A d \in 1..created + n : \/ Prune(h)[d] = h[d]
                                     \/ h[d] \in Terminal /\ Prune(h)[d] = "pruned"
    BY <2>6 DEF Prune, TaskStates
  <2>8. \A d \in 1..created : d \in 1..created + n
    BY <1>1
  <2>9. \A d \in 1..created + n : d > created => task'[d] = "waiting"
    BY <2>2, <2>3, <2>6, <2>7 DEF Terminal
  <2>10. \A d \in 1..created : \/ task'[d] = task[d]
                               \/ task[d] \in Terminal /\ task'[d] = "pruned"
    <3> SUFFICES ASSUME NEW d \in 1..created
                 PROVE  task'[d] = task[d] \/ (task[d] \in Terminal /\ task'[d] = "pruned")
      OBVIOUS
    <3>1. d \in 1..created + n /\ h[d] = task[d]
      BY <2>6, <2>8
    <3> QED  BY <2>3, <2>7, <3>1
  <2>11. task' \in [1..created + n -> TaskStates]
    BY <2>3, <2>7
  <2> QED  BY <2>9, <2>10, <2>11
<1>5. /\ canCancel' \in [1..created + n -> BOOLEAN]
      /\ \A d \in 1..created : canCancel'[d] = canCancel[d]
      /\ \A d \in 1..created + n : d > created => canCancel'[d] = TRUE
  <2> DEFINE g == [i \in 1..n |-> TRUE]
             h == canCancel \o g
             S == BOOLEAN
  <2>1. canCancel \in [1..created -> S] /\ g \in [1..n -> S]
    BY <1>1 DEF TaskIInv, TaskTypeOK
  <2>2. \A i \in 1..n : g[i] = TRUE
    OBVIOUS
  <2>3. canCancel' = h
    BY DEF Enqueue
  <2> HIDE DEF g, S
  <2>4. canCancel \in Seq(S) /\ Len(canCancel) = created /\ g \in Seq(S) /\ Len(g) = n
    BY <1>1, <2>1, TableIsSequence
  <2>5. /\ h \in Seq(S) /\ Len(h) = created + n
        /\ \A i \in 1..created + n : h[i] = IF i <= created THEN canCancel[i] ELSE g[i - created]
    BY <1>1, <2>4, ConcatProperties
  <2> HIDE DEF h
  <2>6. /\ h \in [1..created + n -> S]
        /\ \A d \in 1..created : h[d] = canCancel[d]
        /\ \A d \in 1..created + n : d > created => d - created \in 1..n /\ h[d] = g[d - created]
    BY <1>1, <2>5, JoinedRows
  <2> QED  BY <2>2, <2>3, <2>6 DEF S
<1>6. /\ canRetry' \in [1..created + n -> BOOLEAN]
      /\ \A d \in 1..created : canRetry'[d] = canRetry[d]
      /\ \A d \in 1..created + n : d > created => canRetry'[d] = FALSE
  <2> DEFINE g == [i \in 1..n |-> FALSE]
             h == canRetry \o g
             S == BOOLEAN
  <2>1. canRetry \in [1..created -> S] /\ g \in [1..n -> S]
    BY <1>1 DEF TaskIInv, TaskTypeOK
  <2>2. \A i \in 1..n : g[i] = FALSE
    OBVIOUS
  <2>3. canRetry' = h
    BY DEF Enqueue
  <2> HIDE DEF g, S
  <2>4. canRetry \in Seq(S) /\ Len(canRetry) = created /\ g \in Seq(S) /\ Len(g) = n
    BY <1>1, <2>1, TableIsSequence
  <2>5. /\ h \in Seq(S) /\ Len(h) = created + n
        /\ \A i \in 1..created + n : h[i] = IF i <= created THEN canRetry[i] ELSE g[i - created]
    BY <1>1, <2>4, ConcatProperties
  <2> HIDE DEF h
  <2>6. /\ h \in [1..created + n -> S]
        /\ \A d \in 1..created : h[d] = canRetry[d]
        /\ \A d \in 1..created + n : d > created => d - created \in 1..n /\ h[d] = g[d - created]
    BY <1>1, <2>5, JoinedRows
  <2> QED  BY <2>2, <2>3, <2>6 DEF S
<1>7. /\ attempts' \in [1..created + n -> Nat]
      /\ \A d \in 1..created : attempts'[d] = attempts[d]
      /\ \A d \in 1..created + n : d > created => attempts'[d] = 0
  <2> DEFINE g == [i \in 1..n |-> 0]
             h == attempts \o g
             S == Nat
  <2>1. attempts \in [1..created -> S] /\ g \in [1..n -> S]
    BY <1>1 DEF TaskIInv, TaskTypeOK
  <2>2. \A i \in 1..n : g[i] = 0
    OBVIOUS
  <2>3. attempts' = h
    BY DEF Enqueue
  <2> HIDE DEF g, S
  <2>4. attempts \in Seq(S) /\ Len(attempts) = created /\ g \in Seq(S) /\ Len(g) = n
    BY <1>1, <2>1, TableIsSequence
  <2>5. /\ h \in Seq(S) /\ Len(h) = created + n
        /\ \A i \in 1..created + n : h[i] = IF i <= created THEN attempts[i] ELSE g[i - created]
    BY <1>1, <2>4, ConcatProperties
  <2> HIDE DEF h
  <2>6. /\ h \in [1..created + n -> S]
        /\ \A d \in 1..created : h[d] = attempts[d]
        /\ \A d \in 1..created + n : d > created => d - created \in 1..n /\ h[d] = g[d - created]
    BY <1>1, <2>5, JoinedRows
  <2> QED  BY <2>2, <2>3, <2>6 DEF S
<1>8. /\ ticket' \in [1..created + n -> Tickets']
      /\ \A d \in 1..created : ticket'[d] = ticket[d]
      /\ \A d \in 1..created + n : d > created => ticket'[d] = admitted + (d - created)
  <2> DEFINE g == [i \in 1..n |-> admitted + i]
             h == ticket \o g
             S == Tickets'
  <2>1. ticket \in [1..created -> S] /\ g \in [1..n -> S]
    <3>1. \A u \in Tickets : u \in Tickets'
      BY <1>1
    <3>2. \A i \in 1..n : admitted + i \in Tickets'
      BY <1>1
    <3> QED  BY <1>1, <3>1, <3>2 DEF TaskIInv, TaskTypeOK
  <2>2. \A i \in 1..n : g[i] = admitted + i
    OBVIOUS
  <2>3. ticket' = h
    BY DEF Enqueue
  <2> HIDE DEF g, S
  <2>4. ticket \in Seq(S) /\ Len(ticket) = created /\ g \in Seq(S) /\ Len(g) = n
    BY <1>1, <2>1, TableIsSequence
  <2>5. /\ h \in Seq(S) /\ Len(h) = created + n
        /\ \A i \in 1..created + n : h[i] = IF i <= created THEN ticket[i] ELSE g[i - created]
    BY <1>1, <2>4, ConcatProperties
  <2> HIDE DEF h
  <2>6. /\ h \in [1..created + n -> S]
        /\ \A d \in 1..created : h[d] = ticket[d]
        /\ \A d \in 1..created + n : d > created => d - created \in 1..n /\ h[d] = g[d - created]
    BY <1>1, <2>5, JoinedRows
  <2> QED  BY <2>2, <2>3, <2>6 DEF S
<1>9. /\ owner' \in [1..admitted + n -> 0..created']
      /\ \A d \in 1..admitted : owner'[d] = owner[d]
      /\ \A d \in 1..admitted + n : d > admitted => owner'[d] = created + (d - admitted)
  <2> DEFINE g == [i \in 1..n |-> created + i]
             h == owner \o g
             S == 0..created'
  <2>1. owner \in [1..admitted -> S] /\ g \in [1..n -> S]
    <3>1. owner \in [1..admitted -> 0..created]
      BY <1>1 DEF TaskIInv, TaskTypeOK
    <3>2. /\ \A d \in 0..created : d \in 0..created + n
          /\ \A i \in 1..n : created + i \in 0..created + n
      BY <1>1
    <3> QED  BY <1>1, <3>1, <3>2
  <2>2. \A i \in 1..n : g[i] = created + i
    OBVIOUS
  <2>3. owner' = h
    BY DEF Enqueue
  <2> HIDE DEF g, S
  <2>4. owner \in Seq(S) /\ Len(owner) = admitted /\ g \in Seq(S) /\ Len(g) = n
    BY <1>1, <2>1, TableIsSequence
  <2>5. /\ h \in Seq(S) /\ Len(h) = admitted + n
        /\ \A i \in 1..admitted + n : h[i] = IF i <= admitted THEN owner[i] ELSE g[i - admitted]
    BY <1>1, <2>4, ConcatProperties
  <2> HIDE DEF h
  <2>6. /\ h \in [1..admitted + n -> S]
        /\ \A d \in 1..admitted : h[d] = owner[d]
        /\ \A d \in 1..admitted + n : d > admitted => d - admitted \in 1..n /\ h[d] = g[d - admitted]
    BY <1>1, <2>5, JoinedRows
  <2> QED  BY <2>2, <2>3, <2>6 DEF S
<1>10. TaskTypeOK'
  BY <1>1, <1>4, <1>5, <1>6, <1>7, <1>8, <1>9 DEF TaskTypeOK
<1>11. /\ \A u \in Tickets : owner'[u] = owner[u] /\ owner[u] <= created /\ owner[u] \in Int
       /\ \A u \in Tickets' : u \in Int /\ (u \notin Tickets <=> u > admitted)
       /\ \A d \in Tasks' : d \in Int /\ (d \notin Tasks <=> d > created)
  BY <1>1, <1>9 DEF TaskIInv, TaskTypeOK
<1>12. ASSUME NEW d \in Tasks
       PROVE  TaskOK(d)'
  <2>1. /\ TaskOK(d) /\ ticket[d] \in Tickets /\ d \in 1..created
    BY <1>1, LatestTicket DEF TaskIInv
  <2>2. /\ ticket'[d] = ticket[d] /\ canCancel'[d] = canCancel[d] /\ canRetry'[d] = canRetry[d]
        /\ task'[d] = task[d] \/ (task[d] \in Terminal /\ task'[d] = "pruned")
    BY <1>4, <1>5, <1>6, <1>8, <2>1
  <2>3. OldTicketsGone(d)'
    <3> SUFFICES ASSUME NEW u \in Tickets', owner'[u] = d, u # ticket[d]
                 PROVE  state'[u] = "finished"
      BY <2>2 DEF OldTicketsGone
    <3>1. u \in Tickets
      <4>1. u > admitted => owner'[u] = created + (u - admitted)
        BY <1>1, <1>9
      <4> QED  BY <1>1, <1>11, <2>1, <4>1
    <3> QED  BY <1>2, <1>11, <2>1, <3>1 DEF TaskOK, OldTicketsGone
  <2>4. /\ owner'[ticket[d]] = owner[ticket[d]] /\ state'[ticket[d]] = state[ticket[d]]
        /\ outcome'[ticket[d]] = outcome[ticket[d]] /\ closed' = closed
    BY <1>1, <1>2, <1>11, <2>1
  <2> QED  BY <2>1, <2>2, <2>3, <2>4 DEF TaskOK, Agrees, Offers, Terminal
<1>13. ASSUME NEW d \in Tasks', d \notin Tasks
       PROVE  TaskOK(d)'
  <2> DEFINE t == admitted + (d - created)
  <2>1. /\ d \in 1..created + n /\ d > created /\ t \in Tickets' /\ t > admitted
        /\ created + (t - admitted) = d
    BY <1>1, <1>11, <1>13
  <2>2. ticket'[d] = t
    BY <1>8, <2>1
  <2> HIDE DEF t
  <2>3. /\ owner'[t] = d /\ task'[d] = "waiting" /\ canRetry'[d] = FALSE
        /\ state'[t] = "waiting" /\ outcome'[t] = "pending"
    BY <1>1, <1>3, <1>4, <1>6, <1>9, <2>1
  <2>4. OldTicketsGone(d)'
    <3> SUFFICES ASSUME NEW u \in Tickets', owner'[u] = d
                 PROVE  u = t
      BY <2>2 DEF OldTicketsGone
    <3>1. u \notin Tickets
      BY <1>1, <1>11, <2>1
    <3>2. owner'[u] = created + (u - admitted)
      BY <1>1, <1>9, <1>11, <3>1
    <3> QED  BY <1>1, <1>11, <2>1, <3>2
  <2> QED  BY <2>2, <2>3, <2>4 DEF TaskOK, Agrees, Offers, Unfinished
<1>14. \A d \in Tasks' : TaskOK(d)'
  BY <1>12, <1>13
<1> QED  BY <1>10, <1>14 DEF TaskIInv

\* Every step of the tasks preserves the invariant.
LEMMA TaskStepAgrees ==
  ASSUME TaskIInv, IInv', [TaskNext]_vars
  PROVE  TaskIInv'
<1>1. CASE UNCHANGED vars
  BY <1>1 DEF vars, queueVars, taskVars, TaskIInv, TaskTypeOK, TypeOK, TaskOK, OldTicketsGone,
              Tasks, Tickets
<1> QED
  BY <1>1, EnqueueStep, VideoSteps, RunStep, ProgressStep, ReturnStep, ResumeTicketStep,
     CancelStep, PausedSteps, RetryCompletedStep, CloseStep DEF TaskNext

\* No tasks, nothing to agree on.
LEMMA TaskInitAgrees == TaskInit => TaskIInv
<1> SUFFICES ASSUME TaskInit PROVE TaskIInv
  OBVIOUS
<1>1. TypeOK
  BY InitInvariant DEF TaskInit, IInv
<1>2. Tasks = {} /\ Tickets = {} /\ created = 0 /\ 0 \in 0..MaxTasks
  BY TaskAssumption DEF TaskInit, Init, Tasks, Tickets
<1>3. \A X : <<>> \in [{} -> X]
  OBVIOUS
<1> QED  BY <1>1, <1>2, <1>3 DEF TaskInit, TaskIInv, TaskTypeOK

-----------------------------------------------------------------------------
(* The theorems *)

\* The tasks' invariant holds in every reachable state.
THEOREM TaskInvariance == TaskSpec => [](IInv /\ TicketsKnown)
<1>1. IInv /\ TicketsKnown /\ [TaskNext]_vars => (IInv /\ TicketsKnown)'
  BY TaskStepInvariant
<1> QED  BY <1>1, TaskInitInvariant, PTL DEF TaskSpec

\* The tasks, with the videos beside them, implement the queue: every behaviour of
\* ManagedDownloadTasks is one of TransferQueue with the task fields hidden.
THEOREM TasksImplementQueue == TaskSpec => Spec
<1>1. TaskInit => Init
  BY DEF TaskInit
<1>2. IInv /\ TicketsKnown /\ [TaskNext]_vars => [Next]_queueVars
  <2>1. IInv => TypeOK
    BY DEF IInv
  <2> QED  BY <2>1, TaskStepsQueue
<1> QED  BY <1>1, <1>2, TaskInvariance, PTL DEF TaskSpec, Spec

\* No physical printer ever has two readers, downloads and videos together (pump).
THEOREM TaskReadersExclusive == TaskSpec => []OneReaderPerPrinter
<1> QED  BY TasksImplementQueue, ReadersExclusive, PTL

\* The slots in use are counted and within the budget whatever the tasks do (execute).
THEOREM TaskSlotsCounted == TaskSpec => []BudgetKept
<1> QED  BY TasksImplementQueue, SlotsCounted, PTL

\* No task or video starts before the earlier work of its printer has finished.
THEOREM TaskNobodyPasses == TaskSpec => HeadOfLine
<1> QED  BY TasksImplementQueue, NobodyPasses, PTL

\* A task and its ticket never disagree, whatever is paused, retried, cancelled, pruned
\* or closed and in whatever order the queue's callbacks arrive; no old ticket of a task
\* stays in the queue and no old report offers an action again (run, cancel, retry, close).
THEOREM TasksAgree == TaskSpec => []TasksConsistent
<1>1. TaskIInv /\ IInv' /\ [TaskNext]_vars => TaskIInv'
  BY TaskStepAgrees
<1>2. TaskSpec => []IInv
  BY TaskInvariance, PTL
<1> QED  BY <1>1, <1>2, TaskInitAgrees, TaskInvariantSuffices, PTL DEF TaskSpec
=============================================================================
