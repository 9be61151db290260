--------------------------- MODULE TransferQueue ---------------------------
(***************************************************************************)
(* The host-wide admission of printer readers: the class TransferQueue of  *)
(* packages/printer-control/src/transferQueue.ts.  Downloads and stored-   *)
(* video readers enqueue requests; at most MaxActive of them run, in the   *)
(* order they were admitted, and a request never passes an earlier one for *)
(* the same physical printer, even while that one is blocked.              *)
(*                                                                         *)
(* A ticket is the number of its admission, so the order of the array      *)
(* "entries" is the order of the tickets that are not finished.  A call is *)
(* one step, for JavaScript runs it to its end; pump and the continuation  *)
(* of execute after its await are microtasks, steps of their own.          *)
(*                                                                         *)
(* No caller in src/ calls back into the queue from "changed", so emit     *)
(* changes nothing here.  An attempt's AbortController is aborted exactly  *)
(* when its entry is "stopping".                                           *)
(***************************************************************************)
EXTENDS Integers, FiniteSets

CONSTANTS
  Printers,     \* physical printer keys
  MaxActive,    \* the constructor's concurrency budget
  MaxTickets,   \* bound: requests admitted
  MaxAttempts   \* bound: attempts of one request

ASSUME QueueAssumption == /\ MaxActive \in Nat \ {0}
                          /\ MaxTickets \in Nat
                          /\ MaxAttempts \in Nat \ {0}

VARIABLES admitted, printer, state, attempt, outcome, active, scheduled, closed

queueVars == <<admitted, printer, state, attempt, outcome, active, scheduled, closed>>

-----------------------------------------------------------------------------
Tickets == 1..admitted
States == {"waiting", "running", "stopping", "blocked", "finished"}
Outcomes == {"pending", "finished", "blocked"}

In(states) == {t \in Tickets : state[t] \in states}
Reading == In({"running", "stopping"})

\* The earlier tickets for the same printer.
Before(t) == {u \in 1..t - 1 : printer[u] = printer[t]}

\* Mutant: the state is looked at before the printer is marked as seen.
Eligible_PassesHead ==
  {t \in In({"waiting"}) : \A u \in Before(t) : state[u] # "waiting"}

\* The first unfinished ticket of its printer, if it waits.
Eligible == {t \in In({"waiting"}) : \A u \in Before(t) : state[u] = "finished"}

\* The tickets one pump starts: the loop ends when the budget is spent.
Started ==
  IF closed THEN {}
  ELSE {t \in Eligible :
          active + Cardinality({u \in Eligible : u < t}) < MaxActive}

\* schedule() queues one microtask, and none once the queue is closed.
Schedule == scheduled' = (scheduled \/ ~closed)

-----------------------------------------------------------------------------
Init ==
  /\ admitted = 0
  /\ printer = <<>> /\ state = <<>> /\ attempt = <<>> /\ outcome = <<>>
  /\ active = 0
  /\ scheduled = FALSE /\ closed = FALSE

\* enqueue(), for the n requests of one synchronous call; request i is for keys[i].
Admit(n, keys) ==
  LET extended(f, value) ==
        [t \in 1..admitted + n |-> IF t <= admitted THEN f[t] ELSE value]
  IN  /\ ~closed
      /\ admitted + n <= MaxTickets
      /\ admitted' = admitted + n
      /\ printer' = [t \in 1..admitted + n |->
                       IF t <= admitted THEN printer[t] ELSE keys[t - admitted]]
      /\ state' = extended(state, "waiting")
      /\ attempt' = extended(attempt, 0)
      /\ outcome' = extended(outcome, "pending")
      /\ Schedule
      /\ UNCHANGED <<active, closed>>

Pump ==
  /\ scheduled
  /\ scheduled' = FALSE
  /\ active' = active + Cardinality(Started)
  /\ state' = [t \in Tickets |-> IF t \in Started THEN "running" ELSE state[t]]
  /\ attempt' = [t \in Tickets |-> IF t \in Started THEN attempt[t] + 1 ELSE attempt[t]]
  /\ UNCHANGED <<admitted, printer, outcome, closed>>

\* The request's run() settles; the continuation of execute is then due.
Settle(t, result) ==
  /\ t \in Reading /\ outcome[t] = "pending"
  /\ outcome' = [outcome EXCEPT ![t] = result]
  /\ UNCHANGED <<admitted, printer, state, attempt, active, scheduled, closed>>

\* Whether the continuation leaves the ticket blocked: an aborted attempt never is.
Blocks(t) == outcome[t] = "blocked" /\ state[t] = "running" /\ ~closed

\* Mutant: nobody pumps when a reader ends.
Resume_DoesNotSchedule(t) ==
  /\ t \in Reading /\ outcome[t] # "pending"
  /\ active' = active - 1
  /\ state' = [state EXCEPT ![t] = IF Blocks(t) THEN "blocked" ELSE "finished"]
  /\ outcome' = [outcome EXCEPT ![t] = "pending"]
  /\ UNCHANGED <<admitted, printer, attempt, scheduled, closed>>

Resume(t) ==
  /\ t \in Reading /\ outcome[t] # "pending"
  /\ active' = active - 1
  /\ state' = [state EXCEPT ![t] = IF Blocks(t) THEN "blocked" ELSE "finished"]
  /\ outcome' = [outcome EXCEPT ![t] = "pending"]
  /\ Schedule
  /\ UNCHANGED <<admitted, printer, attempt, closed>>

\* What cancel() makes of a ticket's state.
Cancelled(s) == IF s = "running" THEN "stopping"
                ELSE IF s \in {"waiting", "blocked"} THEN "finished" ELSE s

Cancel(t) ==
  /\ t \in In({"waiting", "running", "blocked"})
  /\ state' = [state EXCEPT ![t] = Cancelled(@)]
  /\ IF state[t] = "running" THEN UNCHANGED scheduled ELSE Schedule
  /\ UNCHANGED <<admitted, printer, attempt, outcome, active, closed>>

Retry(t) ==
  /\ ~closed
  /\ t \in In({"blocked"}) /\ attempt[t] < MaxAttempts
  /\ state' = [state EXCEPT ![t] = "waiting"]
  /\ Schedule
  /\ UNCHANGED <<admitted, printer, attempt, outcome, active, closed>>

Continue(t) ==
  /\ t \in In({"blocked"})
  /\ state' = [state EXCEPT ![t] = "finished"]
  /\ Schedule
  /\ UNCHANGED <<admitted, printer, attempt, outcome, active, closed>>

Stop ==
  /\ ~closed
  /\ closed' = TRUE
  /\ state' = [t \in Tickets |-> Cancelled(state[t])]
  /\ UNCHANGED <<admitted, printer, attempt, outcome, active, scheduled>>

Next ==
  \/ \E n \in 1..MaxTickets : \E keys \in [1..n -> Printers] : Admit(n, keys)
  \/ Pump
  \/ \E t \in Tickets, result \in {"finished", "blocked"} : Settle(t, result)
  \/ \E t \in Tickets : Resume(t)
  \/ \E t \in Tickets : Cancel(t)
  \/ \E t \in Tickets : Retry(t)
  \/ \E t \in Tickets : Continue(t)
  \/ Stop

Spec == Init /\ [][Next]_queueVars

\* Microtasks run, and the contract of run() is that it settles in the end.
Fairness ==
  /\ WF_queueVars(Pump)
  /\ \A t \in 1..MaxTickets :
        /\ WF_queueVars(Resume(t))
        /\ WF_queueVars(\E result \in {"finished", "blocked"} : Settle(t, result))

FairSpec == Spec /\ Fairness

-----------------------------------------------------------------------------
(* Properties *)

\* Every variable of the queue keeps its type.
TypeOK ==
  /\ admitted \in 0..MaxTickets
  /\ printer \in [Tickets -> Printers]
  /\ state \in [Tickets -> States]
  /\ attempt \in [Tickets -> Nat]
  /\ outcome \in [Tickets -> Outcomes]
  /\ active \in Nat
  /\ scheduled \in BOOLEAN /\ closed \in BOOLEAN

\* At most one reader of a physical printer, and it keeps the printer until its
\* reads and cleanup have joined, also after it was cancelled (pump, execute).
OneReaderPerPrinter ==
  \A t, u \in Reading : printer[t] = printer[u] => t = u

\* The counter "active" is the number of readers that hold a slot, and stays
\* within the budget: no path of execute leaks a slot or gives one back twice.
BudgetKept == active = Cardinality(Reading) /\ active <= MaxActive

\* A ticket starts only when every earlier one for its printer has finished:
\* later work cannot pass a waiting, running or blocked head.
HeadOfLine ==
  [][ \A t \in Tickets : state[t] = "waiting" /\ state'[t] = "running" =>
         \A u \in Before(t) : state[u] = "finished" ]_queueVars

\* A waiting ticket is served in the end, or its printer waits for the user to
\* retry or continue a blocked one (schedule after every change).
Served ==
  \A t \in 1..MaxTickets :
    (t \in In({"waiting"})) ~>
      (t \in Tickets /\ (\/ state[t] # "waiting"
                         \/ \E u \in Before(t) : state[u] = "blocked"))
=============================================================================
