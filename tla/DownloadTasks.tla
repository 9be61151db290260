--------------------------- MODULE DownloadTasks ---------------------------
(***************************************************************************)
(* The download tasks of the desktop host: the class ManagedDownloadTasks  *)
(* of packages/printer-control/src/downloadTasks.ts on top of the queue it *)
(* shares with the stored-video readers.  A task outlives its tickets: a   *)
(* failed or cancelled one is retried under a new ticket, a paused one in  *)
(* place, and the callbacks of an old ticket or attempt still reach it.    *)
(*                                                                         *)
(* A task is the number of its creation, the order of the Map "tasks".     *)
(* cancel, retry and continue are requests of the renderer, macrotasks     *)
(* that start when no microtask of the queue is left; downloads and videos *)
(* are admitted, and the host closes, from microtasks at any time.         *)
(***************************************************************************)
EXTENDS TransferQueue, Sequences

CONSTANTS
  MaxTasks,      \* bound: tasks created
  MaxBatch,      \* bound: requests of one batch (500 in the code)
  PendingLimit,  \* unfinished tasks admitted (1000 in the code)
  Retained       \* completed tasks that prune keeps (200 in the code)

ASSUME TaskAssumption == /\ {MaxTasks, MaxBatch, PendingLimit} \subseteq Nat
                         /\ Retained \in Nat \ {0}

VARIABLES
  created,    \* tasks created so far
  task,       \* the Map: the state of each task, "pruned" once deleted
  canCancel, canRetry,
  attempts,   \* snapshot.attempt, which names the execution in task.active
  ticket,     \* task.ticket, the latest
  owner       \* the task a ticket's callbacks belong to, 0 for a video reader

taskVars == <<created, task, canCancel, canRetry, attempts, ticket, owner>>
vars == <<queueVars, taskVars>>

Tasks == 1..created
Unfinished == {"waiting", "running", "paused"}
Terminal == {"saved", "failed", "cancelled"}
TaskStates == Unfinished \cup Terminal \cup {"pruned"}

TasksIn(states) == {d \in Tasks : task[d] \in states}

\* No microtask of the queue is due.
Quiet == ~scheduled /\ \A t \in Tickets : outcome[t] = "pending"

\* prune(): only the newest completed tasks stay.
Prune(f) ==
  [d \in DOMAIN f |->
     IF f[d] \in Terminal
        /\ Cardinality({e \in DOMAIN f : e > d /\ f[e] \in Terminal}) >= Retained
     THEN "pruned" ELSE f[d]]

-----------------------------------------------------------------------------
TaskInit ==
  /\ Init
  /\ created = 0
  /\ task = <<>> /\ canCancel = <<>> /\ canRetry = <<>> /\ attempts = <<>>
  /\ ticket = <<>> /\ owner = <<>>

\* A batch of downloads, one for each key.
Enqueue(n, keys) ==
  /\ n \in 1..MaxBatch
  /\ created + n <= MaxTasks
  /\ Cardinality(TasksIn(Unfinished)) + n <= PendingLimit
  /\ Admit(n, keys)
  /\ created' = created + n
  /\ task' = Prune(task \o [i \in 1..n |-> "waiting"])
  /\ canCancel' = canCancel \o [i \in 1..n |-> TRUE]
  /\ canRetry' = canRetry \o [i \in 1..n |-> FALSE]
  /\ attempts' = attempts \o [i \in 1..n |-> 0]
  /\ ticket' = ticket \o [i \in 1..n |-> admitted + i]
  /\ owner' = owner \o [i \in 1..n |-> created + i]

\* A stored video is admitted to the same queue.
PlayVideo(p) ==
  /\ Admit(1, <<p>>)
  /\ owner' = Append(owner, 0)
  /\ UNCHANGED <<created, task, canCancel, canRetry, attempts, ticket>>

\* pump() calls run() of each ticket it starts, up to its first await.
RunStarts ==
  LET starting == {owner[t] : t \in Started}
  IN  /\ Pump
      /\ task' = [d \in Tasks |-> IF d \in starting THEN "running" ELSE task[d]]
      /\ attempts' = [d \in Tasks |-> IF d \in starting THEN attempts[d] + 1
                                                        ELSE attempts[d]]
      /\ canCancel' = [d \in Tasks |-> d \in starting \/ canCancel[d]]
      /\ canRetry' = [d \in Tasks |-> d \notin starting /\ canRetry[d]]
      /\ UNCHANGED <<created, ticket, owner>>

\* A progress report of execution k; one of an earlier execution is ignored.
Progress(d, k, allowed) ==
  /\ task[d] = "running" /\ k = attempts[d]
  /\ canCancel' = [canCancel EXCEPT ![d] = allowed /\ state[ticket[d]] # "stopping"]
  /\ UNCHANGED <<queueVars, created, task, canRetry, attempts, ticket, owner>>

\* The results execute() can have; "interrupted" is a failure that pauses the
\* queue (pausesDownloadQueue), or an executor that did not confirm its cleanup.
Results == {"saved", "cancelled", "interrupted", "failed"}

\* Mutant: an aborted download can still pause.
RunReturns_PausesAborted(d, result) ==
  LET paused == result = "interrupted" /\ ~closed
      f == [task EXCEPT ![d] = IF paused THEN "paused"
                               ELSE IF result = "interrupted" THEN "failed" ELSE result]
  IN  /\ task[d] = "running"
      /\ Settle(ticket[d], IF paused THEN "blocked" ELSE "finished")
      /\ task' = IF paused THEN f ELSE Prune(f)
      /\ canCancel' = [canCancel EXCEPT ![d] = paused]
      /\ canRetry' = [canRetry EXCEPT ![d] = result # "saved"]
      /\ UNCHANGED <<created, attempts, ticket, owner>>

\* execute() settles and run() goes on to its return.
RunReturns(d, result) ==
  LET paused == result = "interrupted" /\ state[ticket[d]] # "stopping" /\ ~closed
      f == [task EXCEPT ![d] = IF paused THEN "paused"
                               ELSE IF result = "interrupted" THEN "failed" ELSE result]
  IN  /\ task[d] = "running"
      /\ Settle(ticket[d], IF paused THEN "blocked" ELSE "finished")
      /\ task' = IF paused THEN f ELSE Prune(f)
      /\ canCancel' = [canCancel EXCEPT ![d] = paused]
      /\ canRetry' = [canRetry EXCEPT ![d] = result # "saved"]
      /\ UNCHANGED <<created, attempts, ticket, owner>>

VideoReturns(t, result) ==
  /\ t \in Tickets /\ owner[t] = 0
  /\ Settle(t, result)
  /\ UNCHANGED taskVars

\* The tasks that "changed" cancels when these tickets finish.
Abandoned(f, tickets) == {d \in DOMAIN f : f[d] = "waiting" /\ \E t \in tickets : owner[t] = d}

Abandon(f, tickets) ==
  LET gone == Abandoned(f, tickets)
  IN  /\ task' = [d \in DOMAIN f |-> IF d \in gone THEN "cancelled" ELSE f[d]]
      /\ canRetry' = [d \in DOMAIN f |-> d \in gone \/ canRetry[d]]

ResumeTicket(t) ==
  /\ Resume(t)
  /\ Abandon(task, IF Blocks(t) THEN {} ELSE {t})
  /\ canCancel' = [d \in Tasks |-> canCancel[d] /\ task'[d] = task[d]]
  /\ UNCHANGED <<created, attempts, ticket, owner>>

\* cancel(): the task leaves "waiting" before its ticket finishes.
CancelTask(d) ==
  LET removed == task[d] \in {"waiting", "paused"}
  IN  /\ Quiet
      /\ task[d] # "pruned" /\ canCancel[d]
      /\ task' = IF removed THEN [task EXCEPT ![d] = "cancelled"] ELSE task
      /\ canRetry' = [canRetry EXCEPT ![d] = removed \/ @]
      /\ canCancel' = [canCancel EXCEPT ![d] = FALSE]
      /\ IF state[ticket[d]] \in {"waiting", "running", "blocked"}
           THEN Cancel(ticket[d]) ELSE UNCHANGED queueVars
      /\ UNCHANGED <<created, attempts, ticket, owner>>

CancelVideo(t) ==
  /\ Quiet
  /\ t \in Tickets /\ owner[t] = 0
  /\ Cancel(t)
  /\ UNCHANGED taskVars

\* What retry() makes of the task itself.
Requeued(d) ==
  /\ task' = [task EXCEPT ![d] = "waiting"]
  /\ canCancel' = [canCancel EXCEPT ![d] = TRUE]
  /\ canRetry' = [canRetry EXCEPT ![d] = FALSE]
  /\ UNCHANGED <<created, attempts>>

RetryPaused(d) ==
  /\ Quiet
  /\ task[d] = "paused" /\ canRetry[d]
  /\ Retry(ticket[d])
  /\ Requeued(d)
  /\ UNCHANGED <<ticket, owner>>

\* A completed task goes to the end of the queue under a new ticket.
RetryCompleted(d) ==
  /\ Quiet
  /\ task[d] \in Terminal /\ canRetry[d]
  /\ Admit(1, <<printer[ticket[d]]>>)
  /\ Requeued(d)
  /\ ticket' = [ticket EXCEPT ![d] = admitted + 1]
  /\ owner' = Append(owner, d)

ContinueTask(d) ==
  /\ Quiet
  /\ task[d] = "paused"
  /\ Continue(ticket[d])
  /\ task' = [task EXCEPT ![d] = "failed"]
  /\ canCancel' = [canCancel EXCEPT ![d] = FALSE]
  /\ UNCHANGED <<created, canRetry, attempts, ticket, owner>>

\* Mutant: close() leaves the paused tasks as they are.
Close_LeavesPaused ==
  /\ Stop
  /\ Abandon(task, In({"waiting", "blocked"}))
  /\ canCancel' = [d \in Tasks |-> canCancel[d] /\ task'[d] = task[d]]
  /\ UNCHANGED <<created, attempts, ticket, owner>>

\* close(): paused tasks fail, then the queue stops and its callbacks run.
Close ==
  /\ Stop
  /\ Abandon([d \in Tasks |-> IF task[d] = "paused" THEN "failed" ELSE task[d]],
             In({"waiting", "blocked"}))
  /\ canCancel' = [d \in Tasks |-> canCancel[d] /\ task'[d] = task[d]]
  /\ UNCHANGED <<created, attempts, ticket, owner>>

TaskNext ==
  \/ \E n \in 1..MaxBatch : \E keys \in [1..n -> Printers] : Enqueue(n, keys)
  \/ \E p \in Printers : PlayVideo(p)
  \/ RunStarts
  \/ \E d \in Tasks, allowed \in BOOLEAN : \E k \in 1..attempts[d] : Progress(d, k, allowed)
  \/ \E d \in Tasks, result \in Results : RunReturns(d, result)
  \/ \E t \in Tickets, result \in {"finished", "blocked"} : VideoReturns(t, result)
  \/ \E t \in Tickets : ResumeTicket(t)
  \/ \E d \in Tasks : CancelTask(d)
  \/ \E t \in Tickets : CancelVideo(t)
  \/ \E d \in Tasks : RetryPaused(d)
  \/ \E d \in Tasks : RetryCompleted(d)
  \/ \E d \in Tasks : ContinueTask(d)
  \/ Close

TaskSpec == TaskInit /\ [][TaskNext]_vars

\* Microtasks run, and every execution and video reader settles in the end.
TaskFairness ==
  /\ WF_vars(RunStarts)
  /\ \A t \in 1..MaxTickets :
        /\ WF_vars(ResumeTicket(t))
        /\ WF_vars(\E result \in {"finished", "blocked"} : VideoReturns(t, result))
  /\ \A d \in 1..MaxTasks :
        WF_vars(d \in Tasks /\ \E result \in Results : RunReturns(d, result))

FairTaskSpec == TaskSpec /\ TaskFairness

-----------------------------------------------------------------------------
(* Properties *)

\* Every variable of the tasks keeps its type.
TaskTypeOK ==
  /\ TypeOK
  /\ created \in 0..MaxTasks
  /\ task \in [Tasks -> TaskStates]
  /\ canCancel \in [Tasks -> BOOLEAN] /\ canRetry \in [Tasks -> BOOLEAN]
  /\ attempts \in [Tasks -> Nat]
  /\ ticket \in [Tasks -> Tickets]
  /\ owner \in [Tickets -> 0..created]

\* A task says what its ticket does: it waits while the ticket waits, runs while
\* the ticket reads, is paused on a blocked ticket, and is complete when the
\* ticket is finished or only the continuation of execute is still due.  No old
\* ticket or attempt of the task is left in the queue.
TaskFollowsTicket ==
  \A d \in Tasks :
    LET s == state[ticket[d]]
        returned == ticket[d] \in Reading /\ outcome[ticket[d]] # "pending"
    IN  /\ (task[d] = "waiting") = (s = "waiting")
        /\ (task[d] = "running") = (ticket[d] \in Reading /\ ~returned)
        /\ task[d] = "paused" => s = "blocked" \/ (s = "running" /\ returned)
        /\ s = "blocked" => task[d] = "paused"
        /\ \A t \in Tickets : owner[t] = d /\ t # ticket[d] => state[t] = "finished"

\* Only an unfinished task offers to be cancelled, and only one that may still
\* need it to be retried: no late report of an old attempt brings either back.
OffersAreCurrent ==
  \A d \in Tasks : /\ canCancel[d] => task[d] \in Unfinished \cup {"pruned"}
                   /\ canRetry[d] => task[d] \in {"paused", "failed", "cancelled", "pruned"}

\* The tasks and the queue keep their types and agree with each other at every step,
\* and so do the actions that the tasks offer.
TasksConsistent == TaskTypeOK /\ TaskFollowsTicket /\ OffersAreCurrent

\* The host that closes is told in the end that nothing is unfinished.
CloseCompletes == closed ~> TasksIn(Unfinished) = {}
=============================================================================
