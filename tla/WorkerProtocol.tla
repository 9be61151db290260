--------------------------- MODULE WorkerProtocol ---------------------------
(***************************************************************************)
(* The calls of the application to the engine's Worker: what the client    *)
(* refuses before it posts, what the Worker's message handler refuses      *)
(* before it dispatches, what the engine refuses before it executes, and   *)
(* how a project transaction of three calls fares among them.              *)
(*                                                                         *)
(* Requests and answers travel in order.  Once the engine's module is      *)
(* loaded a handler runs to its answer before the next message is taken,   *)
(* unless it awaits a job, a file or a catalogue; before that every        *)
(* handler waits for the module.  The serial engine slices and arranges    *)
(* inside the call; the threaded one accepts the job and answers later.    *)
(*                                                                         *)
(* The callers are the project lane, which runs one command at a time, and *)
(* four that do not take it: the slice, a plate click, the setup catalogue *)
(* and a user preset.  Each has one call under way at most.  Transactions  *)
(* do not nest: no caller asks for it.  Left out: progress, diagnostics    *)
(* and timings, and a post that throws.                                    *)
(***************************************************************************)
EXTENDS Naturals, Sequences, SequencesExt

CONSTANTS
  MaxTransactions,   \* bound: transactions ever begun
  MaxSlices          \* bound: slices ever ended in the engine

ASSUME ProtocolAssumption == MaxTransactions \in Nat /\ MaxSlices \in Nat

VARIABLES
  client,    \* createWorkerClient(): its admission flags
  pending,   \* the call each caller awaits
  lane,      \* the command the project lane runs
  wire,      \* requests posted, oldest first
  answers,   \* messages of the Worker, oldest first
  worker,    \* startWorker(): its admission flags and open handlers
  native     \* the engine

vars == <<client, pending, lane, wire, answers, worker, native>>

None == "none"
Callers == {"lane", "slicer", "picker", "setup", "presets"}
Ops == {"begin", "mutate", "boolean", "commit", "abort", "restore", "arrange",
        "slice", "select", "catalogue", "preset"}

\* restrictedWhileSerialSlicing: every operation here is one.
Restricted == Ops

NoCommand == [kind |-> None, at |-> "idle", tx |-> 0]

Init ==
  /\ client = [scope |-> FALSE, arrangement |-> FALSE, catalogue |-> FALSE, slices |-> 0,
               serialSlice |-> FALSE, threaded |-> "unknown", epoch |-> 0, fatal |-> FALSE]
  /\ pending = [c \in Callers |-> None]
  /\ lane = NoCommand
  /\ wire = <<>> /\ answers = <<>>
  /\ worker = [ready |-> FALSE, open |-> <<>>, tx |-> 0, flags |-> {}]
  /\ \E threaded \in BOOLEAN :
       native = [threaded |-> threaded, job |-> FALSE, arranging |-> FALSE, epoch |-> 0,
                 tx |-> 0, next |-> 1, overtook |-> FALSE]

-----------------------------------------------------------------------------
(* The client *)

\* The calls of a mesh boolean carry the scope; nobody else may call meanwhile.
Owns(caller) == caller = "lane" /\ lane.kind = "boolean"

\* A serial slice is outstanding, as far as the client knows.
SerialBusy == client.threaded # "yes" /\ client.serialSlice

\* call() rejects.
Rejected(caller, op) ==
  \/ client.scope /\ ~Owns(caller)
  \/ client.fatal
  \/ op = "catalogue" /\ client.catalogue
  \/ client.arrangement /\ op \in Restricted
  \/ SerialBusy /\ op \in {"arrange", "catalogue"}

\* call() resolves at once, with the error slice_busy.
AnsweredBusy(caller, op) ==
  /\ ~Rejected(caller, op)
  /\ SerialBusy /\ op \in Restricted

Posts(caller, op, tx) ==
  /\ ~Rejected(caller, op) /\ ~AnsweredBusy(caller, op)
  /\ pending' = [pending EXCEPT ![caller] = op]
  /\ wire' = Append(wire, [from |-> caller, op |-> op, tx |-> tx, epoch |-> client.epoch,
                           sliced |-> native.epoch, running |-> FALSE])
  /\ client' = [client EXCEPT
                  !.slices = @ + (IF op = "slice" THEN 1 ELSE 0),
                  !.serialSlice = @ \/ (op = "slice" /\ client.threaded # "yes"),
                  !.arrangement = @ \/ op = "arrange",
                  !.catalogue = @ \/ op = "catalogue"]

\* A caller outside the lane.  A call that is refused at once changes nothing.
Calls(caller, op) ==
  /\ pending[caller] = None
  /\ Posts(caller, op, 0)
  /\ UNCHANGED <<lane, answers, worker, native>>

Slice == native.epoch + client.slices < MaxSlices /\ Calls("slicer", "slice")
SelectPlate == Calls("picker", "select")
OpenCatalogue == Calls("setup", "catalogue")
MutateUserPreset == Calls("presets", "preset")

-----------------------------------------------------------------------------
(* The commands of the lane *)

\* runMeshBooleanOperation(): nothing else may be under way.
ScopeFree ==
  /\ ~client.scope /\ \A c \in Callers : pending[c] = None
  /\ ~client.arrangement /\ ~client.catalogue /\ client.slices = 0

\* A command starts when the lane is free.
LaneStarts ==
  /\ lane.at = "idle" /\ ~client.fatal
  /\ \E kind \in {"edit", "boolean", "restore", "arrange"} :
       /\ kind \in {"edit", "boolean"} => native.next <= MaxTransactions
       /\ kind = "boolean" => ScopeFree
       /\ lane' = [kind |-> kind, at |-> IF kind \in {"edit", "boolean"} THEN "begin" ELSE kind, tx |-> 0]
       /\ client' = [client EXCEPT !.scope = @ \/ kind = "boolean"]
  /\ UNCHANGED <<pending, wire, answers, worker, native>>

\* runProjectHistoryTransaction(): begin, mutate, commit; abort on an error.
\* The mutation and the reading of the context after it may throw by themselves.
After(at, ok) ==
  CASE at = "begin" -> IF ok THEN {"mutate"} ELSE {"idle"}
    [] at = "mutate" -> IF ok THEN {"commit", "abort"} ELSE {"abort"}
    [] at = "commit" -> IF ok THEN {"idle"} ELSE {"abort"}
    [] OTHER -> {"idle"}

\* The awaited call of the lane has settled; a busy answer to begin is no id.
LaneGoesOn(c, ok, tx) ==
  \E at \in After(lane.at, ok) :
    /\ lane' = IF at = "idle" THEN NoCommand
               ELSE [lane EXCEPT !.at = at, !.tx = IF lane.at = "begin" THEN tx ELSE @]
    /\ client' = [c EXCEPT !.scope = @ /\ at # "idle"]

LaneOp == IF lane.at = "mutate" /\ lane.kind = "boolean" THEN "boolean" ELSE lane.at
LaneDue == lane.at # "idle" /\ pending["lane"] = None

\* The lane makes the next call of its command.
LaneCalls ==
  /\ LaneDue
  /\ \/ Posts("lane", LaneOp, lane.tx) /\ UNCHANGED lane
     \/ /\ Rejected("lane", LaneOp) \/ AnsweredBusy("lane", LaneOp)
        /\ LaneGoesOn(client, AnsweredBusy("lane", LaneOp), 0)
        /\ UNCHANGED <<pending, wire>>
  /\ UNCHANGED <<answers, worker, native>>

-----------------------------------------------------------------------------
(* The Worker *)

Answer(h, ok, tx) == [to |-> h.from, op |-> h.op, ok |-> ok, tx |-> tx, epoch |-> 0]
State(n) == [to |-> "state", op |-> IF n.threaded THEN "yes" ELSE "no", ok |-> TRUE, tx |-> 0, epoch |-> n.epoch]

\* The flag a handler owns from its admission to its end.
Flag(op) ==
  CASE op = "begin" -> {"starting"} [] op = "restore" -> {"transition"}
    [] op = "arrange" -> {"arrangement"} [] op = "boolean" -> {"boolean"}
    [] op = "catalogue" -> {"catalogue"} [] op = "preset" -> {"preset"}
    [] OTHER -> {}

Has(f) == f \in worker.flags

\* Mutant: a preset is written while a transaction is open.
Refuses_PresetAnytime(h) ==
  \/ Has("boolean") \/ Has("preset") \/ Has("arrangement")
  \/ h.op = "boolean" /\ native.job
  \/ h.op = "preset" /\ worker.flags # {}
  \/ h.op = "catalogue" /\ Has("catalogue")
  \/ h.op \in {"arrange", "restore", "begin"} /\ (Has("transition") \/ Has("starting") \/ worker.tx # 0)
  \/ h.op \in {"commit", "abort"} /\ (worker.tx = 0 \/ h.tx # worker.tx)

\* The checks of the handler before it awaits anything.
Refuses(h) ==
  \/ Has("boolean") \/ Has("preset") \/ Has("arrangement")
  \/ h.op = "boolean" /\ native.job
  \/ h.op = "preset" /\ (worker.flags # {} \/ worker.tx # 0)
  \/ h.op = "catalogue" /\ Has("catalogue")
  \/ h.op \in {"arrange", "restore", "begin"} /\ (Has("transition") \/ Has("starting") \/ worker.tx # 0)
  \/ h.op \in {"commit", "abort"} /\ (worker.tx = 0 \/ h.tx # worker.tx)

Waiting == SelectInSeq(worker.open, LAMBDA h : ~h.running)

\* A message is taken when no handler is in the middle of one.
Receive ==
  /\ wire # <<>> /\ (worker.ready => Waiting = 0)
  /\ wire' = Tail(wire)
  /\ LET h == Head(wire)
     IN IF Refuses(h)
        THEN answers' = Append(answers, Answer(h, FALSE, 0)) /\ UNCHANGED worker
        ELSE /\ worker' = [worker EXCEPT !.open = Append(@, h), !.flags = @ \cup Flag(h.op)]
             /\ UNCHANGED answers
  /\ UNCHANGED <<client, pending, lane, native>>

\* The module is loaded; it says whether it is threaded.
ModuleReady ==
  /\ ~worker.ready
  /\ worker' = [worker EXCEPT !.ready = TRUE]
  /\ answers' = Append(answers, State(native))
  /\ UNCHANGED <<client, pending, lane, wire, native>>

\* Mutant: only a slice under way is looked at.
Admitted_ByJob(h) == native.threaded \/ ~native.job

\* orc_check_serial_admission(): the epoch the client saw is the engine's.
Admitted(h) == native.threaded \/ (~native.job /\ h.epoch = native.epoch)

\* The handler at position i ends with an answer, and with its flags.
Ends(i, ok, tx, open, n, before) ==
  LET h == worker.open[i]
  IN /\ worker' = [worker EXCEPT !.open = RemoveAt(@, i), !.flags = @ \ Flag(h.op), !.tx = open]
     /\ answers' = answers \o Append(before, Answer(h, ok, tx))
     /\ native' = n

Executed(h) ==
  [native EXCEPT !.overtook = @ \/ (~native.threaded /\ h.sliced # native.epoch) \/ native.arranging]

\* dispatchClientRequest() refuses: a begin throws for want of an id; every
\* other operation resolves, and the handler goes on as if it had been done.
DispatchRefused(i) ==
  LET h == worker.open[i]
  IN /\ ~Admitted(h)
     /\ Ends(i, h.op # "begin", 0, IF h.op \in {"commit", "abort"} THEN 0 ELSE worker.tx, native, <<>>)

DispatchHistory(i) ==
  LET h == worker.open[i]
      n == Executed(h)
  IN /\ Admitted(h)
     /\ \/ /\ h.op = "begin" /\ native.tx = 0
           /\ Ends(i, TRUE, native.next, native.next, [n EXCEPT !.tx = native.next, !.next = @ + 1], <<>>)
        \/ /\ h.op = "begin"
           /\ Ends(i, FALSE, 0, worker.tx, n, <<>>)
        \/ /\ h.op = "commit" /\ native.tx = h.tx
           /\ Ends(i, TRUE, 0, 0, [n EXCEPT !.tx = 0], <<>>)
        \/ /\ h.op = "commit"
           /\ Ends(i, FALSE, 0, worker.tx, n, <<>>)
        \/ /\ h.op = "abort"
           /\ Ends(i, TRUE, 0, 0, [n EXCEPT !.tx = IF @ = h.tx THEN 0 ELSE @], <<>>)

DispatchCommand(i) ==
  LET h == worker.open[i]
      n == Executed(h)
  IN /\ Admitted(h)
     /\ \/ h.op \in {"mutate", "boolean", "restore", "select"} /\ Ends(i, TRUE, 0, worker.tx, n, <<>>)
        \/ h.op \in {"mutate", "boolean", "restore", "select"} /\ Ends(i, FALSE, 0, worker.tx, n, <<>>)
        \/ h.op \in {"slice", "arrange"} /\ Ends(i, TRUE, 0, worker.tx, native, <<>>)
        \/ /\ h.op = "slice" /\ ~native.threaded
           /\ LET over == [native EXCEPT !.epoch = @ + 1]
              IN Ends(i, TRUE, 0, worker.tx, over, <<State(over)>>)
        \/ /\ h.op \in {"catalogue", "preset"} \/ (native.threaded /\ h.op \in {"slice", "arrange"})
           /\ worker' = [worker EXCEPT !.open[i].running = TRUE]
           /\ native' = [n EXCEPT !.job = @ \/ h.op = "slice", !.arranging = @ \/ h.op = "arrange"]
           /\ UNCHANGED answers

\* The handlers go on in the order in which they were opened.
Dispatch ==
  /\ worker.ready /\ Waiting # 0
  /\ DispatchRefused(Waiting) \/ DispatchHistory(Waiting) \/ DispatchCommand(Waiting)
  /\ UNCHANGED <<client, pending, lane, wire>>

\* The operations whose handler awaits something after the engine was called.
Jobs == {"slice", "arrange", "catalogue", "preset"}

\* A job, a file or a catalogue is done.
JobDone(op) ==
  \E i \in DOMAIN worker.open :
    LET h == worker.open[i]
        over == [native EXCEPT !.job = @ /\ h.op # "slice", !.arranging = @ /\ h.op # "arrange",
                               !.epoch = IF h.op = "slice" THEN @ + 1 ELSE @]
    IN /\ h.running /\ h.op = op
       /\ \E ok \in BOOLEAN : Ends(i, ok, 0, worker.tx, over, <<>>)
       /\ UNCHANGED <<client, pending, lane, wire>>

-----------------------------------------------------------------------------
(* The answers *)

\* A call settles, with the flags of its operation.
SettledClient(a) ==
  [client EXCEPT !.arrangement = @ /\ a.op # "arrange",
                 !.catalogue = @ /\ a.op # "catalogue",
                 !.slices = @ - (IF a.op = "slice" THEN 1 ELSE 0),
                 !.serialSlice = @ /\ ~(a.op = "slice" /\ client.threaded # "yes")]

Deliver ==
  /\ answers # <<>>
  /\ answers' = Tail(answers)
  /\ LET a == Head(answers)
     IN \/ /\ a.to = "state"
           /\ client' = [client EXCEPT !.threaded = a.op, !.epoch = a.epoch, !.serialSlice = @ /\ a.op = "yes"]
           /\ UNCHANGED <<pending, lane>>
        \/ /\ a.to # "state"
           /\ pending' = [pending EXCEPT ![a.to] = None]
           /\ IF a.to = "lane" THEN LaneGoesOn(SettledClient(a), a.ok, a.tx)
              ELSE client' = SettledClient(a) /\ UNCHANGED lane
  /\ UNCHANGED <<wire, worker, native>>

\* Mutant: the calls under way are not told that the Worker is gone.
FatalPending_Forgotten == pending

\* Every call under way is rejected.
FatalPending == [c \in Callers |-> None]

FatalClient ==
  [client EXCEPT !.fatal = TRUE, !.slices = 0, !.serialSlice = FALSE,
                 !.arrangement = FALSE, !.catalogue = FALSE]

\* The Worker is gone: the host says so, and no message follows.
Fatal ==
  /\ ~client.fatal
  /\ \/ pending["lane"] # None /\ LaneGoesOn(FatalClient, FALSE, 0)
     \/ pending["lane"] = None /\ client' = FatalClient /\ UNCHANGED lane
  /\ pending' = FatalPending
  /\ wire' = <<>> /\ answers' = <<>>
  /\ worker' = [worker EXCEPT !.open = <<>>, !.ready = TRUE]
  /\ UNCHANGED native

Next ==
  \/ Slice \/ SelectPlate \/ OpenCatalogue \/ MutateUserPreset
  \/ LaneStarts \/ LaneCalls
  \/ Receive \/ ModuleReady \/ Dispatch
  \/ \E op \in Jobs : JobDone(op)
  \/ Deliver \/ Fatal

Spec == Init /\ [][Next]_vars

-----------------------------------------------------------------------------
(* Properties *)

\* Nothing is on its way between the application and the engine.
Quiet ==
  /\ lane.at = "idle" /\ wire = <<>> /\ answers = <<>> /\ worker.open = <<>>
  /\ ~client.fatal

Clear ==
  /\ native.tx = 0 /\ worker.tx = 0 /\ worker.flags = {}
  /\ ~client.scope /\ ~client.arrangement /\ ~client.catalogue /\ client.slices = 0

\* Of the threaded engine: once nothing is under way no transaction is open, in
\* the Worker or in the engine, and nobody's admission is refused any more.
\* (startWorker(), createWorkerClient(), runProjectHistoryTransaction())
TransactionsEnd == Quiet /\ native.threaded => Clear

\* No command of a serial engine executes once a slice has run since it was
\* posted, and none executes while objects are being arranged.  (call(),
\* startWorker(), orc_check_serial_admission())
ExclusiveWorkIsAlone == ~native.overtook

\* Where the messages of a call of c are.
Underway(c) ==
  {<<"wire", i>> : i \in {j \in DOMAIN wire : wire[j].from = c}}
    \cup {<<"open", i>> : i \in {j \in DOMAIN worker.open : worker.open[j].from = c}}
    \cup {<<"answers", i>> : i \in {j \in DOMAIN answers : answers[j].to = c}}

\* A call that is awaited is on its way once: posted, in an open handler or
\* answered; and nothing is on its way that nobody awaits.  With the Worker's
\* death nobody waits any more.  (call(), createWorkerClient(), startWorker())
AwaitedOnce ==
  \A c \in Callers :
    IF pending[c] = None THEN Underway(c) = {} ELSE \E p \in Underway(c) : Underway(c) = {p}

=============================================================================
