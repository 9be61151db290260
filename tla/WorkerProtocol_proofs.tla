----------------------- MODULE WorkerProtocol_proofs -----------------------
(***************************************************************************)
(* Proofs about the calls to the Worker, for any number of transactions    *)
(* and slices.  A caller has one message under way at most, and that       *)
(* message says what the caller awaits; the stage of the lane's command    *)
(* then says where an open transaction is, and the epochs of a message say *)
(* which slices it has seen.                                               *)
(***************************************************************************)
EXTENDS WorkerProtocol, SequenceTheorems, WellFoundedInduction, TLAPS

Flags == {"starting", "transition", "arrangement", "boolean", "catalogue", "preset"}
Kinds == {None, "edit", "boolean", "restore", "arrange"}
Stages == {"idle", "begin", "mutate", "commit", "abort", "restore", "arrange"}

RequestType ==
  [from : Callers, op : Ops, tx : Nat, epoch : Nat, sliced : Nat, running : BOOLEAN]

AnswerType ==
  {a \in [to : Callers \cup {"state"}, op : Ops \cup {"yes", "no"}, ok : BOOLEAN, tx : Nat, epoch : Nat] :
     a.to = "state" <=> a.op \in {"yes", "no"}}

ClientType ==
  [scope : BOOLEAN, arrangement : BOOLEAN, catalogue : BOOLEAN, slices : Int,
   serialSlice : BOOLEAN, threaded : {"unknown", "yes", "no"}, epoch : Nat, fatal : BOOLEAN]

NativeType ==
  [threaded : BOOLEAN, job : BOOLEAN, arranging : BOOLEAN, epoch : Nat, tx : Nat,
   next : Nat \ {0}, overtook : BOOLEAN]

TypeOK ==
  /\ client \in ClientType
  /\ pending \in [Callers -> Ops \cup {None}]
  /\ lane \in [kind : Kinds, at : Stages, tx : Nat]
  /\ wire \in Seq(RequestType)
  /\ answers \in Seq(AnswerType)
  /\ worker \in [ready : BOOLEAN, open : Seq(RequestType), tx : Nat, flags : SUBSET Flags]
  /\ native \in NativeType

-----------------------------------------------------------------------------
(* Sequences *)

\* What is left of a sequence without its element at i.
LEMMA RemoveAtProperties ==
  ASSUME NEW S, NEW s \in Seq(S), NEW i \in 1..Len(s)
  PROVE  /\ RemoveAt(s, i) \in Seq(S)
         /\ Len(RemoveAt(s, i)) = Len(s) - 1
         /\ \A j \in 1..Len(s) - 1 :
              RemoveAt(s, i)[j] = IF j < i THEN s[j] ELSE s[j + 1]
<1> DEFINE a == SubSeq(s, 1, i - 1)
           b == SubSeq(s, i + 1, Len(s))
<1>1. /\ a \in Seq(S) /\ Len(a) = i - 1 /\ \A j \in 1..i - 1 : a[j] = s[j]
  BY SubSeqProperties
<1>2. /\ b \in Seq(S) /\ Len(b) = Len(s) - i /\ \A j \in 1..Len(s) - i : b[j] = s[i + j]
  BY SubSeqProperties
<1>3. RemoveAt(s, i) = a \o b
  BY DEF RemoveAt
<1> HIDE DEF a, b
<1>4. /\ a \o b \in Seq(S) /\ Len(a \o b) = Len(a) + Len(b)
      /\ \A j \in 1..Len(a) + Len(b) : (a \o b)[j] = IF j <= Len(a) THEN a[j] ELSE b[j - Len(a)]
  BY <1>1, <1>2, ConcatProperties
<1>5. Len(a) + Len(b) = Len(s) - 1
  BY <1>1, <1>2
<1>6. ASSUME NEW j \in 1..Len(s) - 1
      PROVE  (a \o b)[j] = IF j < i THEN s[j] ELSE s[j + 1]
  <2>1. CASE j < i
    BY <2>1, <1>1, <1>4, <1>5
  <2>2. CASE ~(j < i)
    <3>1. (a \o b)[j] = b[j - Len(a)]
      BY <2>2, <1>1, <1>4, <1>5
    <3>2. b[j - Len(a)] = s[i + (j - Len(a))]
      BY <2>2, <1>1, <1>2
    <3>3. i + (j - Len(a)) = j + 1
      BY <1>1
    <3> QED
      BY <3>1, <3>2, <3>3, <2>2
  <2> QED
    BY <2>1, <2>2
<1> QED
  BY <1>3, <1>4, <1>5, <1>6

\* The head of a sequence and the rest.
LEMMA TailProperties ==
  ASSUME NEW S, NEW s \in Seq(S), s # <<>>
  PROVE  /\ Tail(s) \in Seq(S) /\ Len(Tail(s)) = Len(s) - 1
         /\ \A j \in 1..Len(s) - 1 : Tail(s)[j] = s[j + 1]
         /\ Head(s) = s[1] /\ 1 \in 1..Len(s) /\ Head(s) \in S
  BY HeadTailProperties, EmptySeq, ElementOfSeq

\* The handler the engine is asked for next is the first that waits.
LEMMA WaitingIsFirst ==
  ASSUME worker.open \in Seq(RequestType)
  PROVE  /\ Waiting # 0 => /\ Waiting \in 1..Len(worker.open)
                           /\ ~worker.open[Waiting].running
                           /\ \A j \in 1..Waiting - 1 : worker.open[j].running
         /\ Waiting = 0 => \A j \in 1..Len(worker.open) : worker.open[j].running
<1> DEFINE I == {i \in 1..Len(worker.open) : ~worker.open[i].running}
<1>1. Waiting = IF I # {} THEN CHOOSE x \in I : \A y \in I : x =< y ELSE 0
  BY DEF Waiting, SelectInSeq, Min
<1>2. CASE I = {}
  BY <1>1, <1>2
<1>3. CASE I # {}
  <2>1. PICK m \in I : \A y \in I : m =< y
    <3> DEFINE R == {ss \in Nat \X Nat : ss[1] < ss[2]}
    <3>1. I \subseteq Nat /\ I # {}
      BY <1>3
    <3>2. IsWellFoundedOn(R, Nat)
      BY NatLessThanWellFounded DEF OpToRel
    <3>3. PICK m \in I : \A y \in I : <<y, m>> \notin R
      <4> HIDE DEF R, I
      <4> QED
        BY <3>1, <3>2, WFMin, Zenon
    <3>4. ASSUME NEW y \in I
          PROVE  ~(y < m)
      BY <3>1, <3>3
    <3> QED
      BY SMTT(40), <3>4
  <2>2. /\ Waiting \in I /\ \A y \in I : Waiting =< y
    BY <1>1, <1>3, <2>1
  <2> QED
    BY <2>2
<1> QED
  BY <1>2, <1>3

-----------------------------------------------------------------------------
(* Types *)

\* What a call that is posted changes.
LEMMA PostsTyped ==
  ASSUME TypeOK, NEW c \in Callers, NEW op \in Ops, NEW tx \in Nat, Posts(c, op, tx)
  PROVE  /\ client' \in ClientType
         /\ pending' \in [Callers -> Ops \cup {None}]
         /\ wire' \in Seq(RequestType)
<1>1. client' \in ClientType
  <2>1. client.slices + (IF op = "slice" THEN 1 ELSE 0) \in Int
    BY DEF TypeOK, ClientType
  <2> DEFINE n == client.slices + (IF op = "slice" THEN 1 ELSE 0)
             b == client.serialSlice \/ (op = "slice" /\ client.threaded # "yes")
             d == client.arrangement \/ op = "arrange"
             e == client.catalogue \/ op = "catalogue"
  <2>2. client' = [client EXCEPT !.slices = n, !.serialSlice = b, !.arrangement = d, !.catalogue = e]
    BY DEF Posts
  <2>3. n \in Int /\ b \in BOOLEAN /\ d \in BOOLEAN /\ e \in BOOLEAN
    BY <2>1 DEF TypeOK, ClientType
  <2>4. client \in ClientType
    BY DEF TypeOK
  <2> HIDE DEF n, b, d, e
  <2> QED
    BY <2>2, <2>3, <2>4 DEF ClientType
<1>2. pending' \in [Callers -> Ops \cup {None}]
  BY DEF TypeOK, Posts
<1>3. wire' \in Seq(RequestType)
  <2> DEFINE r == [from |-> c, op |-> op, tx |-> tx, epoch |-> client.epoch,
                   sliced |-> native.epoch, running |-> FALSE]
  <2>1. r \in RequestType
    BY DEF TypeOK, RequestType, ClientType, NativeType
  <2>2. wire' = Append(wire, r)
    BY DEF Posts
  <2> HIDE DEF r
  <2> QED
    BY <2>1, <2>2, AppendProperties DEF TypeOK
<1> QED
  BY <1>1, <1>2, <1>3

\* What the lane does when its call has settled.
LEMMA LaneTyped ==
  ASSUME TypeOK, NEW c \in ClientType, NEW ok \in BOOLEAN, NEW tx \in Nat, LaneGoesOn(c, ok, tx)
  PROVE  /\ lane' \in [kind : Kinds, at : Stages, tx : Nat]
         /\ client' \in ClientType
<1>1. PICK at \in After(lane.at, ok) :
        /\ lane' = IF at = "idle" THEN NoCommand
                   ELSE [lane EXCEPT !.at = at, !.tx = IF lane.at = "begin" THEN tx ELSE @]
        /\ client' = [c EXCEPT !.scope = @ /\ at # "idle"]
  BY DEF LaneGoesOn
<1>2. at \in Stages
  BY DEF After, Stages, TypeOK
<1>3. client' \in ClientType
  BY <1>1 DEF ClientType
<1>4. lane' \in [kind : Kinds, at : Stages, tx : Nat]
  <2>1. NoCommand \in [kind : Kinds, at : Stages, tx : Nat]
    BY DEF NoCommand, Kinds, Stages
  <2> QED
    BY <1>1, <1>2, <2>1 DEF TypeOK
<1> QED
  BY <1>3, <1>4

\* The messages of the Worker.
LEMMA AnswerTyped ==
  ASSUME NEW h \in RequestType, NEW ok \in BOOLEAN, NEW tx \in Nat
  PROVE  Answer(h, ok, tx) \in AnswerType
  BY DEF Answer, AnswerType, RequestType, Callers, Ops

LEMMA StateTyped ==
  ASSUME NEW n \in NativeType
  PROVE  State(n) \in AnswerType
  BY DEF State, AnswerType, NativeType

LEMMA FlagTyped ==
  ASSUME NEW op \in Ops
  PROVE  Flag(op) \subseteq Flags
  BY DEF Flag, Flags

\* A handler that ends leaves the others, and adds its answer at the end.
LEMMA EndsTyped ==
  ASSUME TypeOK, NEW i \in 1..Len(worker.open), NEW ok \in BOOLEAN, NEW tx \in Nat,
         NEW open \in Nat, NEW n \in NativeType, NEW before \in Seq(AnswerType),
         Ends(i, ok, tx, open, n, before)
  PROVE  /\ worker' \in [ready : BOOLEAN, open : Seq(RequestType), tx : Nat, flags : SUBSET Flags]
         /\ answers' \in Seq(AnswerType) /\ native' \in NativeType
<1> DEFINE h == worker.open[i]
           rest == RemoveAt(worker.open, i)
           x == Answer(h, ok, tx)
<1>1. worker.open \in Seq(RequestType) /\ h \in RequestType
  BY ElementOfSeq DEF TypeOK
<1>2. rest \in Seq(RequestType)
  BY <1>1, RemoveAtProperties
<1>3. worker' = [worker EXCEPT !.open = rest, !.flags = @ \ Flag(h.op), !.tx = open]
  BY DEF Ends
<1>4. worker' \in [ready : BOOLEAN, open : Seq(RequestType), tx : Nat, flags : SUBSET Flags]
  <2> HIDE DEF rest, h
  <2> QED
    BY <1>2, <1>3 DEF TypeOK
<1>5. answers' = answers \o Append(before, x)
  BY DEF Ends
<1>6. answers' \in Seq(AnswerType)
  <2>1. x \in AnswerType
    BY <1>1, AnswerTyped
  <2> HIDE DEF x
  <2>2. Append(before, x) \in Seq(AnswerType)
    BY <2>1, AppendProperties
  <2> QED
    BY <1>5, <2>2, ConcatProperties DEF TypeOK
<1> QED
  BY <1>4, <1>6 DEF Ends

\* A handler the engine admits, refuses or sets to work.
LEMMA DispatchTyped ==
  ASSUME TypeOK, NEW i \in 1..Len(worker.open),
         DispatchRefused(i) \/ DispatchHistory(i) \/ DispatchCommand(i)
  PROVE  /\ worker' \in [ready : BOOLEAN, open : Seq(RequestType), tx : Nat, flags : SUBSET Flags]
         /\ answers' \in Seq(AnswerType) /\ native' \in NativeType
<1> DEFINE h == worker.open[i]
           N == Executed(h)
           T == /\ worker' \in [ready : BOOLEAN, open : Seq(RequestType), tx : Nat, flags : SUBSET Flags]
                /\ answers' \in Seq(AnswerType) /\ native' \in NativeType
<1>1. worker.open \in Seq(RequestType) /\ h \in RequestType
  BY ElementOfSeq DEF TypeOK
<1>2. /\ native \in NativeType /\ worker.tx \in Nat /\ native.tx \in Nat /\ 0 \in Nat
      /\ native.next \in Nat /\ native.next + 1 \in Nat \ {0} /\ native.epoch + 1 \in Nat
  BY DEF TypeOK, NativeType
<1>3. N \in NativeType
  BY <1>1 DEF Executed, TypeOK, NativeType
<1>4. <<>> \in Seq(AnswerType)
  BY EmptySeq
<1>5. CASE DispatchRefused(i)
  <2>1. \E ok \in BOOLEAN, open \in Nat : Ends(i, ok, 0, open, native, <<>>)
    BY <1>5, <1>2 DEF DispatchRefused
  <2> QED
    BY <2>1, <1>2, <1>4, EndsTyped
<1>6. CASE DispatchHistory(i)
  <2> DEFINE n1 == [N EXCEPT !.tx = native.next, !.next = @ + 1]
             n2 == [N EXCEPT !.tx = 0]
             n3 == [N EXCEPT !.tx = IF @ = h.tx THEN 0 ELSE @]
  <2>1. n1 \in NativeType
    <3>1. N.next = native.next
      BY <1>2 DEF Executed, NativeType
    <3> HIDE DEF N
    <3> QED
      BY <1>2, <1>3, <3>1 DEF NativeType
  <2>2. n2 \in NativeType /\ n3 \in NativeType
    <3> HIDE DEF N
    <3> QED
      BY <1>3 DEF NativeType
  <2>3. \/ Ends(i, TRUE, native.next, native.next, n1, <<>>)
        \/ Ends(i, FALSE, 0, worker.tx, N, <<>>)
        \/ Ends(i, TRUE, 0, 0, n2, <<>>)
        \/ Ends(i, TRUE, 0, 0, n3, <<>>)
    BY <1>6 DEF DispatchHistory
  <2> HIDE DEF n1, n2, n3, N
  <2> QED
    BY <2>1, <2>2, <2>3, <1>2, <1>3, <1>4, EndsTyped
<1>7. CASE DispatchCommand(i)
  <2> DEFINE over == [native EXCEPT !.epoch = @ + 1]
             busy == [N EXCEPT !.job = @ \/ h.op = "slice", !.arranging = @ \/ h.op = "arrange"]
  <2>1. over \in NativeType
    BY <1>2 DEF NativeType
  <2>2. <<State(over)>> \in Seq(AnswerType)
    <3> HIDE DEF over
    <3> QED
      BY <2>1, StateTyped
  <2>3. \/ Ends(i, TRUE, 0, worker.tx, N, <<>>)
        \/ Ends(i, FALSE, 0, worker.tx, N, <<>>)
        \/ Ends(i, TRUE, 0, worker.tx, native, <<>>)
        \/ Ends(i, TRUE, 0, worker.tx, over, <<State(over)>>)
        \/ /\ worker' = [worker EXCEPT !.open[i].running = TRUE]
           /\ native' = [Executed(h) EXCEPT !.job = @ \/ h.op = "slice", !.arranging = @ \/ h.op = "arrange"]
           /\ UNCHANGED answers
    BY <1>7 DEF DispatchCommand
  <2>4. CASE /\ worker' = [worker EXCEPT !.open[i].running = TRUE]
             /\ native' = [Executed(h) EXCEPT !.job = @ \/ h.op = "slice", !.arranging = @ \/ h.op = "arrange"]
             /\ UNCHANGED answers
    <3>1. [worker.open EXCEPT ![i].running = TRUE] \in Seq(RequestType)
      <4>1. [h EXCEPT !.running = TRUE] \in RequestType
        BY <1>1 DEF RequestType
      <4> QED
        BY <4>1, <1>1, ExceptSeq
    <3>2. worker' = [worker EXCEPT !.open = [worker.open EXCEPT ![i].running = TRUE]]
      BY <2>4 DEF TypeOK
    <3>3. native' \in NativeType
      <4> HIDE DEF N
      <4> QED
        BY <2>4, <1>3 DEF NativeType, N
    <3> QED
      BY <2>4, <3>1, <3>2, <3>3 DEF TypeOK
  <2> HIDE DEF over, N
  <2>5. CASE Ends(i, TRUE, 0, worker.tx, over, <<State(over)>>)
    BY <2>5, <2>1, <2>2, <1>2, EndsTyped
  <2>6. CASE Ends(i, TRUE, 0, worker.tx, native, <<>>)
    BY <2>6, <1>2, <1>4, EndsTyped
  <2>7. CASE Ends(i, TRUE, 0, worker.tx, N, <<>>) \/ Ends(i, FALSE, 0, worker.tx, N, <<>>)
    BY <2>7, <1>2, <1>3, <1>4, EndsTyped
  <2> QED
    BY <2>3, <2>4, <2>5, <2>6, <2>7 DEF N
<1> QED
  BY <1>5, <1>6, <1>7

\* What a client that heard of the end of a call is.
LEMMA SettledTyped ==
  ASSUME TypeOK, NEW a \in AnswerType
  PROVE  SettledClient(a) \in ClientType
<1> DEFINE n == client.slices - (IF a.op = "slice" THEN 1 ELSE 0)
           b == client.serialSlice /\ ~(a.op = "slice" /\ client.threaded # "yes")
           d == client.arrangement /\ a.op # "arrange"
           e == client.catalogue /\ a.op # "catalogue"
<1>1. client \in ClientType
  BY DEF TypeOK
<1>2. SettledClient(a) = [client EXCEPT !.arrangement = d, !.catalogue = e, !.slices = n, !.serialSlice = b]
  BY DEF SettledClient
<1>3. (IF a.op = "slice" THEN 1 ELSE 0) \in Int /\ client.slices \in Int
  BY <1>1 DEF ClientType
<1>4. n \in Int
  BY <1>3
<1>5. b \in BOOLEAN /\ d \in BOOLEAN /\ e \in BOOLEAN
  BY <1>1 DEF ClientType
<1> HIDE DEF n, b, d, e
<1> QED
  BY <1>1, <1>2, <1>4, <1>5 DEF ClientType

\* What a client whose Worker is gone is.
LEMMA GoneTyped ==
  ASSUME TypeOK
  PROVE  FatalClient \in ClientType
<1> DEFINE c == [client EXCEPT !.fatal = TRUE, !.serialSlice = FALSE, !.arrangement = FALSE,
                               !.catalogue = FALSE]
<1>1. c \in ClientType
  BY DEF TypeOK, ClientType
<1>2. FatalClient = [c EXCEPT !.slices = 0]
  BY DEF TypeOK, ClientType, FatalClient
<1> HIDE DEF c
<1> QED
  BY <1>1, <1>2 DEF ClientType

\* A call of a caller outside the lane, with what it posts.
LEMMA CallsAre ==
  ASSUME Slice \/ SelectPlate \/ OpenCatalogue \/ MutateUserPreset
  PROVE  \E c \in Callers \ {"lane"}, op \in {"slice", "select", "catalogue", "preset"} :
           /\ <<c, op>> \in {<<"slicer", "slice">>, <<"picker", "select">>,
                             <<"setup", "catalogue">>, <<"presets", "preset">>}
           /\ Calls(c, op)
  BY DEF Slice, SelectPlate, OpenCatalogue, MutateUserPreset, Callers

LEMMA LaneOpIs ==
  ASSUME TypeOK, LaneDue
  PROVE  LaneOp \in Ops /\ lane.tx \in Nat
  BY DEF TypeOK, LaneDue, LaneOp, Stages, Ops

LEMMA TypeKept ==
  ASSUME TypeOK, [Next]_vars
  PROVE  TypeOK'
<1> USE DEF TypeOK
<1>1. CASE Slice \/ SelectPlate \/ OpenCatalogue \/ MutateUserPreset
  <2>1. PICK c \in Callers, op \in Ops : Calls(c, op)
    BY <1>1, CallsAre DEF Ops
  <2> QED
    BY <2>1, PostsTyped DEF Calls
<1>2. CASE LaneStarts
  <2>1. client' \in ClientType
    BY <1>2 DEF LaneStarts, ClientType
  <2>2. lane' \in [kind : Kinds, at : Stages, tx : Nat]
    BY <1>2 DEF LaneStarts, Kinds, Stages
  <2> QED
    BY <1>2, <2>1, <2>2 DEF LaneStarts
<1>3. CASE LaneCalls
  <2>1. CASE Posts("lane", LaneOp, lane.tx) /\ UNCHANGED lane
    <3>1. LaneOp \in Ops /\ lane.tx \in Nat /\ "lane" \in Callers
      BY <1>3, LaneOpIs DEF LaneCalls, Callers
    <3> HIDE DEF TypeOK
    <3>2. /\ client' \in ClientType /\ pending' \in [Callers -> Ops \cup {None}]
          /\ wire' \in Seq(RequestType)
      BY <2>1, <3>1, PostsTyped
    <3> QED
      BY <3>2, <2>1, <1>3 DEF LaneCalls, TypeOK
  <2>2. CASE LaneGoesOn(client, AnsweredBusy("lane", LaneOp), 0) /\ UNCHANGED <<pending, wire>>
    <3>1. AnsweredBusy("lane", LaneOp) \in BOOLEAN
      BY DEF AnsweredBusy
    <3>2. client' \in ClientType /\ lane' \in [kind : Kinds, at : Stages, tx : Nat]
      BY <2>2, <3>1, LaneTyped
    <3> QED
      BY <3>2, <2>2, <1>3 DEF LaneCalls
  <2> QED
    BY <1>3, <2>1, <2>2 DEF LaneCalls
<1>4. CASE Receive
  <2> DEFINE h == Head(wire)
  <2>1. Tail(wire) \in Seq(RequestType) /\ h \in RequestType
    BY <1>4, TailProperties DEF Receive
  <2>2. CASE answers' = Append(answers, Answer(h, FALSE, 0)) /\ UNCHANGED worker
    <3>1. Answer(h, FALSE, 0) \in AnswerType
      BY <2>1, AnswerTyped
    <3> QED
      BY <1>4, <2>1, <2>2, <3>1, AppendProperties DEF Receive
  <2>3. CASE /\ worker' = [worker EXCEPT !.open = Append(@, h), !.flags = @ \cup Flag(h.op)]
             /\ UNCHANGED answers
    <3>1. Flag(h.op) \subseteq Flags
      BY <2>1, FlagTyped DEF RequestType
    <3>2. Append(worker.open, h) \in Seq(RequestType)
      BY <2>1, AppendProperties
    <3> HIDE DEF h
    <3> QED
      BY <1>4, <2>1, <2>3, <3>1, <3>2 DEF Receive
  <2> QED
    BY <1>4, <2>2, <2>3 DEF Receive
<1>5. CASE ModuleReady
  <2>1. State(native) \in AnswerType
    BY StateTyped
  <2> QED
    BY <1>5, <2>1, AppendProperties DEF ModuleReady
<1>6. CASE Dispatch
  <2>1. Waiting \in 1..Len(worker.open)
    BY <1>6, WaitingIsFirst DEF Dispatch
  <2> HIDE DEF TypeOK
  <2>2. /\ worker' \in [ready : BOOLEAN, open : Seq(RequestType), tx : Nat, flags : SUBSET Flags]
        /\ answers' \in Seq(AnswerType) /\ native' \in NativeType
    BY <1>6, <2>1, DispatchTyped DEF Dispatch
  <2> QED
    BY <1>6, <2>2 DEF Dispatch, TypeOK
<1>7. ASSUME NEW op \in Jobs, JobDone(op)
      PROVE  TypeOK'
  <2>1. PICK i \in DOMAIN worker.open, ok \in BOOLEAN :
          LET h == worker.open[i]
              over == [native EXCEPT !.job = @ /\ h.op # "slice", !.arranging = @ /\ h.op # "arrange",
                                     !.epoch = IF h.op = "slice" THEN @ + 1 ELSE @]
          IN Ends(i, ok, 0, worker.tx, over, <<>>)
    BY <1>7 DEF JobDone
  <2>2. UNCHANGED <<client, pending, lane, wire>>
    BY <1>7 DEF JobDone
  <2> DEFINE h == worker.open[i]
             j == native.job /\ h.op # "slice"
             r == native.arranging /\ h.op # "arrange"
             e == IF h.op = "slice" THEN native.epoch + 1 ELSE native.epoch
             over == [native EXCEPT !.job = j, !.arranging = r, !.epoch = e]
  <2>3. over \in NativeType
    <3>1. j \in BOOLEAN /\ r \in BOOLEAN
      BY DEF NativeType
    <3>2. e \in Nat
      BY DEF NativeType
    <3> HIDE DEF j, r, e
    <3> QED
      BY <3>1, <3>2 DEF NativeType
  <2>4. i \in 1..Len(worker.open) /\ <<>> \in Seq(AnswerType) /\ 0 \in Nat /\ worker.tx \in Nat
    BY LenProperties, EmptySeq
  <2>5. Ends(i, ok, 0, worker.tx, over, <<>>)
    BY <2>1
  <2> HIDE DEF over, TypeOK
  <2>6. /\ worker' \in [ready : BOOLEAN, open : Seq(RequestType), tx : Nat, flags : SUBSET Flags]
        /\ answers' \in Seq(AnswerType) /\ native' \in NativeType
    BY <2>3, <2>4, <2>5, EndsTyped
  <2> QED
    BY <2>2, <2>6 DEF TypeOK
<1>8. CASE Deliver
  <2> DEFINE a == Head(answers)
  <2>1. Tail(answers) \in Seq(AnswerType) /\ a \in AnswerType
    BY <1>8, TailProperties DEF Deliver
  <2>2. CASE /\ a.to = "state"
             /\ client' = [client EXCEPT !.threaded = a.op, !.epoch = a.epoch, !.serialSlice = @ /\ a.op = "yes"]
             /\ UNCHANGED <<pending, lane>>
    <3>1. a.op \in {"unknown", "yes", "no"} /\ a.epoch \in Nat
      BY <2>1, <2>2 DEF AnswerType
    <3>2. client' \in ClientType
      BY <2>2, <3>1 DEF ClientType
    <3> QED
      BY <1>8, <2>1, <2>2, <3>2 DEF Deliver
  <2>3. CASE /\ a.to # "state"
             /\ pending' = [pending EXCEPT ![a.to] = None]
             /\ IF a.to = "lane" THEN LaneGoesOn(SettledClient(a), a.ok, a.tx)
                ELSE client' = SettledClient(a) /\ UNCHANGED lane
    <3>1. SettledClient(a) \in ClientType
      BY <2>1, SettledTyped
    <3>2. a.ok \in BOOLEAN /\ a.tx \in Nat
      BY <2>1 DEF AnswerType
    <3>3. client' \in ClientType /\ lane' \in [kind : Kinds, at : Stages, tx : Nat]
      BY <2>3, <3>1, <3>2, LaneTyped
    <3> QED
      BY <1>8, <2>1, <2>3, <3>3 DEF Deliver
  <2> QED
    BY <1>8, <2>2, <2>3 DEF Deliver
<1>9. CASE Fatal
  <2> HIDE DEF TypeOK
  <2>1. FatalClient \in ClientType
    BY GoneTyped
  <2>2. LaneGoesOn(FatalClient, FALSE, 0) \/ (client' = FatalClient /\ UNCHANGED lane)
    BY <1>9 DEF Fatal
  <2> USE DEF TypeOK
  <2>3. client' \in ClientType /\ lane' \in [kind : Kinds, at : Stages, tx : Nat]
    <3>1. CASE client' = FatalClient /\ UNCHANGED lane
      BY <3>1, <2>1
    <3>2. CASE LaneGoesOn(FatalClient, FALSE, 0)
      <4> HIDE DEF TypeOK
      <4>1. FALSE \in BOOLEAN /\ 0 \in Nat
        OBVIOUS
      <4> QED
        BY <3>2, <2>1, <4>1, LaneTyped
    <3> QED
      BY <2>2, <3>1, <3>2
  <2>4. wire' \in Seq(RequestType) /\ answers' \in Seq(AnswerType)
    BY <1>9, EmptySeq DEF Fatal
  <2>5. worker' \in [ready : BOOLEAN, open : Seq(RequestType), tx : Nat, flags : SUBSET Flags]
    BY <1>9, EmptySeq DEF Fatal
  <2> QED
    BY <1>9, <2>3, <2>4, <2>5 DEF Fatal, FatalPending
<1>10. CASE UNCHANGED vars
  BY <1>10 DEF vars
<1> QED
  BY <1>1, <1>2, <1>3, <1>4, <1>5, <1>6, <1>7, <1>8, <1>9, <1>10 DEF Next

-----------------------------------------------------------------------------
(* The message of a call *)

\* A message says what its caller awaits.
WireSays == \A i \in 1..Len(wire) : wire[i].op = pending[wire[i].from]
OpenSays == \A i \in 1..Len(worker.open) : worker.open[i].op = pending[worker.open[i].from]
AnswersSay ==
  \A i \in 1..Len(answers) : answers[i].to # "state" => answers[i].op = pending[answers[i].to]

\* Two messages are not of the same caller.
WireApart == \A i, j \in 1..Len(wire) : wire[i].from = wire[j].from => i = j
OpenApart == \A i, j \in 1..Len(worker.open) : worker.open[i].from = worker.open[j].from => i = j
AnswersApart ==
  \A i, j \in 1..Len(answers) : answers[i].to # "state" /\ answers[i].to = answers[j].to => i = j
WireOpen == \A i \in 1..Len(wire), j \in 1..Len(worker.open) : wire[i].from # worker.open[j].from
WireAnswers == \A i \in 1..Len(wire), j \in 1..Len(answers) : wire[i].from # answers[j].to
OpenAnswers ==
  \A i \in 1..Len(worker.open), j \in 1..Len(answers) : worker.open[i].from # answers[j].to

\* A call that is awaited has its message.
Reached ==
  \A c \in Callers : pending[c] # None =>
    \/ \E i \in 1..Len(wire) : wire[i].from = c
    \/ \E i \in 1..Len(worker.open) : worker.open[i].from = c
    \/ \E i \in 1..Len(answers) : answers[i].to = c

MessagesOK ==
  /\ WireSays /\ OpenSays /\ AnswersSay
  /\ WireApart /\ OpenApart /\ AnswersApart /\ WireOpen /\ WireAnswers /\ OpenAnswers
  /\ Reached

\* What a step does to the messages: one more on the wire,
Sent(c, r) ==
  /\ pending[c] = None /\ r.from = c /\ pending' = [pending EXCEPT ![c] = r.op]
  /\ wire' \in Seq(RequestType) /\ Len(wire') = Len(wire) + 1
  /\ wire'[Len(wire) + 1] = r /\ \A j \in 1..Len(wire) : wire'[j] = wire[j]
  /\ UNCHANGED answers /\ worker'.open = worker.open

\* the oldest refused,
WireShorter ==
  /\ wire # <<>> /\ Len(wire') = Len(wire) - 1
  /\ \A j \in 1..Len(wire) - 1 : wire'[j] = wire[j + 1]

Turned(a) ==
  /\ WireShorter /\ UNCHANGED pending /\ worker'.open = worker.open
  /\ a.to = wire[1].from /\ a.op = wire[1].op /\ a.to # "state"
  /\ Len(answers') = Len(answers) + 1 /\ answers'[Len(answers) + 1] = a
  /\ \A j \in 1..Len(answers) : answers'[j] = answers[j]

\* or taken,
Opened ==
  /\ WireShorter /\ UNCHANGED <<pending, answers>>
  /\ Len(worker'.open) = Len(worker.open) + 1 /\ worker'.open[Len(worker.open) + 1] = wire[1]
  /\ \A j \in 1..Len(worker.open) : worker'.open[j] = worker.open[j]

\* a handler ended, which may say its state first,
AnswersLonger(a) ==
  /\ Len(answers') > Len(answers) /\ answers'[Len(answers')] = a
  /\ \A j \in 1..Len(answers) : answers'[j] = answers[j]
  /\ \A j \in Len(answers) + 1..Len(answers') - 1 :
       /\ answers'[j].to = "state" /\ answers'[j].tx = 0 /\ answers'[j].epoch = native'.epoch
       /\ answers'[j].op = IF native'.threaded THEN "yes" ELSE "no"

Ended(i, a) ==
  /\ UNCHANGED <<pending, wire>>
  /\ a.to = worker.open[i].from /\ a.op = worker.open[i].op /\ a.to # "state"
  /\ Len(worker'.open) = Len(worker.open) - 1
  /\ \A j \in 1..Len(worker.open) - 1 :
       worker'.open[j] = IF j < i THEN worker.open[j] ELSE worker.open[j + 1]
  /\ AnswersLonger(a)

\* or set to work,
Marked(i) ==
  /\ UNCHANGED <<pending, wire, answers>>
  /\ worker'.open \in Seq(RequestType) /\ Len(worker'.open) = Len(worker.open)
  /\ \A j \in 1..Len(worker.open) :
       worker'.open[j] = IF j = i THEN [worker.open[i] EXCEPT !.running = TRUE] ELSE worker.open[j]

\* the module loaded,
Loaded ==
  /\ UNCHANGED <<pending, wire>> /\ worker'.open = worker.open
  /\ Len(answers') = Len(answers) + 1 /\ answers'[Len(answers) + 1] = State(native)
  /\ \A j \in 1..Len(answers) : answers'[j] = answers[j]

\* an answer heard, or everything gone.
Heard ==
  /\ answers # <<>> /\ Len(answers') = Len(answers) - 1
  /\ \A j \in 1..Len(answers) - 1 : answers'[j] = answers[j + 1]
  /\ UNCHANGED wire /\ worker'.open = worker.open
  /\ pending' = IF answers[1].to = "state" THEN pending ELSE [pending EXCEPT ![answers[1].to] = None]

Gone ==
  /\ wire' = <<>> /\ answers' = <<>> /\ worker'.open = <<>>
  /\ pending' = [c \in Callers |-> None]

Untouched == UNCHANGED <<pending, wire, answers>> /\ worker'.open = worker.open

\* What a message is.
LEMMA MessageTypes ==
  ASSUME TypeOK
  PROVE  /\ Len(wire) \in Nat /\ Len(worker.open) \in Nat /\ Len(answers) \in Nat
         /\ \A i \in 1..Len(wire) :
              wire[i] \in RequestType /\ wire[i].from \in Callers
                /\ wire[i].from # "state" /\ wire[i].op # None
         /\ \A i \in 1..Len(worker.open) :
              worker.open[i] \in RequestType /\ worker.open[i].from \in Callers
                /\ worker.open[i].from # "state" /\ worker.open[i].op # None
         /\ \A i \in 1..Len(answers) :
              answers[i] \in AnswerType
                /\ (answers[i].to # "state" => answers[i].to \in Callers /\ answers[i].op # None)
<1>1. Len(wire) \in Nat /\ Len(worker.open) \in Nat /\ Len(answers) \in Nat
  BY LenProperties DEF TypeOK
<1>2. \A r \in RequestType : r.from \in Callers /\ r.from # "state" /\ r.op # None
  BY DEF RequestType, Callers, Ops, None
<1>3. \A a \in AnswerType : a.to # "state" => a.to \in Callers /\ a.op # None
  BY DEF AnswerType, Callers, Ops, None
<1>4. /\ \A i \in 1..Len(wire) : wire[i] \in RequestType
      /\ \A i \in 1..Len(worker.open) : worker.open[i] \in RequestType
      /\ \A i \in 1..Len(answers) : answers[i] \in AnswerType
  BY ElementOfSeq DEF TypeOK
<1> QED
  BY <1>1, <1>2, <1>3, <1>4

LEMMA SentKeeps ==
  ASSUME TypeOK, MessagesOK, NEW c \in Callers, NEW r \in RequestType, Sent(c, r)
  PROVE  MessagesOK'
<1>1. /\ \A i \in 1..Len(wire) : wire[i].from # c
      /\ \A i \in 1..Len(worker.open) : worker.open[i].from # c
      /\ \A i \in 1..Len(answers) : answers[i].to # c
  BY MessageTypes DEF MessagesOK, WireSays, OpenSays, AnswersSay, Sent, Callers
<1>2. /\ Len(wire) \in Nat /\ r.from = c /\ pending' = [pending EXCEPT ![c] = r.op]
      /\ Len(wire') = Len(wire) + 1
      /\ wire'[Len(wire) + 1] = r /\ \A j \in 1..Len(wire) : wire'[j] = wire[j]
      /\ answers' = answers /\ worker'.open = worker.open
  BY LenProperties DEF Sent, TypeOK
<1>3. \A i \in 1..Len(wire') : i \in 1..Len(wire) \/ i = Len(wire) + 1
  BY <1>2
<1>4. pending \in [Callers -> Ops \cup {None}] /\ r.op \in Ops
  BY DEF TypeOK, RequestType
<1>5. WireSays' /\ OpenSays' /\ AnswersSay'
  <2>1. \A d \in Callers \ {c} : pending'[d] = pending[d]
    BY <1>2, <1>4
  <2>2. pending'[c] = r.op
    BY <1>2, <1>4
  <2>3. WireSays'
    BY <2>1, <2>2, <1>1, <1>2, <1>3, MessageTypes DEF MessagesOK, WireSays
  <2>4. OpenSays'
    BY <2>1, <1>1, <1>2, MessageTypes DEF MessagesOK, OpenSays
  <2>5. AnswersSay'
    BY <2>1, <1>1, <1>2, MessageTypes DEF MessagesOK, AnswersSay
  <2> QED
    BY <2>3, <2>4, <2>5
<1>6. WireApart' /\ WireOpen' /\ WireAnswers'
  <2>1. WireApart'
    BY <1>1, <1>2, <1>3 DEF MessagesOK, WireApart
  <2>2. WireOpen'
    BY <1>1, <1>2, <1>3 DEF MessagesOK, WireOpen
  <2>3. WireAnswers'
    BY <1>1, <1>2, <1>3 DEF MessagesOK, WireAnswers
  <2> QED
    BY <2>1, <2>2, <2>3
<1>7. OpenApart' /\ AnswersApart' /\ OpenAnswers'
  BY <1>2 DEF MessagesOK, OpenApart, AnswersApart, OpenAnswers
<1>8. Reached'
  <2> SUFFICES ASSUME NEW d \in Callers, pending'[d] # None
               PROVE  \/ \E i \in 1..Len(wire') : wire'[i].from = d
                      \/ \E i \in 1..Len(worker'.open) : worker'.open[i].from = d
                      \/ \E i \in 1..Len(answers') : answers'[i].to = d
    BY DEF Reached
  <2>1. CASE d = c
    BY <2>1, <1>2
  <2>2. CASE d # c
    <3>1. pending[d] # None
      BY <2>2, <1>2, <1>4
    <3> QED
      BY <3>1, <1>2 DEF MessagesOK, Reached
  <2> QED
    BY <2>1, <2>2
<1> QED
  BY <1>5, <1>6, <1>7, <1>8 DEF MessagesOK

\* The oldest message leaves the wire: what the others are, and what it is not.
LEMMA WireTail ==
  ASSUME TypeOK, MessagesOK, WireShorter
  PROVE  /\ 1 \in 1..Len(wire) /\ wire[1].from \in Callers /\ wire[1].from # "state"
         /\ \A i \in 1..Len(wire') : i + 1 \in 1..Len(wire) /\ i + 1 # 1 /\ wire'[i] = wire[i + 1]
         /\ \A i \in 1..Len(wire') : wire'[i].from # wire[1].from
         /\ wire[1].op = pending[wire[1].from]
         /\ \A i \in 1..Len(worker.open) : worker.open[i].from # wire[1].from
         /\ \A i \in 1..Len(answers) : answers[i].to # wire[1].from
<1>1. 1 \in 1..Len(wire) /\ Len(wire) \in Nat /\ Len(wire') = Len(wire) - 1
  BY EmptySeq, LenProperties DEF TypeOK, WireShorter
<1>2. \A i \in 1..Len(wire') : i + 1 \in 1..Len(wire) /\ i + 1 # 1 /\ wire'[i] = wire[i + 1]
  BY <1>1 DEF WireShorter
<1>3. \A i \in 1..Len(wire') : wire'[i].from # wire[1].from
  BY <1>1, <1>2 DEF MessagesOK, WireApart
<1> QED
  BY <1>1, <1>2, <1>3, MessageTypes DEF MessagesOK, WireSays, WireOpen, WireAnswers

LEMMA TurnedKeeps ==
  ASSUME TypeOK, MessagesOK, NEW a \in AnswerType, Turned(a)
  PROVE  MessagesOK'
<1>1. /\ 1 \in 1..Len(wire) /\ wire[1].op = pending[wire[1].from]
      /\ \A i \in 1..Len(wire') : i + 1 \in 1..Len(wire) /\ i + 1 # 1 /\ wire'[i] = wire[i + 1]
      /\ \A i \in 1..Len(wire') : wire'[i].from # wire[1].from
      /\ \A i \in 1..Len(worker.open) : worker.open[i].from # wire[1].from
      /\ \A i \in 1..Len(answers) : answers[i].to # wire[1].from
  BY WireTail DEF Turned
<1>2. /\ Len(answers) \in Nat /\ Len(answers') = Len(answers) + 1
      /\ answers'[Len(answers) + 1] = a /\ \A j \in 1..Len(answers) : answers'[j] = answers[j]
      /\ pending' = pending /\ worker'.open = worker.open
      /\ a.to = wire[1].from /\ a.op = wire[1].op
  BY LenProperties DEF Turned, TypeOK
<1>3. \A i \in 1..Len(answers') : i \in 1..Len(answers) \/ i = Len(answers) + 1
  BY <1>2
<1>4. WireSays' /\ WireApart' /\ WireOpen'
  <2>1. WireSays'
    BY <1>1, <1>2 DEF MessagesOK, WireSays
  <2>2. WireApart'
    BY <1>1 DEF MessagesOK, WireApart
  <2>3. WireOpen'
    BY <1>1, <1>2 DEF MessagesOK, WireOpen
  <2> QED
    BY <2>1, <2>2, <2>3
<1>5. OpenSays' /\ OpenApart'
  BY <1>2 DEF MessagesOK, OpenSays, OpenApart
<1>6. AnswersSay'
  BY <1>1, <1>2, <1>3 DEF MessagesOK, AnswersSay
<1>7. AnswersApart'
  BY <1>1, <1>2, <1>3 DEF MessagesOK, AnswersApart
<1>8. WireAnswers'
  <2> SUFFICES ASSUME NEW i \in 1..Len(wire'), NEW j \in 1..Len(answers')
               PROVE  wire'[i].from # answers'[j].to
    BY DEF WireAnswers
  <2>1. /\ i + 1 \in 1..Len(wire) /\ wire'[i] = wire[i + 1]
        /\ wire'[i].from # wire[1].from
    BY <1>1
  <2>2. CASE j \in 1..Len(answers)
    <3>1. wire[i + 1].from # answers[j].to
      BY <2>1, <2>2 DEF MessagesOK, WireAnswers
    <3> QED
      BY <1>2, <2>1, <2>2, <3>1
  <2>3. CASE j = Len(answers) + 1
    BY <1>2, <2>1, <2>3
  <2> QED
    BY <1>3, <2>2, <2>3
<1>9. OpenAnswers'
  BY <1>1, <1>2, <1>3 DEF MessagesOK, OpenAnswers
<1>10. Reached'
  <2> SUFFICES ASSUME NEW c \in Callers, pending'[c] # None
               PROVE  \/ \E i \in 1..Len(wire') : wire'[i].from = c
                      \/ \E i \in 1..Len(worker'.open) : worker'.open[i].from = c
                      \/ \E i \in 1..Len(answers') : answers'[i].to = c
    BY DEF Reached
  <2>1. CASE c = wire[1].from
    <3>1. Len(answers) + 1 \in 1..Len(answers') /\ answers'[Len(answers) + 1].to = c
      BY <2>1, <1>2
    <3> QED
      BY <3>1
  <2>2. CASE c # wire[1].from
    <3>1. ASSUME NEW i \in 1..Len(wire), wire[i].from = c
          PROVE  i - 1 \in 1..Len(wire') /\ wire'[i - 1].from = c
      <4>1. i # 1 /\ Len(wire') = Len(wire) - 1 /\ Len(wire) \in Nat
        BY <3>1, <2>2, LenProperties DEF Turned, WireShorter, TypeOK
      <4>2. i - 1 \in 1..Len(wire')
        BY <4>1
      <4>3. wire'[i - 1] = wire[(i - 1) + 1] /\ (i - 1) + 1 = i
        BY <4>2, <1>1
      <4> QED
        BY <4>2, <4>3, <3>1
    <3>2. ASSUME NEW i \in 1..Len(answers), answers[i].to = c
          PROVE  i \in 1..Len(answers') /\ answers'[i].to = c
      BY <3>2, <1>2
    <3> QED
      BY <3>1, <3>2, <1>2 DEF MessagesOK, Reached
  <2> QED
    BY <2>1, <2>2
<1> QED
  BY <1>4, <1>5, <1>6, <1>7, <1>8, <1>9, <1>10 DEF MessagesOK

LEMMA OpenedKeeps ==
  ASSUME TypeOK, MessagesOK, Opened
  PROVE  MessagesOK'
<1>1. /\ 1 \in 1..Len(wire) /\ wire[1].op = pending[wire[1].from]
      /\ \A i \in 1..Len(wire') : i + 1 \in 1..Len(wire) /\ i + 1 # 1 /\ wire'[i] = wire[i + 1]
      /\ \A i \in 1..Len(wire') : wire'[i].from # wire[1].from
      /\ \A i \in 1..Len(worker.open) : worker.open[i].from # wire[1].from
      /\ \A i \in 1..Len(answers) : answers[i].to # wire[1].from
  BY WireTail DEF Opened
<1>2. /\ Len(worker.open) \in Nat /\ Len(worker'.open) = Len(worker.open) + 1
      /\ worker'.open[Len(worker.open) + 1] = wire[1]
      /\ \A j \in 1..Len(worker.open) : worker'.open[j] = worker.open[j]
      /\ pending' = pending /\ answers' = answers
  BY LenProperties DEF Opened, TypeOK
<1>3. \A i \in 1..Len(worker'.open) : i \in 1..Len(worker.open) \/ i = Len(worker.open) + 1
  BY <1>2
<1>4. WireSays' /\ WireApart' /\ WireAnswers'
  <2>1. WireSays'
    BY <1>1, <1>2 DEF MessagesOK, WireSays
  <2>2. WireApart'
    BY <1>1 DEF MessagesOK, WireApart
  <2>3. WireAnswers'
    BY <1>1, <1>2 DEF MessagesOK, WireAnswers
  <2> QED
    BY <2>1, <2>2, <2>3
<1>5. AnswersSay' /\ AnswersApart'
  BY <1>2 DEF MessagesOK, AnswersSay, AnswersApart
<1>6. OpenSays'
  BY <1>1, <1>2, <1>3 DEF MessagesOK, OpenSays
<1>7. OpenApart'
  BY ZenonT(60), <1>1, <1>2, <1>3 DEF MessagesOK, OpenApart
<1>8. WireOpen'
  BY ZenonT(60), <1>1, <1>2, <1>3 DEF MessagesOK, WireOpen
<1>9. OpenAnswers'
  BY SMTT(40), <1>1, <1>2, <1>3 DEF MessagesOK, OpenAnswers
<1>10. Reached'
  <2> SUFFICES ASSUME NEW c \in Callers, pending'[c] # None
               PROVE  \/ \E i \in 1..Len(wire') : wire'[i].from = c
                      \/ \E i \in 1..Len(worker'.open) : worker'.open[i].from = c
                      \/ \E i \in 1..Len(answers') : answers'[i].to = c
    BY DEF Reached
  <2>1. CASE c = wire[1].from
    <3>1. Len(worker.open) + 1 \in 1..Len(worker'.open) /\ worker'.open[Len(worker.open) + 1].from = c
      BY <2>1, <1>2
    <3> QED
      BY <3>1
  <2>2. CASE c # wire[1].from
    <3>1. ASSUME NEW i \in 1..Len(wire), wire[i].from = c
          PROVE  i - 1 \in 1..Len(wire') /\ wire'[i - 1].from = c
      <4>1. i # 1 /\ Len(wire') = Len(wire) - 1 /\ Len(wire) \in Nat
        BY <3>1, <2>2, LenProperties DEF Opened, WireShorter, TypeOK
      <4>2. i - 1 \in 1..Len(wire')
        BY <4>1
      <4>3. wire'[i - 1] = wire[(i - 1) + 1] /\ (i - 1) + 1 = i
        BY <4>2, <1>1
      <4> QED
        BY <4>2, <4>3, <3>1
    <3>2. ASSUME NEW i \in 1..Len(worker.open), worker.open[i].from = c
          PROVE  i \in 1..Len(worker'.open) /\ worker'.open[i].from = c
      BY <3>2, <1>2
    <3> QED
      BY <3>1, <3>2, <1>2 DEF MessagesOK, Reached
  <2> QED
    BY <2>1, <2>2
<1> QED
  BY <1>4, <1>5, <1>6, <1>7, <1>8, <1>9, <1>10 DEF MessagesOK

\* Handler i ends: what the others are.
LEMMA OpenWithout ==
  ASSUME TypeOK, MessagesOK, NEW i \in 1..Len(worker.open), NEW a \in AnswerType, Ended(i, a)
  PROVE  \A j \in 1..Len(worker'.open) :
           \E k \in 1..Len(worker.open) \ {i} :
             worker'.open[j] = worker.open[k] /\ k = IF j < i THEN j ELSE j + 1
<1> SUFFICES ASSUME NEW j \in 1..Len(worker'.open)
             PROVE  \E k \in 1..Len(worker.open) \ {i} :
                      worker'.open[j] = worker.open[k] /\ k = IF j < i THEN j ELSE j + 1
  OBVIOUS
<1>1. Len(worker.open) \in Nat /\ Len(worker'.open) = Len(worker.open) - 1
  BY LenProperties DEF Ended, TypeOK
<1>2. j \in 1..Len(worker.open) - 1
  BY <1>1
<1>3. worker'.open[j] = IF j < i THEN worker.open[j] ELSE worker.open[j + 1]
  BY <1>2 DEF Ended
<1>4. CASE j < i
  <2>1. j \in 1..Len(worker.open) \ {i}
    BY <1>1, <1>2, <1>4
  <2> QED
    BY <2>1, <1>3, <1>4
<1>5. CASE ~(j < i)
  <2>1. j + 1 \in 1..Len(worker.open) \ {i}
    BY <1>1, <1>2, <1>5
  <2> QED
    BY <2>1, <1>3, <1>5
<1> QED
  BY <1>4, <1>5

LEMMA EndedKeeps ==
  ASSUME TypeOK, TypeOK', MessagesOK, NEW i \in 1..Len(worker.open), NEW a \in AnswerType, Ended(i, a)
  PROVE  MessagesOK'
<1>1. \A j \in 1..Len(worker'.open) :
        \E k \in 1..Len(worker.open) \ {i} :
          worker'.open[j] = worker.open[k] /\ k = IF j < i THEN j ELSE j + 1
  BY OpenWithout
<1>2. /\ Len(answers) \in Nat /\ Len(answers') \in Nat /\ Len(answers') > Len(answers)
      /\ answers'[Len(answers')] = a /\ \A j \in 1..Len(answers) : answers'[j] = answers[j]
      /\ \A j \in Len(answers) + 1..Len(answers') - 1 : answers'[j].to = "state"
      /\ pending' = pending /\ wire' = wire /\ a.to # "state"
      /\ a.to = worker.open[i].from /\ a.op = worker.open[i].op
  BY LenProperties DEF Ended, AnswersLonger, TypeOK
<1>3. \A j \in 1..Len(answers') :
        \/ j \in 1..Len(answers) \/ j = Len(answers')
        \/ j \in Len(answers) + 1..Len(answers') - 1
  BY <1>2
<1>4. /\ a.op = pending[a.to]
      /\ \A j \in 1..Len(worker'.open) : worker'.open[j].from # a.to
      /\ \A j \in 1..Len(wire) : wire[j].from # a.to /\ wire[j].from # "state"
      /\ \A j \in 1..Len(answers) : answers[j].to # a.to
      /\ \A j \in 1..Len(worker'.open) : worker'.open[j].from # "state"
  <2>1. a.op = pending[a.to]
    BY <1>2 DEF MessagesOK, OpenSays
  <2>2. \A j \in 1..Len(worker'.open) : worker'.open[j].from # a.to
    BY <1>1, <1>2 DEF MessagesOK, OpenApart
  <2>3. \A j \in 1..Len(wire) : wire[j].from # a.to
    BY <1>2 DEF MessagesOK, WireOpen
  <2>4. \A j \in 1..Len(answers) : answers[j].to # a.to
    BY <1>2 DEF MessagesOK, OpenAnswers
  <2>5. \A j \in 1..Len(worker'.open) : worker'.open[j].from # "state"
    BY <1>1, MessageTypes
  <2> QED
    BY <2>1, <2>2, <2>3, <2>4, <2>5, MessageTypes
<1>5. WireSays' /\ WireApart'
  BY <1>2 DEF MessagesOK, WireSays, WireApart
<1>6. OpenSays'
  BY <1>1, <1>2 DEF MessagesOK, OpenSays
<1>7. OpenApart'
  <2> SUFFICES ASSUME NEW j \in 1..Len(worker'.open), NEW k \in 1..Len(worker'.open),
                      worker'.open[j].from = worker'.open[k].from
               PROVE  j = k
    BY DEF OpenApart
  <2>1. PICK m \in 1..Len(worker.open) :
          worker'.open[j] = worker.open[m] /\ m = IF j < i THEN j ELSE j + 1
    BY <1>1
  <2>2. PICK n \in 1..Len(worker.open) :
          worker'.open[k] = worker.open[n] /\ n = IF k < i THEN k ELSE k + 1
    BY <1>1
  <2>3. m = n
    BY <2>1, <2>2 DEF MessagesOK, OpenApart
  <2> QED
    BY <2>1, <2>2, <2>3
<1>8. AnswersSay'
  BY <1>2, <1>3, <1>4 DEF MessagesOK, AnswersSay
<1>9. AnswersApart'
  BY <1>2, <1>3, <1>4 DEF MessagesOK, AnswersApart
<1>10. WireOpen'
  BY ZenonT(60), <1>1, <1>2 DEF MessagesOK, WireOpen
<1>11. WireAnswers'
  BY <1>2, <1>3, <1>4 DEF MessagesOK, WireAnswers
<1>12. OpenAnswers'
  <2> SUFFICES ASSUME NEW j \in 1..Len(worker'.open), NEW k \in 1..Len(answers')
               PROVE  worker'.open[j].from # answers'[k].to
    BY DEF OpenAnswers
  <2>1. CASE k \in 1..Len(answers)
    <3>1. PICK m \in 1..Len(worker.open) : worker'.open[j] = worker.open[m]
      BY <1>1
    <3> QED
      BY <2>1, <3>1, <1>2 DEF MessagesOK, OpenAnswers
  <2>2. CASE k = Len(answers')
    BY <2>2, <1>2, <1>4
  <2>3. CASE k \in Len(answers) + 1..Len(answers') - 1
    BY <2>3, <1>2, <1>4
  <2> QED
    BY <2>1, <2>2, <2>3, <1>3
<1>13. Reached'
  <2> SUFFICES ASSUME NEW c \in Callers, pending'[c] # None
               PROVE  \/ \E j \in 1..Len(wire') : wire'[j].from = c
                      \/ \E j \in 1..Len(worker'.open) : worker'.open[j].from = c
                      \/ \E j \in 1..Len(answers') : answers'[j].to = c
    BY DEF Reached
  <2>1. CASE c = a.to
    <3>1. Len(answers') \in 1..Len(answers') /\ answers'[Len(answers')].to = c
      BY <2>1, <1>2
    <3> QED
      BY <3>1
  <2>2. CASE c # a.to
    <3>1. ASSUME NEW k \in 1..Len(worker.open), worker.open[k].from = c
          PROVE  \E j \in 1..Len(worker'.open) : worker'.open[j].from = c
      <4>1. /\ k # i /\ Len(worker.open) \in Nat
            /\ \A j \in 1..Len(worker.open) - 1 :
                 worker'.open[j] = IF j < i THEN worker.open[j] ELSE worker.open[j + 1]
            /\ Len(worker'.open) = Len(worker.open) - 1
        BY <2>2, <3>1, <1>2, LenProperties DEF TypeOK, Ended
      <4>2. CASE k < i
        <5>1. k \in 1..Len(worker.open) - 1
          BY <4>1, <4>2
        <5>2. worker'.open[k] = worker.open[k]
          BY <5>1, <4>1, <4>2
        <5> QED
          BY <5>1, <5>2, <4>1, <3>1
      <4>3. CASE k > i
        <5>1. k - 1 \in 1..Len(worker.open) - 1 /\ ~(k - 1 < i) /\ (k - 1) + 1 = k
          BY <4>1, <4>3
        <5>2. worker'.open[k - 1] = worker.open[k]
          BY <5>1, <4>1
        <5> QED
          BY <5>1, <5>2, <4>1, <3>1
      <4> QED
        BY SMTT(40), <4>1, <4>2, <4>3
    <3>2. ASSUME NEW j \in 1..Len(answers), answers[j].to = c
          PROVE  j \in 1..Len(answers') /\ answers'[j].to = c
      BY <3>2, <1>2
    <3> QED
      BY <3>1, <3>2, <1>2 DEF MessagesOK, Reached
  <2> QED
    BY <2>1, <2>2
<1> QED
  BY <1>5, <1>6, <1>7, <1>8, <1>9, <1>10, <1>11, <1>12, <1>13 DEF MessagesOK

LEMMA MarkedKeeps ==
  ASSUME TypeOK, MessagesOK, NEW i \in 1..Len(worker.open), Marked(i)
  PROVE  MessagesOK'
<1>1. \A j \in 1..Len(worker.open) : /\ worker'.open[j].from = worker.open[j].from
                                     /\ worker'.open[j].op = worker.open[j].op
  BY ZenonT(60), MessageTypes DEF Marked, RequestType
<1>2. /\ pending' = pending /\ wire' = wire /\ answers' = answers
      /\ Len(worker'.open) = Len(worker.open)
  BY DEF Marked
<1>3. WireSays' /\ AnswersSay' /\ WireApart' /\ AnswersApart' /\ WireAnswers'
  BY <1>2 DEF MessagesOK, WireSays, AnswersSay, WireApart, AnswersApart, WireAnswers
<1>4. OpenSays'
  BY <1>1, <1>2 DEF MessagesOK, OpenSays
<1>5. OpenApart'
  BY <1>1, <1>2 DEF MessagesOK, OpenApart
<1>6. WireOpen'
  BY <1>1, <1>2 DEF MessagesOK, WireOpen
<1>7. OpenAnswers'
  BY <1>1, <1>2 DEF MessagesOK, OpenAnswers
<1>8. Reached'
  BY <1>1, <1>2 DEF MessagesOK, Reached
<1> QED
  BY <1>3, <1>4, <1>5, <1>6, <1>7, <1>8 DEF MessagesOK

LEMMA LoadedKeeps ==
  ASSUME TypeOK, MessagesOK, Loaded
  PROVE  MessagesOK'
<1>1. /\ Len(answers) \in Nat /\ Len(answers') = Len(answers) + 1
      /\ answers'[Len(answers) + 1].to = "state"
      /\ \A j \in 1..Len(answers) : answers'[j] = answers[j]
      /\ pending' = pending /\ wire' = wire /\ worker'.open = worker.open
  BY LenProperties DEF Loaded, State, TypeOK
<1>2. \A j \in 1..Len(answers') : j \in 1..Len(answers) \/ j = Len(answers) + 1
  BY <1>1
<1>3. WireSays' /\ OpenSays' /\ WireApart' /\ OpenApart' /\ WireOpen'
  BY SMTT(40), <1>1 DEF MessagesOK, WireSays, OpenSays, WireApart, OpenApart, WireOpen
<1>4. AnswersSay'
  BY <1>1, <1>2 DEF MessagesOK, AnswersSay
<1>5. AnswersApart'
  BY <1>1, <1>2 DEF MessagesOK, AnswersApart
<1>6. WireAnswers'
  BY <1>1, <1>2, MessageTypes DEF MessagesOK, WireAnswers
<1>7. OpenAnswers'
  BY <1>1, <1>2, MessageTypes DEF MessagesOK, OpenAnswers
<1>8. Reached'
  <2>1. ASSUME NEW c, NEW j \in 1..Len(answers), answers[j].to = c
        PROVE  j \in 1..Len(answers') /\ answers'[j].to = c
    BY <2>1, <1>1
  <2> QED
    BY <2>1, <1>1 DEF MessagesOK, Reached
<1> QED
  BY <1>3, <1>4, <1>5, <1>6, <1>7, <1>8 DEF MessagesOK

LEMMA HeardKeeps ==
  ASSUME TypeOK, MessagesOK, Heard
  PROVE  MessagesOK'
<1> DEFINE x == answers[1]
<1>1. /\ 1 \in 1..Len(answers) /\ Len(answers) \in Nat /\ Len(answers') = Len(answers) - 1
      /\ wire' = wire /\ worker'.open = worker.open
      /\ pending' = IF x.to = "state" THEN pending ELSE [pending EXCEPT ![x.to] = None]
      /\ pending \in [Callers -> Ops \cup {None}]
  BY EmptySeq, LenProperties DEF Heard, TypeOK
<1>2. \A j \in 1..Len(answers') : j + 1 \in 1..Len(answers) /\ j + 1 # 1 /\ answers'[j] = answers[j + 1]
  BY <1>1 DEF Heard
<1>3. \A c \in Callers : c # x.to => pending'[c] = pending[c]
  BY <1>1
<1>4. x.to # "state" => pending'[x.to] = None
  BY <1>1, MessageTypes
<1>5. x.to # "state" => /\ \A i \in 1..Len(wire) : wire[i].from # x.to
                        /\ \A i \in 1..Len(worker.open) : worker.open[i].from # x.to
                        /\ \A i \in 1..Len(answers') : answers'[i].to # x.to
  <2>1. \A i \in 1..Len(wire) : wire[i].from # x.to
    BY <1>1 DEF MessagesOK, WireAnswers
  <2>2. \A i \in 1..Len(worker.open) : worker.open[i].from # x.to
    BY <1>1 DEF MessagesOK, OpenAnswers
  <2>3. x.to # "state" => \A i \in 1..Len(answers') : answers'[i].to # x.to
    BY <1>1, <1>2 DEF MessagesOK, AnswersApart
  <2> QED
    BY <2>1, <2>2, <2>3
<1>6. WireSays'
  BY <1>1, <1>3, <1>5, MessageTypes DEF MessagesOK, WireSays
<1>7. OpenSays'
  BY <1>1, <1>3, <1>5, MessageTypes DEF MessagesOK, OpenSays
<1>8. AnswersSay'
  <2> SUFFICES ASSUME NEW i \in 1..Len(answers'), answers'[i].to # "state"
               PROVE  answers'[i].op = pending'[answers'[i].to]
    BY DEF AnswersSay
  <2>1. /\ i + 1 \in 1..Len(answers) /\ answers'[i] = answers[i + 1]
        /\ answers'[i].to \in Callers /\ answers'[i].to # x.to
    BY <1>2, <1>5, MessageTypes
  <2>2. answers'[i].op = pending[answers'[i].to]
    BY <2>1 DEF MessagesOK, AnswersSay
  <2> QED
    BY <2>1, <2>2, <1>3
<1>9. WireApart' /\ OpenApart' /\ WireOpen'
  BY <1>1 DEF MessagesOK, WireApart, OpenApart, WireOpen
<1>10. AnswersApart'
  BY <1>2 DEF MessagesOK, AnswersApart
<1>11. WireAnswers'
  BY <1>1, <1>2 DEF MessagesOK, WireAnswers
<1>12. OpenAnswers'
  BY <1>1, <1>2 DEF MessagesOK, OpenAnswers
<1>13. Reached'
  <2> SUFFICES ASSUME NEW c \in Callers, pending'[c] # None
               PROVE  \/ \E i \in 1..Len(wire') : wire'[i].from = c
                      \/ \E i \in 1..Len(worker'.open) : worker'.open[i].from = c
                      \/ \E i \in 1..Len(answers') : answers'[i].to = c
    BY DEF Reached
  <2>1. c # x.to
    BY <1>4 DEF Callers
  <2>2. pending[c] # None
    BY <2>1, <1>3
  <2>3. ASSUME NEW i \in 1..Len(answers), answers[i].to = c
        PROVE  i - 1 \in 1..Len(answers') /\ answers'[i - 1].to = c
    <3>1. i # 1
      BY <2>1, <2>3
    <3>2. i - 1 \in 1..Len(answers') /\ (i - 1) + 1 = i
      BY <3>1, <1>1
    <3>3. answers'[i - 1] = answers[(i - 1) + 1]
      BY <3>2, <1>2
    <3> QED
      BY <3>2, <3>3, <2>3
  <2> QED
    BY <2>2, <2>3, <1>1 DEF MessagesOK, Reached
<1> QED
  BY <1>6, <1>7, <1>8, <1>9, <1>10, <1>11, <1>12, <1>13 DEF MessagesOK

LEMMA GoneKeeps ==
  ASSUME Gone
  PROVE  MessagesOK'
<1>1. Len(wire') = 0 /\ Len(answers') = 0 /\ Len(worker'.open) = 0
  BY EmptySeq DEF Gone
<1>2. \A c \in Callers : pending'[c] = None
  BY DEF Gone
<1> QED
  BY <1>1, <1>2 DEF MessagesOK, WireSays, OpenSays, AnswersSay, WireApart, OpenApart, AnswersApart,
                    WireOpen, WireAnswers, OpenAnswers, Reached

LEMMA UntouchedKeeps ==
  ASSUME MessagesOK, Untouched
  PROVE  MessagesOK'
  BY DEF Untouched, MessagesOK, WireSays, OpenSays, AnswersSay, WireApart, OpenApart, AnswersApart,
         WireOpen, WireAnswers, OpenAnswers, Reached

-----------------------------------------------------------------------------
(* What each step does to the messages *)

\* A call that is posted adds its request.
LEMMA PostsSends ==
  ASSUME TypeOK, NEW c \in Callers, NEW op \in Ops, NEW tx \in Nat, Posts(c, op, tx),
         pending[c] = None, UNCHANGED answers, worker'.open = worker.open
  PROVE  \E r \in RequestType :
           /\ r.from = c /\ r.op = op /\ r.tx = tx /\ r.epoch = client.epoch
           /\ r.sliced = native.epoch /\ ~r.running
           /\ Sent(c, r)
<1> DEFINE r == [from |-> c, op |-> op, tx |-> tx, epoch |-> client.epoch,
                 sliced |-> native.epoch, running |-> FALSE]
<1>1. r \in RequestType
  BY DEF TypeOK, RequestType, ClientType, NativeType
<1>2. wire' = Append(wire, r) /\ pending' = [pending EXCEPT ![c] = op]
  BY DEF Posts
<1>3. /\ r.from = c /\ r.op = op /\ r.tx = tx /\ r.epoch = client.epoch
      /\ r.sliced = native.epoch /\ ~r.running
  OBVIOUS
<1> HIDE DEF r
<1>4. /\ wire' \in Seq(RequestType) /\ Len(wire') = Len(wire) + 1
      /\ wire'[Len(wire) + 1] = r /\ \A j \in 1..Len(wire) : wire'[j] = wire[j]
  BY <1>1, <1>2, AppendProperties DEF TypeOK
<1> QED
  BY <1>1, <1>2, <1>3, <1>4 DEF Sent

\* A handler that ends.
LEMMA EndsEnds ==
  ASSUME TypeOK, NEW i \in 1..Len(worker.open), NEW ok \in BOOLEAN, NEW tx \in Nat,
         NEW open \in Nat, NEW n \in NativeType, NEW before \in {<<>>, <<State(n)>>},
         Ends(i, ok, tx, open, n, before), UNCHANGED <<pending, wire>>
  PROVE  /\ Answer(worker.open[i], ok, tx) \in AnswerType
         /\ Ended(i, Answer(worker.open[i], ok, tx))
<1> DEFINE h == worker.open[i]
           x == Answer(h, ok, tx)
           tail == Append(before, x)
<1>1. worker.open \in Seq(RequestType) /\ h \in RequestType
  BY ElementOfSeq DEF TypeOK
<1>2. x \in AnswerType /\ x.to = h.from /\ x.op = h.op /\ x.to # "state"
  BY <1>1, AnswerTyped DEF Answer, RequestType, Callers
<1>3. before \in Seq(AnswerType) /\ Len(before) \in {0, 1}
      /\ \A j \in 1..Len(before) :
           /\ before[j].to = "state" /\ before[j].tx = 0 /\ before[j].epoch = n.epoch
           /\ before[j].op = IF n.threaded THEN "yes" ELSE "no"
  <2>1. CASE before = <<>>
    BY <2>1, EmptySeq
  <2>2. CASE before = <<State(n)>>
    <3>1. State(n) \in AnswerType
      BY StateTyped
    <3>2. /\ State(n).to = "state" /\ State(n).tx = 0 /\ State(n).epoch = n.epoch
          /\ State(n).op = IF n.threaded THEN "yes" ELSE "no"
      BY DEF State
    <3> QED
      BY <2>2, <3>1, <3>2
  <2> QED
    BY <2>1, <2>2
<1>4. /\ tail \in Seq(AnswerType) /\ Len(tail) = Len(before) + 1 /\ tail[Len(before) + 1] = x
      /\ \A j \in 1..Len(before) : tail[j] = before[j]
  <2> HIDE DEF x
  <2> QED
    BY <1>2, <1>3, AppendProperties
<1>5. answers' = answers \o tail /\ native' = n
  BY DEF Ends
<1>6. worker'.open = RemoveAt(worker.open, i)
  BY DEF Ends, TypeOK
<1>7. /\ Len(worker'.open) = Len(worker.open) - 1
      /\ \A j \in 1..Len(worker.open) - 1 :
           worker'.open[j] = IF j < i THEN worker.open[j] ELSE worker.open[j + 1]
  BY <1>1, <1>6, RemoveAtProperties
<1> HIDE DEF tail, x, h
<1>8. /\ Len(answers') = Len(answers) + Len(tail)
      /\ \A j \in 1..Len(answers) + Len(tail) :
           answers'[j] = IF j <= Len(answers) THEN answers[j] ELSE tail[j - Len(answers)]
      /\ Len(answers) \in Nat
  <2>1. answers \in Seq(AnswerType) /\ Len(answers) \in Nat
    BY LenProperties DEF TypeOK
  <2>2. /\ Len(answers \o tail) = Len(answers) + Len(tail)
        /\ \A j \in 1..Len(answers) + Len(tail) :
             (answers \o tail)[j] = IF j <= Len(answers) THEN answers[j] ELSE tail[j - Len(answers)]
    BY <1>4, <2>1, ConcatProperties
  <2> QED
    BY <1>5, <2>1, <2>2
<1>9. AnswersLonger(x)
  <2>1. Len(answers') > Len(answers)
    BY <1>3, <1>4, <1>8
  <2>2. answers'[Len(answers')] = x
    <3>1. Len(answers') - Len(answers) = Len(before) + 1 /\ ~(Len(answers') <= Len(answers))
      BY <1>3, <1>4, <1>8
    <3> QED
      BY <3>1, <1>3, <1>4, <1>8
  <2>3. \A j \in 1..Len(answers) : answers'[j] = answers[j]
    BY <1>3, <1>4, <1>8
  <2>4. ASSUME NEW j \in Len(answers) + 1..Len(answers') - 1
        PROVE  /\ answers'[j].to = "state" /\ answers'[j].tx = 0 /\ answers'[j].epoch = native'.epoch
               /\ answers'[j].op = IF native'.threaded THEN "yes" ELSE "no"
    <3>1. j - Len(answers) \in 1..Len(before) /\ ~(j <= Len(answers)) /\ j \in 1..Len(answers) + Len(tail)
      BY <1>3, <1>4, <1>8
    <3> QED
      BY ZenonT(60), <3>1, <1>3, <1>4, <1>5, <1>8
  <2> QED
    BY <2>1, <2>2, <2>3, <2>4 DEF AnswersLonger
<1> QED
  BY <1>2, <1>7, <1>9 DEF Ended, h, x

\* The handler the engine is asked for: it ends with an answer, or is at work.
LEMMA DispatchEnds ==
  ASSUME TypeOK, NEW i \in 1..Len(worker.open), UNCHANGED <<pending, wire>>,
         DispatchRefused(i) \/ DispatchHistory(i) \/ DispatchCommand(i)
  PROVE  Marked(i) \/ \E a \in AnswerType : Ended(i, a)
<1> DEFINE h == worker.open[i]
           N == Executed(h)
<1>1. worker.open \in Seq(RequestType) /\ h \in RequestType
  BY ElementOfSeq DEF TypeOK
<1>2. /\ native \in NativeType /\ worker.tx \in Nat /\ native.tx \in Nat /\ 0 \in Nat
      /\ native.next \in Nat /\ native.next + 1 \in Nat \ {0} /\ native.epoch + 1 \in Nat
  BY DEF TypeOK, NativeType
<1>3. N \in NativeType
  BY <1>1 DEF Executed, TypeOK, NativeType
<1>4. N.next = native.next /\ N.tx = native.tx
  BY <1>2 DEF Executed, NativeType
<1>5. CASE DispatchRefused(i)
  <2>1. \E ok \in BOOLEAN, open \in Nat : Ends(i, ok, 0, open, native, <<>>)
    BY <1>5, <1>2 DEF DispatchRefused
  <2> QED
    BY <2>1, <1>2, EndsEnds
<1>6. CASE DispatchHistory(i)
  <2> DEFINE n1 == [N EXCEPT !.tx = native.next, !.next = @ + 1]
             n2 == [N EXCEPT !.tx = 0]
             n3 == [N EXCEPT !.tx = IF @ = h.tx THEN 0 ELSE @]
  <2>1. n1 \in NativeType
    <3> HIDE DEF N
    <3> QED
      BY <1>2, <1>3, <1>4 DEF NativeType
  <2>2. n2 \in NativeType /\ n3 \in NativeType
    <3> HIDE DEF N
    <3> QED
      BY <1>3 DEF NativeType
  <2>3. \/ Ends(i, TRUE, native.next, native.next, n1, <<>>)
        \/ Ends(i, FALSE, 0, worker.tx, N, <<>>)
        \/ Ends(i, TRUE, 0, 0, n2, <<>>)
        \/ Ends(i, TRUE, 0, 0, n3, <<>>)
    BY <1>6 DEF DispatchHistory
  <2> HIDE DEF n1, n2, n3, N
  <2> QED
    BY <2>1, <2>2, <2>3, <1>2, <1>3, EndsEnds
<1>7. CASE DispatchCommand(i)
  <2> DEFINE over == [native EXCEPT !.epoch = @ + 1]
  <2>1. over \in NativeType
    BY <1>2 DEF NativeType
  <2>2. \/ Ends(i, TRUE, 0, worker.tx, N, <<>>)
        \/ Ends(i, FALSE, 0, worker.tx, N, <<>>)
        \/ Ends(i, TRUE, 0, worker.tx, native, <<>>)
        \/ Ends(i, TRUE, 0, worker.tx, over, <<State(over)>>)
        \/ worker' = [worker EXCEPT !.open[i].running = TRUE] /\ UNCHANGED answers
    BY <1>7 DEF DispatchCommand
  <2>3. CASE worker' = [worker EXCEPT !.open[i].running = TRUE] /\ UNCHANGED answers
    <3>1. worker'.open = [worker.open EXCEPT ![i] = [h EXCEPT !.running = TRUE]]
      BY <2>3 DEF TypeOK
    <3>2. [h EXCEPT !.running = TRUE] \in RequestType
      BY <1>1 DEF RequestType
    <3>3. /\ worker'.open \in Seq(RequestType) /\ Len(worker'.open) = Len(worker.open)
          /\ \A j \in 1..Len(worker.open) :
               worker'.open[j] = IF j = i THEN [h EXCEPT !.running = TRUE] ELSE worker.open[j]
      BY <1>1, <3>1, <3>2, ExceptSeq
    <3> QED
      BY <2>3, <3>3 DEF Marked
  <2> HIDE DEF over, N
  <2> QED
    BY <2>1, <2>2, <2>3, <1>2, <1>3, EndsEnds
<1> QED
  BY <1>5, <1>6, <1>7

\* Every step does one of these things to the messages.
LEMMA MessageSteps ==
  ASSUME TypeOK, [Next]_vars
  PROVE  \/ \E c \in Callers, r \in RequestType : Sent(c, r)
         \/ \E a \in AnswerType : Turned(a)
         \/ Opened
         \/ \E i \in 1..Len(worker.open), a \in AnswerType : Ended(i, a)
         \/ \E i \in 1..Len(worker.open) : Marked(i)
         \/ Loaded \/ Heard \/ Gone \/ Untouched
<1>1. CASE Slice \/ SelectPlate \/ OpenCatalogue \/ MutateUserPreset
  <2>1. PICK c \in Callers, op \in Ops : Calls(c, op)
    BY <1>1, CallsAre DEF Ops
  <2> QED
    BY <2>1, PostsSends DEF Calls
<1>2. CASE LaneStarts
  BY <1>2 DEF LaneStarts, Untouched
<1>3. CASE LaneCalls
  <2>1. CASE Posts("lane", LaneOp, lane.tx)
    BY <1>3, <2>1, LaneOpIs, PostsSends DEF LaneCalls, LaneDue, Callers
  <2>2. CASE UNCHANGED <<pending, wire>>
    BY <1>3, <2>2 DEF LaneCalls, Untouched
  <2> QED
    BY <1>3, <2>1, <2>2 DEF LaneCalls
<1>4. CASE Receive
  <2> DEFINE h == Head(wire)
  <2>1. /\ WireShorter /\ h = wire[1] /\ h \in RequestType /\ UNCHANGED pending
    BY <1>4, TailProperties DEF Receive, WireShorter, TypeOK
  <2>2. CASE answers' = Append(answers, Answer(h, FALSE, 0)) /\ UNCHANGED worker
    <3> DEFINE a == Answer(h, FALSE, 0)
    <3>1. a \in AnswerType /\ a.to = h.from /\ a.op = h.op /\ a.to # "state"
      BY <2>1, AnswerTyped DEF Answer, RequestType, Callers
    <3> HIDE DEF a
    <3>2. /\ Len(answers') = Len(answers) + 1 /\ answers'[Len(answers) + 1] = a
          /\ \A j \in 1..Len(answers) : answers'[j] = answers[j]
      <4>1. answers' = Append(answers, a) /\ answers \in Seq(AnswerType)
        BY <2>2 DEF TypeOK, a
      <4> QED
        BY <4>1, <3>1, AppendProperties
    <3>3. Turned(a)
      BY <2>1, <2>2, <3>1, <3>2 DEF Turned
    <3> QED
      BY <3>1, <3>3
  <2>3. CASE /\ worker' = [worker EXCEPT !.open = Append(@, h), !.flags = @ \cup Flag(h.op)]
             /\ UNCHANGED answers
    <3>1. worker'.open = Append(worker.open, h)
      BY <2>3 DEF TypeOK
    <3> HIDE DEF h
    <3>2. /\ Len(worker'.open) = Len(worker.open) + 1 /\ worker'.open[Len(worker.open) + 1] = h
          /\ \A j \in 1..Len(worker.open) : worker'.open[j] = worker.open[j]
      BY <2>1, <3>1, AppendProperties DEF TypeOK
    <3> QED
      BY <2>1, <2>3, <3>2 DEF Opened
  <2> QED
    BY <1>4, <2>2, <2>3 DEF Receive
<1>5. CASE ModuleReady
  <2>1. State(native) \in AnswerType
    BY StateTyped DEF TypeOK
  <2>2. answers' = Append(answers, State(native)) /\ UNCHANGED <<pending, wire>>
    BY <1>5 DEF ModuleReady
  <2>3. worker'.open = worker.open
    BY <1>5 DEF ModuleReady, TypeOK
  <2>4. /\ Len(answers') = Len(answers) + 1 /\ answers'[Len(answers) + 1] = State(native)
        /\ \A j \in 1..Len(answers) : answers'[j] = answers[j]
    BY <2>1, <2>2, AppendProperties DEF TypeOK
  <2> QED
    BY <2>2, <2>3, <2>4 DEF Loaded
<1>6. CASE Dispatch
  <2>1. Waiting \in 1..Len(worker.open)
    BY <1>6, WaitingIsFirst DEF Dispatch, TypeOK
  <2> QED
    BY <1>6, <2>1, DispatchEnds DEF Dispatch
<1>7. ASSUME NEW op \in Jobs, JobDone(op)
      PROVE  \E i \in 1..Len(worker.open), a \in AnswerType : Ended(i, a)
  <2>1. PICK i \in DOMAIN worker.open, ok \in BOOLEAN :
          LET h == worker.open[i]
              over == [native EXCEPT !.job = @ /\ h.op # "slice", !.arranging = @ /\ h.op # "arrange",
                                     !.epoch = IF h.op = "slice" THEN @ + 1 ELSE @]
          IN Ends(i, ok, 0, worker.tx, over, <<>>)
    BY <1>7 DEF JobDone
  <2>2. UNCHANGED <<pending, wire>>
    BY <1>7 DEF JobDone
  <2> DEFINE h == worker.open[i]
             j == native.job /\ h.op # "slice"
             r == native.arranging /\ h.op # "arrange"
             e == IF h.op = "slice" THEN native.epoch + 1 ELSE native.epoch
             over == [native EXCEPT !.job = j, !.arranging = r, !.epoch = e]
  <2>3. over \in NativeType
    <3>1. j \in BOOLEAN /\ r \in BOOLEAN /\ native \in NativeType
      BY DEF NativeType, TypeOK
    <3>2. e \in Nat
      BY DEF NativeType, TypeOK
    <3> HIDE DEF j, r, e
    <3> QED
      BY <3>1, <3>2 DEF NativeType
  <2>4. i \in 1..Len(worker.open) /\ 0 \in Nat /\ worker.tx \in Nat
    BY LenProperties DEF TypeOK
  <2>5. Ends(i, ok, 0, worker.tx, over, <<>>)
    BY <2>1
  <2> HIDE DEF over
  <2> QED
    BY <2>2, <2>3, <2>4, <2>5, EndsEnds
<1>8. CASE Deliver
  <2>1. /\ answers # <<>> /\ answers' = Tail(answers) /\ Head(answers) = answers[1]
        /\ Len(answers') = Len(answers) - 1
        /\ \A j \in 1..Len(answers) - 1 : answers'[j] = answers[j + 1]
    BY <1>8, TailProperties DEF Deliver, TypeOK
  <2>2. pending' = IF answers[1].to = "state" THEN pending ELSE [pending EXCEPT ![answers[1].to] = None]
    BY <1>8, <2>1 DEF Deliver
  <2>3. UNCHANGED wire /\ worker'.open = worker.open
    BY <1>8 DEF Deliver
  <2> QED
    BY <2>1, <2>2, <2>3 DEF Heard
<1>9. CASE Fatal
  BY <1>9 DEF Fatal, FatalPending, Gone, TypeOK
<1>10. CASE UNCHANGED vars
  BY <1>10 DEF vars, Untouched
<1> QED
  BY <1>1, <1>2, <1>3, <1>4, <1>5, <1>6, <1>7, <1>8, <1>9, <1>10 DEF Next

LEMMA MessagesKept ==
  ASSUME TypeOK, TypeOK', MessagesOK, [Next]_vars
  PROVE  MessagesOK'
  BY MessageSteps, SentKeeps, TurnedKeeps, OpenedKeeps, EndedKeeps, MarkedKeeps, LoadedKeeps,
     HeardKeeps, GoneKeeps, UntouchedKeeps

-----------------------------------------------------------------------------
(* One call, one message *)

LEMMA InitTyped ==
  ASSUME Init
  PROVE  TypeOK /\ MessagesOK
<1>1. client \in ClientType
  BY DEF Init, ClientType
<1>2. /\ pending = [c \in Callers |-> None] /\ wire = <<>> /\ answers = <<>>
      /\ worker.open = <<>>
  BY DEF Init
<1>3. lane \in [kind : Kinds, at : Stages, tx : Nat]
  BY DEF Init, NoCommand, Kinds, Stages
<1>4. worker \in [ready : BOOLEAN, open : Seq(RequestType), tx : Nat, flags : SUBSET Flags]
  BY EmptySeq DEF Init
<1>5. native \in NativeType
  BY DEF Init, NativeType
<1>6. TypeOK
  BY <1>1, <1>2, <1>3, <1>4, <1>5, EmptySeq DEF TypeOK
<1>7. Len(wire) = 0 /\ Len(answers) = 0 /\ Len(worker.open) = 0
  BY <1>2, EmptySeq
<1>8. MessagesOK
  BY <1>2, <1>7 DEF MessagesOK, WireSays, OpenSays, AnswersSay, WireApart, OpenApart, AnswersApart,
                    WireOpen, WireAnswers, OpenAnswers, Reached
<1> QED
  BY <1>6, <1>8

\* One message of a caller that awaits, and none of a caller that does not.
LEMMA OneMessage ==
  ASSUME TypeOK, MessagesOK
  PROVE  AwaitedOnce
<1> SUFFICES ASSUME NEW c \in Callers
             PROVE  IF pending[c] = None THEN Underway(c) = {}
                    ELSE \E p \in Underway(c) : Underway(c) = {p}
  BY DEF AwaitedOnce
<1>1. DOMAIN wire = 1..Len(wire) /\ DOMAIN worker.open = 1..Len(worker.open)
      /\ DOMAIN answers = 1..Len(answers)
  BY LenProperties DEF TypeOK
<1>2. c # "state"
  BY DEF Callers
<1>3. CASE pending[c] = None
  <2>1. \A i \in 1..Len(wire) : wire[i].from # c
    BY <1>3, MessageTypes DEF MessagesOK, WireSays
  <2>2. \A i \in 1..Len(worker.open) : worker.open[i].from # c
    BY <1>3, MessageTypes DEF MessagesOK, OpenSays
  <2>3. \A i \in 1..Len(answers) : answers[i].to # c
    BY <1>2, <1>3, MessageTypes DEF MessagesOK, AnswersSay
  <2> QED
    BY <1>1, <1>3, <2>1, <2>2, <2>3 DEF Underway
<1>4. CASE pending[c] # None
  <2>1. CASE \E i \in 1..Len(wire) : wire[i].from = c
    <3>1. PICK i \in 1..Len(wire) : wire[i].from = c
      BY <2>1
    <3>2. \A j \in 1..Len(wire) : wire[j].from = c => j = i
      BY <3>1 DEF MessagesOK, WireApart
    <3>3. \A j \in 1..Len(worker.open) : worker.open[j].from # c
      BY <3>1 DEF MessagesOK, WireOpen
    <3>4. \A j \in 1..Len(answers) : answers[j].to # c
      BY <3>1 DEF MessagesOK, WireAnswers
    <3>5. Underway(c) = {<<"wire", i>>}
      BY <1>1, <3>1, <3>2, <3>3, <3>4 DEF Underway
    <3> QED
      BY <1>4, <3>5
  <2>2. CASE \E i \in 1..Len(worker.open) : worker.open[i].from = c
    <3>1. PICK i \in 1..Len(worker.open) : worker.open[i].from = c
      BY <2>2
    <3>2. \A j \in 1..Len(worker.open) : worker.open[j].from = c => j = i
      BY <3>1 DEF MessagesOK, OpenApart
    <3>3. \A j \in 1..Len(wire) : wire[j].from # c
      BY <3>1 DEF MessagesOK, WireOpen
    <3>4. \A j \in 1..Len(answers) : answers[j].to # c
      BY <3>1 DEF MessagesOK, OpenAnswers
    <3>5. Underway(c) = {<<"open", i>>}
      BY <1>1, <3>1, <3>2, <3>3, <3>4 DEF Underway
    <3> QED
      BY <1>4, <3>5
  <2>3. CASE \E i \in 1..Len(answers) : answers[i].to = c
    <3>1. PICK i \in 1..Len(answers) : answers[i].to = c
      BY <2>3
    <3>2. \A j \in 1..Len(answers) : answers[j].to = c => j = i
      BY <1>2, <3>1 DEF MessagesOK, AnswersApart
    <3>3. \A j \in 1..Len(wire) : wire[j].from # c
      BY <3>1 DEF MessagesOK, WireAnswers
    <3>4. \A j \in 1..Len(worker.open) : worker.open[j].from # c
      BY <3>1 DEF MessagesOK, OpenAnswers
    <3>5. Underway(c) = {<<"answers", i>>}
      BY <1>1, <3>1, <3>2, <3>3, <3>4 DEF Underway
    <3> QED
      BY <1>4, <3>5
  <2> QED
    BY <1>4, <2>1, <2>2, <2>3 DEF MessagesOK, Reached
<1> QED
  BY <1>3, <1>4

\* The messages of a state of the specification.
THEOREM ProtocolTyped == Spec => [](TypeOK /\ MessagesOK)
<1>1. Init => TypeOK /\ MessagesOK
  BY InitTyped
<1>2. TypeOK /\ MessagesOK /\ [Next]_vars => (TypeOK /\ MessagesOK)'
  BY TypeKept, MessagesKept
<1> QED
  BY <1>1, <1>2, PTL DEF Spec

\* However callers, handlers and jobs interleave, and whenever the Worker dies: a
\* caller that awaits has one message under way, and no other has any.
THEOREM CallsAwaitedOnce == Spec => []AwaitedOnce
<1>1. TypeOK /\ MessagesOK => AwaitedOnce
  BY OneMessage
<1> QED
  BY <1>1, ProtocolTyped, PTL

-----------------------------------------------------------------------------
(* What the engine makes of a handler *)

\* What becomes of the transaction when handler h ends.
TransactionEnds(h, ok, tx, open, n) ==
  \/ /\ tx = 0 /\ open = worker.tx /\ n.tx = native.tx
     /\ h.op = "begin" => ~ok
     /\ h.op = "commit" => ~ok
     /\ h.op # "abort"
  \/ h.op = "begin" /\ ok /\ native.tx = 0 /\ tx = native.next /\ open = native.next /\ n.tx = native.next
  \/ h.op = "commit" /\ ok /\ native.tx = h.tx /\ tx = 0 /\ open = 0 /\ n.tx = 0
  \/ h.op = "abort" /\ tx = 0 /\ open = 0 /\ n.tx = IF native.tx = h.tx THEN 0 ELSE native.tx
  \/ ~native.threaded /\ tx = 0 /\ open \in {0, worker.tx}

\* The engine after handler h, but for what it arranges and its transaction.
EngineAfter(h, n) ==
  /\ n \in NativeType /\ n.threaded = native.threaded /\ native.epoch <= n.epoch
  /\ n.overtook => \/ native.overtook \/ native.arranging
                   \/ ~native.threaded /\ h.epoch = native.epoch /\ h.sliced # native.epoch

\* Handler i ends with answer a.
Ending(i, a) ==
  \E ok \in BOOLEAN, tx \in Nat, open \in Nat, n \in NativeType :
    LET h == worker.open[i]
    IN /\ a = Answer(h, ok, tx) /\ Ended(i, a)
       /\ worker'.flags = worker.flags \ Flag(h.op) /\ worker'.ready = worker.ready
       /\ worker'.tx = open /\ native' = n
       /\ EngineAfter(h, n) /\ TransactionEnds(h, ok, tx, open, n)

\* Handler i is set to work.
Working(i) ==
  LET h == worker.open[i]
  IN /\ Marked(i)
     /\ worker'.flags = worker.flags /\ worker'.ready = worker.ready /\ worker'.tx = worker.tx
     /\ EngineAfter(h, native') /\ native'.tx = native.tx
     /\ native'.arranging = (native.arranging \/ h.op = "arrange")

LEMMA EndsIsEnding ==
  ASSUME TypeOK, NEW i \in 1..Len(worker.open), NEW ok \in BOOLEAN, NEW tx \in Nat,
         NEW open \in Nat, NEW n \in NativeType, NEW before \in {<<>>, <<State(n)>>},
         Ends(i, ok, tx, open, n, before), UNCHANGED <<pending, wire>>,
         EngineAfter(worker.open[i], n), TransactionEnds(worker.open[i], ok, tx, open, n)
  PROVE  /\ Answer(worker.open[i], ok, tx) \in AnswerType /\ native' = n
         /\ Ending(i, Answer(worker.open[i], ok, tx))
<1> DEFINE h == worker.open[i]
           x == Answer(h, ok, tx)
<1>1. x \in AnswerType /\ Ended(i, x)
  BY EndsEnds
<1>2. native' = n
  BY DEF Ends
<1>3. worker'.flags = worker.flags \ Flag(h.op) /\ worker'.ready = worker.ready /\ worker'.tx = open
  BY DEF Ends, TypeOK
<1> HIDE DEF x
<1> QED
  BY <1>1, <1>2, <1>3 DEF Ending, x

\* Every way a handler that waits goes on.
LEMMA DispatchOutcome ==
  ASSUME TypeOK, NEW i \in 1..Len(worker.open), UNCHANGED <<pending, wire>>,
         DispatchRefused(i) \/ DispatchHistory(i) \/ DispatchCommand(i)
  PROVE  \/ Working(i)
         \/ \E a \in AnswerType : Ending(i, a) /\ native'.arranging = native.arranging
<1> DEFINE h == worker.open[i]
           N == Executed(h)
           F(n, ok, tx, open) ==
             EngineAfter(h, n) /\ TransactionEnds(h, ok, tx, open, n) /\ n.arranging = native.arranging
<1>1. worker.open \in Seq(RequestType) /\ h \in RequestType
  BY ElementOfSeq DEF TypeOK
<1>2. /\ native \in NativeType /\ worker.tx \in Nat /\ native.tx \in Nat /\ 0 \in Nat
      /\ native.next \in Nat /\ native.next + 1 \in Nat \ {0} /\ native.epoch \in Nat
      /\ native.epoch + 1 \in Nat /\ native.epoch <= native.epoch + 1
  BY DEF TypeOK, NativeType
<1>3. N \in NativeType
  BY <1>1 DEF Executed, TypeOK, NativeType
<1>4. /\ N.next = native.next /\ N.tx = native.tx /\ N.threaded = native.threaded
      /\ N.epoch = native.epoch /\ N.arranging = native.arranging /\ N.job = native.job
      /\ N.overtook = (\/ native.overtook \/ (~native.threaded /\ h.sliced # native.epoch)
                       \/ native.arranging)
  BY <1>2 DEF Executed, NativeType
<1>5. native.epoch <= native.epoch
  BY <1>2
<1>6. EngineAfter(h, native)
  BY <1>2, <1>5 DEF EngineAfter
<1>7. ASSUME Admitted(h), NEW n \in NativeType, n.threaded = native.threaded,
             n.epoch = native.epoch, n.overtook = N.overtook
      PROVE  EngineAfter(h, n)
  BY <1>4, <1>5, <1>7 DEF EngineAfter, Admitted
<1> HIDE DEF N
<1>8. CASE DispatchRefused(i)
  <2>1. PICK ok \in BOOLEAN, open \in {0, worker.tx} : Ends(i, ok, 0, open, native, <<>>)
    BY <1>8, <1>2 DEF DispatchRefused
  <2>2. ~native.threaded
    BY <1>8 DEF DispatchRefused, Admitted
  <2>3. TransactionEnds(h, ok, 0, open, native)
    BY <2>2 DEF TransactionEnds
  <2> QED
    BY <1>2, <1>6, <2>1, <2>3, EndsIsEnding
<1>9. CASE DispatchHistory(i)
  <2> DEFINE n1 == [N EXCEPT !.tx = native.next, !.next = @ + 1]
             n2 == [N EXCEPT !.tx = 0]
             n3 == [N EXCEPT !.tx = IF @ = h.tx THEN 0 ELSE @]
  <2>1. /\ n1 \in NativeType /\ n1.tx = native.next /\ n1.threaded = native.threaded
        /\ n1.epoch = native.epoch /\ n1.overtook = N.overtook /\ n1.arranging = native.arranging
    BY <1>2, <1>3, <1>4 DEF NativeType
  <2>2. /\ n2 \in NativeType /\ n2.tx = 0 /\ n2.threaded = native.threaded
        /\ n2.epoch = native.epoch /\ n2.overtook = N.overtook /\ n2.arranging = native.arranging
    BY <1>3, <1>4 DEF NativeType
  <2>3. /\ n3 \in NativeType /\ n3.tx = (IF native.tx = h.tx THEN 0 ELSE native.tx)
        /\ n3.threaded = native.threaded
        /\ n3.epoch = native.epoch /\ n3.overtook = N.overtook /\ n3.arranging = native.arranging
    BY <1>3, <1>4 DEF NativeType
  <2>4. /\ Admitted(h)
        /\ \/ /\ h.op = "begin" /\ native.tx = 0
              /\ Ends(i, TRUE, native.next, native.next, n1, <<>>)
           \/ h.op \in {"begin", "commit"} /\ Ends(i, FALSE, 0, worker.tx, N, <<>>)
           \/ h.op = "commit" /\ native.tx = h.tx /\ Ends(i, TRUE, 0, 0, n2, <<>>)
           \/ h.op = "abort" /\ Ends(i, TRUE, 0, 0, n3, <<>>)
    BY <1>9 DEF DispatchHistory, N
  <2> HIDE DEF n1, n2, n3
  <2>5. CASE h.op = "begin" /\ native.tx = 0 /\ Ends(i, TRUE, native.next, native.next, n1, <<>>)
    <3>1. EngineAfter(h, n1)
      BY <2>1, <2>4, <1>7
    <3>2. TransactionEnds(h, TRUE, native.next, native.next, n1)
      BY <2>1, <2>5 DEF TransactionEnds
    <3> QED
      BY <1>2, <2>1, <2>5, <3>1, <3>2, EndsIsEnding
  <2>6. CASE h.op \in {"begin", "commit"} /\ Ends(i, FALSE, 0, worker.tx, N, <<>>)
    <3>1. EngineAfter(h, N)
      BY <1>3, <1>4, <2>4, <1>7
    <3>2. TransactionEnds(h, FALSE, 0, worker.tx, N)
      BY <1>4, <2>6 DEF TransactionEnds
    <3> QED
      BY <1>2, <1>3, <1>4, <2>6, <3>1, <3>2, EndsIsEnding
  <2>7. CASE h.op = "commit" /\ native.tx = h.tx /\ Ends(i, TRUE, 0, 0, n2, <<>>)
    <3>1. EngineAfter(h, n2)
      BY <2>2, <2>4, <1>7
    <3>2. TransactionEnds(h, TRUE, 0, 0, n2)
      BY <2>2, <2>7 DEF TransactionEnds
    <3> QED
      BY <1>2, <2>2, <2>7, <3>1, <3>2, EndsIsEnding
  <2>8. CASE h.op = "abort" /\ Ends(i, TRUE, 0, 0, n3, <<>>)
    <3>1. EngineAfter(h, n3)
      BY <2>3, <2>4, <1>7
    <3>2. TransactionEnds(h, TRUE, 0, 0, n3)
      BY <2>3, <2>8 DEF TransactionEnds
    <3> QED
      BY <1>2, <2>3, <2>8, <3>1, <3>2, EndsIsEnding
  <2> QED
    BY <2>4, <2>5, <2>6, <2>7, <2>8
<1>10. CASE DispatchCommand(i)
  <2> DEFINE over == [native EXCEPT !.epoch = @ + 1]
             busy == [N EXCEPT !.job = @ \/ h.op = "slice", !.arranging = @ \/ h.op = "arrange"]
             Plain == h.op \notin {"begin", "commit", "abort"}
  <2>1. /\ over \in NativeType /\ over.threaded = native.threaded /\ over.tx = native.tx
        /\ over.epoch = native.epoch + 1 /\ over.overtook = native.overtook
        /\ over.arranging = native.arranging
    BY <1>2 DEF NativeType
  <2>2. /\ Admitted(h)
        /\ \/ Plain /\ Ends(i, TRUE, 0, worker.tx, N, <<>>)
           \/ Plain /\ Ends(i, FALSE, 0, worker.tx, N, <<>>)
           \/ Plain /\ Ends(i, TRUE, 0, worker.tx, native, <<>>)
           \/ Plain /\ Ends(i, TRUE, 0, worker.tx, over, <<State(over)>>)
           \/ /\ worker' = [worker EXCEPT !.open[i].running = TRUE]
              /\ native' = busy /\ UNCHANGED answers
    BY <1>10 DEF DispatchCommand, N
  <2>3. CASE /\ worker' = [worker EXCEPT !.open[i].running = TRUE]
             /\ native' = busy /\ UNCHANGED answers
    <3>1. worker'.open = [worker.open EXCEPT ![i] = [h EXCEPT !.running = TRUE]]
      BY <2>3 DEF TypeOK
    <3>2. [h EXCEPT !.running = TRUE] \in RequestType
      BY <1>1 DEF RequestType
    <3>3. /\ worker'.open \in Seq(RequestType) /\ Len(worker'.open) = Len(worker.open)
          /\ \A j \in 1..Len(worker.open) :
               worker'.open[j] = IF j = i THEN [h EXCEPT !.running = TRUE] ELSE worker.open[j]
      BY <1>1, <3>1, <3>2, ExceptSeq
    <3>4. Marked(i)
      BY <2>3, <3>3 DEF Marked
    <3>5. /\ busy \in NativeType /\ busy.threaded = native.threaded /\ busy.epoch = native.epoch
          /\ busy.overtook = N.overtook /\ busy.tx = native.tx
          /\ busy.arranging = (native.arranging \/ h.op = "arrange")
      BY <1>3, <1>4 DEF NativeType
    <3>6. worker'.flags = worker.flags /\ worker'.ready = worker.ready /\ worker'.tx = worker.tx
      BY <2>3 DEF TypeOK
    <3> HIDE DEF busy
    <3>7. EngineAfter(h, busy)
      BY <3>5, <2>2, <1>7
    <3> QED
      BY <2>3, <3>4, <3>5, <3>6, <3>7 DEF Working
  <2> HIDE DEF over, busy
  <2>4. CASE Plain /\ Ends(i, TRUE, 0, worker.tx, over, <<State(over)>>)
    <3>1. EngineAfter(h, over)
      BY <2>1, <1>2 DEF EngineAfter
    <3>2. TransactionEnds(h, TRUE, 0, worker.tx, over)
      BY <2>1, <2>4 DEF TransactionEnds
    <3> QED
      BY <1>2, <2>1, <2>4, <3>1, <3>2, EndsIsEnding
  <2>5. CASE Plain /\ Ends(i, TRUE, 0, worker.tx, native, <<>>)
    <3>1. TransactionEnds(h, TRUE, 0, worker.tx, native)
      BY <2>5 DEF TransactionEnds
    <3> QED
      BY <1>2, <1>6, <2>5, <3>1, EndsIsEnding
  <2>6. ASSUME NEW ok \in BOOLEAN, Plain, Ends(i, ok, 0, worker.tx, N, <<>>)
        PROVE  \E a \in AnswerType : Ending(i, a) /\ native'.arranging = native.arranging
    <3>1. EngineAfter(h, N)
      BY <1>3, <1>4, <2>2, <1>7
    <3>2. TransactionEnds(h, ok, 0, worker.tx, N)
      BY <1>4, <2>6 DEF TransactionEnds
    <3> QED
      BY <1>2, <1>3, <1>4, <2>6, <3>1, <3>2, EndsIsEnding
  <2> QED
    BY <2>2, <2>3, <2>4, <2>5, <2>6
<1> QED
  BY <1>8, <1>9, <1>10

\* A job that is done ends its handler.
LEMMA JobOutcome ==
  ASSUME TypeOK, NEW op \in Jobs, JobDone(op)
  PROVE  \E i \in 1..Len(worker.open), a \in AnswerType :
           /\ worker.open[i].running /\ worker.open[i].op = op /\ Ending(i, a)
           /\ native'.arranging = (native.arranging /\ op # "arrange")
           /\ native'.overtook = native.overtook
<1>1. PICK i \in DOMAIN worker.open, ok \in BOOLEAN :
        /\ worker.open[i].running /\ worker.open[i].op = op
        /\ LET h == worker.open[i]
               over == [native EXCEPT !.job = @ /\ h.op # "slice", !.arranging = @ /\ h.op # "arrange",
                                      !.epoch = IF h.op = "slice" THEN @ + 1 ELSE @]
           IN Ends(i, ok, 0, worker.tx, over, <<>>)
  BY DEF JobDone
<1>2. UNCHANGED <<client, pending, lane, wire>>
  BY DEF JobDone
<1> DEFINE h == worker.open[i]
           j == native.job /\ h.op # "slice"
           r == native.arranging /\ h.op # "arrange"
           e == IF h.op = "slice" THEN native.epoch + 1 ELSE native.epoch
           over == [native EXCEPT !.job = j, !.arranging = r, !.epoch = e]
<1>3. native \in NativeType /\ worker.tx \in Nat /\ i \in 1..Len(worker.open) /\ native.epoch \in Nat
  BY LenProperties DEF TypeOK, NativeType
<1>4. Ends(i, ok, 0, worker.tx, over, <<>>)
  BY <1>1
<1>5. r = (native.arranging /\ op # "arrange")
  BY <1>1
<1>6. j \in BOOLEAN /\ r \in BOOLEAN /\ e \in Nat
  BY <1>3 DEF NativeType
<1>7. native.epoch <= e
  BY <1>3
<1> HIDE DEF j, r, e
<1>8. /\ over \in NativeType /\ over.threaded = native.threaded /\ over.tx = native.tx
      /\ over.epoch = e /\ over.overtook = native.overtook /\ over.arranging = r
  BY <1>3, <1>6 DEF NativeType
<1> HIDE DEF over
<1>9. EngineAfter(h, over)
  BY <1>7, <1>8 DEF EngineAfter
<1>10. TransactionEnds(h, ok, 0, worker.tx, over)
  <2>1. h.op \in {"slice", "arrange", "catalogue", "preset"}
    BY <1>1 DEF Jobs
  <2> QED
    BY <2>1, <1>8 DEF TransactionEnds
<1>11. 0 \in Nat /\ <<>> \in {<<>>, <<State(over)>>} /\ UNCHANGED <<pending, wire>>
  BY <1>2
<1>12. /\ Answer(h, ok, 0) \in AnswerType /\ native' = over
       /\ Ending(i, Answer(h, ok, 0))
  BY <1>3, <1>4, <1>8, <1>9, <1>10, <1>11, EndsIsEnding
<1> QED
  BY <1>1, <1>3, <1>5, <1>8, <1>12

\* The oldest request is refused, or opens a handler that owns its flag.
LEMMA ReceiveOutcome ==
  ASSUME TypeOK, Receive
  PROVE  /\ wire # <<>> /\ UNCHANGED <<client, lane, native>>
         /\ \/ /\ Refuses(wire[1]) /\ UNCHANGED worker
               /\ Answer(wire[1], FALSE, 0) \in AnswerType /\ Turned(Answer(wire[1], FALSE, 0))
            \/ /\ ~Refuses(wire[1]) /\ Opened
               /\ worker'.flags = worker.flags \cup Flag(wire[1].op)
               /\ worker'.ready = worker.ready /\ worker'.tx = worker.tx
<1> DEFINE h == Head(wire)
<1>1. /\ WireShorter /\ h = wire[1] /\ h \in RequestType /\ UNCHANGED pending /\ wire # <<>>
  BY TailProperties DEF Receive, WireShorter, TypeOK
<1>2. CASE Refuses(h) /\ answers' = Append(answers, Answer(h, FALSE, 0)) /\ UNCHANGED worker
  <2> DEFINE a == Answer(h, FALSE, 0)
  <2>1. a \in AnswerType /\ a.to = h.from /\ a.op = h.op /\ a.to # "state"
    BY <1>1, AnswerTyped DEF Answer, RequestType, Callers
  <2>2. answers' = Append(answers, a) /\ answers \in Seq(AnswerType)
    BY <1>2 DEF TypeOK
  <2> HIDE DEF a
  <2>3. /\ Len(answers') = Len(answers) + 1 /\ answers'[Len(answers) + 1] = a
        /\ \A j \in 1..Len(answers) : answers'[j] = answers[j]
    BY <2>1, <2>2, AppendProperties
  <2>4. Turned(a)
    BY <1>1, <1>2, <2>1, <2>3 DEF Turned
  <2> QED
    BY <1>1, <1>2, <2>1, <2>4 DEF Receive, a
<1>3. CASE /\ ~Refuses(h)
           /\ worker' = [worker EXCEPT !.open = Append(@, h), !.flags = @ \cup Flag(h.op)]
           /\ UNCHANGED answers
  <2>1. /\ worker'.open = Append(worker.open, h) /\ worker.open \in Seq(RequestType)
        /\ worker'.flags = worker.flags \cup Flag(h.op)
        /\ worker'.ready = worker.ready /\ worker'.tx = worker.tx
    BY <1>3 DEF TypeOK
  <2> HIDE DEF h
  <2>2. /\ Len(worker'.open) = Len(worker.open) + 1 /\ worker'.open[Len(worker.open) + 1] = h
        /\ \A j \in 1..Len(worker.open) : worker'.open[j] = worker.open[j]
    BY <1>1, <2>1, AppendProperties
  <2>3. Opened
    BY <1>1, <1>3, <2>2 DEF Opened
  <2> QED
    BY <1>1, <1>3, <2>1, <2>3 DEF Receive
<1> QED
  BY <1>2, <1>3 DEF Receive

-----------------------------------------------------------------------------
(* Work that must be alone *)

\* A message says which slices it has seen, and none says more than there were.
EpochsOK ==
  /\ client.epoch <= native.epoch
  /\ \A i \in 1..Len(wire) : wire[i].epoch <= wire[i].sliced /\ wire[i].sliced <= native.epoch
  /\ \A i \in 1..Len(worker.open) :
       worker.open[i].epoch <= worker.open[i].sliced /\ worker.open[i].sliced <= native.epoch
  /\ \A i \in 1..Len(answers) : answers[i].epoch <= native.epoch

\* The handlers at work are the first; the one that arranges is the last.
HandlersOK ==
  /\ \A i \in 1..Len(wire) : ~wire[i].running
  /\ \A i, j \in 1..Len(worker.open) : i < j /\ worker.open[j].running => worker.open[i].running
  /\ \A i \in 1..Len(worker.open) :
       worker.open[i].op = "arrange" => i = Len(worker.open) /\ "arrangement" \in worker.flags

\* The engine arranges for a handler at work, or its Worker is gone.
ArrangingOK ==
  native.arranging =>
    \/ client.fatal
    \/ \E i \in 1..Len(worker.open) : worker.open[i].op = "arrange" /\ worker.open[i].running

\* A Worker that is gone leaves no message.
FatalOK ==
  client.fatal =>
    /\ Len(wire) = 0 /\ Len(answers) = 0 /\ Len(worker.open) = 0 /\ worker.ready
    /\ \A c \in Callers : pending[c] = None

AloneOK == EpochsOK /\ HandlersOK /\ ArrangingOK /\ FatalOK /\ ~native.overtook

\* What the client's flags become.
LEMMA PostsClient ==
  ASSUME TypeOK, NEW c \in Callers, NEW op \in Ops, NEW tx \in Nat, Posts(c, op, tx)
  PROVE  /\ ~client.fatal /\ client'.fatal = client.fatal /\ client'.epoch = client.epoch
         /\ client'.scope = client.scope /\ client'.threaded = client.threaded
         /\ client'.arrangement = (client.arrangement \/ op = "arrange")
         /\ client'.catalogue = (client.catalogue \/ op = "catalogue")
         /\ client'.slices = client.slices + (IF op = "slice" THEN 1 ELSE 0)
<1>1. client \in ClientType
  BY DEF TypeOK
<1>2. ~client.fatal
  BY DEF Posts, Rejected
<1> QED
  BY <1>1, <1>2 DEF Posts, ClientType

LEMMA LaneClient ==
  ASSUME NEW c \in ClientType, NEW ok \in BOOLEAN, NEW tx \in Nat, LaneGoesOn(c, ok, tx)
  PROVE  /\ client'.fatal = c.fatal /\ client'.epoch = c.epoch /\ client'.threaded = c.threaded
         /\ client'.arrangement = c.arrangement /\ client'.catalogue = c.catalogue
         /\ client'.slices = c.slices
  BY DEF LaneGoesOn, ClientType

LEMMA SettledIs ==
  ASSUME TypeOK, NEW a \in AnswerType
  PROVE  /\ SettledClient(a).fatal = client.fatal /\ SettledClient(a).epoch = client.epoch
         /\ SettledClient(a).scope = client.scope
         /\ SettledClient(a).threaded = client.threaded
         /\ SettledClient(a).arrangement = (client.arrangement /\ a.op # "arrange")
         /\ SettledClient(a).catalogue = (client.catalogue /\ a.op # "catalogue")
         /\ SettledClient(a).slices = client.slices - (IF a.op = "slice" THEN 1 ELSE 0)
<1>1. client \in ClientType
  BY DEF TypeOK
<1> QED
  BY <1>1 DEF SettledClient, ClientType

\* The oldest message of the Worker is heard: the state of the engine, or the end of a call.
LEMMA DeliverOutcome ==
  ASSUME TypeOK, Deliver
  PROVE  /\ Heard /\ UNCHANGED <<worker, native>>
         /\ answers[1] \in AnswerType
         /\ \/ /\ answers[1].to = "state" /\ UNCHANGED lane
               /\ client'.fatal = client.fatal /\ client'.epoch = answers[1].epoch
               /\ client'.threaded = answers[1].op /\ client'.scope = client.scope
               /\ client'.arrangement = client.arrangement
               /\ client'.catalogue = client.catalogue /\ client'.slices = client.slices
            \/ /\ answers[1].to \in Callers
               /\ IF answers[1].to = "lane"
                  THEN LaneGoesOn(SettledClient(answers[1]), answers[1].ok, answers[1].tx)
                  ELSE client' = SettledClient(answers[1]) /\ UNCHANGED lane
<1>1. /\ answers # <<>> /\ answers' = Tail(answers) /\ Head(answers) = answers[1]
      /\ Len(answers') = Len(answers) - 1 /\ answers[1] \in AnswerType
      /\ \A j \in 1..Len(answers) - 1 : answers'[j] = answers[j + 1]
  BY TailProperties DEF Deliver, TypeOK
<1>2. pending' = IF answers[1].to = "state" THEN pending ELSE [pending EXCEPT ![answers[1].to] = None]
  BY <1>1 DEF Deliver
<1>3. UNCHANGED <<wire, worker, native>>
  BY DEF Deliver
<1>4. Heard
  BY <1>1, <1>2, <1>3 DEF Heard
<1>5. CASE answers[1].to = "state"
  <2>1. client \in ClientType
    BY DEF TypeOK
  <2>2. /\ client' = [client EXCEPT !.threaded = answers[1].op, !.epoch = answers[1].epoch,
                                    !.serialSlice = @ /\ answers[1].op = "yes"]
        /\ UNCHANGED lane
    BY <1>1, <1>5 DEF Deliver
  <2> QED
    BY <1>1, <1>3, <1>4, <1>5, <2>1, <2>2 DEF ClientType
<1>6. CASE answers[1].to # "state"
  <2>1. answers[1].to \in Callers
    BY <1>1, <1>6 DEF AnswerType
  <2>2. IF answers[1].to = "lane"
        THEN LaneGoesOn(SettledClient(answers[1]), answers[1].ok, answers[1].tx)
        ELSE client' = SettledClient(answers[1]) /\ UNCHANGED lane
    BY <1>1, <1>6 DEF Deliver
  <2> QED
    BY <1>1, <1>3, <1>4, <2>1, <2>2
<1> QED
  BY <1>5, <1>6

\* A request that is posted has seen every slice so far, or will be refused.
LEMMA SentAlone ==
  ASSUME TypeOK, AloneOK, NEW c \in Callers, NEW r \in RequestType, Sent(c, r),
         r.epoch = client.epoch, r.sliced = native.epoch, ~r.running, ~client.fatal,
         client'.fatal = client.fatal, client'.epoch = client.epoch, UNCHANGED <<answers, worker, native>>
  PROVE  AloneOK'
<1>1. /\ Len(wire) \in Nat /\ Len(wire') = Len(wire) + 1
      /\ wire'[Len(wire) + 1] = r /\ \A j \in 1..Len(wire) : wire'[j] = wire[j]
  BY LenProperties DEF Sent, TypeOK
<1>2. \A i \in 1..Len(wire') : i \in 1..Len(wire) \/ i = Len(wire) + 1
  BY <1>1
<1>3. native.epoch <= native.epoch /\ r.epoch <= r.sliced
  BY DEF TypeOK, NativeType, AloneOK, EpochsOK
<1>4. EpochsOK'
  BY <1>1, <1>2, <1>3 DEF AloneOK, EpochsOK
<1>5. HandlersOK'
  BY <1>1, <1>2 DEF AloneOK, HandlersOK
<1>6. ArrangingOK' /\ FatalOK' /\ ~native'.overtook
  BY DEF AloneOK, ArrangingOK, FatalOK
<1> QED
  BY <1>4, <1>5, <1>6 DEF AloneOK

LEMMA ReceiveAlone ==
  ASSUME TypeOK, MessagesOK, AloneOK, Receive
  PROVE  AloneOK'
<1>1. /\ wire # <<>> /\ Len(wire) \in Nat /\ WireShorter /\ UNCHANGED <<client, native>> /\ ~client.fatal
  BY ReceiveOutcome, EmptySeq, LenProperties DEF Turned, Opened, TypeOK, AloneOK, FatalOK
<1>2. /\ 1 \in 1..Len(wire)
      /\ \A i \in 1..Len(wire') : i + 1 \in 1..Len(wire) /\ wire'[i] = wire[i + 1]
  BY <1>1, WireTail
<1>3. CASE /\ Refuses(wire[1]) /\ UNCHANGED worker
           /\ Answer(wire[1], FALSE, 0) \in AnswerType /\ Turned(Answer(wire[1], FALSE, 0))
  <2>1. /\ Len(answers) \in Nat /\ Len(answers') = Len(answers) + 1
        /\ answers'[Len(answers) + 1].epoch = 0
        /\ \A j \in 1..Len(answers) : answers'[j] = answers[j]
    BY <1>3, LenProperties DEF Turned, TypeOK, Answer
  <2>2. \A i \in 1..Len(answers') : i \in 1..Len(answers) \/ i = Len(answers) + 1
    BY <2>1
  <2>3. 0 <= native.epoch
    BY DEF TypeOK, NativeType
  <2>4. EpochsOK'
    BY <1>1, <1>2, <1>3, <2>1, <2>2, <2>3 DEF AloneOK, EpochsOK
  <2>5. HandlersOK'
    BY <1>2, <1>3 DEF AloneOK, HandlersOK
  <2>6. ArrangingOK' /\ FatalOK' /\ ~native'.overtook
    BY <1>1, <1>3 DEF AloneOK, ArrangingOK, FatalOK
  <2> QED
    BY <2>4, <2>5, <2>6 DEF AloneOK
<1>4. CASE /\ ~Refuses(wire[1]) /\ Opened
           /\ worker'.flags = worker.flags \cup Flag(wire[1].op)
           /\ worker'.ready = worker.ready /\ worker'.tx = worker.tx
  <2>1. /\ Len(worker.open) \in Nat /\ Len(worker'.open) = Len(worker.open) + 1
        /\ worker'.open[Len(worker.open) + 1] = wire[1]
        /\ \A j \in 1..Len(worker.open) : worker'.open[j] = worker.open[j]
        /\ answers' = answers
    BY <1>4, LenProperties DEF Opened, TypeOK
  <2>2. \A i \in 1..Len(worker'.open) : i \in 1..Len(worker.open) \/ i = Len(worker.open) + 1
    BY <2>1
  <2>3. \A i \in 1..Len(worker.open) : worker.open[i].op # "arrange"
    BY <1>4 DEF AloneOK, HandlersOK, Refuses, Has
  <2>4. ~wire[1].running
    BY <1>2 DEF AloneOK, HandlersOK
  <2>5. EpochsOK'
    BY <1>1, <1>2, <2>1, <2>2 DEF AloneOK, EpochsOK
  <2>6. HandlersOK'
    <3>1. \A i \in 1..Len(wire') : ~wire'[i].running
      BY <1>2 DEF AloneOK, HandlersOK
    <3>2. ASSUME NEW i \in 1..Len(worker'.open), NEW j \in 1..Len(worker'.open), i < j,
                 worker'.open[j].running
          PROVE  worker'.open[i].running
      <4>1. j \in 1..Len(worker.open)
        BY <2>1, <2>2, <2>4, <3>2
      <4>2. i \in 1..Len(worker.open)
        BY <4>1, <3>2, <2>1
      <4> QED
        BY <4>1, <4>2, <3>2, <2>1 DEF AloneOK, HandlersOK
    <3>3. ASSUME NEW i \in 1..Len(worker'.open), worker'.open[i].op = "arrange"
          PROVE  i = Len(worker'.open) /\ "arrangement" \in worker'.flags
      <4>1. i = Len(worker.open) + 1 /\ wire[1].op = "arrange"
        BY <2>1, <2>2, <2>3, <3>3
      <4> QED
        BY <4>1, <2>1, <1>4 DEF Flag
    <3> QED
      BY <3>1, <3>2, <3>3 DEF HandlersOK
  <2>7. ArrangingOK'
    BY <1>1, <2>3 DEF AloneOK, ArrangingOK
  <2>8. FatalOK' /\ ~native'.overtook
    BY <1>1 DEF AloneOK, FatalOK
  <2> QED
    BY <2>5, <2>6, <2>7, <2>8 DEF AloneOK
<1> QED
  BY <1>3, <1>4, ReceiveOutcome

LEMMA ReadyAlone ==
  ASSUME TypeOK, AloneOK, ModuleReady, Loaded
  PROVE  AloneOK'
<1>1. /\ UNCHANGED <<client, wire, native, pending>> /\ ~client.fatal
      /\ worker'.open = worker.open /\ worker'.flags = worker.flags
  BY DEF ModuleReady, TypeOK, AloneOK, FatalOK
<1>2. /\ Len(answers) \in Nat /\ Len(answers') = Len(answers) + 1
      /\ answers'[Len(answers) + 1].epoch = native.epoch
      /\ \A j \in 1..Len(answers) : answers'[j] = answers[j]
  BY LenProperties DEF Loaded, State, TypeOK
<1>3. \A i \in 1..Len(answers') : i \in 1..Len(answers) \/ i = Len(answers) + 1
  BY <1>2
<1>4. native.epoch <= native.epoch
  BY DEF TypeOK, NativeType
<1>5. EpochsOK'
  BY <1>1, <1>2, <1>3, <1>4 DEF AloneOK, EpochsOK
<1>6. HandlersOK' /\ ArrangingOK' /\ FatalOK' /\ ~native'.overtook
  BY <1>1 DEF AloneOK, HandlersOK, ArrangingOK, FatalOK
<1> QED
  BY <1>5, <1>6 DEF AloneOK

\* A handler that ends leaves the others in their order, and the slices only grow.
LEMMA EndingAlone ==
  ASSUME TypeOK, TypeOK', MessagesOK, AloneOK, NEW i \in 1..Len(worker.open), NEW a \in AnswerType,
         Ending(i, a), UNCHANGED <<client, lane, pending, wire>>, ~native'.overtook,
         native'.arranging => native.arranging /\ worker.open[i].op # "arrange"
  PROVE  AloneOK'
<1> DEFINE h == worker.open[i]
<1>1. /\ Ended(i, a) /\ a.epoch = 0 /\ native.epoch <= native'.epoch
      /\ worker'.flags = worker.flags \ Flag(h.op)
  BY DEF Ending, Answer, EngineAfter
<1>2. native.epoch \in Nat /\ native'.epoch \in Nat /\ client.epoch \in Nat /\ 0 <= native'.epoch
  BY DEF TypeOK, NativeType, ClientType
<1>3. \A j \in 1..Len(worker'.open) :
        \E k \in 1..Len(worker.open) \ {i} :
          worker'.open[j] = worker.open[k] /\ k = IF j < i THEN j ELSE j + 1
  BY <1>1, OpenWithout
<1>4. /\ Len(worker.open) \in Nat /\ Len(worker'.open) = Len(worker.open) - 1
      /\ \A j \in 1..Len(worker.open) - 1 :
           worker'.open[j] = IF j < i THEN worker.open[j] ELSE worker.open[j + 1]
  BY <1>1, LenProperties DEF Ended, TypeOK
<1>5. /\ Len(answers) \in Nat /\ Len(answers') \in Nat /\ Len(answers') > Len(answers)
      /\ answers'[Len(answers')] = a /\ \A j \in 1..Len(answers) : answers'[j] = answers[j]
      /\ \A j \in Len(answers) + 1..Len(answers') - 1 : answers'[j].epoch = native'.epoch
  BY <1>1, LenProperties DEF Ended, AnswersLonger, TypeOK
<1>6. EpochsOK'
  <2>1. client'.epoch <= native'.epoch
    BY <1>1, <1>2 DEF AloneOK, EpochsOK
  <2>2. ASSUME NEW r \in RequestType, r.epoch <= r.sliced, r.sliced <= native.epoch
        PROVE  r.epoch <= r.sliced /\ r.sliced <= native'.epoch
    <3>1. r.sliced \in Nat
      BY DEF RequestType
    <3> QED
      BY <2>2, <3>1, <1>1, <1>2
  <2>3. \A j \in 1..Len(wire') : wire'[j].epoch <= wire'[j].sliced /\ wire'[j].sliced <= native'.epoch
    BY <2>2, MessageTypes DEF AloneOK, EpochsOK
  <2>4. \A j \in 1..Len(worker'.open) :
          worker'.open[j].epoch <= worker'.open[j].sliced /\ worker'.open[j].sliced <= native'.epoch
    BY <2>2, <1>3, MessageTypes DEF AloneOK, EpochsOK
  <2>5. ASSUME NEW j \in 1..Len(answers')
        PROVE  answers'[j].epoch <= native'.epoch
    <3>1. CASE j \in 1..Len(answers)
      <4>1. answers'[j] = answers[j] /\ answers[j].epoch <= native.epoch /\ answers[j] \in AnswerType
        BY <3>1, <1>5, MessageTypes DEF AloneOK, EpochsOK
      <4>2. answers[j].epoch \in Nat
        BY <4>1 DEF AnswerType
      <4> QED
        BY <4>1, <4>2, <1>1, <1>2
    <3>2. CASE j = Len(answers')
      BY <3>2, <1>1, <1>2, <1>5
    <3>3. CASE j \in Len(answers) + 1..Len(answers') - 1
      BY <3>3, <1>2, <1>5
    <3> QED
      BY <3>1, <3>2, <3>3, <1>5
  <2> QED
    BY <2>1, <2>3, <2>4, <2>5 DEF EpochsOK
<1>7. HandlersOK'
  <2>1. \A j \in 1..Len(wire') : ~wire'[j].running
    BY DEF AloneOK, HandlersOK
  <2>2. ASSUME NEW j \in 1..Len(worker'.open), NEW k \in 1..Len(worker'.open), j < k,
               worker'.open[k].running
        PROVE  worker'.open[j].running
    <3>1. PICK m \in 1..Len(worker.open) :
            worker'.open[j] = worker.open[m] /\ m = IF j < i THEN j ELSE j + 1
      BY <1>3
    <3>2. PICK n \in 1..Len(worker.open) :
            worker'.open[k] = worker.open[n] /\ n = IF k < i THEN k ELSE k + 1
      BY <1>3
    <3>3. m < n
      BY <2>2, <3>1, <3>2
    <3> QED
      BY <2>2, <3>1, <3>2, <3>3 DEF AloneOK, HandlersOK
  <2>3. ASSUME NEW j \in 1..Len(worker'.open), worker'.open[j].op = "arrange"
        PROVE  j = Len(worker'.open) /\ "arrangement" \in worker'.flags
    <3>1. PICK m \in 1..Len(worker.open) \ {i} :
            worker'.open[j] = worker.open[m] /\ m = IF j < i THEN j ELSE j + 1
      BY <1>3
    <3>2. m = Len(worker.open) /\ "arrangement" \in worker.flags
      BY <2>3, <3>1 DEF AloneOK, HandlersOK
    <3>3. h.op # "arrange"
      BY <3>1, <3>2 DEF AloneOK, HandlersOK
    <3>4. "arrangement" \notin Flag(h.op)
      BY <3>3 DEF Flag
    <3>5. j = Len(worker'.open)
      BY <3>1, <3>2, <1>4
    <3> QED
      BY <3>2, <3>4, <3>5, <1>1
  <2> QED
    BY <2>1, <2>2, <2>3 DEF HandlersOK
<1>8. ArrangingOK'
  <2> SUFFICES ASSUME native'.arranging, ~client.fatal
               PROVE  \E j \in 1..Len(worker'.open) :
                        worker'.open[j].op = "arrange" /\ worker'.open[j].running
    BY DEF ArrangingOK
  <2>1. PICK k \in 1..Len(worker.open) : worker.open[k].op = "arrange" /\ worker.open[k].running
    BY DEF AloneOK, ArrangingOK
  <2>2. k # i /\ k = Len(worker.open)
    BY <2>1 DEF AloneOK, HandlersOK
  <2>3. k - 1 \in 1..Len(worker.open) - 1 /\ ~(k - 1 < i) /\ (k - 1) + 1 = k
    BY <2>2, <1>4
  <2>4. k - 1 \in 1..Len(worker'.open) /\ worker'.open[k - 1] = worker.open[k]
    BY <2>3, <1>4
  <2> QED
    BY <2>1, <2>4
<1>9. FatalOK'
  BY <1>4 DEF AloneOK, FatalOK
<1> QED
  BY <1>6, <1>7, <1>8, <1>9 DEF AloneOK

\* While objects are being arranged no handler waits for the engine.
LEMMA NoneWaits ==
  ASSUME TypeOK, AloneOK, Waiting # 0
  PROVE  ~native.arranging /\ ~client.fatal
<1>1. /\ Waiting \in 1..Len(worker.open) /\ ~worker.open[Waiting].running
      /\ Len(worker.open) \in Nat
  BY WaitingIsFirst, LenProperties DEF TypeOK
<1>2. ~client.fatal
  BY <1>1 DEF AloneOK, FatalOK
<1>3. ASSUME native.arranging
      PROVE  FALSE
  <2>1. PICK k \in 1..Len(worker.open) : worker.open[k].op = "arrange" /\ worker.open[k].running
    BY <1>2, <1>3 DEF AloneOK, ArrangingOK
  <2>2. k = Len(worker.open)
    BY <2>1 DEF AloneOK, HandlersOK
  <2>3. Waiting < k
    BY <1>1, <2>1, <2>2
  <2> QED
    BY <1>1, <2>1, <2>3 DEF AloneOK, HandlersOK
<1> QED
  BY <1>2, <1>3

LEMMA DispatchAlone ==
  ASSUME TypeOK, TypeOK', MessagesOK, AloneOK, Dispatch
  PROVE  AloneOK'
<1> DEFINE i == Waiting
           h == worker.open[i]
<1>1. /\ i \in 1..Len(worker.open) /\ ~h.running /\ \A j \in 1..i - 1 : worker.open[j].running
      /\ h \in RequestType /\ Len(worker.open) \in Nat
  BY WaitingIsFirst, MessageTypes DEF Dispatch, TypeOK
<1>2. ~native.arranging /\ ~client.fatal
  BY NoneWaits DEF Dispatch
<1>3. UNCHANGED <<client, pending, lane, wire>>
  BY DEF Dispatch
<1>4. \/ Working(i)
      \/ \E a \in AnswerType : Ending(i, a) /\ native'.arranging = native.arranging
  BY <1>1, <1>3, DispatchOutcome DEF Dispatch
<1>5. ASSUME EngineAfter(h, native')
      PROVE  ~native'.overtook
  <2>1. h.epoch = native.epoch => h.sliced = native.epoch
    <3>1. h.epoch <= h.sliced /\ h.sliced <= native.epoch /\ h.sliced \in Nat /\ native.epoch \in Nat
      BY <1>1 DEF AloneOK, EpochsOK, TypeOK, NativeType, RequestType
    <3> QED
      BY <3>1
  <2> QED
    BY <1>2, <1>5, <2>1 DEF EngineAfter, AloneOK
<1>6. ASSUME NEW a \in AnswerType, Ending(i, a), native'.arranging = native.arranging
      PROVE  AloneOK'
  <2>1. EngineAfter(h, native')
    BY <1>6 DEF Ending
  <2>2. ~native'.overtook
    BY <1>5, <2>1
  <2> QED
    BY <1>1, <1>2, <1>3, <1>6, <2>2, EndingAlone
<1>7. CASE Working(i)
  <2>1. /\ Len(worker'.open) = Len(worker.open) /\ worker'.flags = worker.flags /\ answers' = answers
        /\ \A j \in 1..Len(worker.open) :
             worker'.open[j] = IF j = i THEN [h EXCEPT !.running = TRUE] ELSE worker.open[j]
        /\ native.epoch <= native'.epoch /\ EngineAfter(h, native')
        /\ native'.arranging = (native.arranging \/ h.op = "arrange")
    BY <1>7 DEF Working, Marked, EngineAfter
  <2>2. \A j \in 1..Len(worker.open) :
          /\ worker'.open[j].op = worker.open[j].op /\ worker'.open[j].epoch = worker.open[j].epoch
          /\ worker'.open[j].sliced = worker.open[j].sliced
          /\ j # i => worker'.open[j].running = worker.open[j].running
    <3> SUFFICES ASSUME NEW j \in 1..Len(worker.open)
                 PROVE  /\ worker'.open[j].op = worker.open[j].op
                        /\ worker'.open[j].epoch = worker.open[j].epoch
                        /\ worker'.open[j].sliced = worker.open[j].sliced
                        /\ j # i => worker'.open[j].running = worker.open[j].running
      OBVIOUS
    <3>1. CASE j # i
      BY <3>1, <2>1
    <3>2. CASE j = i
      <4>1. worker'.open[j] = [h EXCEPT !.running = TRUE]
        BY <3>2, <2>1
      <4> QED
        BY <4>1, <3>2, <1>1 DEF RequestType
    <3> QED
      BY <3>1, <3>2
  <2>3. worker'.open[i].running
    BY <2>1, <1>1 DEF RequestType
  <2>4. EpochsOK'
    <3>1. native.epoch \in Nat /\ native'.epoch \in Nat /\ client.epoch \in Nat
      BY DEF TypeOK, NativeType, ClientType
    <3>2. client'.epoch <= native'.epoch
      BY <1>3, <2>1, <3>1 DEF AloneOK, EpochsOK
    <3>3. ASSUME NEW r \in RequestType, r.sliced <= native.epoch
          PROVE  r.sliced <= native'.epoch
      <4>1. r.sliced \in Nat
        BY DEF RequestType
      <4> QED
        BY <3>3, <4>1, <3>1, <2>1
    <3>4. \A j \in 1..Len(wire') : wire'[j].epoch <= wire'[j].sliced /\ wire'[j].sliced <= native'.epoch
      BY <1>3, <3>3, MessageTypes DEF AloneOK, EpochsOK
    <3>5. \A j \in 1..Len(worker'.open) :
            worker'.open[j].epoch <= worker'.open[j].sliced /\ worker'.open[j].sliced <= native'.epoch
      BY <2>1, <2>2, <3>3, MessageTypes DEF AloneOK, EpochsOK
    <3>6. ASSUME NEW j \in 1..Len(answers)
          PROVE  answers[j].epoch <= native'.epoch
      <4>1. answers[j].epoch <= native.epoch /\ answers[j].epoch \in Nat
        BY MessageTypes DEF AloneOK, EpochsOK, AnswerType
      <4> QED
        BY <4>1, <3>1, <2>1
    <3> QED
      BY <2>1, <3>2, <3>4, <3>5, <3>6 DEF EpochsOK
  <2>5. HandlersOK'
    <3>1. \A j \in 1..Len(wire') : ~wire'[j].running
      BY <1>3 DEF AloneOK, HandlersOK
    <3>2. ASSUME NEW j \in 1..Len(worker'.open), NEW k \in 1..Len(worker'.open), j < k,
                 worker'.open[k].running
          PROVE  worker'.open[j].running
      <4>1. CASE k = i
        <5>1. j \in 1..i - 1
          BY <3>2, <4>1
        <5>2. worker.open[j].running /\ j # i
          BY <5>1, <1>1
        <5> QED
          BY <5>2, <2>1, <2>2
      <4>2. CASE k # i
        <5>1. worker.open[k].running /\ j \in 1..Len(worker.open) /\ k \in 1..Len(worker.open)
          BY <3>2, <4>2, <2>1, <2>2
        <5>2. worker.open[j].running
          BY <5>1, <3>2 DEF AloneOK, HandlersOK
        <5> QED
          BY <5>1, <5>2, <2>2, <2>3
      <4> QED
        BY <4>1, <4>2
    <3>3. \A j \in 1..Len(worker'.open) :
            worker'.open[j].op = "arrange" => j = Len(worker'.open) /\ "arrangement" \in worker'.flags
      BY <2>1, <2>2 DEF AloneOK, HandlersOK
    <3> QED
      BY <3>1, <3>2, <3>3 DEF HandlersOK
  <2>6. ArrangingOK'
    BY <1>1, <1>2, <2>1, <2>2, <2>3 DEF ArrangingOK
  <2>7. FatalOK' /\ ~native'.overtook
    BY <1>2, <1>3, <1>5, <2>1 DEF FatalOK
  <2> QED
    BY <2>4, <2>5, <2>6, <2>7 DEF AloneOK
<1> QED
  BY <1>4, <1>6, <1>7

LEMMA DeliverAlone ==
  ASSUME TypeOK, AloneOK, Deliver
  PROVE  AloneOK'
<1>1. Heard /\ UNCHANGED <<worker, native, wire>> /\ answers[1] \in AnswerType
  BY DeliverOutcome DEF Heard
<1>2. /\ 1 \in 1..Len(answers) /\ Len(answers) \in Nat /\ Len(answers') = Len(answers) - 1
      /\ \A j \in 1..Len(answers) - 1 : answers'[j] = answers[j + 1]
  BY <1>1, EmptySeq, LenProperties DEF Heard, TypeOK
<1>3. \A j \in 1..Len(answers') : j + 1 \in 1..Len(answers) /\ answers'[j] = answers[j + 1]
  BY <1>2
<1>4. ~client.fatal
  BY <1>2 DEF AloneOK, FatalOK
<1>5. client'.fatal = client.fatal /\ client'.epoch \in {client.epoch, answers[1].epoch}
  <2>1. CASE answers[1].to = "state"
    BY <2>1, DeliverOutcome DEF Callers
  <2>2. CASE answers[1].to = "lane"
    <3>1. LaneGoesOn(SettledClient(answers[1]), answers[1].ok, answers[1].tx)
      BY <2>2, DeliverOutcome
    <3>2. SettledClient(answers[1]) \in ClientType /\ answers[1].ok \in BOOLEAN /\ answers[1].tx \in Nat
      BY <1>1, SettledTyped DEF AnswerType
    <3> QED
      BY <1>1, <3>1, <3>2, LaneClient, SettledIs
  <2>3. CASE answers[1].to \in Callers \ {"lane"}
    <3>1. client' = SettledClient(answers[1])
      BY <2>3, DeliverOutcome DEF Callers
    <3> QED
      BY <1>1, <3>1, SettledIs
  <2> QED
    BY <2>1, <2>2, <2>3, DeliverOutcome
<1>6. EpochsOK'
  BY <1>1, <1>2, <1>3, <1>5 DEF AloneOK, EpochsOK
<1>7. HandlersOK' /\ ArrangingOK' /\ FatalOK' /\ ~native'.overtook
  BY <1>1, <1>4, <1>5 DEF AloneOK, HandlersOK, ArrangingOK, FatalOK
<1> QED
  BY <1>6, <1>7 DEF AloneOK

LEMMA FatalAlone ==
  ASSUME TypeOK, AloneOK, Fatal
  PROVE  AloneOK' /\ client'.fatal
<1>1. /\ Len(wire') = 0 /\ Len(answers') = 0 /\ Len(worker'.open) = 0 /\ worker'.ready
      /\ \A c \in Callers : pending'[c] = None
      /\ UNCHANGED native
  BY EmptySeq DEF Fatal, FatalPending, TypeOK
<1>2. FatalClient.fatal /\ FatalClient.epoch = client.epoch /\ FatalClient \in ClientType
  BY GoneTyped DEF TypeOK, ClientType, FatalClient
<1>3. client'.fatal /\ client'.epoch = client.epoch
  <2>1. CASE client' = FatalClient
    BY <1>2, <2>1
  <2>2. CASE LaneGoesOn(FatalClient, FALSE, 0)
    <3>1. FALSE \in BOOLEAN /\ 0 \in Nat
      OBVIOUS
    <3> QED
      BY <1>2, <2>2, <3>1, LaneClient
  <2> QED
    BY <2>1, <2>2 DEF Fatal
<1>4. EpochsOK'
  BY <1>1, <1>3 DEF AloneOK, EpochsOK
<1>5. HandlersOK'
  BY <1>1 DEF HandlersOK
<1>6. ArrangingOK' /\ FatalOK' /\ ~native'.overtook
  BY <1>1, <1>3 DEF AloneOK, ArrangingOK, FatalOK
<1> QED
  BY <1>3, <1>4, <1>5, <1>6 DEF AloneOK

LEMMA AloneKept ==
  ASSUME TypeOK, TypeOK', MessagesOK, AloneOK, [Next]_vars
  PROVE  AloneOK'
<1>1. CASE Slice \/ SelectPlate \/ OpenCatalogue \/ MutateUserPreset
  <2>1. PICK c \in Callers, op \in Ops : Calls(c, op)
    BY <1>1, CallsAre DEF Ops
  <2>2. PICK r \in RequestType :
          /\ r.from = c /\ r.op = op /\ r.tx = 0 /\ r.epoch = client.epoch
          /\ r.sliced = native.epoch /\ ~r.running
          /\ Sent(c, r)
    BY <2>1, PostsSends DEF Calls
  <2>3. ~client.fatal /\ client'.fatal = client.fatal /\ client'.epoch = client.epoch
    BY <2>1, PostsClient DEF Calls
  <2>4. UNCHANGED <<answers, worker, native>>
    BY <2>1 DEF Calls
  <2> QED
    BY <2>2, <2>3, <2>4, SentAlone
<1>2. CASE LaneStarts
  <2>1. client'.epoch = client.epoch /\ client'.fatal = client.fatal
    BY <1>2 DEF LaneStarts, TypeOK, ClientType
  <2>2. UNCHANGED <<pending, wire, answers, worker, native>>
    BY <1>2 DEF LaneStarts
  <2> QED
    BY <2>1, <2>2 DEF AloneOK, EpochsOK, HandlersOK, ArrangingOK, FatalOK
<1>3. CASE LaneCalls
  <2>1. UNCHANGED <<answers, worker, native>> /\ LaneDue /\ LaneOp \in Ops /\ lane.tx \in Nat
    BY <1>3, LaneOpIs DEF LaneCalls
  <2>2. CASE Posts("lane", LaneOp, lane.tx)
    <3>1. "lane" \in Callers /\ pending["lane"] = None
      BY <2>1 DEF Callers, LaneDue
    <3>2. PICK r \in RequestType :
            /\ r.from = "lane" /\ r.op = LaneOp /\ r.tx = lane.tx /\ r.epoch = client.epoch
            /\ r.sliced = native.epoch /\ ~r.running
            /\ Sent("lane", r)
      BY <2>1, <2>2, <3>1, PostsSends
    <3>3. ~client.fatal /\ client'.fatal = client.fatal /\ client'.epoch = client.epoch
      BY <2>1, <2>2, <3>1, PostsClient
    <3> QED
      BY <2>1, <3>1, <3>2, <3>3, SentAlone
  <2>3. CASE LaneGoesOn(client, AnsweredBusy("lane", LaneOp), 0) /\ UNCHANGED <<pending, wire>>
    <3>1. AnsweredBusy("lane", LaneOp) \in BOOLEAN /\ 0 \in Nat /\ client \in ClientType
      BY DEF AnsweredBusy, TypeOK
    <3>2. client'.epoch = client.epoch /\ client'.fatal = client.fatal
      BY <2>3, <3>1, LaneClient
    <3> QED
      BY <2>1, <2>3, <3>2 DEF AloneOK, EpochsOK, HandlersOK, ArrangingOK, FatalOK
  <2> QED
    BY <1>3, <2>2, <2>3 DEF LaneCalls
<1>4. CASE Receive
  BY <1>4, ReceiveAlone
<1>5. CASE ModuleReady
  <2>1. State(native) \in AnswerType
    BY StateTyped DEF TypeOK
  <2>2. answers' = Append(answers, State(native)) /\ UNCHANGED <<pending, wire>>
    BY <1>5 DEF ModuleReady
  <2>3. worker'.open = worker.open
    BY <1>5 DEF ModuleReady, TypeOK
  <2>4. /\ Len(answers') = Len(answers) + 1 /\ answers'[Len(answers) + 1] = State(native)
        /\ \A j \in 1..Len(answers) : answers'[j] = answers[j]
    BY <2>1, <2>2, AppendProperties DEF TypeOK
  <2> QED
    BY <1>5, <2>2, <2>3, <2>4, ReadyAlone DEF Loaded
<1>6. CASE Dispatch
  BY <1>6, DispatchAlone
<1>7. ASSUME NEW op \in Jobs, JobDone(op)
      PROVE  AloneOK'
  <2>1. PICK i \in 1..Len(worker.open), a \in AnswerType :
          /\ worker.open[i].running /\ worker.open[i].op = op /\ Ending(i, a)
          /\ native'.arranging = (native.arranging /\ op # "arrange")
          /\ native'.overtook = native.overtook
    BY <1>7, JobOutcome
  <2>2. UNCHANGED <<client, pending, lane, wire>>
    BY <1>7 DEF JobDone
  <2> QED
    BY <2>1, <2>2, EndingAlone DEF AloneOK
<1>8. CASE Deliver
  BY <1>8, DeliverAlone
<1>9. CASE Fatal
  BY <1>9, FatalAlone
<1>10. CASE UNCHANGED vars
  BY <1>10 DEF vars, AloneOK, EpochsOK, HandlersOK, ArrangingOK, FatalOK
<1> QED
  BY <1>1, <1>2, <1>3, <1>4, <1>5, <1>6, <1>7, <1>8, <1>9, <1>10 DEF Next

LEMMA InitAlone ==
  ASSUME Init
  PROVE  AloneOK
<1>1. /\ client.epoch = 0 /\ ~client.fatal /\ native.epoch = 0 /\ ~native.arranging /\ ~native.overtook
  BY DEF Init
<1>2. Len(wire) = 0 /\ Len(answers) = 0 /\ Len(worker.open) = 0
  BY EmptySeq DEF Init
<1> QED
  BY <1>1, <1>2 DEF AloneOK, EpochsOK, HandlersOK, ArrangingOK, FatalOK

\* The states of the specification, with who is alone.
THEOREM ProtocolAlone == Spec => []AloneOK
<1>1. Init => AloneOK
  BY InitAlone
<1>2. TypeOK /\ MessagesOK /\ TypeOK' /\ AloneOK /\ [Next]_vars => AloneOK'
  BY AloneKept
<1> QED
  BY <1>1, <1>2, ProtocolTyped, PTL DEF Spec

\* No command of a serial engine executes after a slice it had not seen, and none
\* while a threaded engine arranges, however many slices and callers there are.
THEOREM ExclusiveWorkStaysAlone == Spec => []ExclusiveWorkIsAlone
<1>1. AloneOK => ExclusiveWorkIsAlone
  BY DEF AloneOK, ExclusiveWorkIsAlone
<1> QED
  BY <1>1, ProtocolAlone, PTL

-----------------------------------------------------------------------------
(* Transactions *)

\* What the callers await, and what the client refuses on their account.
CallersOK ==
  /\ pending["slicer"] \in {None, "slice"} /\ pending["picker"] \in {None, "select"}
  /\ pending["setup"] \in {None, "catalogue"} /\ pending["presets"] \in {None, "preset"}
  /\ pending["lane"] # None => lane.at # "idle" /\ pending["lane"] = LaneOp
  /\ client.scope => lane.at # "idle" /\ lane.kind = "boolean"
  /\ client.arrangement => pending["lane"] = "arrange"
  /\ client.catalogue => pending["setup"] = "catalogue"
  /\ client.slices = IF pending["slicer"] = "slice" THEN 1 ELSE 0

\* A flag of the Worker has a handler that will clear it; no preset is written
\* while a transaction is open or starts.
FlagsOK ==
  ~client.fatal =>
    /\ \A f \in worker.flags : \E i \in 1..Len(worker.open) : f \in Flag(worker.open[i].op)
    /\ \A i \in 1..Len(worker.open) : worker.open[i].op = "begin" => "starting" \in worker.flags
    /\ "preset" \in worker.flags => "starting" \notin worker.flags /\ worker.tx = 0

\* The client learns that the engine is threaded before it hears of a transaction.
KnownOK ==
  /\ client.threaded # "no"
  /\ \A i \in 1..Len(answers) : answers[i].to = "state" => answers[i].op = "yes"
  /\ worker.ready /\ client.threaded = "unknown" =>
       \E i \in 1..Len(answers) : answers[i].to = "state" /\ \A j \in 1..i - 1 : answers[j].tx = 0
  /\ ~worker.ready => worker.tx = 0 /\ \A i \in 1..Len(answers) : answers[i].tx = 0
  /\ lane.tx # 0 => client.threaded = "yes"

\* The requests of the lane name its transaction.
NamedOK ==
  /\ \A i \in 1..Len(wire) : wire[i].from = "lane" => wire[i].tx = lane.tx
  /\ \A i \in 1..Len(worker.open) : worker.open[i].from = "lane" => worker.open[i].tx = lane.tx
  /\ \A i \in 1..Len(worker.open) :
       worker.open[i].op \in {"commit", "abort"} => worker.open[i].tx = worker.tx

\* An open transaction is the one the lane is told of, or the one it is in.
StageOK ==
  /\ native.tx = worker.tx
  /\ worker.tx # 0 =>
       \/ /\ lane.at = "begin"
          /\ \E i \in 1..Len(answers) :
               answers[i].to = "lane" /\ answers[i].ok /\ answers[i].tx = worker.tx
       \/ /\ lane.at \in {"mutate", "commit", "abort"} /\ lane.tx = worker.tx
          /\ \A i \in 1..Len(answers) : answers[i].to = "lane" =>
               lane.at = "mutate" \/ (lane.at = "commit" /\ ~answers[i].ok)

TransactionOK == native.threaded /\ ~client.fatal => KnownOK /\ NamedOK /\ StageOK

\* Where the lane is after its call has settled.
LEMMA LaneOutcome ==
  ASSUME TypeOK, NEW c \in ClientType, NEW ok \in BOOLEAN, NEW tx \in Nat, LaneGoesOn(c, ok, tx)
  PROVE  \E at \in After(lane.at, ok) :
           /\ at \in Stages /\ client'.scope = (c.scope /\ at # "idle")
           /\ lane'.at = at
           /\ at = "idle" => lane' = NoCommand
           /\ at # "idle" => /\ lane'.kind = lane.kind
                             /\ lane'.tx = IF lane.at = "begin" THEN tx ELSE lane.tx
<1>1. PICK at \in After(lane.at, ok) :
        /\ lane' = IF at = "idle" THEN NoCommand
                   ELSE [lane EXCEPT !.at = at, !.tx = IF lane.at = "begin" THEN tx ELSE @]
        /\ client' = [c EXCEPT !.scope = @ /\ at # "idle"]
  BY DEF LaneGoesOn
<1>2. at \in Stages
  BY DEF After, Stages, TypeOK
<1>3. client'.scope = (c.scope /\ at # "idle")
  BY <1>1 DEF ClientType
<1>4. CASE at = "idle"
  BY <1>1, <1>2, <1>3, <1>4 DEF NoCommand
<1>5. CASE at # "idle"
  BY <1>1, <1>2, <1>3, <1>5 DEF TypeOK
<1> QED
  BY <1>4, <1>5

\* Which operations a caller has.
LEMMA CallersOps ==
  ASSUME TypeOK, CallersOK
  PROVE  /\ \A c \in Callers \ {"lane"} :
              pending[c] \notin {"begin", "mutate", "boolean", "commit", "abort", "restore", "arrange"}
         /\ \A c \in Callers \ {"slicer"} : pending[c] # "slice"
         /\ \A c \in Callers \ {"setup"} : pending[c] # "catalogue"
         /\ \A c \in Callers \ {"presets"} : pending[c] # "preset"
<1>1. LaneOp \in Stages \cup {"boolean"}
  BY DEF LaneOp, TypeOK
<1>2. pending["lane"] \notin {"slice", "catalogue", "preset"}
  BY <1>1 DEF CallersOK, Stages, None
<1>3. /\ pending["slicer"] \in {None, "slice"} /\ pending["picker"] \in {None, "select"}
      /\ pending["setup"] \in {None, "catalogue"} /\ pending["presets"] \in {None, "preset"}
  BY DEF CallersOK
<1> QED
  BY <1>2, <1>3 DEF Callers, None

LEMMA CallersKept ==
  ASSUME TypeOK, TypeOK', MessagesOK, CallersOK, [Next]_vars
  PROVE  CallersOK'
<1>0. /\ client \in ClientType /\ client.slices \in Int
      /\ pending \in [Callers -> Ops \cup {None}]
  BY DEF TypeOK, ClientType
<1>1. CASE Slice \/ SelectPlate \/ OpenCatalogue \/ MutateUserPreset
  <2>1. PICK c \in Callers \ {"lane"}, op \in {"slice", "select", "catalogue", "preset"} :
          /\ <<c, op>> \in {<<"slicer", "slice">>, <<"picker", "select">>,
                            <<"setup", "catalogue">>, <<"presets", "preset">>}
          /\ Calls(c, op)
    BY <1>1, CallsAre
  <2>2. op \in Ops /\ c \in Callers /\ 0 \in Nat /\ Posts(c, op, 0) /\ UNCHANGED lane /\ pending[c] = None
    BY <2>1 DEF Ops, Calls
  <2>3. pending' = [pending EXCEPT ![c] = op]
    BY <2>2 DEF Posts
  <2>4. /\ client'.scope = client.scope /\ client'.arrangement = (client.arrangement \/ op = "arrange")
        /\ client'.catalogue = (client.catalogue \/ op = "catalogue")
        /\ client'.slices = client.slices + (IF op = "slice" THEN 1 ELSE 0)
    BY <2>2, PostsClient
  <2>5. \A d \in Callers : pending'[d] = IF d = c THEN op ELSE pending[d]
    BY <2>2, <2>3, <1>0
  <2>6. client'.slices = IF pending'["slicer"] = "slice" THEN 1 ELSE 0
    <3>1. CASE c = "slicer"
      <4>1. op = "slice" /\ pending["slicer"] # "slice" /\ pending'["slicer"] = "slice"
        BY <3>1, <2>1, <2>2, <2>5 DEF None
      <4>2. client.slices = 0
        BY <4>1 DEF CallersOK
      <4> QED
        BY <4>1, <4>2, <2>4
    <3>2. CASE c # "slicer"
      <4>1. op # "slice" /\ pending'["slicer"] = pending["slicer"]
        BY <3>2, <2>1, <2>5 DEF Callers
      <4>2. client'.slices = client.slices
        BY <4>1, <2>4, <1>0
      <4> QED
        BY <4>1, <4>2 DEF CallersOK
    <3> QED
      BY <3>1, <3>2
  <2>7. LaneOp' = LaneOp
    BY <2>2 DEF LaneOp
  <2>8. /\ pending'["slicer"] \in {None, "slice"} /\ pending'["picker"] \in {None, "select"}
        /\ pending'["setup"] \in {None, "catalogue"} /\ pending'["presets"] \in {None, "preset"}
        /\ pending'["lane"] = pending["lane"]
    BY <2>1, <2>5 DEF CallersOK, Callers
  <2>9. /\ client'.arrangement => pending'["lane"] = "arrange"
        /\ client'.catalogue => pending'["setup"] = "catalogue"
    BY <2>1, <2>4, <2>5 DEF CallersOK, Callers
  <2> QED
    BY <2>2, <2>4, <2>6, <2>7, <2>8, <2>9 DEF CallersOK
<1>2. CASE LaneStarts
  <2>1. PICK kind \in {"edit", "boolean", "restore", "arrange"} :
          /\ lane' = [kind |-> kind, at |-> IF kind \in {"edit", "boolean"} THEN "begin" ELSE kind, tx |-> 0]
          /\ client' = [client EXCEPT !.scope = @ \/ kind = "boolean"]
    BY <1>2 DEF LaneStarts
  <2>2. lane.at = "idle" /\ UNCHANGED pending
    BY <1>2 DEF LaneStarts
  <2>3. pending["lane"] = None /\ ~client.scope
    BY <2>2 DEF CallersOK
  <2>4. /\ client'.arrangement = client.arrangement /\ client'.catalogue = client.catalogue
        /\ client'.slices = client.slices /\ client'.scope = (kind = "boolean")
    BY <1>0, <2>1, <2>3 DEF ClientType
  <2>5. lane'.at # "idle" /\ lane'.kind = kind
    BY <2>1
  <2> QED
    BY <2>2, <2>3, <2>4, <2>5 DEF CallersOK
<1>3. CASE LaneCalls
  <2>1. LaneDue /\ LaneOp \in Ops /\ lane.tx \in Nat /\ "lane" \in Callers
    BY <1>3, LaneOpIs DEF LaneCalls, Callers
  <2>2. CASE Posts("lane", LaneOp, lane.tx) /\ UNCHANGED lane
    <3>1. pending' = [pending EXCEPT !["lane"] = LaneOp]
      BY <2>2 DEF Posts
    <3>2. \A d \in Callers : pending'[d] = IF d = "lane" THEN LaneOp ELSE pending[d]
      BY <3>1, <2>1, <1>0
    <3>3. LaneOp \notin {"slice", "catalogue"}
      BY <2>1 DEF LaneDue, LaneOp, TypeOK, Stages
    <3>4. /\ client'.scope = client.scope /\ client'.arrangement = (client.arrangement \/ LaneOp = "arrange")
          /\ client'.catalogue = client.catalogue
      BY <2>1, <2>2, <3>3, PostsClient, <1>0 DEF ClientType
    <3>5. client'.slices = client.slices
      <4>1. client'.slices = client.slices + (IF LaneOp = "slice" THEN 1 ELSE 0)
        BY <2>1, <2>2, PostsClient
      <4> QED
        BY <4>1, <3>3, <1>0
    <3>6. LaneOp' = LaneOp /\ lane.at # "idle" /\ pending["lane"] = None
      BY <2>1, <2>2 DEF LaneOp, LaneDue
    <3>7. ~client.arrangement
      BY <3>6 DEF CallersOK, None
    <3> QED
      BY <2>2, <3>2, <3>4, <3>5, <3>6, <3>7 DEF CallersOK, Callers
  <2>3. CASE LaneGoesOn(client, AnsweredBusy("lane", LaneOp), 0) /\ UNCHANGED <<pending, wire>>
    <3>1. AnsweredBusy("lane", LaneOp) \in BOOLEAN /\ 0 \in Nat
      BY DEF AnsweredBusy
    <3>2. /\ client'.arrangement = client.arrangement /\ client'.catalogue = client.catalogue
          /\ client'.slices = client.slices
      BY <1>0, <2>3, <3>1, LaneClient
    <3>3. client'.scope => client.scope /\ lane'.at # "idle" /\ lane'.kind = lane.kind
      BY <1>0, <2>3, <3>1, LaneOutcome
    <3>4. pending["lane"] = None
      BY <2>1 DEF LaneDue
    <3> QED
      BY <2>3, <3>2, <3>3, <3>4 DEF CallersOK
  <2> QED
    BY <1>3, <2>2, <2>3 DEF LaneCalls
<1>4. CASE UNCHANGED <<client, pending, lane>>
  BY <1>4 DEF CallersOK, LaneOp
<1>5. CASE Receive \/ ModuleReady \/ Dispatch
  BY <1>4, <1>5 DEF Receive, ModuleReady, Dispatch
<1>6. ASSUME NEW op \in Jobs, JobDone(op)
      PROVE  CallersOK'
  BY <1>4, <1>6 DEF JobDone
<1>7. CASE Deliver
  <2> DEFINE a == answers[1]
  <2>1. a \in AnswerType /\ Heard /\ 1 \in 1..Len(answers)
    <3>1. a \in AnswerType /\ Heard
      BY <1>7, DeliverOutcome
    <3>2. answers \in Seq(AnswerType)
      BY DEF TypeOK
    <3>3. Len(answers) # 0
      BY <3>1, <3>2, EmptySeq DEF Heard
    <3>4. Len(answers) \in Nat
      BY <3>2, LenProperties
    <3> QED
      BY <3>1, <3>3, <3>4
  <2>2. CASE a.to = "state"
    <3>1. /\ UNCHANGED lane /\ client'.scope = client.scope
          /\ client'.arrangement = client.arrangement
          /\ client'.catalogue = client.catalogue /\ client'.slices = client.slices
      BY <1>7, <2>2, DeliverOutcome DEF Callers
    <3>2. pending' = pending
      BY <2>1, <2>2 DEF Heard
    <3>3. LaneOp' = LaneOp
      BY <3>1 DEF LaneOp
    <3> QED
      BY <3>1, <3>2, <3>3 DEF CallersOK
  <2>3. CASE a.to \in Callers
    <3>1. a.op = pending[a.to] /\ a.op # None
      BY <2>1, <2>3, MessageTypes DEF MessagesOK, AnswersSay, Callers
    <3>2. \A d \in Callers : pending'[d] = IF d = a.to THEN None ELSE pending[d]
      BY <1>0, <2>1, <2>3 DEF Heard, Callers
    <3>3. /\ client'.arrangement = (client.arrangement /\ a.op # "arrange")
          /\ client'.catalogue = (client.catalogue /\ a.op # "catalogue")
          /\ client'.slices = client.slices - (IF a.op = "slice" THEN 1 ELSE 0)
          /\ client'.scope => client.scope /\ lane'.at # "idle" /\ lane'.kind = lane.kind
      <4>1. SettledClient(a) \in ClientType /\ a.ok \in BOOLEAN /\ a.tx \in Nat
        BY <2>1, SettledTyped DEF AnswerType
      <4>2. CASE a.to = "lane"
        <5>1. LaneGoesOn(SettledClient(a), a.ok, a.tx)
          BY <1>7, <4>2, DeliverOutcome DEF Callers
        <5>2. /\ client'.arrangement = SettledClient(a).arrangement
              /\ client'.catalogue = SettledClient(a).catalogue
              /\ client'.slices = SettledClient(a).slices
          BY <4>1, <5>1, LaneClient
        <5>3. client'.scope => SettledClient(a).scope /\ lane'.at # "idle" /\ lane'.kind = lane.kind
          BY <4>1, <5>1, LaneOutcome
        <5> QED
          BY <2>1, <5>2, <5>3, SettledIs
      <4>3. CASE a.to # "lane"
        <5>1. client' = SettledClient(a) /\ UNCHANGED lane
          BY <1>7, <2>3, <4>3, DeliverOutcome DEF Callers
        <5> QED
          BY <2>1, <5>1, SettledIs DEF CallersOK
      <4> QED
        BY <4>2, <4>3
    <3>4. client'.slices = IF pending'["slicer"] = "slice" THEN 1 ELSE 0
      <4>1. CASE a.op = "slice"
        <5>1. a.to = "slicer" /\ pending["slicer"] = "slice"
          BY <2>3, <3>1, <4>1, CallersOps
        <5>2. client.slices = 1 /\ pending'["slicer"] # "slice"
          BY <5>1, <3>2 DEF CallersOK, None, Callers
        <5> QED
          BY <4>1, <5>2, <3>3
      <4>2. CASE a.op # "slice"
        <5>1. pending'["slicer"] = "slice" <=> pending["slicer"] = "slice"
          BY <3>1, <3>2, <4>2 DEF Callers, None
        <5>2. client'.slices = client.slices
          BY <4>2, <3>3, <1>0
        <5> QED
          BY <5>1, <5>2 DEF CallersOK
      <4> QED
        BY <4>1, <4>2
    <3>5. /\ client'.arrangement => pending'["lane"] = "arrange"
          /\ client'.catalogue => pending'["setup"] = "catalogue"
      BY <3>1, <3>2, <3>3 DEF CallersOK, Callers
    <3>6. /\ pending'["slicer"] \in {None, "slice"} /\ pending'["picker"] \in {None, "select"}
          /\ pending'["setup"] \in {None, "catalogue"} /\ pending'["presets"] \in {None, "preset"}
      BY <3>2 DEF CallersOK, Callers
    <3>7. pending'["lane"] # None => lane'.at # "idle" /\ pending'["lane"] = LaneOp'
      <4>1. CASE a.to = "lane"
        BY <4>1, <3>2 DEF Callers
      <4>2. CASE a.to # "lane"
        <5>1. UNCHANGED lane
          BY <1>7, <2>3, <4>2, DeliverOutcome DEF Callers
        <5>2. LaneOp' = LaneOp /\ pending'["lane"] = pending["lane"]
          BY <5>1, <3>2, <4>2 DEF LaneOp, Callers
        <5> QED
          BY <5>1, <5>2 DEF CallersOK
      <4> QED
        BY <4>1, <4>2
    <3> QED
      BY <3>3, <3>4, <3>5, <3>6, <3>7 DEF CallersOK
  <2> QED
    BY <1>7, <2>2, <2>3, DeliverOutcome
<1>8. CASE Fatal
  <2>1. /\ FatalClient \in ClientType /\ ~FatalClient.arrangement /\ ~FatalClient.catalogue
        /\ FatalClient.slices = 0 /\ FatalClient.scope = client.scope
    BY <1>0, GoneTyped DEF FatalClient, ClientType
  <2>2. \A d \in Callers : pending'[d] = None
    BY <1>8 DEF Fatal, FatalPending
  <2>3. /\ ~client'.arrangement /\ ~client'.catalogue /\ client'.slices = 0
        /\ client'.scope => client.scope /\ lane'.at # "idle" /\ lane'.kind = lane.kind
    <3>1. CASE client' = FatalClient /\ UNCHANGED lane
      BY <2>1, <3>1 DEF CallersOK
    <3>2. CASE LaneGoesOn(FatalClient, FALSE, 0)
      <4>1. FALSE \in BOOLEAN /\ 0 \in Nat
        OBVIOUS
      <4>2. /\ client'.arrangement = FatalClient.arrangement /\ client'.catalogue = FatalClient.catalogue
            /\ client'.slices = FatalClient.slices
        BY <2>1, <3>2, <4>1, LaneClient
      <4>3. client'.scope => FatalClient.scope /\ lane'.at # "idle" /\ lane'.kind = lane.kind
        BY <2>1, <3>2, <4>1, LaneOutcome
      <4> QED
        BY <2>1, <4>2, <4>3
    <3> QED
      BY <1>8, <3>1, <3>2 DEF Fatal
  <2> QED
    BY <2>2, <2>3 DEF CallersOK, Callers, None
<1>9. CASE UNCHANGED vars
  BY <1>4, <1>9 DEF vars
<1> QED
  BY <1>1, <1>2, <1>3, <1>5, <1>6, <1>7, <1>8, <1>9 DEF Next

\* Which handlers are of the lane.
LEMMA LaneHandlers ==
  ASSUME TypeOK, MessagesOK, CallersOK, NEW i \in 1..Len(worker.open),
         worker.open[i].op \in {"begin", "mutate", "boolean", "commit", "abort", "restore", "arrange"}
  PROVE  /\ worker.open[i].from = "lane" /\ pending["lane"] = worker.open[i].op
         /\ LaneOp = worker.open[i].op /\ lane.at # "idle"
<1>1. worker.open[i].op = pending[worker.open[i].from] /\ worker.open[i].from \in Callers
  BY MessageTypes DEF MessagesOK, OpenSays
<1>2. worker.open[i].from = "lane"
  BY <1>1, CallersOps
<1> QED
  BY <1>1, <1>2 DEF CallersOK, None

LEMMA EndingFlags ==
  ASSUME TypeOK, TypeOK', MessagesOK, CallersOK, FlagsOK, ~client.fatal,
         NEW i \in 1..Len(worker.open), NEW a \in AnswerType, Ending(i, a)
  PROVE  FlagsOK'
<1> DEFINE h == worker.open[i]
<1>1. PICK ok \in BOOLEAN, tx \in Nat, open \in Nat, n \in NativeType :
        /\ Ended(i, a) /\ worker'.flags = worker.flags \ Flag(h.op)
        /\ worker'.tx = open /\ TransactionEnds(h, ok, tx, open, n)
  BY DEF Ending
<1>2. \A j \in 1..Len(worker'.open) :
        \E k \in 1..Len(worker.open) \ {i} : worker'.open[j] = worker.open[k]
  BY <1>1, OpenWithout
<1>3. ASSUME NEW k \in 1..Len(worker.open) \ {i}
      PROVE  \E j \in 1..Len(worker'.open) : worker'.open[j] = worker.open[k]
  <2>1. /\ Len(worker.open) \in Nat /\ Len(worker'.open) = Len(worker.open) - 1
        /\ \A j \in 1..Len(worker.open) - 1 :
             worker'.open[j] = IF j < i THEN worker.open[j] ELSE worker.open[j + 1]
    BY <1>1, LenProperties DEF Ended, TypeOK
  <2>2. CASE k < i
    <3>1. k \in 1..Len(worker.open) - 1
      BY <2>1, <2>2
    <3> QED
      BY <3>1, <2>1, <2>2
  <2>3. CASE k > i
    <3>1. k - 1 \in 1..Len(worker.open) - 1 /\ ~(k - 1 < i) /\ (k - 1) + 1 = k
      BY <2>1, <2>3
    <3> QED
      BY <3>1, <2>1
  <2> QED
    BY <2>2, <2>3
<1>4. \A f \in worker'.flags : \E j \in 1..Len(worker'.open) : f \in Flag(worker'.open[j].op)
  <2> SUFFICES ASSUME NEW f \in worker'.flags
               PROVE  \E j \in 1..Len(worker'.open) : f \in Flag(worker'.open[j].op)
    OBVIOUS
  <2>1. PICK k \in 1..Len(worker.open) : f \in Flag(worker.open[k].op)
    BY <1>1 DEF FlagsOK
  <2>2. k # i
    BY <1>1, <2>1
  <2> QED
    BY <1>3, <2>1, <2>2
<1>5. ASSUME NEW j \in 1..Len(worker'.open), worker'.open[j].op = "begin"
      PROVE  "starting" \in worker'.flags
  <2>1. PICK k \in 1..Len(worker.open) \ {i} : worker'.open[j] = worker.open[k]
    BY <1>2
  <2>2. "starting" \in worker.flags /\ worker.open[k].from = "lane"
    BY <1>5, <2>1, LaneHandlers DEF FlagsOK
  <2>3. h.op # "begin"
    BY <2>1, <2>2, LaneHandlers DEF MessagesOK, OpenApart
  <2> QED
    BY <1>1, <2>2, <2>3 DEF Flag
<1>6. ASSUME "preset" \in worker'.flags
      PROVE  "starting" \notin worker'.flags /\ worker'.tx = 0
  <2>1. "starting" \notin worker.flags /\ worker.tx = 0
    BY <1>1, <1>6 DEF FlagsOK
  <2>2. h.op # "begin"
    BY <2>1 DEF FlagsOK
  <2> QED
    BY <1>1, <2>1, <2>2 DEF TransactionEnds
<1> QED
  BY <1>4, <1>5, <1>6 DEF FlagsOK

LEMMA ReceiveFlags ==
  ASSUME TypeOK, FlagsOK, Receive
  PROVE  FlagsOK'
<1>1. UNCHANGED client
  BY DEF Receive
<1>2. CASE UNCHANGED worker
  BY <1>1, <1>2 DEF FlagsOK
<1>3. CASE /\ ~Refuses(wire[1]) /\ Opened
           /\ worker'.flags = worker.flags \cup Flag(wire[1].op) /\ worker'.tx = worker.tx
  <2> DEFINE h == wire[1]
  <2> SUFFICES ASSUME ~client.fatal
               PROVE  /\ \A f \in worker'.flags : \E i \in 1..Len(worker'.open) : f \in Flag(worker'.open[i].op)
                      /\ \A i \in 1..Len(worker'.open) :
                           worker'.open[i].op = "begin" => "starting" \in worker'.flags
                      /\ "preset" \in worker'.flags => "starting" \notin worker'.flags /\ worker'.tx = 0
    BY <1>1 DEF FlagsOK
  <2>1. /\ Len(worker.open) \in Nat /\ Len(worker'.open) = Len(worker.open) + 1
        /\ worker'.open[Len(worker.open) + 1] = h
        /\ \A j \in 1..Len(worker.open) : worker'.open[j] = worker.open[j]
    BY <1>3, LenProperties DEF Opened, TypeOK
  <2>2. \A i \in 1..Len(worker'.open) : i \in 1..Len(worker.open) \/ i = Len(worker.open) + 1
    BY <2>1
  <2>3. ASSUME NEW f \in worker'.flags
        PROVE  \E i \in 1..Len(worker'.open) : f \in Flag(worker'.open[i].op)
    <3>1. CASE f \in worker.flags
      <4>1. PICK k \in 1..Len(worker.open) : f \in Flag(worker.open[k].op)
        BY <3>1 DEF FlagsOK
      <4>2. k \in 1..Len(worker'.open) /\ worker'.open[k] = worker.open[k]
        BY <2>1
      <4> QED
        BY <4>1, <4>2
    <3>2. CASE f \in Flag(h.op)
      <4>1. Len(worker.open) + 1 \in 1..Len(worker'.open)
        BY <2>1
      <4> QED
        BY <3>2, <4>1, <2>1
    <3> QED
      BY <1>3, <3>1, <3>2
  <2>4. ASSUME NEW i \in 1..Len(worker'.open), worker'.open[i].op = "begin"
        PROVE  "starting" \in worker'.flags
    <3>1. CASE i \in 1..Len(worker.open)
      BY <1>3, <2>1, <2>4, <3>1 DEF FlagsOK
    <3>2. CASE i = Len(worker.open) + 1
      BY <1>3, <2>1, <2>4, <3>2 DEF Flag
    <3> QED
      BY <2>2, <3>1, <3>2
  <2>5. ASSUME "preset" \in worker'.flags
        PROVE  "starting" \notin worker'.flags /\ worker'.tx = 0
    <3>1. CASE h.op = "preset"
      BY <1>3, <3>1 DEF Refuses, Flag
    <3>2. CASE h.op = "begin"
      <4>1. "preset" \notin worker.flags /\ Flag(h.op) = {"starting"}
        BY <1>3, <3>2 DEF Refuses, Has, Flag
      <4> QED
        BY <1>3, <2>5, <4>1
    <3>3. CASE h.op \notin {"preset", "begin"}
      <4>1. "preset" \notin Flag(h.op) /\ "starting" \notin Flag(h.op)
        BY <3>3 DEF Flag
      <4> QED
        BY <1>3, <2>5, <4>1 DEF FlagsOK
    <3> QED
      BY <3>1, <3>2, <3>3
  <2> QED
    BY <2>3, <2>4, <2>5
<1> QED
  BY <1>2, <1>3, ReceiveOutcome

LEMMA FlagsKept ==
  ASSUME TypeOK, TypeOK', MessagesOK, CallersOK, AloneOK, FlagsOK, [Next]_vars
  PROVE  FlagsOK'
<1>1. ASSUME client'.fatal = client.fatal, worker'.open = worker.open,
             worker'.flags = worker.flags, worker'.tx = worker.tx
      PROVE  FlagsOK'
  BY <1>1 DEF FlagsOK
<1>2. CASE Slice \/ SelectPlate \/ OpenCatalogue \/ MutateUserPreset
  <2>1. PICK c \in Callers, op \in Ops : Calls(c, op)
    BY <1>2, CallsAre DEF Ops
  <2>2. client'.fatal = client.fatal /\ UNCHANGED worker
    BY <2>1, PostsClient DEF Calls
  <2> QED
    BY <1>1, <2>2
<1>3. CASE LaneStarts
  <2>1. client'.fatal = client.fatal /\ UNCHANGED worker
    BY <1>3 DEF LaneStarts, TypeOK, ClientType
  <2> QED
    BY <1>1, <2>1
<1>4. CASE LaneCalls
  <2>1. UNCHANGED worker /\ LaneOp \in Ops /\ lane.tx \in Nat /\ "lane" \in Callers
    BY <1>4, LaneOpIs DEF LaneCalls, Callers
  <2>2. AnsweredBusy("lane", LaneOp) \in BOOLEAN /\ 0 \in Nat /\ client \in ClientType
    BY DEF AnsweredBusy, TypeOK
  <2>3. client'.fatal = client.fatal
    BY <1>4, <2>1, <2>2, PostsClient, LaneClient DEF LaneCalls
  <2> QED
    BY <1>1, <2>1, <2>3
<1>5. CASE Receive
  BY <1>5, ReceiveFlags
<1>6. CASE ModuleReady
  <2>1. /\ client'.fatal = client.fatal /\ worker'.open = worker.open
        /\ worker'.flags = worker.flags /\ worker'.tx = worker.tx
    BY <1>6 DEF ModuleReady, TypeOK
  <2> QED
    BY <1>1, <2>1
<1>7. CASE Dispatch
  <2>1. Waiting \in 1..Len(worker.open) /\ ~client.fatal /\ UNCHANGED <<client, pending, lane, wire>>
    BY <1>7, WaitingIsFirst, NoneWaits DEF Dispatch, TypeOK
  <2>2. CASE Working(Waiting)
    <3>1. /\ \A j \in 1..Len(worker.open) : worker'.open[j].op = worker.open[j].op
          /\ Len(worker'.open) = Len(worker.open)
          /\ worker'.flags = worker.flags /\ worker'.tx = worker.tx
      <4>1. \A h \in RequestType : [h EXCEPT !.running = TRUE].op = h.op
        BY DEF RequestType
      <4> QED
        BY ZenonT(60), <2>1, <2>2, <4>1, MessageTypes DEF Working, Marked
    <3> QED
      BY <2>1, <3>1 DEF FlagsOK
  <2>3. CASE \E a \in AnswerType : Ending(Waiting, a)
    BY <2>1, <2>3, EndingFlags
  <2> QED
    BY <1>7, <2>1, <2>2, <2>3, DispatchOutcome DEF Dispatch
<1>8. ASSUME NEW op \in Jobs, JobDone(op)
      PROVE  FlagsOK'
  <2>1. PICK i \in 1..Len(worker.open), a \in AnswerType : Ending(i, a)
    BY <1>8, JobOutcome
  <2>2. ~client.fatal
    BY DEF AloneOK, FatalOK
  <2> QED
    BY <2>1, <2>2, EndingFlags
<1>9. CASE Deliver
  <2>1. answers # <<>> /\ UNCHANGED worker
    BY <1>9, DeliverOutcome DEF Heard
  <2>2. ~client.fatal
    BY <2>1, EmptySeq DEF AloneOK, FatalOK, TypeOK
  <2> QED
    BY <2>1, <2>2 DEF FlagsOK
<1>10. CASE Fatal
  BY <1>10, FatalAlone DEF FlagsOK
<1>11. CASE UNCHANGED vars
  BY <1>1, <1>11 DEF vars
<1> QED
  BY <1>2, <1>3, <1>4, <1>5, <1>6, <1>7, <1>8, <1>9, <1>10, <1>11 DEF Next

\* A lane that awaits nothing has no message under way.
LEMMA LaneQuiet ==
  ASSUME TypeOK, MessagesOK, CallersOK, pending["lane"] = None
  PROVE  /\ \A i \in 1..Len(wire) : wire[i].from # "lane"
         /\ \A i \in 1..Len(worker.open) :
              worker.open[i].from # "lane" /\ worker.open[i].op \notin {"commit", "abort"}
         /\ \A i \in 1..Len(answers) : answers[i].to # "lane"
<1>1. \A i \in 1..Len(wire) : wire[i].from # "lane"
  BY MessageTypes DEF MessagesOK, WireSays
<1>2. \A i \in 1..Len(worker.open) : worker.open[i].from # "lane"
  BY MessageTypes DEF MessagesOK, OpenSays
<1>3. \A i \in 1..Len(answers) : answers[i].to # "lane"
  BY MessageTypes DEF MessagesOK, AnswersSay
<1>4. \A i \in 1..Len(worker.open) : worker.open[i].op \notin {"commit", "abort"}
  BY <1>2, LaneHandlers
<1> QED
  BY <1>1, <1>2, <1>3, <1>4

LEMMA SentTransaction ==
  ASSUME TypeOK, KnownOK, NamedOK, StageOK, NEW c \in Callers, NEW r \in RequestType, Sent(c, r),
         c = "lane" => r.tx = lane.tx, client'.threaded = client.threaded,
         UNCHANGED <<lane, answers, worker, native>>
  PROVE  KnownOK' /\ NamedOK' /\ StageOK'
<1>1. /\ Len(wire) \in Nat /\ Len(wire') = Len(wire) + 1 /\ r.from = c
      /\ wire'[Len(wire) + 1] = r /\ \A j \in 1..Len(wire) : wire'[j] = wire[j]
  BY LenProperties DEF Sent, TypeOK
<1>2. \A i \in 1..Len(wire') : i \in 1..Len(wire) \/ i = Len(wire) + 1
  BY <1>1
<1>3. KnownOK'
  BY DEF KnownOK
<1>4. NamedOK'
  BY <1>1, <1>2 DEF NamedOK
<1>5. StageOK'
  BY DEF StageOK
<1> QED
  BY <1>3, <1>4, <1>5

\* The lane cannot be kept from ending a transaction that is open.
LEMMA LaneRefused ==
  ASSUME TypeOK, MessagesOK, CallersOK, KnownOK, NamedOK, StageOK, ~client.fatal, LaneDue,
         Rejected("lane", LaneOp) \/ AnsweredBusy("lane", LaneOp)
  PROVE  worker.tx = 0
<1> SUFFICES ASSUME worker.tx # 0
             PROVE  FALSE
  OBVIOUS
<1>1. pending["lane"] = None /\ lane.at # "idle"
  BY DEF LaneDue
<1>2. lane.at \in {"mutate", "commit", "abort"} /\ lane.tx # 0
  BY <1>1, LaneQuiet DEF StageOK
<1>3. client.threaded = "yes"
  BY <1>2 DEF KnownOK
<1>4. ~SerialBusy
  BY <1>3 DEF SerialBusy
<1>5. LaneOp \in {"mutate", "boolean", "commit", "abort"}
  BY <1>2 DEF LaneOp
<1>6. client.scope => Owns("lane")
  BY DEF CallersOK, Owns
<1>7. ~client.arrangement
  BY <1>1 DEF CallersOK, None
<1> QED
  BY <1>4, <1>5, <1>6, <1>7 DEF Rejected, AnsweredBusy

LEMMA LaneGoesOnTransaction ==
  ASSUME TypeOK, MessagesOK, CallersOK, KnownOK, NamedOK, StageOK, worker.tx = 0,
         pending["lane"] = None, NEW ok \in BOOLEAN, LaneGoesOn(client, ok, 0),
         UNCHANGED <<pending, wire, answers, worker, native>>
  PROVE  KnownOK' /\ NamedOK' /\ StageOK'
<1>1. client \in ClientType /\ 0 \in Nat
  BY DEF TypeOK
<1>2. client'.threaded = client.threaded
  BY <1>1, LaneClient
<1>3. lane'.tx \in {0, lane.tx}
  BY <1>1, LaneOutcome DEF NoCommand
<1>4. KnownOK'
  BY <1>2, <1>3 DEF KnownOK
<1>5. NamedOK'
  BY LaneQuiet DEF NamedOK
<1>6. StageOK'
  BY DEF StageOK
<1> QED
  BY <1>4, <1>5, <1>6

\* While a transaction is open the Worker refuses its abort to nobody.
LEMMA AbortTaken ==
  ASSUME TypeOK, MessagesOK, CallersOK, FlagsOK, NamedOK, StageOK, ~client.fatal,
         wire # <<>>, wire[1].from = "lane", lane.at = "abort", worker.tx # 0
  PROVE  ~Refuses(wire[1])
<1> DEFINE h == wire[1]
<1>1. 1 \in 1..Len(wire) /\ h \in RequestType
  BY EmptySeq, LenProperties, MessageTypes DEF TypeOK
<1>2. h.op = "abort" /\ LaneOp = "abort" /\ h.tx = lane.tx
  <2>1. h.op = pending["lane"] /\ h.op # None
    BY <1>1, MessageTypes DEF MessagesOK, WireSays
  <2>2. h.tx = lane.tx
    BY <1>1 DEF NamedOK
  <2>3. LaneOp = "abort"
    BY DEF LaneOp
  <2> QED
    BY <2>1, <2>2, <2>3 DEF CallersOK
<1>3. h.tx = worker.tx
  BY <1>2 DEF StageOK
<1>4. ASSUME NEW f \in {"boolean", "arrangement"}
      PROVE  ~Has(f)
  <2> SUFFICES ASSUME f \in worker.flags
               PROVE  FALSE
    BY DEF Has
  <2>1. PICK k \in 1..Len(worker.open) : f \in Flag(worker.open[k].op)
    BY DEF FlagsOK
  <2>2. worker.open[k].op \in {"boolean", "arrange"}
    BY <2>1 DEF Flag
  <2> QED
    BY <1>2, <2>2, LaneHandlers
<1>5. ~Has("preset")
  BY DEF FlagsOK, Has
<1> QED
  BY <1>2, <1>3, <1>4, <1>5 DEF Refuses

LEMMA ReceiveTransaction ==
  ASSUME TypeOK, MessagesOK, CallersOK, FlagsOK, KnownOK, NamedOK, StageOK, ~client.fatal, Receive
  PROVE  KnownOK' /\ NamedOK' /\ StageOK'
<1>1. /\ wire # <<>> /\ Len(wire) \in Nat /\ WireShorter /\ UNCHANGED <<client, lane, native>>
  BY ReceiveOutcome, LenProperties DEF Turned, Opened, TypeOK
<1>2. /\ 1 \in 1..Len(wire)
      /\ \A i \in 1..Len(wire') : i + 1 \in 1..Len(wire) /\ wire'[i] = wire[i + 1]
  BY <1>1, WireTail
<1>3. CASE /\ Refuses(wire[1]) /\ UNCHANGED worker
           /\ Answer(wire[1], FALSE, 0) \in AnswerType /\ Turned(Answer(wire[1], FALSE, 0))
  <2> DEFINE a == Answer(wire[1], FALSE, 0)
  <2>1. a.tx = 0 /\ ~a.ok /\ a.to = wire[1].from /\ a.to # "state"
    BY <1>3 DEF Answer, Turned
  <2>2. /\ Len(answers) \in Nat /\ Len(answers') = Len(answers) + 1
        /\ answers'[Len(answers) + 1] = a
        /\ \A j \in 1..Len(answers) : answers'[j] = answers[j]
    BY <1>3, LenProperties DEF Turned, TypeOK
  <2> HIDE DEF a
  <2>3. \A i \in 1..Len(answers') : i \in 1..Len(answers) \/ i = Len(answers) + 1
    BY <2>2
  <2>4. KnownOK'
    <3>1. \A i \in 1..Len(answers') : answers'[i].to = "state" => answers'[i].op = "yes"
      BY <2>1, <2>2, <2>3 DEF KnownOK
    <3>2. ASSUME worker.ready, client.threaded = "unknown"
          PROVE  \E i \in 1..Len(answers') :
                   answers'[i].to = "state" /\ \A j \in 1..i - 1 : answers'[j].tx = 0
      <4>1. PICK i \in 1..Len(answers) :
              answers[i].to = "state" /\ \A j \in 1..i - 1 : answers[j].tx = 0
        BY <3>2 DEF KnownOK
      <4>2. i \in 1..Len(answers') /\ \A j \in 1..i - 1 : j \in 1..Len(answers)
        BY <2>2
      <4> QED
        BY <4>1, <4>2, <2>2
    <3>3. ~worker.ready => \A i \in 1..Len(answers') : answers'[i].tx = 0
      BY <2>1, <2>2, <2>3 DEF KnownOK
    <3> QED
      BY <1>1, <1>3, <3>1, <3>2, <3>3 DEF KnownOK
  <2>5. NamedOK'
    BY <1>1, <1>2, <1>3 DEF NamedOK
  <2>6. StageOK'
    <3> SUFFICES ASSUME worker.tx # 0
                 PROVE  \/ /\ lane.at = "begin"
                           /\ \E i \in 1..Len(answers') :
                                answers'[i].to = "lane" /\ answers'[i].ok /\ answers'[i].tx = worker.tx
                        \/ /\ lane.at \in {"mutate", "commit", "abort"} /\ lane.tx = worker.tx
                           /\ \A i \in 1..Len(answers') : answers'[i].to = "lane" =>
                                lane.at = "mutate" \/ (lane.at = "commit" /\ ~answers'[i].ok)
      BY <1>1, <1>3 DEF StageOK
    <3>1. CASE /\ lane.at = "begin"
               /\ \E i \in 1..Len(answers) :
                    answers[i].to = "lane" /\ answers[i].ok /\ answers[i].tx = worker.tx
      BY <3>1, <2>2
    <3>2. CASE /\ lane.at \in {"mutate", "commit", "abort"} /\ lane.tx = worker.tx
               /\ \A i \in 1..Len(answers) : answers[i].to = "lane" =>
                    lane.at = "mutate" \/ (lane.at = "commit" /\ ~answers[i].ok)
      <4>1. a.to = "lane" => lane.at # "abort"
        BY <1>1, <1>3, <2>1, AbortTaken
      <4> QED
        BY <3>2, <4>1, <2>1, <2>2, <2>3
    <3> QED
      BY <3>1, <3>2 DEF StageOK
  <2> QED
    BY <2>4, <2>5, <2>6
<1>4. CASE /\ ~Refuses(wire[1]) /\ Opened
           /\ worker'.flags = worker.flags \cup Flag(wire[1].op)
           /\ worker'.ready = worker.ready /\ worker'.tx = worker.tx
  <2>1. /\ Len(worker.open) \in Nat /\ Len(worker'.open) = Len(worker.open) + 1
        /\ worker'.open[Len(worker.open) + 1] = wire[1]
        /\ \A j \in 1..Len(worker.open) : worker'.open[j] = worker.open[j]
        /\ answers' = answers
    BY <1>4, LenProperties DEF Opened, TypeOK
  <2>2. \A i \in 1..Len(worker'.open) : i \in 1..Len(worker.open) \/ i = Len(worker.open) + 1
    BY <2>1
  <2>3. wire[1].op \in {"commit", "abort"} => wire[1].tx = worker.tx
    BY <1>4 DEF Refuses
  <2>4. KnownOK' /\ StageOK'
    BY <1>1, <1>4, <2>1 DEF KnownOK, StageOK
  <2>5. NamedOK'
    <3>1. \A i \in 1..Len(wire') : wire'[i].from = "lane" => wire'[i].tx = lane.tx
      BY <1>2 DEF NamedOK
    <3>2. \A i \in 1..Len(worker'.open) : worker'.open[i].from = "lane" => worker'.open[i].tx = lane.tx
      BY <1>2, <2>1, <2>2 DEF NamedOK
    <3>3. \A i \in 1..Len(worker'.open) :
            worker'.open[i].op \in {"commit", "abort"} => worker'.open[i].tx = worker.tx
      BY <2>1, <2>2, <2>3 DEF NamedOK
    <3> QED
      BY <1>1, <1>4, <3>1, <3>2, <3>3 DEF NamedOK
  <2> QED
    BY <2>4, <2>5
<1> QED
  BY <1>3, <1>4, ReceiveOutcome

LEMMA ReadyTransaction ==
  ASSUME TypeOK, KnownOK, NamedOK, StageOK, native.threaded, ModuleReady, Loaded
  PROVE  KnownOK' /\ NamedOK' /\ StageOK'
<1>1. /\ UNCHANGED <<client, lane, wire, native>> /\ ~worker.ready /\ worker'.ready
      /\ worker'.open = worker.open /\ worker'.tx = worker.tx
  BY DEF ModuleReady, TypeOK
<1>2. /\ Len(answers) \in Nat /\ Len(answers') = Len(answers) + 1
      /\ answers'[Len(answers) + 1].to = "state" /\ answers'[Len(answers) + 1].op = "yes"
      /\ answers'[Len(answers) + 1].tx = 0
      /\ \A j \in 1..Len(answers) : answers'[j] = answers[j]
  BY LenProperties DEF Loaded, State, TypeOK
<1>3. \A i \in 1..Len(answers') : i \in 1..Len(answers) \/ i = Len(answers) + 1
  BY <1>2
<1>4. worker.tx = 0 /\ \A i \in 1..Len(answers) : answers[i].tx = 0
  BY <1>1 DEF KnownOK
<1>5. KnownOK'
  <2>1. \A i \in 1..Len(answers') : answers'[i].to = "state" => answers'[i].op = "yes"
    BY <1>2, <1>3 DEF KnownOK
  <2>2. \A j \in 1..(Len(answers) + 1) - 1 : answers'[j].tx = 0
    BY <1>2, <1>4
  <2>3. Len(answers) + 1 \in 1..Len(answers')
    BY <1>2
  <2> QED
    BY <1>1, <1>2, <2>1, <2>2, <2>3 DEF KnownOK
<1>6. NamedOK'
  BY <1>1 DEF NamedOK
<1>7. StageOK'
  BY <1>1, <1>4 DEF StageOK
<1> QED
  BY <1>5, <1>6, <1>7

LEMMA EndingTransaction ==
  ASSUME TypeOK, TypeOK', MessagesOK, CallersOK, KnownOK, NamedOK, StageOK, native.threaded,
         NEW i \in 1..Len(worker.open), NEW a \in AnswerType, Ending(i, a),
         worker.ready \/ worker.open[i].op \in Jobs, UNCHANGED <<client, lane, pending, wire>>
  PROVE  KnownOK' /\ NamedOK' /\ StageOK'
<1> DEFINE h == worker.open[i]
<1>1. PICK ok \in BOOLEAN, tx \in Nat, open \in Nat, n \in NativeType :
        /\ a = Answer(h, ok, tx) /\ Ended(i, a) /\ worker'.ready = worker.ready
        /\ worker'.tx = open /\ native' = n /\ n.threaded
        /\ TransactionEnds(h, ok, tx, open, n)
  BY DEF Ending, EngineAfter
<1>2. a.ok = ok /\ a.tx = tx /\ a.to = h.from /\ a.to # "state"
  BY <1>1 DEF Answer, Ended
<1>3. \A j \in 1..Len(worker'.open) :
        \E k \in 1..Len(worker.open) \ {i} : worker'.open[j] = worker.open[k]
  BY <1>1, OpenWithout
<1>4. /\ Len(answers) \in Nat /\ Len(answers') \in Nat /\ Len(answers') > Len(answers)
      /\ answers'[Len(answers')] = a /\ \A j \in 1..Len(answers) : answers'[j] = answers[j]
      /\ \A j \in Len(answers) + 1..Len(answers') - 1 :
           answers'[j].to = "state" /\ answers'[j].tx = 0 /\ answers'[j].op = "yes"
  BY <1>1, LenProperties DEF Ended, AnswersLonger, TypeOK
<1>5. \A j \in 1..Len(answers') :
        \/ j \in 1..Len(answers) \/ j = Len(answers')
        \/ j \in Len(answers) + 1..Len(answers') - 1
  BY <1>4
<1>6. h.op \in {"begin", "commit", "abort"} => h.from = "lane" /\ LaneOp = h.op
  BY LaneHandlers
<1>7. TransactionEnds(h, ok, tx, open, n) /\ ~(~native.threaded)
  BY <1>1
<1>8. native'.tx = worker'.tx
  <2>1. h.op = "abort" => h.tx = worker.tx
    BY DEF NamedOK
  <2>2. native.tx = worker.tx
    BY DEF StageOK
  <2> QED
    BY <1>1, <1>7, <2>1, <2>2 DEF TransactionEnds
<1>9. worker'.tx # worker.tx => h.op \in {"begin", "commit", "abort"}
  BY <1>1, <1>7 DEF TransactionEnds
<1>10. KnownOK'
  <2>1. \A j \in 1..Len(answers') : answers'[j].to = "state" => answers'[j].op = "yes"
    BY <1>2, <1>4, <1>5 DEF KnownOK
  <2>2. ASSUME worker.ready, client.threaded = "unknown"
        PROVE  \E j \in 1..Len(answers') :
                 answers'[j].to = "state" /\ \A k \in 1..j - 1 : answers'[k].tx = 0
    <3>1. PICK j \in 1..Len(answers) :
            answers[j].to = "state" /\ \A k \in 1..j - 1 : answers[k].tx = 0
      BY <2>2 DEF KnownOK
    <3>2. j \in 1..Len(answers') /\ \A k \in 1..j - 1 : k \in 1..Len(answers)
      BY <1>4
    <3> QED
      BY <3>1, <3>2, <1>4
  <2>3. ASSUME ~worker.ready
        PROVE  worker'.tx = 0 /\ \A j \in 1..Len(answers') : answers'[j].tx = 0
    <3>1. h.op \in Jobs /\ h.op \notin {"begin", "commit", "abort"}
      BY <2>3 DEF Jobs
    <3>2. worker'.tx = 0 /\ tx = 0
      BY <1>1, <1>7, <2>3, <3>1 DEF TransactionEnds, KnownOK
    <3>3. \A j \in 1..Len(answers) : answers[j].tx = 0
      BY <2>3 DEF KnownOK
    <3> QED
      BY <3>2, <3>3, <1>2, <1>4, <1>5
  <2> QED
    BY <1>1, <2>1, <2>2, <2>3 DEF KnownOK
<1>11. NamedOK'
  <2>1. \A j \in 1..Len(worker'.open) : worker'.open[j].from = "lane" => worker'.open[j].tx = lane.tx
    BY <1>3 DEF NamedOK
  <2>2. ASSUME NEW j \in 1..Len(worker'.open), worker'.open[j].op \in {"commit", "abort"}
        PROVE  worker'.open[j].tx = worker'.tx
    <3>1. PICK k \in 1..Len(worker.open) \ {i} : worker'.open[j] = worker.open[k]
      BY <1>3
    <3>2. worker.open[k].from = "lane" /\ worker.open[k].tx = worker.tx
      BY <2>2, <3>1, LaneHandlers DEF NamedOK
    <3>3. h.from # "lane"
      BY <3>1, <3>2 DEF MessagesOK, OpenApart
    <3> QED
      BY <1>6, <1>9, <3>1, <3>2, <3>3
  <2> QED
    BY <2>1, <2>2 DEF NamedOK
<1>12. StageOK'
  <2> SUFFICES ASSUME worker'.tx # 0
               PROVE  \/ /\ lane.at = "begin"
                         /\ \E j \in 1..Len(answers') :
                              answers'[j].to = "lane" /\ answers'[j].ok /\ answers'[j].tx = worker'.tx
                      \/ /\ lane.at \in {"mutate", "commit", "abort"} /\ lane.tx = worker'.tx
                         /\ \A j \in 1..Len(answers') : answers'[j].to = "lane" =>
                              lane.at = "mutate" \/ (lane.at = "commit" /\ ~answers'[j].ok)
    BY <1>8 DEF StageOK
  <2>1. CASE /\ open = worker.tx /\ (h.op = "begin" => ~ok) /\ (h.op = "commit" => ~ok) /\ h.op # "abort"
    <3>1. CASE /\ lane.at = "begin"
               /\ \E j \in 1..Len(answers) :
                    answers[j].to = "lane" /\ answers[j].ok /\ answers[j].tx = worker.tx
      <4>1. PICK j \in 1..Len(answers) :
              answers[j].to = "lane" /\ answers[j].ok /\ answers[j].tx = worker.tx
        BY <3>1
      <4>2. j \in 1..Len(answers') /\ answers'[j] = answers[j]
        BY <1>4
      <4> QED
        BY <1>1, <2>1, <3>1, <4>1, <4>2
    <3>2. CASE /\ lane.at \in {"mutate", "commit", "abort"} /\ lane.tx = worker.tx
               /\ \A j \in 1..Len(answers) : answers[j].to = "lane" =>
                    lane.at = "mutate" \/ (lane.at = "commit" /\ ~answers[j].ok)
      <4>1. a.to = "lane" => lane.at = "mutate" \/ (lane.at = "commit" /\ ~a.ok)
        <5> SUFFICES ASSUME a.to = "lane"
                     PROVE  lane.at = "mutate" \/ (lane.at = "commit" /\ ~a.ok)
          OBVIOUS
        <5>1. h.op = pending["lane"] /\ h.op # None
          BY <1>2, MessageTypes DEF MessagesOK, OpenSays
        <5>2. h.op = LaneOp
          BY <5>1 DEF CallersOK
        <5> QED
          BY <1>2, <2>1, <3>2, <5>2 DEF LaneOp
      <4>2. ASSUME NEW j \in 1..Len(answers'), answers'[j].to = "lane"
            PROVE  lane.at = "mutate" \/ (lane.at = "commit" /\ ~answers'[j].ok)
        <5>1. CASE j \in 1..Len(answers)
          BY <5>1, <3>2, <4>2, <1>4
        <5>2. CASE j = Len(answers')
          BY <5>2, <4>1, <4>2, <1>4
        <5>3. CASE j \in Len(answers) + 1..Len(answers') - 1
          BY <5>3, <4>2, <1>4
        <5> QED
          BY <5>1, <5>2, <5>3, <1>5
      <4> QED
        BY <1>1, <2>1, <3>2, <4>2
    <3> QED
      BY <1>1, <2>1, <3>1, <3>2 DEF StageOK
  <2>2. CASE h.op = "begin" /\ ok /\ tx = native.next /\ open = native.next
    <3>1. h.from = "lane" /\ lane.at = "begin"
      BY <1>6, <2>2 DEF LaneOp
    <3>2. Len(answers') \in 1..Len(answers')
      BY <1>4
    <3>3. answers'[Len(answers')].to = "lane" /\ answers'[Len(answers')].ok
          /\ answers'[Len(answers')].tx = worker'.tx
      BY ZenonT(60), <1>1, <1>2, <1>4, <2>2, <3>1
    <3> QED
      BY <3>1, <3>2, <3>3
  <2> QED
    BY <1>1, <1>7, <2>1, <2>2 DEF TransactionEnds
<1> QED
  BY <1>10, <1>11, <1>12

LEMMA WorkingTransaction ==
  ASSUME TypeOK, MessagesOK, KnownOK, NamedOK, StageOK, NEW i \in 1..Len(worker.open), Working(i),
         UNCHANGED <<client, lane>>
  PROVE  KnownOK' /\ NamedOK' /\ StageOK'
<1>1. /\ wire' = wire /\ answers' = answers /\ Len(worker'.open) = Len(worker.open)
      /\ worker'.ready = worker.ready /\ worker'.tx = worker.tx /\ native'.tx = native.tx
  BY DEF Working, Marked
<1>2. \A j \in 1..Len(worker.open) :
        /\ worker'.open[j].op = worker.open[j].op /\ worker'.open[j].tx = worker.open[j].tx
        /\ worker'.open[j].from = worker.open[j].from
  <2>1. \A h \in RequestType : LET g == [h EXCEPT !.running = TRUE]
                               IN g.op = h.op /\ g.tx = h.tx /\ g.from = h.from
    BY DEF RequestType
  <2> SUFFICES ASSUME NEW j \in 1..Len(worker.open)
               PROVE  /\ worker'.open[j].op = worker.open[j].op
                      /\ worker'.open[j].tx = worker.open[j].tx
                      /\ worker'.open[j].from = worker.open[j].from
    OBVIOUS
  <2>2. worker.open[j] \in RequestType /\ worker.open \in Seq(RequestType)
    BY MessageTypes DEF TypeOK
  <2>3. worker'.open[j] = IF j = i THEN [worker.open[j] EXCEPT !.running = TRUE] ELSE worker.open[j]
    BY <2>2 DEF Working, Marked
  <2> QED
    BY <2>1, <2>2, <2>3
<1>3. KnownOK' /\ StageOK'
  BY <1>1 DEF KnownOK, StageOK
<1>4. NamedOK'
  BY <1>1, <1>2 DEF NamedOK
<1> QED
  BY <1>3, <1>4

\* What the lane hears is the end of the call its transaction depends on.
LEMMA DeliverTransaction ==
  ASSUME TypeOK, MessagesOK, CallersOK, KnownOK, NamedOK, StageOK, Deliver
  PROVE  KnownOK' /\ NamedOK' /\ StageOK'
<1> DEFINE a == answers[1]
<1>1. a \in AnswerType /\ Heard /\ UNCHANGED <<worker, native, wire>>
  BY DeliverOutcome DEF Heard
<1>2. /\ 1 \in 1..Len(answers) /\ Len(answers) \in Nat /\ Len(answers') = Len(answers) - 1
      /\ \A j \in 1..Len(answers) - 1 : answers'[j] = answers[j + 1]
  BY <1>1, EmptySeq, LenProperties DEF Heard, TypeOK
<1>3. \A j \in 1..Len(answers') : j + 1 \in 1..Len(answers) /\ j + 1 # 1 /\ answers'[j] = answers[j + 1]
  BY <1>2
<1>4. ASSUME NEW i \in 1..Len(answers), i # 1
      PROVE  i - 1 \in 1..Len(answers') /\ answers'[i - 1] = answers[i]
  <2>1. i - 1 \in 1..Len(answers) - 1 /\ (i - 1) + 1 = i
    BY <1>2, <1>4
  <2>2. answers'[i - 1] = answers[(i - 1) + 1]
    BY <1>2, <2>1
  <2> QED
    BY <1>2, <2>1, <2>2
<1>5. /\ \A j \in 1..Len(answers') : answers'[j].to = "state" => answers'[j].op = "yes"
      /\ ~worker.ready => worker.tx = 0 /\ \A j \in 1..Len(answers') : answers'[j].tx = 0
  BY <1>3 DEF KnownOK
<1>6. CASE a.to = "state"
  <2>1. UNCHANGED lane /\ client'.threaded = "yes"
    BY <1>2, <1>6, DeliverOutcome DEF KnownOK, Callers
  <2>2. KnownOK'
    BY <1>1, <1>5, <2>1 DEF KnownOK
  <2>3. NamedOK'
    BY <1>1, <2>1 DEF NamedOK
  <2>4. StageOK'
    <3>1. ASSUME worker.tx # 0, lane.at = "begin",
                 NEW i \in 1..Len(answers), answers[i].to = "lane", answers[i].ok, answers[i].tx = worker.tx
          PROVE  \E j \in 1..Len(answers') :
                   answers'[j].to = "lane" /\ answers'[j].ok /\ answers'[j].tx = worker.tx
      <4>1. i # 1
        BY <1>6, <3>1
      <4> QED
        BY <1>4, <3>1, <4>1
    <3>2. ASSUME \A i \in 1..Len(answers) : answers[i].to = "lane" =>
                   lane.at = "mutate" \/ (lane.at = "commit" /\ ~answers[i].ok)
          PROVE  \A i \in 1..Len(answers') : answers'[i].to = "lane" =>
                   lane.at = "mutate" \/ (lane.at = "commit" /\ ~answers'[i].ok)
      BY <1>3, <3>2
    <3> QED
      BY <1>1, <2>1, <3>1, <3>2 DEF StageOK
  <2> QED
    BY <2>2, <2>3, <2>4
<1>7. ASSUME a.to # "state", client'.threaded = client.threaded,
             client.threaded = "unknown", worker.ready
      PROVE  \E i \in 1..Len(answers') :
               answers'[i].to = "state" /\ \A j \in 1..i - 1 : answers'[j].tx = 0
  <2>1. PICK i \in 1..Len(answers) :
          answers[i].to = "state" /\ \A j \in 1..i - 1 : answers[j].tx = 0
    BY <1>7 DEF KnownOK
  <2>2. i # 1
    BY <1>7, <2>1
  <2>3. i - 1 \in 1..Len(answers') /\ answers'[i - 1] = answers[i]
    BY <1>4, <2>2
  <2>4. ASSUME NEW j \in 1..(i - 1) - 1
        PROVE  answers'[j].tx = 0
    <3>1. j \in 1..Len(answers) - 1 /\ j + 1 \in 1..i - 1
      BY <1>2
    <3> QED
      BY <1>2, <2>1, <3>1
  <2> QED
    BY <2>1, <2>3, <2>4
<1>8. CASE a.to \in Callers \ {"lane"}
  <2>1. UNCHANGED lane /\ client' = SettledClient(a)
    BY <1>8, DeliverOutcome DEF Callers
  <2>2. client'.threaded = client.threaded /\ a.to # "state"
    BY <1>1, <1>8, <2>1, SettledIs DEF Callers
  <2>3. KnownOK'
    BY <1>1, <1>5, <1>7, <2>1, <2>2 DEF KnownOK
  <2>4. NamedOK'
    BY <1>1, <2>1 DEF NamedOK
  <2>5. StageOK'
    <3>1. ASSUME worker.tx # 0, lane.at = "begin",
                 NEW i \in 1..Len(answers), answers[i].to = "lane", answers[i].ok, answers[i].tx = worker.tx
          PROVE  \E j \in 1..Len(answers') :
                   answers'[j].to = "lane" /\ answers'[j].ok /\ answers'[j].tx = worker.tx
      <4>1. i # 1
        BY <1>8, <3>1
      <4> QED
        BY <1>4, <3>1, <4>1
    <3>2. ASSUME \A i \in 1..Len(answers) : answers[i].to = "lane" =>
                   lane.at = "mutate" \/ (lane.at = "commit" /\ ~answers[i].ok)
          PROVE  \A i \in 1..Len(answers') : answers'[i].to = "lane" =>
                   lane.at = "mutate" \/ (lane.at = "commit" /\ ~answers'[i].ok)
      BY <1>3, <3>2
    <3> QED
      BY <1>1, <2>1, <3>1, <3>2 DEF StageOK
  <2> QED
    BY <2>3, <2>4, <2>5
<1>9. CASE a.to = "lane"
  <2>1. LaneGoesOn(SettledClient(a), a.ok, a.tx)
    BY <1>9, DeliverOutcome DEF Callers
  <2>2. SettledClient(a) \in ClientType /\ a.ok \in BOOLEAN /\ a.tx \in Nat
    BY <1>1, SettledTyped DEF AnswerType
  <2>3. client'.threaded = client.threaded
    BY <1>1, <2>1, <2>2, LaneClient, SettledIs
  <2>4. PICK at \in After(lane.at, a.ok) :
          /\ lane'.at = at
          /\ at = "idle" => lane' = NoCommand
          /\ at # "idle" => lane'.tx = IF lane.at = "begin" THEN a.tx ELSE lane.tx
    BY <2>1, <2>2, LaneOutcome
  <2>5. /\ \A i \in 1..Len(wire) : wire[i].from # "lane"
        /\ \A i \in 1..Len(worker.open) : worker.open[i].from # "lane"
        /\ \A i \in 1..Len(answers') : answers'[i].to # "lane"
    <3>1. \A i \in 1..Len(wire) : wire[i].from # "lane"
      BY <1>2, <1>9 DEF MessagesOK, WireAnswers
    <3>2. \A i \in 1..Len(worker.open) : worker.open[i].from # "lane"
      BY <1>2, <1>9 DEF MessagesOK, OpenAnswers
    <3>3. \A i \in 1..Len(answers') : answers'[i].to # "lane"
      BY <1>2, <1>3, <1>9 DEF MessagesOK, AnswersApart
    <3> QED
      BY <3>1, <3>2, <3>3
  <2>6. a.tx # 0 => client.threaded = "yes"
    <3> SUFFICES ASSUME a.tx # 0, client.threaded # "yes"
                 PROVE  FALSE
      OBVIOUS
    <3>1. worker.ready /\ client.threaded = "unknown"
      BY <1>2 DEF KnownOK, TypeOK, ClientType
    <3>2. PICK i \in 1..Len(answers) :
            answers[i].to = "state" /\ \A j \in 1..i - 1 : answers[j].tx = 0
      BY <3>1 DEF KnownOK
    <3>3. i # 1
      BY <1>9, <3>2
    <3>4. 1 \in 1..i - 1
      BY <3>3, <1>2
    <3> QED
      BY <3>2, <3>4
  <2>7. lane'.tx # 0 => client'.threaded = "yes"
    BY <2>3, <2>4, <2>6 DEF KnownOK, NoCommand
  <2>8. KnownOK'
    BY <1>1, <1>5, <1>7, <1>9, <2>3, <2>7 DEF KnownOK
  <2>9. NamedOK'
    BY <1>1, <2>5 DEF NamedOK
  <2>10. StageOK'
    <3> SUFFICES ASSUME worker.tx # 0
                 PROVE  lane'.at \in {"mutate", "commit", "abort"} /\ lane'.tx = worker.tx
      BY <1>1, <2>5 DEF StageOK
    <3>1. CASE /\ lane.at = "begin"
               /\ \E i \in 1..Len(answers) :
                    answers[i].to = "lane" /\ answers[i].ok /\ answers[i].tx = worker.tx
      <4>1. a.ok /\ a.tx = worker.tx
        BY <3>1, <1>2, <1>9 DEF MessagesOK, AnswersApart
      <4> QED
        BY <2>4, <3>1, <4>1 DEF After
    <3>2. CASE /\ lane.at \in {"mutate", "commit", "abort"} /\ lane.tx = worker.tx
               /\ \A i \in 1..Len(answers) : answers[i].to = "lane" =>
                    lane.at = "mutate" \/ (lane.at = "commit" /\ ~answers[i].ok)
      <4>1. lane.at = "mutate" \/ (lane.at = "commit" /\ ~a.ok)
        BY <3>2, <1>2, <1>9
      <4>2. at \in {"commit", "abort"}
        BY <2>4, <4>1 DEF After
      <4> QED
        BY <2>4, <3>2, <4>1, <4>2
    <3> QED
      BY <3>1, <3>2 DEF StageOK
  <2> QED
    BY <2>8, <2>9, <2>10
<1> QED
  BY <1>6, <1>8, <1>9, DeliverOutcome

LEMMA TransactionKept ==
  ASSUME TypeOK, TypeOK', MessagesOK, CallersOK, AloneOK, FlagsOK, TransactionOK, [Next]_vars
  PROVE  TransactionOK'
<1>1. ASSUME native.threaded, ~client.fatal
      PROVE  KnownOK /\ NamedOK /\ StageOK
  BY <1>1 DEF TransactionOK
<1>2. CASE Slice \/ SelectPlate \/ OpenCatalogue \/ MutateUserPreset
  <2>1. PICK c \in Callers \ {"lane"}, op \in {"slice", "select", "catalogue", "preset"} : Calls(c, op)
    BY <1>2, CallsAre
  <2>2. op \in Ops /\ 0 \in Nat /\ Posts(c, op, 0) /\ UNCHANGED <<lane, answers, worker, native>>
        /\ pending[c] = None
    BY <2>1 DEF Ops, Calls
  <2>3. PICK r \in RequestType : Sent(c, r)
    BY <2>2, PostsSends
  <2>4. client'.threaded = client.threaded /\ client'.fatal = client.fatal
    BY <2>2, PostsClient
  <2> QED
    BY <1>1, <2>2, <2>3, <2>4, SentTransaction DEF TransactionOK
<1>3. CASE LaneStarts
  <2>1. /\ client'.threaded = client.threaded /\ client'.fatal = client.fatal /\ lane.at = "idle"
        /\ lane'.tx = 0 /\ UNCHANGED <<pending, wire, answers, worker, native>>
    BY <1>3 DEF LaneStarts, TypeOK, ClientType
  <2>2. pending["lane"] = None
    BY <2>1 DEF CallersOK
  <2>3. ASSUME native.threaded, ~client.fatal
        PROVE  KnownOK' /\ NamedOK' /\ StageOK'
    <3>1. KnownOK'
      BY <1>1, <2>1, <2>3 DEF KnownOK
    <3>2. NamedOK'
      BY <2>1, <2>2, LaneQuiet DEF NamedOK
    <3>3. StageOK'
      BY <1>1, <2>1, <2>3 DEF StageOK
    <3> QED
      BY <3>1, <3>2, <3>3
  <2> QED
    BY <2>1, <2>3 DEF TransactionOK
<1>4. CASE LaneCalls
  <2>1. LaneDue /\ LaneOp \in Ops /\ lane.tx \in Nat /\ "lane" \in Callers /\ pending["lane"] = None
        /\ UNCHANGED <<answers, worker, native>>
    BY <1>4, LaneOpIs DEF LaneCalls, Callers, LaneDue
  <2>2. CASE Posts("lane", LaneOp, lane.tx) /\ UNCHANGED lane
    <3>1. PICK r \in RequestType : r.tx = lane.tx /\ Sent("lane", r)
      BY <2>1, <2>2, PostsSends
    <3>2. client'.threaded = client.threaded /\ client'.fatal = client.fatal
      BY <2>1, <2>2, PostsClient
    <3> QED
      BY <1>1, <2>1, <2>2, <3>1, <3>2, SentTransaction DEF TransactionOK
  <2>3. CASE /\ Rejected("lane", LaneOp) \/ AnsweredBusy("lane", LaneOp)
             /\ LaneGoesOn(client, AnsweredBusy("lane", LaneOp), 0)
             /\ UNCHANGED <<pending, wire>>
    <3>1. AnsweredBusy("lane", LaneOp) \in BOOLEAN /\ 0 \in Nat /\ client \in ClientType
      BY DEF AnsweredBusy, TypeOK
    <3>2. client'.fatal = client.fatal
      BY <2>3, <3>1, LaneClient
    <3>3. ASSUME native.threaded, ~client.fatal
          PROVE  KnownOK' /\ NamedOK' /\ StageOK'
      <4>1. KnownOK /\ NamedOK /\ StageOK
        BY <1>1, <3>3
      <4>2. worker.tx = 0
        BY <2>1, <2>3, <3>3, <4>1, LaneRefused
      <4> QED
        BY <2>1, <2>3, <3>1, <4>1, <4>2, LaneGoesOnTransaction
    <3> QED
      BY <2>1, <3>2, <3>3 DEF TransactionOK
  <2> QED
    BY <1>4, <2>2, <2>3 DEF LaneCalls
<1>5. CASE Receive
  BY <1>1, <1>5, ReceiveTransaction DEF TransactionOK, Receive
<1>6. CASE ModuleReady
  <2>1. State(native) \in AnswerType
    BY StateTyped DEF TypeOK
  <2>2. answers' = Append(answers, State(native)) /\ UNCHANGED <<client, pending, wire, native>>
    BY <1>6 DEF ModuleReady
  <2>3. worker'.open = worker.open
    BY <1>6 DEF ModuleReady, TypeOK
  <2>4. /\ Len(answers') = Len(answers) + 1 /\ answers'[Len(answers) + 1] = State(native)
        /\ \A j \in 1..Len(answers) : answers'[j] = answers[j]
    BY <2>1, <2>2, AppendProperties DEF TypeOK
  <2>5. Loaded
    BY <2>2, <2>3, <2>4 DEF Loaded
  <2> QED
    BY <1>1, <1>6, <2>2, <2>5, ReadyTransaction DEF TransactionOK
<1>7. CASE Dispatch
  <2>1. /\ Waiting \in 1..Len(worker.open) /\ worker.ready
        /\ UNCHANGED <<client, pending, lane, wire>>
    BY <1>7, WaitingIsFirst DEF Dispatch, TypeOK
  <2>2. CASE Working(Waiting)
    <3>1. native'.threaded = native.threaded
      BY <2>2 DEF Working, EngineAfter
    <3> QED
      BY <1>1, <2>1, <2>2, <3>1, WorkingTransaction DEF TransactionOK
  <2>3. ASSUME NEW a \in AnswerType, Ending(Waiting, a)
        PROVE  TransactionOK'
    <3>1. native'.threaded = native.threaded
      BY <2>3 DEF Ending, EngineAfter
    <3> QED
      BY <1>1, <2>1, <2>3, <3>1, EndingTransaction DEF TransactionOK
  <2> QED
    BY <1>7, <2>1, <2>2, <2>3, DispatchOutcome DEF Dispatch
<1>8. ASSUME NEW op \in Jobs, JobDone(op)
      PROVE  TransactionOK'
  <2>1. PICK i \in 1..Len(worker.open), a \in AnswerType :
          worker.open[i].op = op /\ Ending(i, a)
    BY <1>8, JobOutcome
  <2>2. UNCHANGED <<client, pending, lane, wire>>
    BY <1>8 DEF JobDone
  <2>3. native'.threaded = native.threaded
    BY <2>1 DEF Ending, EngineAfter
  <2> QED
    BY <1>1, <2>1, <2>2, <2>3, EndingTransaction DEF TransactionOK
<1>9. CASE Deliver
  <2>1. answers # <<>> /\ UNCHANGED native
    BY <1>9, DeliverOutcome DEF Heard
  <2>2. ~client.fatal
    BY <2>1, EmptySeq DEF AloneOK, FatalOK, TypeOK
  <2> QED
    BY <1>1, <1>9, <2>1, <2>2, DeliverTransaction DEF TransactionOK
<1>10. CASE Fatal
  BY <1>10, FatalAlone DEF TransactionOK
<1>11. CASE UNCHANGED vars
  BY <1>11 DEF vars, TransactionOK, KnownOK, NamedOK, StageOK
<1> QED
  BY <1>2, <1>3, <1>4, <1>5, <1>6, <1>7, <1>8, <1>9, <1>10, <1>11 DEF Next

LEMMA InitTransaction ==
  ASSUME Init
  PROVE  CallersOK /\ FlagsOK /\ TransactionOK
<1>1. Len(wire) = 0 /\ Len(answers) = 0 /\ Len(worker.open) = 0
  BY EmptySeq DEF Init
<1>2. CallersOK
  BY DEF Init, CallersOK, Callers, NoCommand, None
<1>3. FlagsOK
  BY <1>1 DEF Init, FlagsOK
<1>4. KnownOK /\ NamedOK /\ StageOK
  BY <1>1 DEF Init, KnownOK, NamedOK, StageOK, NoCommand
<1> QED
  BY <1>2, <1>3, <1>4 DEF TransactionOK

\* What is left when nothing is under way.
LEMMA NothingLeft ==
  ASSUME TypeOK, MessagesOK, CallersOK, FlagsOK, TransactionOK
  PROVE  TransactionsEnd
<1> SUFFICES ASSUME Quiet, native.threaded
             PROVE  Clear
  BY DEF TransactionsEnd
<1>1. /\ lane.at = "idle" /\ ~client.fatal
      /\ Len(wire) = 0 /\ Len(answers) = 0 /\ Len(worker.open) = 0
  BY EmptySeq DEF Quiet
<1>2. worker.tx = 0 /\ native.tx = 0
  BY <1>1 DEF TransactionOK, StageOK
<1>3. worker.flags = {}
  BY <1>1 DEF FlagsOK
<1>4. \A c \in Callers : pending[c] = None
  BY <1>1 DEF MessagesOK, Reached
<1>5. ~client.scope /\ ~client.arrangement /\ ~client.catalogue /\ client.slices = 0
  BY <1>1, <1>4 DEF CallersOK, Callers, None
<1> QED
  BY <1>2, <1>3, <1>5 DEF Clear

\* Of the threaded engine, for any number of transactions: when nothing is under way
\* none is open and nobody is refused, whatever failed on the way.
THEOREM TransactionsAlwaysEnd == Spec => []TransactionsEnd
<1>1. Init => CallersOK /\ FlagsOK /\ TransactionOK
  BY InitTransaction
<1>2. /\ TypeOK /\ MessagesOK /\ AloneOK /\ TypeOK'
      /\ CallersOK /\ FlagsOK /\ TransactionOK /\ [Next]_vars
      => (CallersOK /\ FlagsOK /\ TransactionOK)'
  BY CallersKept, FlagsKept, TransactionKept
<1>3. TypeOK /\ MessagesOK /\ CallersOK /\ FlagsOK /\ TransactionOK => TransactionsEnd
  BY NothingLeft
<1> QED
  BY <1>1, <1>2, <1>3, ProtocolTyped, ProtocolAlone, PTL DEF Spec

=============================================================================
