----------------------- MODULE PaintingSession_proofs -----------------------
(***************************************************************************)
(* Proofs about the painting controller and the engine, for any targets,   *)
(* channels, faults and bounds on the input.                               *)
(*                                                                         *)
(* Types, and that no paint is lost, hold however many project commands    *)
(* overlap.  The rest is about behaviours in which the user gives a        *)
(* project command after the end of the last one (OneProject); where the   *)
(* bound MaxProject is 1, as in the run, these are all behaviours.         *)
(*                                                                         *)
(* The checked invariants speak of states in which no operation is under   *)
(* way.  InvAt says what holds from await to await: which operations can   *)
(* be in the lane together and in which phase, what both sides know of the *)
(* session at each stage, who will take the terminal of a stroke, and who  *)
(* will read a revision that is not on display.                            *)
(***************************************************************************)
EXTENDS PaintingSession, SequenceTheorems, FiniteSetTheorems, TLAPS

Kinds ==
  {"open", "target", "press", "move", "terminal", "gap", "eraseAll", "project", "close", "display"}
Stages ==
  {"queued", "openHistory", "openSession", "undoOpen", "target", "begin", "miss", "sample",
   "candidate", "operation", "plainOperation", "readSession", "cancelDraft", "closeHistory",
   "prepareClosed", "preview", "geometry", "drain", "drainFirst", "drainLast", "drainAgain"}

OpType ==
  {o \in [kind : Kinds, target : Targets \cup {None}, channel : Channels \cup {None},
          from : Phases \cup {None}] :
     /\ o.kind \in {"open", "target"} \/ o.channel # None => o.target \in Targets
     /\ o.kind = "open" => o.channel # None
     /\ o.kind = "close" => o.from \in {"idle", "error"}}

SessionType ==
  {r \in [target : Targets \cup {None}, channel : Channels \cup {None},
          current : BOOLEAN, stroke : BOOLEAN] : r.target = None <=> r = NoSession}
DisplayType == [target : Targets \cup {None}, fit : BOOLEAN, current : BOOLEAN]

ControllerType ==
  [phase : Phases, channel : Channels, tools : [Channels -> {"brush", "pointer", "static"}],
   session : SessionType, display : DisplayType, error : BOOLEAN, switching : BOOLEAN,
   lane : Seq(OpType), at : Stages, terminal : Terminals, terminalExecuting : BOOLEAN,
   historyId : BOOLEAN, displayDirty : BOOLEAN, previewDirty : BOOLEAN, hover : BOOLEAN,
   frame : BOOLEAN, reading : {"none", "input", "brush", "stale"}, readFailed : BOOLEAN,
   projectOperations : Int, paintedObjectIds : SUBSET Targets,
   gesture : {"none", "pending", "paint", "camera"}]

NativeType ==
  [history : BOOLEAN,
   painting : [target : Targets \cup {None}, channel : Channels \cup {None},
               stroke : {"idle", "drawing", "finished"}]]

\* The operations in the lane, of which the invariant needs two.
First(s) == IF 1 <= Len(s.lane) THEN s.lane[1].kind ELSE None
Second(s) == IF 2 <= Len(s.lane) THEN s.lane[2].kind ELSE None

\* The phase that a closing controller returns to.
From(s) ==
  IF Second(s) = "close" THEN s.lane[2].from
  ELSE IF First(s) = "close" THEN s.lane[1].from ELSE None

\* The stages that belong to an operation.
StageOf(kind, at) ==
  /\ at \in {"openHistory", "openSession", "undoOpen"} => kind = "open"
  /\ at = "target" => kind = "target"
  /\ at = "miss" => kind = "press"
  /\ at = "begin" => kind \in {"press", "gap", "eraseAll"}
  /\ at = "sample" => kind = "move"
  /\ at = "candidate" => kind = "gap"
  /\ at \in {"operation", "plainOperation", "readSession"} => kind = "project"
  /\ at \in {"cancelDraft", "closeHistory", "prepareClosed"} => kind \in {"close", "project"}
  /\ at \in {"preview", "geometry", "drainFirst", "drainLast", "drainAgain"} => kind = "display"
  /\ at = "drain" => kind \in {"press", "move", "terminal", "gap", "eraseAll"}

HeadOK(s) == StageOf(First(s), s.at) /\ (s.at = "readSession" => s.session # NoSession)

TypeInv ==
  /\ ctl \in ControllerType /\ HeadOK(ctl) /\ native \in NativeType
  /\ unshown \subseteq ctl.paintedObjectIds

-----------------------------------------------------------------------------
(* The controller's parts *)

Drawn(s, t) ==
  /\ t.phase = s.phase /\ t.session = s.session /\ t.terminal = s.terminal
  /\ t.historyId = s.historyId /\ t.paintedObjectIds = s.paintedObjectIds
Seen(s, t) ==
  t.display = s.display /\ t.displayDirty = s.displayDirty /\ t.readFailed = s.readFailed
Queued(s, t) ==
  t.lane = s.lane /\ t.at = s.at /\ t.projectOperations = s.projectOperations
Like(s, t) ==
  t \in ControllerType /\ Drawn(s, t) /\ Seen(s, t) /\ Queued(s, t) /\ t.frame = s.frame

LEMMA AdvanceIs ==
  ASSUME NEW s \in ControllerType
  PROVE  Like(s, advancePreview(s))
BY DEF ControllerType, advancePreview, Like, Drawn, Seen, Queued

LEMMA InvalidateIs ==
  ASSUME NEW s \in ControllerType
  PROVE  Like(s, invalidatePreview(s))
<1> DEFINE t == advancePreview(s)
<1>1. Like(s, t)
  BY AdvanceIs
<1> HIDE DEF t
<1> QED  BY <1>1 DEF ControllerType, invalidatePreview, Like, Drawn, Seen, Queued, t

LEMMA InvalidateIfIs ==
  ASSUME NEW s \in ControllerType
  PROVE  Like(s, InvalidateIfPreviews(s))
BY InvalidateIs DEF InvalidateIfPreviews, Like, Drawn, Seen, Queued

LEMMA FailIs ==
  ASSUME NEW s \in ControllerType
  PROVE  Like(s, fail(s))
<1> DEFINE t == InvalidateIfPreviews(s)
<1>1. Like(s, t)
  BY InvalidateIfIs
<1> HIDE DEF t
<1> QED  BY <1>1 DEF ControllerType, fail, Like, Drawn, Seen, Queued, t

LEMMA HoversIs ==
  ASSUME NEW s \in ControllerType
  PROVE  Like(s, Hovers(s))
<1> DEFINE t == advancePreview(s)
<1>1. Like(s, t)
  BY AdvanceIs
<1> HIDE DEF t
<1>2. Like(s, [t EXCEPT !.hover = TRUE])
  BY <1>1 DEF ControllerType, Like, Drawn, Seen, Queued
<1> QED  BY <1>2 DEF Hovers, t, Like, Drawn, Seen, Queued

LEMMA PressedIs ==
  ASSUME NEW s \in ControllerType, NEW g \in {"none", "paint", "camera"}
  PROVE  Like(s, Pressed(s, g))
BY DEF ControllerType, Pressed, Like, Drawn, Seen, Queued

\* What a lane is, and what becomes of it.
LEMMA Lanes ==
  ASSUME NEW l \in Seq(OpType)
  PROVE  /\ Len(l) \in Nat /\ (l = <<>> <=> Len(l) = 0)
         /\ \A i \in 1..Len(l) : l[i] \in OpType
         /\ l # <<>> => /\ Head(l) = l[1] /\ Tail(l) \in Seq(OpType) /\ Len(Tail(l)) = Len(l) - 1
                        /\ \A i \in 1..Len(l) - 1 : Tail(l)[i] = l[i + 1]
BY EmptySeq, ElementOfSeq, LenProperties, HeadTailProperties

LEMMA Appended ==
  ASSUME NEW l \in Seq(OpType), NEW o \in OpType
  PROVE  /\ Append(l, o) \in Seq(OpType) /\ Len(Append(l, o)) = Len(l) + 1
         /\ \A i \in 1..Len(l) : Append(l, o)[i] = l[i]
         /\ Append(l, o)[Len(l) + 1] = o
BY AppendProperties

\* An operation has joined the lane.
Joined(s, t, o) ==
  /\ o \in OpType /\ t.lane \in Seq(OpType) /\ t.at = s.at
  /\ Len(t.lane) = Len(s.lane) + 1
  /\ First(t) = IF s.lane = <<>> THEN o.kind ELSE First(s)
  /\ Second(t) = IF s.lane = <<>> THEN None
                 ELSE IF Len(s.lane) = 1 THEN o.kind ELSE Second(s)
  /\ Len(s.lane) <= 1 => From(t) = IF o.kind = "close" THEN o.from ELSE From(s)

LEMMA Joins ==
  ASSUME NEW s \in ControllerType, NEW o \in OpType, NEW t, t.lane = Append(s.lane, o), t.at = s.at
  PROVE  Joined(s, t, o)
<1>1. s.lane \in Seq(OpType)
  BY DEF ControllerType
<1>2. Len(s.lane) \in Nat /\ (s.lane = <<>> <=> Len(s.lane) = 0)
  BY <1>1, Lanes
<1>3. /\ t.lane \in Seq(OpType) /\ Len(t.lane) = Len(s.lane) + 1
      /\ \A i \in 1..Len(s.lane) : t.lane[i] = s.lane[i]
      /\ t.lane[Len(s.lane) + 1] = o
  BY <1>1, Appended
<1>4. First(t) = IF s.lane = <<>> THEN o.kind ELSE First(s)
  <2>1. CASE Len(s.lane) = 0
    BY <1>2, <1>3, <2>1 DEF First
  <2>2. CASE Len(s.lane) >= 1
    <3>1. 1 \in 1..Len(s.lane) /\ 1 <= Len(s.lane) /\ 1 <= Len(t.lane) /\ s.lane # <<>>
      BY <1>2, <1>3, <2>2
    <3> QED  BY <1>3, <3>1 DEF First
  <2> QED  BY <1>2, <2>1, <2>2
<1>5. Second(t) = IF s.lane = <<>> THEN None
                  ELSE IF Len(s.lane) = 1 THEN o.kind ELSE Second(s)
  <2>1. CASE Len(s.lane) = 0
    BY <1>2, <1>3, <2>1 DEF Second
  <2>2. CASE Len(s.lane) = 1
    <3>1. Len(t.lane) = 2 /\ s.lane # <<>> /\ t.lane[2] = o
      BY <1>2, <1>3, <2>2
    <3> QED  BY <2>2, <3>1 DEF Second
  <2>3. CASE Len(s.lane) >= 2
    <3>1. 2 \in 1..Len(s.lane) /\ 2 <= Len(s.lane) /\ 2 <= Len(t.lane) /\ s.lane # <<>> /\ Len(s.lane) # 1
      BY <1>2, <1>3, <2>3
    <3> QED  BY <1>3, <3>1 DEF Second
  <2>4. \A k \in Nat : k = 0 \/ k = 1 \/ k >= 2
    OBVIOUS
  <2> QED  BY <1>2, <2>1, <2>2, <2>3, <2>4
<1>6. ASSUME Len(s.lane) <= 1
      PROVE  From(t) = IF o.kind = "close" THEN o.from ELSE From(s)
  <2>1. CASE Len(s.lane) = 0
    <3>1. First(t) = o.kind /\ Second(t) = None /\ t.lane[1] = o /\ First(s) = None /\ Second(s) = None
      BY <1>2, <1>3, <1>4, <1>5, <2>1 DEF First, Second
    <3> QED  BY <3>1 DEF From, None
  <2>2. CASE Len(s.lane) = 1
    <3>1. 1 \in 1..Len(s.lane) /\ Len(s.lane) + 1 = 2 /\ s.lane # <<>>
      BY <1>2, <2>2
    <3>2. First(t) = First(s) /\ Second(t) = o.kind /\ t.lane[1] = s.lane[1] /\ t.lane[2] = o
      BY <1>3, <1>4, <1>5, <2>2, <3>1
    <3>3. Second(s) = None
      BY <2>2 DEF Second
    <3> QED  BY <3>2, <3>3 DEF From, None
  <2>3. \A k \in Nat : k <= 1 => k = 0 \/ k = 1
    OBVIOUS
  <2> QED  BY <1>2, <1>6, <2>1, <2>2, <2>3
<1> QED  BY <1>3, <1>4, <1>5, <1>6 DEF Joined

\* The operation at the head has settled.
Left(s, t) ==
  /\ t \in ControllerType /\ Drawn(s, t) /\ Seen(s, t)
  /\ t.at = "queued" /\ t.projectOperations = s.projectOperations
  /\ t.lane \in Seq(OpType) /\ Len(t.lane) = Len(s.lane) - 1
  /\ First(t) = Second(s)
  /\ Len(s.lane) <= 2 =>
       Second(t) = None /\ From(t) = IF Second(s) = "close" THEN From(s) ELSE None
  /\ s.frame => t.frame
  /\ t.lane # <<>> => t.frame = s.frame
  /\ t.lane = <<>> /\ t.session # NoSession /\ t.phase \in {"idle", "drawing"} /\ t.displayDirty
       => t.frame

LEMMA ScheduleIs ==
  ASSUME NEW s \in ControllerType
  PROVE  LET t == scheduleDisplay(s)
         IN /\ t \in ControllerType /\ Drawn(s, t) /\ Seen(s, t) /\ Queued(s, t)
            /\ s.frame => t.frame
            /\ s.lane # <<>> => t.frame = s.frame
            /\ s.lane = <<>> /\ s.session # NoSession /\ s.phase \in {"idle", "drawing"}
                 /\ s.displayDirty => t.frame
<1> DEFINE u == [s EXCEPT !.frame = TRUE]
           c == /\ s.lane = <<>> /\ s.session # NoSession /\ s.phase \in {"idle", "drawing"}
                /\ s.displayDirty \/ (s.previewDirty /\ s.phase = "idle")
<1>1. u \in ControllerType /\ Drawn(s, u) /\ Seen(s, u) /\ Queued(s, u) /\ u.frame = TRUE
  BY DEF ControllerType, Drawn, Seen, Queued
<1>2. scheduleDisplay(s) = IF c THEN u ELSE s
  BY DEF scheduleDisplay
<1>3. CASE c
  <2>1. scheduleDisplay(s) = u
    BY <1>2, <1>3
  <2> HIDE DEF u
  <2> QED  BY <1>1, <1>3, <2>1
<1>4. CASE ~c
  <2>1. scheduleDisplay(s) = s
    BY <1>2, <1>4
  <2> QED  BY <1>4, <2>1 DEF Drawn, Seen, Queued
<1> QED  BY <1>3, <1>4

LEMMA SettledIs ==
  ASSUME NEW s \in ControllerType, s.lane # <<>>
  PROVE  Left(s, Settled(s))
<1> DEFINE u == [s EXCEPT !.lane = Tail(@), !.at = "queued", !.reading = "none"]
           t == scheduleDisplay(u)
<1>1. s.lane \in Seq(OpType) /\ Tail(s.lane) \in Seq(OpType)
  BY Lanes DEF ControllerType
<1>2. u \in ControllerType
  BY <1>1 DEF ControllerType, Stages
<1>3. /\ Drawn(s, u) /\ Seen(s, u) /\ u.frame = s.frame /\ u.lane = Tail(s.lane)
      /\ u.at = "queued" /\ u.projectOperations = s.projectOperations
  BY DEF ControllerType, Drawn, Seen
<1> HIDE DEF u
<1>4. /\ t \in ControllerType /\ Drawn(u, t) /\ Seen(u, t) /\ Queued(u, t)
      /\ u.frame => t.frame
      /\ u.lane # <<>> => t.frame = u.frame
      /\ u.lane = <<>> /\ u.session # NoSession /\ u.phase \in {"idle", "drawing"} /\ u.displayDirty
           => t.frame
  BY <1>2, ScheduleIs
<1>5. t = Settled(s)
  BY DEF Settled, u
<1> HIDE DEF t
<1>6. /\ Len(s.lane) \in Nat /\ Len(t.lane) = Len(s.lane) - 1 /\ Len(t.lane) \in Nat
      /\ \A i \in 1..Len(s.lane) - 1 : t.lane[i] = s.lane[i + 1]
  BY <1>1, <1>3, <1>4, Lanes DEF Queued
<1>7. First(t) = Second(s)
  BY <1>6 DEF First, Second
<1>8. Len(s.lane) <= 2 => Second(t) = None
  BY <1>6 DEF Second
<1>9. ASSUME Len(s.lane) <= 2
      PROVE  From(t) = IF Second(s) = "close" THEN From(s) ELSE None
  <2>1. Second(t) = None
    BY <1>8, <1>9
  <2>2. CASE Second(s) = "close"
    <3>1. Len(s.lane) = 2
      <4>1. 2 <= Len(s.lane)
        BY <2>2 DEF Second, None
      <4>2. \A k \in Nat : k <= 2 /\ 2 <= k => k = 2
        OBVIOUS
      <4> QED  BY <1>6, <1>9, <4>1, <4>2
    <3>2. t.lane[1] = s.lane[2]
      <4>1. 1 \in 1..Len(s.lane) - 1
        BY <3>1
      <4> QED  BY <1>6, <4>1
    <3> QED  BY <1>7, <2>1, <2>2, <3>2 DEF From, None
  <2>3. CASE Second(s) # "close"
    BY <1>7, <2>1, <2>3 DEF From, None
  <2> QED  BY <2>2, <2>3
<1> QED  BY <1>1, <1>3, <1>4, <1>5, <1>6, <1>7, <1>8, <1>9 DEF Left, Drawn, Seen, Queued

-----------------------------------------------------------------------------
(* The inductive invariant, for one project command at a time *)

\* The operation that reserved the lane; display operations reserve nothing.
Holder(s) == IF First(s) = "display" THEN Second(s) ELSE First(s)

LaneOK(s) ==
  /\ Len(s.lane) <= 2
  /\ Second(s) = "display" => First(s) \in {"press", "move", "gap", "eraseAll"}
  /\ Second(s) \notin {None, "display"} =>
       /\ First(s) = "display"
       /\ Second(s) \in {"target", "project", "close", "press", "gap", "eraseAll"}
  /\ Holder(s) = None =>
       s.phase \in {"closed", "idle", "drawing", "ending", "cancelling", "error"}
  /\ Holder(s) \in {"open", "target", "project"} => s.phase = "opening"
  /\ Holder(s) = "close" => s.phase = "closing"
  /\ Holder(s) \in {"press", "move", "gap", "eraseAll"} =>
       s.phase \in {"drawing", "ending", "cancelling"}
  /\ Holder(s) = "terminal" => s.phase \in {"ending", "cancelling"}
  /\ s.phase = "closed" => First(s) = None
  /\ s.projectOperations = IF Holder(s) = "project" THEN 1 ELSE 0
  /\ First(s) = "display" \/ Second(s) = "display" => ~s.frame

\* The two sides know the same session.
NativeOK(s, n) ==
  /\ n.history = s.historyId
  /\ s.session # NoSession /\ s.historyId =>
       /\ n.painting.target = s.session.target /\ n.painting.channel = s.session.channel
       /\ n.painting.stroke # "idle" <=> s.session.stroke
  /\ s.session = NoSession \/ ~s.historyId => n.painting = NoPainting /\ ~s.session.stroke

\* What the controller knows of its session, by its phase and the stage "at".
SessionOK(s, at) ==
  /\ s.phase \in {"idle", "drawing", "ending", "cancelling"} =>
       s.session # NoSession /\ s.historyId /\ s.session.current
  /\ s.phase = "closed" => s.session = NoSession /\ ~s.historyId
  /\ First(s) = "open" =>
       s.session = NoSession /\ (s.historyId <=> at \in {"openSession", "undoOpen"})
  /\ Holder(s) \in {"target", "project"} =>
       /\ s.session # NoSession /\ (at # "prepareClosed" => s.historyId)
       /\ at \in {"queued", "target", "operation", "preview", "geometry"} => s.session.current
  /\ From(s) = "idle" =>
       /\ s.session # NoSession /\ s.session.current /\ ~s.session.stroke
       /\ at # "prepareClosed" => s.historyId
  /\ at = "prepareClosed" => ~s.historyId
  /\ at = "closeHistory" => s.historyId /\ ~s.session.stroke
  /\ at # "plainOperation"
  /\ s.session = NoSession => s.paintedObjectIds = {}

\* A stroke, the operation that waits for it or draws it, and its terminal.
StrokeOK(s, at) ==
  /\ s.phase \in {"idle", "opening", "closed"} => ~s.session.stroke
  /\ Holder(s) \in {"press", "gap", "eraseAll"}
       /\ (First(s) = "display" \/ at \in {"queued", "candidate", "begin"}) => ~s.session.stroke
  /\ at = "miss" => s.session.stroke
  /\ Holder(s) = "press" /\ s.phase = "drawing" => s.terminal = None
  /\ s.phase \in {"ending", "cancelling"} => s.terminal # None
  /\ s.session.stroke /\ s.terminal # None => s.phase \in {"ending", "cancelling"}
  /\ at \in {"drain", "drainFirst", "drainLast", "drainAgain"} =>
       s.session.stroke /\ s.phase \in {"ending", "cancelling"}
  /\ s.lane = <<>> /\ s.phase \in {"ending", "cancelling"} => ~s.session.stroke
  /\ Holder(s) = None /\ s.phase = "drawing" => s.session.stroke

\* A revision that is not on display will be read, or its reading failed.
DisplayOK(s, at) ==
  /\ s.session # NoSession /\ s.session.current =>
       \/ s.displayDirty \/ s.readFailed \/ at = "geometry"
       \/ displayMatchesTarget(s) /\ s.display.current
  /\ s.lane = <<>> /\ s.phase \in {"idle", "drawing"} /\ s.displayDirty => s.frame

InvAt(s, at, n) ==
  LaneOK(s) /\ NativeOK(s, n) /\ SessionOK(s, at) /\ StrokeOK(s, at) /\ DisplayOK(s, at)

Inv == InvAt(ctl, ctl.at, native)

Typed(t) == t \in ControllerType /\ HeadOK(t)

\* The user gives no project command while another one is under way.
OneProject == ctl.projectOperations <= 1

\* Nor in this step, be it that the bound does not let him.
Alone == MaxProject <= 1 \/ OneProject'

\* What First and Second say about the lane.
LEMMA Views ==
  ASSUME NEW s \in ControllerType
  PROVE  /\ s.lane \in Seq(OpType) /\ Len(s.lane) \in Nat
         /\ First(s) \in Kinds \cup {None} /\ Second(s) \in Kinds \cup {None}
         /\ s.lane = <<>> <=> First(s) = None
         /\ First(s) = None => Second(s) = None
         /\ Second(s) = None <=> Len(s.lane) <= 1
         /\ s.lane # <<>> => Head(s.lane) = s.lane[1] /\ Head(s.lane) \in OpType
                             /\ Head(s.lane).kind = First(s)
         /\ Len(s.lane) = 1 => s.lane # <<>>
<1>1. s.lane \in Seq(OpType)
  BY DEF ControllerType
<1>2. /\ Len(s.lane) \in Nat /\ (s.lane = <<>> <=> Len(s.lane) = 0)
      /\ \A i \in 1..Len(s.lane) : s.lane[i] \in OpType
      /\ s.lane # <<>> => Head(s.lane) = s.lane[1]
  BY <1>1, Lanes
<1>3. \A o \in OpType : o.kind \in Kinds
  BY DEF OpType
<1>4. None \notin Kinds
  BY DEF None, Kinds
<1>5. \A k \in Nat : /\ k = 0 \/ (1 <= k /\ 1 \in 1..k)
                     /\ k <= 1 \/ (2 <= k /\ 1 <= k /\ 2 \in 1..k)
                     /\ ~(k <= 1 /\ 2 <= k) /\ ~(k = 0 /\ 1 <= k) /\ (k = 0 => k <= 1)
                     /\ k = 1 => k # 0
  OBVIOUS
<1> QED  BY <1>1, <1>2, <1>3, <1>4, <1>5 DEF First, Second

LEMMA Sessions ==
  ASSUME NEW s \in ControllerType
  PROVE  /\ s.session = NoSession => /\ ~s.session.stroke /\ ~s.session.current
                                     /\ s.session.target = None
         /\ s.session # NoSession => s.session.target \in Targets
         /\ s.session.stroke \in BOOLEAN /\ s.session.current \in BOOLEAN
         /\ s.session.channel \in Channels \cup {None}
BY DEF ControllerType, SessionType, NoSession

\* A stage that is queued belongs to every operation.
LEMMA QueuedFits ==
  ASSUME NEW k
  PROVE  StageOf(k, "queued")
BY DEF StageOf

LEMMA LeftIsTyped ==
  ASSUME NEW s, NEW t, Left(s, t)
  PROVE  Typed(t) /\ t.at = "queued" /\ t.paintedObjectIds = s.paintedObjectIds
BY QueuedFits DEF Left, Typed, HeadOK, Drawn

\* An operation may settle in a state that needs nobody else.
Resting(s, n) ==
  /\ s.lane # <<>> /\ Len(s.lane) <= 2 /\ Second(s) \in {None, "display"}
  /\ Second(s) = "display" => ~s.frame
  /\ s.projectOperations = 0
  /\ s.phase \in {"closed", "idle", "drawing", "error", "ending", "cancelling"}
  /\ s.phase = "closed" => s.session = NoSession /\ ~s.historyId /\ Second(s) = None
  /\ s.phase \in {"idle", "drawing", "ending", "cancelling"} =>
       s.session # NoSession /\ s.historyId /\ s.session.current
  /\ s.session.stroke => s.phase \in {"drawing", "error"} /\ s.terminal = None
  /\ s.phase = "drawing" => s.session.stroke
  /\ s.phase \in {"ending", "cancelling"} => s.terminal # None
  /\ s.session = NoSession => s.paintedObjectIds = {}
  /\ NativeOK(s, n)
  /\ s.session # NoSession /\ s.session.current =>
       s.displayDirty \/ s.readFailed \/ (displayMatchesTarget(s) /\ s.display.current)

LEMMA RestKeeps ==
  ASSUME NEW s \in ControllerType, NEW n, NEW t, Resting(s, n), Left(s, t)
  PROVE  InvAt(t, "queued", n)
<1>1. t \in ControllerType
  BY DEF Left
<1>2. /\ First(t) \in {None, "display"} /\ Second(t) = None /\ From(t) = None
      /\ t.lane = <<>> <=> First(t) = None
      /\ First(t) = Second(s)
  BY <1>1, Views DEF Left, Resting, None
<1>3. Len(t.lane) <= 2
  <2>1. Len(t.lane) \in Nat /\ Len(t.lane) <= 1
    BY <1>1, <1>2, Views
  <2>2. \A k \in Nat : k <= 1 => k <= 2
    OBVIOUS
  <2> QED  BY <2>1, <2>2
<1>4. Holder(t) = None
  BY <1>2 DEF Holder
<1>5. Drawn(s, t) /\ Seen(s, t) /\ t.projectOperations = s.projectOperations
  BY DEF Left
<1>6. LaneOK(t)
  <2>1. First(t) = "display" => ~t.frame
    BY <1>2, <1>5 DEF Left, Resting, Drawn, None
  <2> QED  BY <1>2, <1>3, <1>4, <1>5, <2>1 DEF LaneOK, Resting, Drawn, None
<1>7. NativeOK(t, n)
  BY <1>5 DEF NativeOK, Resting, Drawn
<1>8. SessionOK(t, "queued")
  BY <1>2, <1>4, <1>5 DEF SessionOK, Resting, Drawn, None
<1>9. StrokeOK(t, "queued")
  BY <1>2, <1>4, <1>5 DEF StrokeOK, Resting, Drawn, None
<1>10. DisplayOK(t, "queued")
  BY <1>5 DEF DisplayOK, Resting, Left, Drawn, Seen, displayMatchesTarget
<1> QED  BY <1>6, <1>7, <1>8, <1>9, <1>10 DEF InvAt

\* A display operation leaves what it found.
LEMMA DisplayLeaves ==
  ASSUME NEW s \in ControllerType, NEW n, NEW t, First(s) = "display", InvAt(s, "queued", n),
         ~Drains(s), Left(s, t)
  PROVE  InvAt(t, "queued", n)
<1>1. t \in ControllerType
  BY DEF Left
<1>2. /\ Len(s.lane) <= 2 /\ First(t) = Second(s) /\ Second(t) = None
      /\ Second(s) # "display" /\ Holder(s) = Second(s) /\ Holder(t) = Second(s)
      /\ From(t) = From(s) /\ (t.lane = <<>> <=> Second(s) = None)
  <2>1. Len(s.lane) <= 2 /\ First(t) = Second(s) /\ Second(t) = None /\ Second(s) # "display"
    BY DEF InvAt, LaneOK, Left
  <2>2. From(t) = From(s)
    BY <2>1 DEF Left, From, None
  <2> QED  BY <1>1, <2>1, <2>2, Views DEF Holder
<1>3. Len(t.lane) <= 2
  <2>1. Len(t.lane) \in Nat /\ Len(t.lane) <= 1
    BY <1>1, <1>2, Views
  <2>2. \A k \in Nat : k <= 1 => k <= 2
    OBVIOUS
  <2> QED  BY <2>1, <2>2
<1>4. Drawn(s, t) /\ Seen(s, t) /\ t.projectOperations = s.projectOperations
  BY DEF Left
<1>5. LaneOK(t)
  BY <1>2, <1>3, <1>4 DEF InvAt, LaneOK, Drawn, None
<1>6. NativeOK(t, n)
  BY <1>4 DEF InvAt, NativeOK, Drawn
<1>7. SessionOK(t, "queued")
  <2>1. First(t) # "open" /\ SessionOK(s, "queued")
    BY <1>2 DEF InvAt, LaneOK, None
  <2> QED  BY <1>2, <1>4, <2>1 DEF SessionOK, Drawn
<1>8. StrokeOK(t, "queued")
  BY <1>2, <1>4 DEF InvAt, StrokeOK, Drawn, Drains, None
<1>9. DisplayOK(t, "queued")
  <2>1. DisplayOK(s, "queued")
    BY DEF InvAt
  <2>2. t.lane = <<>> /\ t.session # NoSession /\ t.phase \in {"idle", "drawing"} /\ t.displayDirty => t.frame
    BY DEF Left
  <2>3. t.phase \in {"idle", "drawing"} => t.session # NoSession
    BY <1>4 DEF InvAt, SessionOK, Drawn
  <2> QED  BY <1>4, <2>1, <2>2, <2>3 DEF DisplayOK, Drawn, Seen, displayMatchesTarget
<1> QED  BY <1>5, <1>6, <1>7, <1>8, <1>9 DEF InvAt

-----------------------------------------------------------------------------
(* What the invariant depends on *)

Same(s, t) ==
  Drawn(s, t) /\ Seen(s, t) /\ t.lane = s.lane /\ t.frame = s.frame
  /\ t.projectOperations = s.projectOperations

LEMMA SameIsEnough ==
  ASSUME NEW s, NEW t, NEW at, NEW n, Same(s, t), InvAt(s, at, n)
  PROVE  InvAt(t, at, n)
<1>1. /\ First(t) = First(s) /\ Second(t) = Second(s) /\ From(t) = From(s)
      /\ Holder(t) = Holder(s)
  BY DEF Same, First, Second, From, Holder
<1>2. LaneOK(t) /\ NativeOK(t, n)
  BY <1>1 DEF InvAt, Same, Drawn, LaneOK, NativeOK
<1>3. SessionOK(t, at) /\ StrokeOK(t, at)
  BY <1>1 DEF InvAt, Same, Drawn, SessionOK, StrokeOK
<1>4. DisplayOK(t, at)
  BY DEF InvAt, Same, Drawn, Seen, DisplayOK, displayMatchesTarget
<1> QED  BY <1>2, <1>3, <1>4 DEF InvAt

LEMMA LikeIsSame ==
  ASSUME NEW s, NEW t, Like(s, t)
  PROVE  t \in ControllerType /\ Same(s, t) /\ t.at = s.at /\ (HeadOK(s) => HeadOK(t))
BY DEF Like, Same, Drawn, Queued, HeadOK, First

LEMMA LikeThenLeft ==
  ASSUME NEW s, NEW u, NEW t, Like(s, u), Left(u, t)
  PROVE  Left(s, t)
<1>1. First(u) = First(s) /\ Second(u) = Second(s) /\ From(u) = From(s)
  BY DEF Like, Queued, First, Second, From
<1> QED  BY <1>1 DEF Like, Left, Drawn, Seen, Queued

\* The stages of a display operation, while a drain has something to drain.
DisplayStages == {"queued", "preview", "geometry", "drainFirst", "drainLast", "drainAgain"}
Drainers == {"drain", "drainFirst", "drainLast", "drainAgain"}

LEMMA Restage ==
  ASSUME NEW s \in ControllerType, NEW n, First(s) = "display",
         NEW a \in DisplayStages, NEW b \in DisplayStages, InvAt(s, a, n),
         a = "geometry" => b = "geometry" \/ s.displayDirty \/ s.readFailed,
         b \in Drainers => Drains(s)
  PROVE  InvAt(s, b, n)
<1>1. LaneOK(s) /\ NativeOK(s, n)
  BY DEF InvAt
<1>2. SessionOK(s, b)
  BY <1>1 DEF InvAt, LaneOK, SessionOK, StrokeOK, DisplayStages
<1>3. StrokeOK(s, b)
  BY DEF InvAt, StrokeOK, DisplayStages, Drainers, Drains
<1>4. DisplayOK(s, b)
  BY DEF InvAt, DisplayOK, DisplayStages
<1> QED  BY <1>1, <1>2, <1>3, <1>4 DEF InvAt

\* A terminal takes its operation to the stage where the engine settles it.
LEMMA DrainingIs ==
  ASSUME NEW s \in ControllerType, NEW stage \in Stages
  PROVE  LET t == Draining(s, stage)
         IN t \in ControllerType /\ Same(s, t) /\ t.at = stage
BY DEF ControllerType, Draining, Same, Drawn, Seen

LEMMA DrainingKeeps ==
  ASSUME NEW s \in ControllerType, NEW stage \in Stages, StageOf(First(s), stage),
         stage # "readSession"
  PROVE  LET t == Draining(s, stage)
         IN /\ Typed(t) /\ t.paintedObjectIds = s.paintedObjectIds
            /\ \A n : InvAt(s, stage, n) => InvAt(t, t.at, n)
<1> DEFINE t == Draining(s, stage)
<1>1. t \in ControllerType /\ Same(s, t) /\ t.at = stage
  BY DrainingIs
<1> HIDE DEF t
<1>2. Typed(t) /\ t.paintedObjectIds = s.paintedObjectIds
  BY <1>1 DEF Typed, HeadOK, First, Same, Drawn
<1>3. \A n : InvAt(s, stage, n) => InvAt(t, t.at, n)
  BY <1>1, SameIsEnough
<1> QED  BY <1>2, <1>3 DEF t

-----------------------------------------------------------------------------
(* The display operation *)

LEMMA DisplaySettles ==
  ASSUME NEW s \in ControllerType, First(s) = "display"
  PROVE  LET t == Settled(s)
         IN /\ Typed(t) /\ t.paintedObjectIds = s.paintedObjectIds
            /\ \A n : InvAt(s, "queued", n) /\ ~Drains(s) => InvAt(t, t.at, n)
<1> DEFINE t == Settled(s)
<1>1. s.lane # <<>>
  BY Views DEF None
<1>2. Left(s, t)
  BY <1>1, SettledIs
<1> HIDE DEF t
<1>3. Typed(t) /\ t.at = "queued" /\ t.paintedObjectIds = s.paintedObjectIds
  BY <1>2, LeftIsTyped
<1>4. \A n : InvAt(s, "queued", n) /\ ~Drains(s) => InvAt(t, t.at, n)
  BY <1>2, <1>3, DisplayLeaves
<1> QED  BY <1>3, <1>4 DEF t

LEMMA FinishDisplayKeeps ==
  ASSUME NEW s \in ControllerType, First(s) = "display"
  PROVE  LET t == FinishDisplay(s)
         IN /\ Typed(t) /\ t.paintedObjectIds = s.paintedObjectIds
            /\ \A n : InvAt(s, "queued", n) => InvAt(t, t.at, n)
<1>1. CASE Drains(s)
  <2>1. FinishDisplay(s) = Draining(s, "drainLast") /\ StageOf(First(s), "drainLast")
    BY <1>1 DEF FinishDisplay, StageOf
  <2>2. "drainLast" \in Stages
    BY DEF Stages
  <2>3. \A n : InvAt(s, "queued", n) => InvAt(s, "drainLast", n)
    BY <1>1, Restage DEF DisplayStages
  <2> QED  BY <2>1, <2>2, <2>3, DrainingKeeps
<1>2. CASE ~Drains(s)
  <2>1. FinishDisplay(s) = Settled(s)
    BY <1>2 DEF FinishDisplay
  <2> QED  BY <1>2, <2>1, DisplaySettles
<1> QED  BY <1>1, <1>2

LEMMA ReadGeometryKeeps ==
  ASSUME NEW s \in ControllerType, First(s) = "display"
  PROVE  LET t == ReadGeometry(s)
         IN /\ Typed(t) /\ t.paintedObjectIds = s.paintedObjectIds
            /\ \A n : InvAt(s, "queued", n) => InvAt(t, t.at, n)
<1>1. CASE s.displayDirty
  <2> DEFINE t == [s EXCEPT !.displayDirty = FALSE, !.at = "geometry"]
  <2>1. ReadGeometry(s) = t
    BY <1>1 DEF ReadGeometry
  <2>2. /\ t \in ControllerType /\ Drawn(s, t) /\ t.lane = s.lane /\ t.at = "geometry"
        /\ t.projectOperations = s.projectOperations /\ t.frame = s.frame
        /\ t.display = s.display /\ ~t.displayDirty
    BY ZenonT(60) DEF ControllerType, Stages, Drawn
  <2> HIDE DEF t
  <2>3. First(t) = First(s) /\ Second(t) = Second(s) /\ From(t) = From(s) /\ Holder(t) = Holder(s)
    BY <2>2 DEF First, Second, From, Holder
  <2>4. Typed(t) /\ t.paintedObjectIds = s.paintedObjectIds
    BY <2>2, <2>3 DEF Typed, HeadOK, StageOf, Drawn
  <2>5. ASSUME NEW n, InvAt(s, "queued", n)
        PROVE  InvAt(t, t.at, n)
    <3>1. InvAt(s, "geometry", n)
      BY <2>5, Restage DEF DisplayStages, Drainers
    <3>2. LaneOK(t) /\ NativeOK(t, n)
      BY <2>2, <2>3, <3>1 DEF InvAt, LaneOK, NativeOK, Drawn
    <3>3. SessionOK(t, "geometry") /\ StrokeOK(t, "geometry")
      BY <2>2, <2>3, <3>1 DEF InvAt, SessionOK, StrokeOK, Drawn
    <3>4. DisplayOK(t, "geometry")
      BY <2>2 DEF DisplayOK
    <3> QED  BY <2>2, <3>2, <3>3, <3>4 DEF InvAt
  <2> QED  BY <2>1, <2>4, <2>5
<1>2. CASE ~s.displayDirty
  <2>1. ReadGeometry(s) = FinishDisplay(s)
    BY <1>2 DEF ReadGeometry
  <2> QED  BY <2>1, FinishDisplayKeeps
<1> QED  BY <1>1, <1>2

\* A reading starts; only its own bookkeeping changes.
LEMMA ReadingIs ==
  ASSUME NEW s \in ControllerType, NEW r \in {"input", "brush"}, NEW p \in BOOLEAN
  PROVE  /\ Like(s, [s EXCEPT !.reading = r])
         /\ Like(s, [s EXCEPT !.reading = r, !.previewDirty = p])
BY DEF ControllerType, Like, Drawn, Seen, Queued

LEMMA ShowKeeps ==
  ASSUME NEW s \in ControllerType, First(s) = "display"
  PROVE  LET t == Show(s)
         IN /\ Typed(t) /\ t.paintedObjectIds = s.paintedObjectIds
            /\ \A n : InvAt(s, "queued", n) /\ ~Drains(s) => InvAt(t, t.at, n)
<1> DEFINE k == IF Previews(s) THEN "input" ELSE "brush"
           r == [s EXCEPT !.reading = k]
           q == [r EXCEPT !.previewDirty = FALSE]
           p == [r EXCEPT !.previewDirty = FALSE, !.at = "preview"]
<1>1. Like(s, r)
  BY ReadingIs
<1>2. r \in ControllerType /\ Same(s, r) /\ r.at = s.at /\ First(r) = "display"
  BY <1>1, LikeIsSame DEF Same, First
<1> HIDE DEF r
<1>3. q \in ControllerType /\ Same(r, q)
  BY <1>2 DEF ControllerType, Same, Drawn, Seen
<1>4. p \in ControllerType /\ Same(r, p) /\ p.at = "preview"
  <2>1. "preview" \in Stages
    BY DEF Stages
  <2>2. p \in ControllerType /\ p.at = "preview"
    BY <1>2, <2>1 DEF ControllerType
  <2>3. Same(r, p)
    BY <1>2 DEF ControllerType, Same, Drawn, Seen
  <2> QED  BY <2>2, <2>3
<1>5. Show(s) \in {Settled(s), p, ReadGeometry(q), ReadGeometry(r)}
  BY DEF Show, r
<1> HIDE DEF q, p
<1>6. \A n : InvAt(s, "queued", n) => InvAt(q, "queued", n) /\ InvAt(p, "queued", n) /\ InvAt(r, "queued", n)
  <2>1. \A n : InvAt(s, "queued", n) => InvAt(r, "queued", n)
    BY <1>2, SameIsEnough
  <2>2. \A n : InvAt(r, "queued", n) => InvAt(q, "queued", n) /\ InvAt(p, "queued", n)
    BY <1>3, <1>4, SameIsEnough
  <2> QED  BY <2>1, <2>2
<1>7. /\ First(q) = "display" /\ First(p) = "display"
      /\ q.paintedObjectIds = s.paintedObjectIds /\ p.paintedObjectIds = s.paintedObjectIds
      /\ r.paintedObjectIds = s.paintedObjectIds
  BY <1>2, <1>3, <1>4 DEF Same, First, Drawn
<1>8. CASE Show(s) = Settled(s)
  BY <1>8, DisplaySettles
<1>9. CASE Show(s) = ReadGeometry(q)
  BY <1>3, <1>6, <1>7, <1>9, ReadGeometryKeeps
<1>10. CASE Show(s) = ReadGeometry(r)
  BY <1>2, <1>6, <1>7, <1>10, ReadGeometryKeeps
<1>11. CASE Show(s) = p
  <2>1. Typed(p)
    BY <1>4, <1>7 DEF Typed, HeadOK, StageOf
  <2>2. \A n : InvAt(p, "queued", n) => InvAt(p, "preview", n)
    BY <1>4, <1>7, Restage DEF DisplayStages, Drainers
  <2> QED  BY <1>4, <1>6, <1>7, <1>11, <2>1, <2>2
<1> QED  BY <1>5, <1>8, <1>9, <1>10, <1>11

LEMMA DisplayFailedKeeps ==
  ASSUME NEW s \in ControllerType, First(s) = "display"
  PROVE  LET t == DisplayFailed(s)
         IN /\ Typed(t) /\ t.paintedObjectIds = s.paintedObjectIds
            /\ \A n : InvAt(s, "geometry", n) => InvAt(t, t.at, n)
<1> DEFINE f == fail(s)
           t == [f EXCEPT !.readFailed = ~s.displayDirty]
<1>1. f \in ControllerType /\ Same(s, f)
  BY FailIs, LikeIsSame
<1> HIDE DEF f
<1>2. /\ t \in ControllerType /\ Drawn(f, t) /\ t.lane = f.lane /\ t.frame = f.frame
      /\ t.projectOperations = f.projectOperations /\ t.display = f.display
      /\ t.displayDirty = f.displayDirty /\ t.readFailed = ~s.displayDirty
  BY ZenonT(60), <1>1 DEF ControllerType, Drawn
<1>3. DisplayFailed(s) = IF Drains(t) THEN Draining(t, "drainAgain") ELSE Settled(t)
  BY DEF DisplayFailed, f
<1> HIDE DEF t
<1>4. /\ First(t) = First(f) /\ Second(t) = Second(f) /\ From(t) = From(f)
      /\ Holder(t) = Holder(f) /\ First(t) = "display" /\ t.paintedObjectIds = s.paintedObjectIds
  BY <1>1, <1>2 DEF First, Second, From, Holder, Same, Drawn
<1>5. ASSUME NEW n, InvAt(s, "geometry", n)
      PROVE  InvAt(t, "geometry", n) /\ (t.displayDirty \/ t.readFailed)
  <2>1. InvAt(f, "geometry", n)
    BY <1>1, <1>5, SameIsEnough
  <2>2. LaneOK(t) /\ NativeOK(t, n)
    BY <1>2, <1>4, <2>1 DEF InvAt, LaneOK, NativeOK, Drawn
  <2>3. SessionOK(t, "geometry") /\ StrokeOK(t, "geometry")
    BY <1>2, <1>4, <2>1 DEF InvAt, SessionOK, StrokeOK, Drawn
  <2>4. DisplayOK(t, "geometry")
    BY <1>2, <2>1 DEF InvAt, DisplayOK, Drawn
  <2>5. t.displayDirty \/ t.readFailed
    BY <1>1, <1>2 DEF Same, Seen
  <2> QED  BY <2>2, <2>3, <2>4, <2>5 DEF InvAt
<1>6. \A n : InvAt(s, "geometry", n) => InvAt(t, "queued", n) /\ (Drains(t) => InvAt(t, "drainAgain", n))
  BY <1>2, <1>4, <1>5, Restage DEF DisplayStages, Drainers
<1>7. CASE Drains(t)
  <2>1. StageOf(First(t), "drainAgain") /\ "drainAgain" \in Stages
    BY <1>4 DEF StageOf, Stages
  <2> QED  BY <1>2, <1>3, <1>4, <1>6, <1>7, <2>1, DrainingKeeps
<1>8. CASE ~Drains(t)
  BY <1>2, <1>3, <1>4, <1>6, <1>8, DisplaySettles
<1> QED  BY <1>7, <1>8

-----------------------------------------------------------------------------
(* The other operations *)

LEMMA Heads ==
  ASSUME ctl \in ControllerType, ctl.lane # <<>>
  PROVE  Kind = First(ctl) /\ Kind \in Kinds /\ Head(ctl.lane) \in OpType
BY Views DEF Kind, None

LEMMA SettlesLike ==
  ASSUME NEW s \in ControllerType, s.lane # <<>>, NEW g \in {"none", "paint", "camera"}
  PROVE  Left(s, Settled(s)) /\ Left(s, Settled(Pressed(s, g)))
<1> DEFINE u == Pressed(s, g)
<1>1. Like(s, u)
  BY PressedIs
<1> HIDE DEF u
<1>2. u \in ControllerType /\ u.lane # <<>>
  BY <1>1 DEF Like, Queued
<1>3. Left(s, Settled(s)) /\ Left(u, Settled(u))
  BY <1>2, SettledIs
<1>4. Left(s, Settled(u))
  BY <1>1, <1>3, LikeThenLeft
<1> QED  BY <1>3, <1>4 DEF u

\* A project operation has settled, before it leaves the lane.
ProjectRest(s) ==
  LET n == s.projectOperations - 1
  IN [s EXCEPT !.projectOperations = n,
               !.phase = IF @ = "opening" /\ n = 0 THEN "idle" ELSE @]

LEMMA ProjectRestIs ==
  ASSUME NEW s \in ControllerType
  PROVE  LET u == ProjectRest(s)
         IN /\ u \in ControllerType /\ Seen(s, u) /\ u.lane = s.lane /\ u.frame = s.frame
            /\ u.session = s.session /\ u.terminal = s.terminal /\ u.historyId = s.historyId
            /\ u.paintedObjectIds = s.paintedObjectIds
            /\ s.projectOperations = 1 =>
                 /\ u.projectOperations = 0
                 /\ u.phase = IF s.phase = "opening" THEN "idle" ELSE s.phase
<1> DEFINE n == s.projectOperations - 1
           ph == IF s.phase = "opening" /\ n = 0 THEN "idle" ELSE s.phase
           u == [s EXCEPT !.projectOperations = n, !.phase = ph]
<1>1. n \in Int /\ ph \in Phases /\ (s.projectOperations = 1 => n = 0)
  BY DEF ControllerType, Phases
<1>2. ProjectRest(s) = u
  BY DEF ProjectRest
<1>3. s.projectOperations = 1 => ph = IF s.phase = "opening" THEN "idle" ELSE s.phase
  BY <1>1
<1> HIDE DEF n, ph
<1>4. u \in ControllerType /\ u.projectOperations = n /\ u.phase = ph
  BY <1>1 DEF ControllerType
<1>5. /\ Seen(s, u) /\ u.lane = s.lane /\ u.frame = s.frame
      /\ u.session = s.session /\ u.terminal = s.terminal /\ u.historyId = s.historyId
      /\ u.paintedObjectIds = s.paintedObjectIds
  BY DEF ControllerType, Seen
<1> QED  BY <1>1, <1>2, <1>3, <1>4, <1>5

LEMMA ProjectSettledIs ==
  ASSUME NEW s \in ControllerType, s.lane # <<>>
  PROVE  Left(ProjectRest(s), ProjectSettled(s))
<1>1. ProjectSettled(s) = Settled(ProjectRest(s))
  BY DEF ProjectSettled, ProjectRest
<1>2. ProjectRest(s) \in ControllerType /\ ProjectRest(s).lane # <<>>
  BY ProjectRestIs
<1> QED  BY <1>1, <1>2, SettledIs

LEMMA ProjectSettles ==
  ASSUME NEW s \in ControllerType, s.lane # <<>>
  PROVE  LET t == ProjectSettled(s)
         IN /\ Typed(t) /\ t.paintedObjectIds = s.paintedObjectIds
            /\ \A n : Resting(ProjectRest(s), n) => InvAt(t, t.at, n)
<1> DEFINE t == ProjectSettled(s)
           u == ProjectRest(s)
<1>1. Left(u, t) /\ u \in ControllerType /\ u.paintedObjectIds = s.paintedObjectIds
  BY ProjectSettledIs, ProjectRestIs
<1> HIDE DEF t, u
<1>2. Typed(t) /\ t.at = "queued" /\ t.paintedObjectIds = s.paintedObjectIds
  BY <1>1, LeftIsTyped
<1>3. \A n : Resting(u, n) => InvAt(t, t.at, n)
  BY <1>1, <1>2, RestKeeps
<1> QED  BY <1>2, <1>3 DEF t, u

LEMMA Settles ==
  ASSUME NEW s \in ControllerType, s.lane # <<>>, NEW g \in {"none", "paint", "camera"},
         NEW t \in {Settled(s), Settled(Pressed(s, g))}
  PROVE  /\ Typed(t) /\ t.paintedObjectIds = s.paintedObjectIds
         /\ \A n : Resting(s, n) => InvAt(t, t.at, n)
<1>1. Left(s, t)
  BY SettlesLike
<1>2. Typed(t) /\ t.at = "queued" /\ t.paintedObjectIds = s.paintedObjectIds
  BY <1>1, LeftIsTyped
<1>3. \A n : Resting(s, n) => InvAt(t, t.at, n)
  BY <1>1, <1>2, RestKeeps
<1> QED  BY <1>2, <1>3

\* An operation that draws is drained, or leaves a controller at rest.
LEMMA DrainThenSettleKeeps ==
  ASSUME ctl \in ControllerType, NEW s \in ControllerType, s.lane = ctl.lane, s.lane # <<>>,
         First(ctl) \in {"press", "move", "terminal", "gap", "eraseAll"}
  PROVE  LET t == DrainThenSettle(s)
         IN /\ Typed(t) /\ t.paintedObjectIds = s.paintedObjectIds
            /\ \A n : IF Drains(s) THEN InvAt(s, "drain", n) => InvAt(t, t.at, n)
                      ELSE Resting(s, n) => InvAt(t, t.at, n)
<1>1. Kind = First(ctl) /\ First(s) = First(ctl)
  BY Heads DEF First
<1>2. CASE Drains(s)
  <2>1. DrainThenSettle(s) = Draining(s, "drain")
    BY <1>2 DEF DrainThenSettle
  <2>2. StageOf(First(s), "drain") /\ "drain" \in Stages
    BY <1>1 DEF StageOf, Stages
  <2> QED  BY <1>2, <2>1, <2>2, DrainingKeeps
<1>3. CASE ~Drains(s)
  <2>1. DrainThenSettle(s) = Settled(Pressed(s, "paint"))
    BY <1>1, <1>3 DEF DrainThenSettle, SettledAs
  <2> QED  BY <1>3, <2>1, Settles
<1> QED  BY <1>2, <1>3

\* What a failure may interrupt; "cancelled" when the engine ended the stroke.
MayStop(s, n, cancelled) ==
  /\ Len(s.lane) <= 2 /\ Second(s) \in {None, "display"} /\ (Second(s) = "display" => ~s.frame)
  /\ s.projectOperations = IF First(s) = "project" THEN 1 ELSE 0
  /\ NativeOK(s, n)
  /\ s.session = NoSession => s.paintedObjectIds = {}
  /\ cancelled =>
       s.session # NoSession /\ s.historyId /\ s.session.current /\ ~s.session.stroke
  /\ ~cancelled /\ s.session # NoSession /\ s.session.current =>
       s.displayDirty \/ s.readFailed \/ (displayMatchesTarget(s) /\ s.display.current)

LEMMA StopIs ==
  ASSUME NEW s \in ControllerType, NEW c \in BOOLEAN
  PROVE  LET v == stopAfterFailure(s, c)
         IN /\ v \in ControllerType /\ v.lane = s.lane /\ v.at = s.at /\ v.frame = s.frame
            /\ v.projectOperations = s.projectOperations /\ v.session = s.session
            /\ v.historyId = s.historyId /\ v.paintedObjectIds = s.paintedObjectIds
            /\ v.display = s.display /\ v.terminal = None
            /\ v.phase = IF c THEN "idle" ELSE "error"
            /\ c => v.displayDirty
            /\ ~c => v.displayDirty = s.displayDirty /\ v.readFailed = s.readFailed
<1> DEFINE i == invalidatePreview(fail(s))
           t == [i EXCEPT !.terminal = None, !.terminalExecuting = FALSE]
           v == stopAfterFailure(s, c)
<1>1. Like(s, i)
  <2>1. Like(s, fail(s)) /\ fail(s) \in ControllerType
    BY FailIs DEF Like
  <2>2. Like(fail(s), i)
    BY <2>1, InvalidateIs
  <2> QED  BY <2>1, <2>2 DEF Like, Drawn, Seen, Queued
<1>2. v = IF c THEN [t EXCEPT !.displayDirty = TRUE, !.readFailed = FALSE, !.phase = "idle"]
          ELSE [t EXCEPT !.phase = "error"]
  BY DEF stopAfterFailure
<1> HIDE DEF i
<1>3. /\ t \in ControllerType /\ t.terminal = None /\ Seen(s, t) /\ Queued(s, t)
      /\ t.session = s.session /\ t.historyId = s.historyId
      /\ t.paintedObjectIds = s.paintedObjectIds /\ t.frame = s.frame
  BY <1>1 DEF Like, ControllerType, Terminals, Drawn, Seen, Queued
<1> HIDE DEF t, v
<1>4. CASE c
  <2> DEFINE x == [t EXCEPT !.displayDirty = TRUE, !.readFailed = FALSE, !.phase = "idle"]
  <2>1. x \in ControllerType /\ x.displayDirty = TRUE /\ x.phase = "idle"
    BY ZenonT(60), <1>3 DEF ControllerType, Phases
  <2>2. /\ Queued(t, x) /\ x.session = t.session /\ x.historyId = t.historyId
        /\ x.paintedObjectIds = t.paintedObjectIds /\ x.frame = t.frame
        /\ x.display = t.display /\ x.terminal = t.terminal
    BY <1>3 DEF ControllerType, Queued
  <2>3. v = x
    BY <1>2, <1>4
  <2> HIDE DEF x
  <2> QED  BY <1>3, <1>4, <2>1, <2>2, <2>3 DEF Seen, Queued, v
<1>5. CASE ~c
  <2> DEFINE x == [t EXCEPT !.phase = "error"]
  <2>1. x \in ControllerType /\ x.phase = "error"
    BY <1>3 DEF ControllerType, Phases
  <2>2. /\ Queued(t, x) /\ x.session = t.session /\ x.historyId = t.historyId
        /\ x.paintedObjectIds = t.paintedObjectIds /\ x.frame = t.frame
        /\ x.terminal = t.terminal /\ Seen(t, x)
    BY <1>3 DEF ControllerType, Queued, Seen
  <2>3. v = x
    BY <1>2, <1>5
  <2> HIDE DEF x
  <2> QED  BY <1>3, <1>5, <2>1, <2>2, <2>3 DEF Seen, Queued, v
<1> QED  BY <1>4, <1>5 DEF v

LEMMA StoppedKeeps ==
  ASSUME ctl \in ControllerType, NEW s \in ControllerType, s.lane = ctl.lane, s.lane # <<>>,
         NEW c \in BOOLEAN
  PROVE  LET t == Stopped(s, c)
         IN /\ Typed(t) /\ t.paintedObjectIds = s.paintedObjectIds
            /\ \A n : MayStop(s, n, c) => InvAt(t, t.at, n)
<1> DEFINE v == stopAfterFailure(s, c)
           t == Stopped(s, c)
<1>1. Kind = First(s)
  BY Heads DEF First
<1>2. t = IF Kind = "project" THEN ProjectSettled(v) ELSE Settled(Pressed(v, "none"))
  BY DEF Stopped
<1>3. /\ v \in ControllerType /\ v.lane = s.lane /\ v.at = s.at /\ v.frame = s.frame
      /\ v.projectOperations = s.projectOperations /\ v.session = s.session
      /\ v.historyId = s.historyId /\ v.paintedObjectIds = s.paintedObjectIds
      /\ v.display = s.display /\ v.terminal = None
      /\ v.phase = IF c THEN "idle" ELSE "error"
      /\ c => v.displayDirty
      /\ ~c => v.displayDirty = s.displayDirty /\ v.readFailed = s.readFailed
  BY StopIs
<1> HIDE DEF v, t
<1>4. First(v) = First(s) /\ Second(v) = Second(s)
  BY <1>3 DEF First, Second
<1>5. ASSUME NEW n, MayStop(s, n, c), NEW w, w.lane = v.lane, w.frame = v.frame, Seen(v, w),
             w.session = v.session, w.terminal = v.terminal, w.historyId = v.historyId,
             w.paintedObjectIds = v.paintedObjectIds, w.phase = v.phase, w.projectOperations = 0
      PROVE  Resting(w, n)
  <2>1. Second(w) = Second(s)
    BY <1>4, <1>5 DEF Second
  <2>2. NativeOK(w, n)
    BY <1>3, <1>5 DEF MayStop, NativeOK
  <2>3. w.session # NoSession /\ w.session.current =>
          w.displayDirty \/ w.readFailed \/ (displayMatchesTarget(w) /\ w.display.current)
    BY <1>3, <1>5 DEF MayStop, Seen, displayMatchesTarget
  <2> QED  BY <1>3, <1>5, <2>1, <2>2, <2>3 DEF Resting, MayStop
<1>6. CASE Kind = "project"
  <2> DEFINE w == ProjectRest(v)
  <2>1. /\ w.lane = v.lane /\ w.frame = v.frame /\ Seen(v, w)
        /\ w.session = v.session /\ w.terminal = v.terminal /\ w.historyId = v.historyId
        /\ w.paintedObjectIds = v.paintedObjectIds
        /\ v.projectOperations = 1 =>
             w.projectOperations = 0 /\ w.phase = IF v.phase = "opening" THEN "idle" ELSE v.phase
    BY <1>3, ProjectRestIs
  <2> HIDE DEF w
  <2>2. ASSUME NEW n, MayStop(s, n, c)
        PROVE  Resting(w, n)
    <3>1. w.projectOperations = 0 /\ w.phase = v.phase
      BY <1>1, <1>3, <1>6, <2>1, <2>2 DEF MayStop
    <3> QED  BY <1>5, <2>1, <2>2, <3>1
  <2> QED  BY <1>2, <1>3, <1>6, <2>2, ProjectSettles DEF t, w
<1>7. CASE Kind # "project"
  <2>1. \A n : MayStop(s, n, c) => Resting(v, n)
    <3>1. ASSUME NEW n, MayStop(s, n, c)
          PROVE  v.projectOperations = 0
      BY <1>1, <1>3, <1>7, <3>1 DEF MayStop
    <3> QED  BY <1>5, <3>1 DEF Seen
  <2> QED  BY <1>2, <1>3, <1>7, <2>1, Settles DEF t
<1> QED  BY <1>6, <1>7 DEF t

LEMMA ReceiptIs ==
  ASSUME NEW s \in ControllerType, s.session # NoSession, NEW b \in BOOLEAN
  PROVE  LET t == receipt(s, b)
         IN /\ t \in ControllerType /\ Queued(s, t) /\ t.frame = s.frame /\ t.phase = s.phase
            /\ t.terminal = s.terminal /\ t.historyId = s.historyId
            /\ t.paintedObjectIds = s.paintedObjectIds
            /\ t.session # NoSession /\ t.session.target = s.session.target
            /\ t.session.channel = s.session.channel
            /\ t.session.current = TRUE /\ t.session.stroke = b
            /\ t.displayDirty = TRUE
<1> DEFINE e == [s.session EXCEPT !.current = TRUE, !.stroke = b]
           d == [s.display EXCEPT !.current = FALSE]
           t == [s EXCEPT !.session = e, !.display = d, !.displayDirty = TRUE, !.readFailed = FALSE]
<1>1. /\ e \in SessionType /\ e # NoSession /\ e.target = s.session.target
      /\ e.channel = s.session.channel /\ e.current = TRUE /\ e.stroke = b
  BY DEF ControllerType, SessionType, NoSession
<1>2. d \in DisplayType
  BY DEF ControllerType, DisplayType
<1>3. receipt(s, b) = t
  BY DEF receipt, ControllerType, SessionType, DisplayType
<1> HIDE DEF e, d
<1>4. t \in ControllerType /\ t.session = e /\ t.displayDirty = TRUE
  BY <1>1, <1>2 DEF ControllerType
<1>5. /\ Queued(s, t) /\ t.frame = s.frame /\ t.phase = s.phase
      /\ t.terminal = s.terminal /\ t.historyId = s.historyId
      /\ t.paintedObjectIds = s.paintedObjectIds
  BY DEF ControllerType, Queued
<1> HIDE DEF t
<1> QED  BY <1>1, <1>3, <1>4, <1>5

LEMMA CancelledIs ==
  ASSUME NEW s \in ControllerType, s.session # NoSession
  PROVE  LET t == Cancelled(s)
         IN /\ t \in ControllerType /\ Queued(s, t) /\ t.frame = s.frame /\ t.phase = s.phase
            /\ t.terminal = s.terminal /\ t.historyId = s.historyId
            /\ t.paintedObjectIds = s.paintedObjectIds
            /\ t.session # NoSession /\ t.session.target = s.session.target
            /\ t.session.channel = s.session.channel
            /\ t.session.current = TRUE /\ t.session.stroke = FALSE
            /\ t.displayDirty = s.displayDirty /\ t.readFailed = s.readFailed
<1> DEFINE e == [s.session EXCEPT !.current = TRUE, !.stroke = FALSE]
           d == [s.display EXCEPT !.current = FALSE]
           t == [s EXCEPT !.session = e, !.display = d]
<1>1. /\ e \in SessionType /\ e # NoSession /\ e.target = s.session.target
      /\ e.channel = s.session.channel /\ e.current = TRUE /\ e.stroke = FALSE
  BY DEF ControllerType, SessionType, NoSession
<1>2. d \in DisplayType
  BY DEF ControllerType, DisplayType
<1>3. Cancelled(s) = t
  BY DEF Cancelled, ControllerType, SessionType, DisplayType
<1> HIDE DEF e, d
<1>4. t \in ControllerType /\ t.session = e
  BY <1>1, <1>2 DEF ControllerType
<1>5. /\ Queued(s, t) /\ t.frame = s.frame /\ t.phase = s.phase
      /\ t.terminal = s.terminal /\ t.historyId = s.historyId
      /\ t.paintedObjectIds = s.paintedObjectIds
      /\ t.displayDirty = s.displayDirty /\ t.readFailed = s.readFailed
  BY DEF ControllerType, Queued
<1> HIDE DEF t
<1> QED  BY <1>1, <1>3, <1>4, <1>5

\* What an operation that closes may find.
MayClose(s, n) ==
  /\ LaneOK(s) /\ NativeOK(s, n) /\ s.lane # <<>> /\ First(s) \in {"close", "project"}
  /\ First(s) = "project" => s.session # NoSession /\ ~s.session.stroke
  /\ From(s) = "idle" => s.session # NoSession /\ s.session.current /\ ~s.session.stroke
  /\ s.session = NoSession => s.paintedObjectIds = {}
  /\ s.session.stroke => s.terminal = None
  /\ s.session # NoSession /\ s.session.current =>
       s.displayDirty \/ s.readFailed \/ (displayMatchesTarget(s) /\ s.display.current)

LEMMA ClosesKeeps ==
  ASSUME NEW s \in ControllerType, First(s) \in {"close", "project"}
  PROVE  LET t == CloseOwned(s)
         IN /\ Typed(t) /\ t.paintedObjectIds = s.paintedObjectIds
            /\ \A n : MayClose(s, n) => InvAt(t, t.at, n)
<1> DEFINE at == IF s.session.stroke THEN "cancelDraft"
                 ELSE IF s.historyId THEN "closeHistory" ELSE "prepareClosed"
           t == [s EXCEPT !.at = at]
<1>1. CloseOwned(s) = t
  BY DEF CloseOwned
<1>2. at \in Stages /\ StageOf(First(s), at) /\ at \in {"cancelDraft", "closeHistory", "prepareClosed"}
  BY DEF Stages, StageOf
<1>3. /\ at = "prepareClosed" => ~s.historyId
      /\ at = "closeHistory" => s.historyId /\ ~s.session.stroke
      /\ s.session.stroke <=> at = "cancelDraft"
      /\ ~s.session.stroke /\ at # "prepareClosed" => s.historyId
  OBVIOUS
<1> HIDE DEF at
<1>4. t \in ControllerType /\ t.at = at
  BY <1>2 DEF ControllerType
<1>5. Same(s, t)
  BY DEF ControllerType, Same, Drawn, Seen
<1> HIDE DEF t
<1>6. Typed(t) /\ t.paintedObjectIds = s.paintedObjectIds
  BY <1>2, <1>4, <1>5 DEF Typed, HeadOK, First, Same, Drawn
<1>7. ASSUME NEW n, MayClose(s, n)
      PROVE  InvAt(s, at, n)
  <2>1. /\ Holder(s) = First(s) /\ (First(s) = "close" => s.phase = "closing")
        /\ First(s) = "project" => s.phase = "opening"
    BY <1>7 DEF MayClose, LaneOK, Holder
  <2>2. SessionOK(s, at)
    BY <1>2, <1>3, <1>7, <2>1, Sessions DEF MayClose, SessionOK
  <2>3. StrokeOK(s, at)
    BY <1>2, <1>3, <1>7, <2>1, Views DEF MayClose, StrokeOK, None
  <2>4. DisplayOK(s, at)
    BY <1>7 DEF MayClose, DisplayOK
  <2> QED  BY <1>7, <2>2, <2>3, <2>4 DEF MayClose, InvAt
<1>8. \A n : MayClose(s, n) => InvAt(t, t.at, n)
  BY <1>4, <1>5, <1>7, SameIsEnough
<1> QED  BY <1>1, <1>6, <1>8

LEMMA CloseFailedKeeps ==
  ASSUME ctl \in ControllerType, NEW s \in ControllerType, s.lane = ctl.lane, s.lane # <<>>,
         First(s) \in {"close", "project"}
  PROVE  LET t == CloseFailed(s)
         IN /\ Typed(t) /\ t.paintedObjectIds = s.paintedObjectIds
            /\ \A n : MayClose(s, n) => InvAt(t, t.at, n)
<1> DEFINE op == Head(ctl.lane)
           f == fail(s)
           ph == IF s.historyId THEN op.from ELSE "error"
           t == [f EXCEPT !.phase = ph, !.switching = FALSE]
<1>1. CloseFailed(s) = IF op.kind = "project" THEN Stopped(s, FALSE) ELSE Settled(t)
  BY DEF CloseFailed
<1>2. op = s.lane[1] /\ op \in OpType /\ op.kind = First(s)
  BY Views
<1>3. CASE op.kind = "project"
  <2>1. ASSUME NEW n, MayClose(s, n)
        PROVE  MayStop(s, n, FALSE)
    BY <1>2, <1>3, <2>1, Views DEF MayClose, MayStop, LaneOK, Holder, None
  <2> QED  BY <1>1, <1>3, <2>1, StoppedKeeps
<1>4. CASE op.kind # "project"
  <2>1. First(s) = "close" /\ op.from \in {"idle", "error"}
    BY <1>2, <1>4 DEF OpType
  <2>2. f \in ControllerType /\ Same(s, f)
    BY FailIs, LikeIsSame
  <2>3. ph \in Phases /\ ph \in {"idle", "error"} /\ (ph = "idle" => s.historyId /\ op.from = "idle")
    BY <2>1 DEF Phases
  <2> HIDE DEF f, ph
  <2>4. t \in ControllerType /\ t.phase = ph
    BY <2>2, <2>3 DEF ControllerType
  <2>5. /\ t.lane = f.lane /\ t.frame = f.frame /\ Seen(f, t) /\ t.terminal = f.terminal
        /\ t.projectOperations = f.projectOperations /\ t.session = f.session
        /\ t.historyId = f.historyId /\ t.paintedObjectIds = f.paintedObjectIds
    BY <2>2 DEF ControllerType, Seen
  <2> HIDE DEF t, op
  <2>6. ASSUME NEW n, MayClose(s, n)
        PROVE  Resting(t, n)
    <3>1. First(t) = First(s) /\ Second(t) = Second(s) /\ t.lane = s.lane
      BY <2>2, <2>5 DEF First, Second, Same
    <3>2. Second(s) = None /\ Holder(s) = "close" /\ From(s) = op.from
      BY <1>2, <2>1, <2>6 DEF MayClose, LaneOK, Holder, From, None
    <3>3. /\ Len(t.lane) <= 2 /\ t.projectOperations = 0 /\ t.lane # <<>>
          /\ t.phase = "idle" => s.historyId /\ From(s) = "idle"
      BY <2>2, <2>3, <2>4, <2>5, <2>6, <3>1, <3>2 DEF MayClose, LaneOK, Same
    <3>4. NativeOK(t, n)
      BY <2>2, <2>5, <2>6 DEF MayClose, NativeOK, Same, Drawn
    <3>5. t.session # NoSession /\ t.session.current =>
            t.displayDirty \/ t.readFailed \/ (displayMatchesTarget(t) /\ t.display.current)
      BY <2>2, <2>5, <2>6 DEF MayClose, Same, Drawn, Seen, displayMatchesTarget
    <3>6. /\ t.session = s.session /\ t.historyId = s.historyId /\ t.terminal = s.terminal
          /\ t.paintedObjectIds = s.paintedObjectIds
      BY <2>2, <2>5 DEF Same, Drawn
    <3>7. /\ t.phase = "idle" => /\ t.session # NoSession /\ t.historyId
                                 /\ t.session.current /\ ~t.session.stroke
          /\ t.session.stroke => t.phase = "error" /\ t.terminal = None
          /\ t.session = NoSession => t.paintedObjectIds = {}
      BY <2>3, <2>4, <2>6, <3>3, <3>6 DEF MayClose
    <3> QED  BY <2>3, <2>4, <3>1, <3>2, <3>3, <3>4, <3>5, <3>7 DEF Resting, None
  <2>7. t.lane # <<>> /\ t.paintedObjectIds = s.paintedObjectIds
    BY <2>2, <2>5 DEF Same, Drawn
  <2>8. CloseFailed(s) = Settled(t)
    BY <1>1, <1>4
  <2> QED  BY <2>4, <2>6, <2>7, <2>8, Settles
<1> QED  BY <1>3, <1>4

-----------------------------------------------------------------------------
(* Input *)

LEMMA Keeps ==
  ASSUME TypeInv, NEW t, NEW n, ctl' = t, native' = n, n \in NativeType,
         unshown' \subseteq t.paintedObjectIds, Typed(t), Inv => InvAt(t, t.at, n)
  PROVE  TypeInv' /\ (Inv => Inv')
BY DEF TypeInv, Typed, Inv

LEMMA InputKeeps ==
  ASSUME TypeInv, NEW t, Input(t), Typed(t), t.paintedObjectIds = ctl.paintedObjectIds,
         Inv => InvAt(t, t.at, native)
  PROVE  TypeInv' /\ (Inv => Inv')
<1>1. ctl' = t /\ native' = native /\ unshown' \subseteq t.paintedObjectIds /\ native \in NativeType
  BY DEF Input, TypeInv
<1> QED  BY <1>1, Keeps

\* Input that the invariant does not notice.
LEMMA UnnoticedKeeps ==
  ASSUME TypeInv, NEW t \in ControllerType, Input(t), Same(ctl, t), t.at = ctl.at
  PROVE  TypeInv' /\ (Inv => Inv')
<1>1. Typed(t) /\ t.paintedObjectIds = ctl.paintedObjectIds
  BY DEF TypeInv, Typed, HeadOK, First, Same, Drawn
<1>2. Inv => InvAt(t, t.at, native)
  BY SameIsEnough DEF Inv
<1> QED  BY <1>1, <1>2, InputKeeps

LEMMA NoneFits ==
  ASSUME NEW at \in Stages, StageOf(None, at)
  PROVE  at = "queued"
BY DEF Stages, StageOf, None

LEMMA JoinIs ==
  ASSUME NEW u \in ControllerType, NEW o \in OpType, HeadOK(u)
  PROVE  LET t == [u EXCEPT !.lane = Append(@, o)]
         IN /\ Typed(t) /\ Drawn(u, t) /\ Seen(u, t) /\ t.frame = u.frame
            /\ t.projectOperations = u.projectOperations /\ t.at = u.at /\ Joined(u, t, o)
<1> DEFINE t == [u EXCEPT !.lane = Append(@, o)]
<1>1. /\ Drawn(u, t) /\ Seen(u, t) /\ t.frame = u.frame
      /\ t.projectOperations = u.projectOperations /\ t.at = u.at
      /\ t.lane = Append(u.lane, o)
  BY DEF ControllerType, Drawn, Seen
<1>2. Joined(u, t, o)
  BY <1>1, Joins
<1>3. t \in ControllerType
  <2>1. Append(u.lane, o) \in Seq(OpType)
    BY <1>1, <1>2 DEF Joined
  <2> QED  BY <2>1 DEF ControllerType
<1> HIDE DEF t
<1>4. HeadOK(t)
  <2>1. CASE u.lane = <<>>
    <3>1. u.at = "queued"
      BY <2>1, NoneFits, Views DEF HeadOK, ControllerType
    <3> QED  BY <1>1, <3>1, QueuedFits DEF HeadOK
  <2>2. CASE u.lane # <<>>
    BY <1>1, <1>2, <2>2 DEF Joined, HeadOK, Drawn
  <2> QED  BY <2>1, <2>2
<1> QED  BY <1>1, <1>2, <1>3, <1>4 DEF Typed, t

\* An operation that reserves a lane that nobody holds.
LEMMA ReserveIs ==
  ASSUME NEW s \in ControllerType, LaneOK(s), Holder(s) = None, NEW o \in OpType,
         o.kind # "display", NEW t \in ControllerType, Joined(s, t, o)
  PROVE  /\ Len(t.lane) <= 2 /\ Holder(t) = o.kind /\ t.lane # <<>>
         /\ First(t) \in {"display", o.kind} /\ Second(t) \in {None, o.kind}
         /\ Second(t) = o.kind <=> First(t) = "display"
         /\ First(t) = "display" <=> First(s) = "display"
         /\ First(t) = o.kind => s.lane = <<>>
         /\ From(t) = IF o.kind = "close" THEN o.from ELSE None
         /\ s.projectOperations = 0
<1>1. o.kind \in Kinds /\ o.kind # None
  BY DEF OpType, Kinds, None
<1>2. First(s) \in {None, "display"} /\ Second(s) = None /\ From(s) = None
  BY Views DEF LaneOK, Holder, From, None
<1>3. Len(s.lane) \in Nat /\ Len(s.lane) <= 1 /\ (s.lane = <<>> <=> First(s) = None) /\ Len(t.lane) = Len(s.lane) + 1
  BY <1>2, Views DEF Joined
<1>4. Len(t.lane) <= 2
  <2>1. \A k \in Nat : k <= 1 => k + 1 <= 2
    OBVIOUS
  <2> QED  BY <1>3, <2>1
<1>5. s.lane # <<>> => Len(s.lane) = 1
  <2>1. \A k \in Nat : k <= 1 => k = 0 \/ k = 1
    OBVIOUS
  <2>2. Len(s.lane) = 0 => s.lane = <<>>
    BY Lanes, Views
  <2> QED  BY <1>3, <2>1, <2>2
<1>6. /\ First(t) = IF s.lane = <<>> THEN o.kind ELSE "display"
      /\ Second(t) = IF s.lane = <<>> THEN None ELSE o.kind
  BY <1>2, <1>3, <1>5 DEF Joined
<1>7. From(t) = IF o.kind = "close" THEN o.from ELSE None
  BY <1>2, <1>3 DEF Joined
<1>8. t.lane # <<>>
  BY <1>1, <1>6, Views DEF None
<1>9. s.projectOperations = 0
  BY DEF LaneOK, None
<1> QED  BY <1>1, <1>2, <1>3, <1>4, <1>6, <1>7, <1>8, <1>9 DEF Holder, None

\* Who may reserve the lane, and with which phase and terminal.
Reserves(s, t, o) ==
  /\ t.terminal = s.terminal \/ o.kind \in {"press", "terminal"}
  /\ t.projectOperations = IF o.kind = "project" THEN s.projectOperations + 1 ELSE s.projectOperations
  /\ \/ o.kind = "open" /\ s.phase = "closed" /\ t.phase = "opening"
     \/ o.kind \in {"target", "project"} /\ s.phase = "idle" /\ t.phase = "opening"
     \/ o.kind = "close" /\ s.phase \in {"idle", "error"} /\ o.from = s.phase /\ t.phase = "closing"
     \/ o.kind \in {"gap", "eraseAll"} /\ s.phase = "idle" /\ t.phase = "drawing"
     \/ o.kind = "press" /\ s.phase = "idle" /\ t.phase = "drawing" /\ t.terminal = None
     \/ o.kind = "move" /\ s.phase = "drawing" /\ t.phase = "drawing" /\ s.lane = <<>>
     \/ /\ o.kind = "terminal" /\ s.phase \in {"drawing", "ending", "cancelling"} /\ s.lane = <<>>
        /\ t.phase \in {"ending", "cancelling"} /\ t.terminal # None

LEMMA ReserveKeeps ==
  ASSUME NEW s \in ControllerType, HeadOK(s), NEW n, InvAt(s, s.at, n), NEW o \in OpType,
         NEW t \in ControllerType, Joined(s, t, o), Reserves(s, t, o), Seen(s, t),
         t.session = s.session, t.historyId = s.historyId,
         t.paintedObjectIds = s.paintedObjectIds, t.frame = s.frame
  PROVE  InvAt(t, t.at, n)
<1>1. LaneOK(s) /\ NativeOK(s, n) /\ SessionOK(s, s.at) /\ StrokeOK(s, s.at) /\ DisplayOK(s, s.at)
  BY DEF InvAt
<1>2. o.kind # "display" /\ o.kind \in Kinds /\ t.at = s.at
  BY DEF Reserves, OpType, Joined
<1>3. Holder(s) = None
  <2>1. s.lane = <<>> => First(s) = None
    BY Views
  <2>2. Holder(s) \in Kinds \cup {None} /\ Holder(s) # "display"
    BY <1>1, Views DEF Holder, LaneOK, None
  <2> QED  BY <1>1, <2>1, <2>2 DEF LaneOK, Reserves, Kinds, Holder, None
<1>4. /\ Len(t.lane) <= 2 /\ Holder(t) = o.kind /\ t.lane # <<>>
      /\ First(t) \in {"display", o.kind} /\ Second(t) \in {None, o.kind}
      /\ Second(t) = o.kind <=> First(t) = "display"
      /\ First(t) = "display" <=> First(s) = "display"
      /\ First(t) = o.kind => s.lane = <<>>
      /\ From(t) = IF o.kind = "close" THEN o.from ELSE None
      /\ s.projectOperations = 0
  BY <1>1, <1>2, <1>3, ReserveIs
<1>5. s.lane = <<>> => s.at = "queued"
  BY NoneFits, Views DEF HeadOK, ControllerType
<1>6. s.at \in DisplayStages
  <2>1. CASE s.lane = <<>>
    BY <1>5, <2>1 DEF DisplayStages
  <2>2. CASE s.lane # <<>>
    BY <1>3, <2>2, Views DEF Holder, HeadOK, StageOf, ControllerType, Stages, DisplayStages, None
  <2> QED  BY <2>1, <2>2
<1>7. LaneOK(t)
  <2>1. t.projectOperations = IF Holder(t) = "project" THEN 1 ELSE 0
    BY <1>4 DEF Reserves
  <2>2. First(t) = "display" \/ Second(t) = "display" => ~t.frame
    BY <1>1, <1>2, <1>4 DEF LaneOK, None
  <2>3. /\ Second(t) # "display"
        /\ Second(t) # None =>
             /\ First(t) = "display" /\ s.lane # <<>>
             /\ Second(t) \in {"target", "project", "close", "press", "gap", "eraseAll"}
    <3>1. First(t) = "display" => s.lane # <<>> /\ s.phase # "closed"
      BY <1>1, <1>4, Views DEF LaneOK, None
    <3> QED  BY <1>2, <1>4, <3>1 DEF Reserves, None
  <2>4. /\ o.kind # None /\ t.phase # "closed"
        /\ o.kind \in {"open", "target", "project"} => t.phase = "opening"
        /\ o.kind = "close" => t.phase = "closing"
        /\ o.kind \in {"press", "move", "gap", "eraseAll"} => t.phase \in {"drawing", "ending", "cancelling"}
        /\ o.kind = "terminal" => t.phase \in {"ending", "cancelling"}
    BY DEF Reserves, None
  <2> QED  BY <1>4, <2>1, <2>2, <2>3, <2>4 DEF LaneOK
<1>8. NativeOK(t, n)
  BY <1>1 DEF NativeOK
<1>9. SessionOK(t, t.at)
  BY <1>1, <1>2, <1>3, <1>4, <1>5, <1>6 DEF SessionOK, StrokeOK, Reserves, DisplayStages, None
<1>10. StrokeOK(t, t.at)
  BY <1>1, <1>2, <1>3, <1>4, <1>5, <1>6 DEF SessionOK, StrokeOK, Reserves, DisplayStages, None
<1>11. DisplayOK(t, t.at)
  BY <1>1, <1>2, <1>4 DEF DisplayOK, Seen, displayMatchesTarget
<1> QED  BY <1>7, <1>8, <1>9, <1>10, <1>11 DEF InvAt

\* The controller before an operation joins the lane: another phase, terminal or count.
Base(s, u) ==
  /\ u \in ControllerType /\ Seen(s, u) /\ u.lane = s.lane /\ u.at = s.at /\ u.frame = s.frame
  /\ u.session = s.session /\ u.historyId = s.historyId
  /\ u.paintedObjectIds = s.paintedObjectIds

LEMMA EnterKeeps ==
  ASSUME TypeInv, NEW u, Base(ctl, u), NEW o \in OpType, NEW t,
         t = [u EXCEPT !.lane = Append(@, o)], Input(t), Inv => Reserves(ctl, u, o)
  PROVE  TypeInv' /\ (Inv => Inv')
<1>1. ctl \in ControllerType /\ HeadOK(ctl) /\ u \in ControllerType /\ HeadOK(u)
  BY DEF TypeInv, Base, HeadOK, First
<1>2. /\ Typed(t) /\ Drawn(u, t) /\ Seen(u, t) /\ t.frame = u.frame
      /\ t.projectOperations = u.projectOperations /\ t.at = u.at /\ Joined(u, t, o)
  BY <1>1, JoinIs
<1>3. Joined(ctl, t, o)
  BY ZenonT(60), <1>2 DEF Joined, Base, First, Second, From
<1>4. /\ t.session = ctl.session /\ t.historyId = ctl.historyId
      /\ t.paintedObjectIds = ctl.paintedObjectIds /\ t.frame = ctl.frame /\ Seen(ctl, t)
  BY <1>2 DEF Base, Drawn, Seen
<1>5. Inv => Reserves(ctl, t, o)
  BY <1>2 DEF Reserves, Drawn
<1>6. Inv => InvAt(t, t.at, native)
  BY <1>1, <1>2, <1>3, <1>4, <1>5, ReserveKeeps DEF Inv, Typed
<1> QED  BY <1>2, <1>4, <1>6, InputKeeps

LEMMA OpsAre ==
  ASSUME NEW kind \in Kinds \ {"open", "target", "close"}
  PROVE  Op(kind, None, None, None) \in OpType /\ Op(kind, None, None, None).kind = kind
BY NoneAssumption DEF Op, OpType, Kinds, None

LEMMA OpenKeeps ==
  ASSUME TypeInv, NEW i \in Targets, NEW c \in Channels, open(i, c)
  PROVE  TypeInv' /\ (Inv => Inv')
<1> DEFINE o == Op("open", i, c, None)
           u == [ctl EXCEPT !.channel = c, !.phase = "opening", !.error = FALSE]
           t == Opening(ctl, i, c)
<1>1. o \in OpType /\ o.kind = "open"
  BY NoneAssumption DEF OpType, Op, Kinds, None
<1>2. t = [u EXCEPT !.lane = Append(@, o)] /\ Input(t) /\ ctl.phase = "closed" /\ ctl \in ControllerType
  BY DEF Opening, open, TypeInv
<1> HIDE DEF o, t
<1>3. /\ Base(ctl, u) /\ u.phase = "opening" /\ u.terminal = ctl.terminal
      /\ u.projectOperations = ctl.projectOperations
  BY <1>2 DEF ControllerType, Phases, Base, Seen
<1> HIDE DEF u
<1>4. Reserves(ctl, u, o)
  BY <1>1, <1>2, <1>3 DEF Reserves
<1> QED  BY <1>1, <1>2, <1>3, <1>4, EnterKeeps

LEMMA ClosingKeeps ==
  ASSUME TypeInv, NEW s, s = ctl \/ s = [ctl EXCEPT !.switching = TRUE],
         NEW i \in Targets \cup {None}, NEW c \in Channels \cup {None}, c # None => i \in Targets,
         Input(Closing(s, i, c)), ctl.phase \in {"idle", "error"}
  PROVE  TypeInv' /\ (Inv => Inv')
<1> DEFINE o == Op("close", i, c, s.phase)
           v == InvalidateIfPreviews(s)
           u == [v EXCEPT !.phase = "closing"]
           t == Closing(s, i, c)
<1>1. s \in ControllerType /\ Like(ctl, s)
  BY ZenonT(60) DEF TypeInv, ControllerType, Like, Drawn, Seen, Queued
<1>2. o \in OpType /\ o.kind = "close" /\ o.from = ctl.phase
  <2>1. s.phase = ctl.phase
    BY <1>1 DEF Like, Drawn
  <2> QED  BY <2>1, NoneAssumption DEF OpType, Op, Kinds, Phases, None
<1>3. t = [u EXCEPT !.lane = Append(@, o)]
  BY DEF Closing
<1>4. Like(s, v)
  BY <1>1, InvalidateIfIs
<1> HIDE DEF o, t, v
<1>5. v \in ControllerType /\ Like(ctl, v)
  BY <1>1, <1>4 DEF Like, Drawn, Seen, Queued
<1>6. /\ u \in ControllerType /\ u.phase = "closing" /\ u.terminal = v.terminal
      /\ u.projectOperations = v.projectOperations /\ Seen(v, u) /\ u.lane = v.lane
      /\ u.at = v.at /\ u.frame = v.frame /\ u.session = v.session
      /\ u.historyId = v.historyId /\ u.paintedObjectIds = v.paintedObjectIds
  BY <1>5 DEF ControllerType, Phases, Seen
<1> HIDE DEF u
<1>7. /\ Base(ctl, u) /\ u.phase = "closing" /\ u.terminal = ctl.terminal
      /\ u.projectOperations = ctl.projectOperations
  BY <1>5, <1>6 DEF Base, Like, Drawn, Seen, Queued
<1>8. Reserves(ctl, u, o)
  BY <1>2, <1>7 DEF Reserves
<1>9. Input(t)
  BY DEF t
<1> QED  BY <1>2, <1>3, <1>7, <1>8, <1>9, EnterKeeps

LEMMA OpenOtherKeeps ==
  ASSUME TypeInv, NEW i \in Targets, NEW c \in Channels, openOther(i, c)
  PROVE  TypeInv' /\ (Inv => Inv')
BY ClosingKeeps DEF openOther

LEMMA CloseKeeps ==
  ASSUME TypeInv, close
  PROVE  TypeInv' /\ (Inv => Inv')
BY ClosingKeeps DEF close

LEMMA TargetKeeps ==
  ASSUME TypeInv, NEW i \in Targets, target(i)
  PROVE  TypeInv' /\ (Inv => Inv')
<1> DEFINE o == Op("target", i, None, None)
           v == InvalidateIfPreviews(ctl)
           u == [v EXCEPT !.phase = "opening"]
           t == [u EXCEPT !.lane = Append(@, o)]
<1>1. o \in OpType /\ o.kind = "target"
  BY NoneAssumption DEF OpType, Op, Kinds, None
<1>2. Input(t) /\ ctl.phase = "idle"
  BY DEF target
<1>3. Like(ctl, v) /\ v \in ControllerType
  BY InvalidateIfIs DEF TypeInv, Like
<1> HIDE DEF o, v
<1>4. /\ u \in ControllerType /\ u.phase = "opening" /\ u.terminal = v.terminal
      /\ u.projectOperations = v.projectOperations /\ Seen(v, u) /\ u.lane = v.lane
      /\ u.at = v.at /\ u.frame = v.frame /\ u.session = v.session
      /\ u.historyId = v.historyId /\ u.paintedObjectIds = v.paintedObjectIds
  BY <1>3 DEF ControllerType, Phases, Seen
<1> HIDE DEF u
<1>5. /\ Base(ctl, u) /\ u.phase = "opening" /\ u.terminal = ctl.terminal
      /\ u.projectOperations = ctl.projectOperations
  BY <1>3, <1>4 DEF Base, Like, Drawn, Seen, Queued
<1>6. Reserves(ctl, u, o)
  BY <1>1, <1>2, <1>5 DEF Reserves
<1>7. t = [u EXCEPT !.lane = Append(@, o)]
  OBVIOUS
<1> HIDE DEF t
<1> QED  BY <1>1, <1>2, <1>5, <1>6, <1>7, EnterKeeps

\* Input that only asks for a new reading.
LEMMA ScheduledKeeps ==
  ASSUME TypeInv, NEW u \in ControllerType, Same(ctl, u), u.at = ctl.at, Input(scheduleDisplay(u))
  PROVE  TypeInv' /\ (Inv => Inv')
<1> DEFINE t == scheduleDisplay(u)
<1>1. /\ t \in ControllerType /\ Drawn(u, t) /\ Seen(u, t) /\ Queued(u, t)
      /\ u.frame => t.frame
      /\ u.lane # <<>> => t.frame = u.frame
  BY ScheduleIs
<1>2. Input(t)
  OBVIOUS
<1> HIDE DEF t
<1>3. /\ First(t) = First(u) /\ Second(t) = Second(u) /\ From(t) = From(u) /\ Holder(t) = Holder(u)
      /\ First(t) = First(ctl) /\ t.at = ctl.at
  BY <1>1 DEF Queued, First, Second, From, Holder, Same
<1>4. Typed(t) /\ t.paintedObjectIds = ctl.paintedObjectIds
  BY <1>1, <1>3 DEF TypeInv, Typed, HeadOK, Same, Drawn
<1>5. ASSUME Inv
      PROVE  InvAt(t, t.at, native)
  <2>1. InvAt(u, t.at, native)
    BY <1>3, <1>5, SameIsEnough DEF Inv
  <2>2. First(u) = "display" \/ Second(u) = "display" => t.frame = u.frame
    BY <1>1, Views DEF None
  <2>3. LaneOK(t) /\ NativeOK(t, native)
    BY <1>1, <1>3, <2>1, <2>2 DEF InvAt, LaneOK, NativeOK, Drawn, Queued
  <2>4. SessionOK(t, t.at) /\ StrokeOK(t, t.at)
    BY <1>1, <1>3, <2>1 DEF InvAt, SessionOK, StrokeOK, Drawn, Queued
  <2>5. DisplayOK(t, t.at)
    BY <1>1, <2>1 DEF InvAt, DisplayOK, displayMatchesTarget, Drawn, Seen, Queued
  <2> QED  BY <2>3, <2>4, <2>5 DEF InvAt
<1> QED  BY <1>2, <1>4, <1>5, InputKeeps

LEMMA SetToolKeeps ==
  ASSUME TypeInv, NEW tool \in {"brush", "pointer", "static"}, setTool(tool)
  PROVE  TypeInv' /\ (Inv => Inv')
<1> DEFINE v == advancePreview(ctl)
           b == tool # "brush"
           u == [v EXCEPT !.tools[ctl.channel] = tool, !.previewDirty = b]
<1>1. Like(ctl, v) /\ v \in ControllerType
  BY AdvanceIs DEF TypeInv, Like
<1>2. Input(scheduleDisplay(u)) /\ b \in BOOLEAN
  BY DEF setTool
<1> HIDE DEF v, b
<1>3. u \in ControllerType
  BY <1>1, <1>2 DEF ControllerType
<1>4. Same(v, u) /\ u.at = v.at
  BY <1>1 DEF ControllerType, Same, Drawn, Seen
<1> HIDE DEF u
<1>5. Same(ctl, u) /\ u.at = ctl.at
  BY <1>1, <1>4 DEF Like, Same, Drawn, Seen, Queued
<1> QED  BY <1>2, <1>3, <1>5, ScheduledKeeps

LEMMA SetSettingsKeeps ==
  ASSUME TypeInv, setSettings
  PROVE  TypeInv' /\ (Inv => Inv')
<1> DEFINE v == advancePreview(ctl)
           u == [v EXCEPT !.previewDirty = TRUE]
<1>1. Like(ctl, v) /\ v \in ControllerType
  BY AdvanceIs DEF TypeInv, Like
<1>2. Input(scheduleDisplay(u))
  BY DEF setSettings
<1> HIDE DEF v
<1>3. u \in ControllerType /\ Same(v, u) /\ u.at = v.at
  BY <1>1 DEF ControllerType, Same, Drawn, Seen
<1> HIDE DEF u
<1>4. Same(ctl, u) /\ u.at = ctl.at
  BY <1>1, <1>3 DEF Like, Same, Drawn, Seen, Queued
<1> QED  BY <1>2, <1>3, <1>4, ScheduledKeeps

LEMMA HoverAtKeeps ==
  ASSUME TypeInv, NEW inside \in BOOLEAN, hoverAt(inside)
  PROVE  TypeInv' /\ (Inv => Inv')
<1> DEFINE v == advancePreview(ctl)
           u == [v EXCEPT !.hover = inside, !.previewDirty = TRUE]
<1>1. Like(ctl, v) /\ v \in ControllerType
  BY AdvanceIs DEF TypeInv, Like
<1>2. Input(scheduleDisplay(u))
  BY DEF hoverAt
<1> HIDE DEF v
<1>3. u \in ControllerType /\ Same(v, u) /\ u.at = v.at
  BY <1>1 DEF ControllerType, Same, Drawn, Seen
<1> HIDE DEF u
<1>4. Same(ctl, u) /\ u.at = ctl.at
  BY <1>1, <1>3 DEF Like, Same, Drawn, Seen, Queued
<1> QED  BY <1>2, <1>3, <1>4, ScheduledKeeps

LEMMA PressKeeps ==
  ASSUME TypeInv, press
  PROVE  TypeInv' /\ (Inv => Inv')
<1> DEFINE o == Op("press", None, None, None)
           v == Hovers(ctl)
           u == [v EXCEPT !.terminal = None, !.phase = "drawing", !.error = FALSE,
                          !.gesture = "pending"]
           t == [u EXCEPT !.lane = Append(@, o)]
<1>1. o \in OpType /\ o.kind = "press"
  BY OpsAre DEF Kinds
<1>2. Input(t) /\ ctl.phase = "idle"
  BY DEF press, exclusive
<1>3. Like(ctl, v) /\ v \in ControllerType
  BY HoversIs DEF TypeInv, Like
<1> HIDE DEF o, v
<1>4. u \in ControllerType /\ u.phase = "drawing" /\ u.terminal = None
  BY ZenonT(60), <1>3 DEF ControllerType, Phases, Terminals
<1>5. /\ u.projectOperations = v.projectOperations /\ Seen(v, u) /\ u.lane = v.lane
      /\ u.at = v.at /\ u.frame = v.frame /\ u.session = v.session
      /\ u.historyId = v.historyId /\ u.paintedObjectIds = v.paintedObjectIds
  BY <1>3 DEF ControllerType, Seen
<1> HIDE DEF u
<1>6. Base(ctl, u) /\ u.projectOperations = ctl.projectOperations
  BY <1>3, <1>4, <1>5 DEF Base, Like, Drawn, Seen, Queued
<1>7. Reserves(ctl, u, o)
  BY <1>1, <1>2, <1>4, <1>6 DEF Reserves
<1>8. t = [u EXCEPT !.lane = Append(@, o)]
  OBVIOUS
<1> HIDE DEF t
<1> QED  BY <1>1, <1>2, <1>6, <1>7, <1>8, EnterKeeps

LEMMA MoveKeeps ==
  ASSUME TypeInv, move
  PROVE  TypeInv' /\ (Inv => Inv')
<1> DEFINE o == Op("move", None, None, None)
           u == Hovers(ctl)
           t == [u EXCEPT !.lane = Append(@, o)]
<1>1. o \in OpType /\ o.kind = "move"
  BY OpsAre DEF Kinds
<1>2. Input(t) /\ ctl.phase = "drawing" /\ ctl.lane = <<>>
  BY DEF move, exclusive
<1>3. Like(ctl, u)
  BY HoversIs DEF TypeInv
<1> HIDE DEF o, u
<1>4. Base(ctl, u) /\ Reserves(ctl, u, o)
  BY <1>1, <1>2, <1>3 DEF Base, Reserves, Like, Drawn, Queued
<1>5. t = [u EXCEPT !.lane = Append(@, o)]
  OBVIOUS
<1> HIDE DEF t
<1> QED  BY <1>1, <1>2, <1>4, <1>5, EnterKeeps

LEMMA ApplyKeeps ==
  ASSUME TypeInv, NEW kind \in {"gap", "eraseAll"}, apply(kind)
  PROVE  TypeInv' /\ (Inv => Inv')
<1> DEFINE o == Op(kind, None, None, None)
           v == advancePreview(ctl)
           u == [v EXCEPT !.phase = "drawing", !.error = FALSE]
           t == [u EXCEPT !.lane = Append(@, o)]
<1>1. o \in OpType /\ o.kind = kind
  BY OpsAre DEF Kinds
<1>2. Input(t) /\ ctl.phase = "idle"
  BY DEF apply, exclusive
<1>3. Like(ctl, v) /\ v \in ControllerType
  BY AdvanceIs DEF TypeInv, Like
<1> HIDE DEF o, v
<1>4. u \in ControllerType /\ u.phase = "drawing"
  BY <1>3 DEF ControllerType, Phases
<1>5. /\ u.projectOperations = v.projectOperations /\ Seen(v, u) /\ u.lane = v.lane
      /\ u.at = v.at /\ u.frame = v.frame /\ u.session = v.session /\ u.terminal = v.terminal
      /\ u.historyId = v.historyId /\ u.paintedObjectIds = v.paintedObjectIds
  BY <1>3 DEF ControllerType, Seen
<1> HIDE DEF u
<1>6. /\ Base(ctl, u) /\ u.projectOperations = ctl.projectOperations
      /\ u.terminal = ctl.terminal
  BY <1>3, <1>4, <1>5 DEF Base, Like, Drawn, Seen, Queued
<1>7. Reserves(ctl, u, o)
  BY <1>1, <1>2, <1>4, <1>6 DEF Reserves
<1>8. t = [u EXCEPT !.lane = Append(@, o)]
  OBVIOUS
<1> HIDE DEF t
<1> QED  BY <1>1, <1>2, <1>6, <1>7, <1>8, EnterKeeps

\* A project command: Inv needs that there is no other one.
LEMMA ProjectOperationKeeps ==
  ASSUME TypeInv, projectOperation
  PROVE  TypeInv' /\ (Alone /\ Inv => Inv')
<1> DEFINE o == Op("project", None, None, None)
           v == IF Previews(ctl) THEN advancePreview(ctl) ELSE ctl
           n == v.projectOperations + 1
           u == [v EXCEPT !.projectOperations = n, !.phase = "opening"]
           t == [u EXCEPT !.lane = Append(@, o)]
<1>1. o \in OpType /\ o.kind = "project"
  BY OpsAre DEF Kinds
<1>2. Input(t) /\ active(ctl) /\ commandAllowed(ctl) /\ ctl.projectOperations < MaxProject
  BY DEF projectOperation, exclusive
<1>3. Like(ctl, v) /\ v \in ControllerType
  BY AdvanceIs DEF TypeInv, Like, Drawn, Seen, Queued
<1> HIDE DEF o, v
<1>4. n = ctl.projectOperations + 1 /\ n \in Int
  BY <1>3 DEF Like, Queued, ControllerType
<1> HIDE DEF n
<1>5. u \in ControllerType /\ u.phase = "opening" /\ u.projectOperations = n
  BY <1>3, <1>4 DEF ControllerType, Phases
<1>6. /\ Seen(v, u) /\ u.lane = v.lane
      /\ u.at = v.at /\ u.frame = v.frame /\ u.session = v.session /\ u.terminal = v.terminal
      /\ u.historyId = v.historyId /\ u.paintedObjectIds = v.paintedObjectIds
  BY <1>3 DEF ControllerType, Seen
<1> HIDE DEF u
<1>7. Base(ctl, u) /\ u.terminal = ctl.terminal
  BY <1>3, <1>5, <1>6 DEF Base, Like, Drawn, Seen, Queued
<1>8. ASSUME Alone, Inv
      PROVE  Reserves(ctl, u, o)
  <2>1. ctl.projectOperations = 0
    <3>1. ctl.projectOperations \in {0, 1}
      BY <1>8 DEF Inv, InvAt, LaneOK
    <3>2. CASE MaxProject <= 1
      BY <1>2, <3>1, <3>2, PaintingAssumption
    <3>3. CASE OneProject'
      <4>1. ctl' = t /\ t.projectOperations = u.projectOperations
        BY <1>2, <1>5 DEF Input, ControllerType
      <4> QED  BY <1>4, <1>5, <3>1, <3>3, <4>1 DEF OneProject
    <3> QED  BY <1>8, <3>2, <3>3 DEF Alone
  <2>2. ctl.phase = "idle"
    BY <1>2, <2>1 DEF active, commandAllowed
  <2> QED  BY <1>1, <1>4, <1>5, <1>7, <2>2 DEF Reserves
<1>9. t = [u EXCEPT !.lane = Append(@, o)]
  OBVIOUS
<1> HIDE DEF t
<1>10. TypeInv'
  <2>1. HeadOK(u) /\ u \in ControllerType
    BY <1>7 DEF TypeInv, Base, HeadOK, First
  <2>2. Typed(t) /\ Drawn(u, t)
    BY <1>1, <1>9, <2>1, JoinIs
  <2> QED  BY <1>2, <1>7, <2>2 DEF Input, TypeInv, Typed, Drawn, Base
<1>11. Alone /\ Inv => Inv'
  <2>1. ASSUME Alone, Inv
        PROVE  Inv'
    BY <1>1, <1>2, <1>7, <1>8, <1>9, <2>1, EnterKeeps
  <2> QED  BY <2>1
<1> QED  BY <1>10, <1>11

\* A stroke gets its terminal; an idle lane gets an operation for it.
LEMMA TerminalKeeps ==
  ASSUME TypeInv, NEW u, Base(ctl, u), u.projectOperations = ctl.projectOperations,
         u.phase \in {"ending", "cancelling"}, u.terminal # None,
         unfinished(ctl), Input(startTerminal(u))
  PROVE  TypeInv' /\ (Inv => Inv')
<1> DEFINE o == Op("terminal", None, None, None)
           t == [u EXCEPT !.lane = Append(@, o)]
<1>1. o \in OpType /\ o.kind = "terminal"
  BY OpsAre DEF Kinds
<1>2. u.lane = ctl.lane /\ ctl.phase \in {"drawing", "ending", "cancelling"}
  BY DEF Base, unfinished
<1>3. CASE u.lane = <<>>
  <2>1. Input(t)
    BY <1>3 DEF startTerminal, exclusive
  <2>2. Reserves(ctl, u, o)
    BY <1>1, <1>2, <1>3 DEF Reserves
  <2>3. t = [u EXCEPT !.lane = Append(@, o)]
    OBVIOUS
  <2> HIDE DEF o, t
  <2> QED  BY <1>1, <2>1, <2>2, <2>3, EnterKeeps
<1>4. CASE u.lane # <<>>
  <2>1. Input(u)
    BY <1>4 DEF startTerminal
  <2>2. /\ First(u) = First(ctl) /\ Second(u) = Second(ctl) /\ From(u) = From(ctl)
        /\ Holder(u) = Holder(ctl) /\ u.at = ctl.at
    BY DEF Base, First, Second, From, Holder
  <2>3. Typed(u) /\ u.paintedObjectIds = ctl.paintedObjectIds
    BY <2>2 DEF TypeInv, Base, Typed, HeadOK
  <2>4. ASSUME Inv
        PROVE  InvAt(u, u.at, native)
    <3>1. InvAt(ctl, ctl.at, native)
      BY <2>4 DEF Inv
    <3>2. Holder(ctl) \in {None, "press", "move", "terminal", "gap", "eraseAll"}
      <4>1. Holder(ctl) \in Kinds \cup {None} /\ Holder(ctl) # "display"
        BY <3>1, Views DEF TypeInv, InvAt, LaneOK, Holder, None
      <4> QED  BY <1>2, <3>1, <4>1 DEF InvAt, LaneOK, Kinds
    <3>3. LaneOK(u)
      BY <1>2, <2>2, <3>1, <3>2 DEF InvAt, LaneOK, Base, None
    <3>4. NativeOK(u, native)
      BY <3>1 DEF InvAt, NativeOK, Base
    <3>5. SessionOK(u, u.at)
      BY <1>2, <2>2, <3>1, <3>2 DEF InvAt, SessionOK, Base, None
    <3>6. StrokeOK(u, u.at)
      BY <1>2, <1>4, <2>2, <3>1 DEF InvAt, StrokeOK, Base
    <3>7. DisplayOK(u, u.at)
      BY <1>4, <2>2, <3>1 DEF InvAt, DisplayOK, Base, Seen, displayMatchesTarget
    <3> QED  BY <3>3, <3>4, <3>5, <3>6, <3>7 DEF InvAt
  <2> QED  BY <2>1, <2>3, <2>4, InputKeeps
<1> QED  BY <1>3, <1>4

LEMMA ReleaseKeeps ==
  ASSUME TypeInv, NEW sampled \in BOOLEAN, release(sampled)
  PROVE  TypeInv' /\ (Inv => Inv')
<1> DEFINE s == [ctl EXCEPT !.gesture = "none"]
           h == IF sampled THEN Hovers(s) ELSE s
           k == IF sampled THEN "sampledCommit" ELSE "commit"
           u == [h EXCEPT !.terminal = k, !.phase = "ending"]
<1>1. s \in ControllerType /\ Like(ctl, s)
  BY DEF TypeInv, ControllerType, Like, Drawn, Seen, Queued
<1>2. \/ Input(s)
      \/ unfinished(ctl) /\ Input(startTerminal(u))
  BY DEF release
<1> HIDE DEF s
<1>3. Like(s, h)
  BY <1>1, HoversIs DEF Like, Drawn, Seen, Queued
<1>4. k \in Terminals /\ k # None
  BY DEF Terminals, None
<1> HIDE DEF h, k
<1>5. h \in ControllerType /\ Like(ctl, h)
  BY <1>1, <1>3 DEF Like, Drawn, Seen, Queued
<1>6. u \in ControllerType /\ u.terminal = k /\ u.phase = "ending"
  BY <1>4, <1>5 DEF ControllerType, Phases
<1>7. /\ Seen(h, u) /\ u.lane = h.lane /\ u.projectOperations = h.projectOperations
      /\ u.at = h.at /\ u.frame = h.frame /\ u.session = h.session
      /\ u.historyId = h.historyId /\ u.paintedObjectIds = h.paintedObjectIds
  BY <1>5 DEF ControllerType, Seen
<1> HIDE DEF u
<1>8. Base(ctl, u) /\ u.projectOperations = ctl.projectOperations
  BY <1>5, <1>6, <1>7 DEF Base, Like, Drawn, Seen, Queued
<1>9. CASE Input(s)
  BY <1>1, <1>9, LikeIsSame, UnnoticedKeeps
<1>10. CASE unfinished(ctl) /\ Input(startTerminal(u))
  BY <1>4, <1>6, <1>8, <1>10, TerminalKeeps
<1> QED  BY <1>2, <1>9, <1>10

LEMMA CancelKeeps ==
  ASSUME TypeInv, cancel
  PROVE  TypeInv' /\ (Inv => Inv')
<1> DEFINE s == [ctl EXCEPT !.gesture = "none"]
           h == InvalidateIfPreviews(s)
           u == [h EXCEPT !.terminal = "cancel", !.phase = "cancelling"]
<1>1. s \in ControllerType /\ Like(ctl, s)
  BY DEF TypeInv, ControllerType, Like, Drawn, Seen, Queued
<1>2. unfinished(ctl) /\ (Input(s) \/ Input(startTerminal(u)))
  BY DEF cancel
<1> HIDE DEF s
<1>3. Like(s, h)
  BY <1>1, InvalidateIfIs
<1> HIDE DEF h
<1>4. h \in ControllerType /\ Like(ctl, h)
  BY <1>1, <1>3 DEF Like, Drawn, Seen, Queued
<1>5. u \in ControllerType /\ u.terminal = "cancel" /\ u.phase = "cancelling" /\ u.terminal # None
  BY ZenonT(60), <1>4 DEF ControllerType, Phases, Terminals, None
<1>6. /\ Seen(h, u) /\ u.lane = h.lane /\ u.projectOperations = h.projectOperations
      /\ u.at = h.at /\ u.frame = h.frame /\ u.session = h.session
      /\ u.historyId = h.historyId /\ u.paintedObjectIds = h.paintedObjectIds
  BY <1>4 DEF ControllerType, Seen
<1> HIDE DEF u
<1>7. Base(ctl, u) /\ u.projectOperations = ctl.projectOperations
  BY <1>4, <1>5, <1>6 DEF Base, Like, Drawn, Seen, Queued
<1>8. CASE Input(s)
  BY <1>1, <1>8, LikeIsSame, UnnoticedKeeps
<1>9. CASE Input(startTerminal(u))
  BY <1>2, <1>5, <1>7, <1>9, TerminalKeeps
<1> QED  BY <1>2, <1>8, <1>9

\* The due display reserves its place behind the running operation.
LEMMA FrameKeeps ==
  ASSUME TypeInv, frame
  PROVE  TypeInv' /\ (Inv => Inv')
<1> DEFINE o == Op("display", None, None, None)
           u == [ctl EXCEPT !.frame = FALSE]
           t == [u EXCEPT !.lane = Append(@, o)]
<1>1. o \in OpType /\ o.kind = "display"
  BY OpsAre DEF Kinds
<1>2. ctl.frame /\ Input(IF ctl.phase \in {"idle", "drawing"} THEN t ELSE u)
  BY DEF frame, exclusive
<1>3. /\ u \in ControllerType /\ Drawn(ctl, u) /\ Seen(ctl, u) /\ Queued(ctl, u)
      /\ u.frame = FALSE
  BY DEF TypeInv, ControllerType, Drawn, Seen, Queued
<1>4. t = [u EXCEPT !.lane = Append(@, o)]
  OBVIOUS
<1> HIDE DEF o, u, t
<1>5. /\ First(u) = First(ctl) /\ Second(u) = Second(ctl) /\ From(u) = From(ctl)
      /\ Holder(u) = Holder(ctl) /\ HeadOK(u)
  BY <1>3 DEF TypeInv, Queued, Drawn, HeadOK, First, Second, From, Holder
<1>6. ASSUME Inv
      PROVE  /\ InvAt(ctl, ctl.at, native) /\ First(ctl) # "display" /\ Second(ctl) = None
             /\ Len(ctl.lane) \in Nat /\ Len(ctl.lane) <= 1 /\ Holder(ctl) = First(ctl)
  <2>1. InvAt(ctl, ctl.at, native) /\ First(ctl) # "display" /\ Second(ctl) = None
    BY <1>2, <1>6 DEF Inv, InvAt, LaneOK
  <2> QED  BY <2>1, Views DEF TypeInv, Holder
<1>7. CASE ctl.phase \notin {"idle", "drawing"}
  <2>1. Typed(u) /\ u.paintedObjectIds = ctl.paintedObjectIds
    BY <1>3, <1>5 DEF Typed, Drawn
  <2>2. ASSUME Inv
        PROVE  InvAt(u, u.at, native)
    <3>1. LaneOK(u) /\ NativeOK(u, native)
      BY <1>3, <1>5, <1>6, <2>2 DEF InvAt, LaneOK, NativeOK, Drawn, Queued
    <3>2. SessionOK(u, u.at) /\ StrokeOK(u, u.at)
      BY <1>3, <1>5, <1>6, <2>2 DEF InvAt, SessionOK, StrokeOK, Drawn, Queued
    <3>3. DisplayOK(u, u.at)
      BY <1>3, <1>6, <1>7, <2>2 DEF InvAt, DisplayOK, Drawn, Seen, Queued, displayMatchesTarget
    <3> QED  BY <3>1, <3>2, <3>3 DEF InvAt
  <2> QED  BY <1>2, <1>7, <2>1, <2>2, InputKeeps
<1>8. CASE ctl.phase \in {"idle", "drawing"}
  <2>1. /\ Typed(t) /\ Drawn(u, t) /\ Seen(u, t) /\ t.frame = u.frame
        /\ t.projectOperations = u.projectOperations /\ t.at = u.at /\ Joined(u, t, o)
    BY <1>1, <1>3, <1>4, <1>5, JoinIs
  <2>2. t.paintedObjectIds = ctl.paintedObjectIds
    BY <1>3, <2>1 DEF Drawn
  <2>3. ASSUME Inv
        PROVE  InvAt(t, t.at, native)
    <3>1. Len(ctl.lane) + 1 <= 2 /\ (ctl.lane # <<>> => Len(ctl.lane) = 1)
      <4>1. \A k \in Nat : k <= 1 => k + 1 <= 2 /\ (k = 0 \/ k = 1)
        OBVIOUS
      <4>2. Len(ctl.lane) = 0 => ctl.lane = <<>>
        BY Lanes, Views DEF TypeInv
      <4> QED  BY <1>6, <2>3, <4>1, <4>2
    <3>2. ctl.lane = <<>> <=> First(ctl) = None
      BY Views DEF TypeInv
    <3>3. /\ Len(t.lane) <= 2 /\ t.lane # <<>> /\ Holder(t) = Holder(ctl) /\ From(t) = From(ctl)
          /\ First(t) = IF ctl.lane = <<>> THEN "display" ELSE First(ctl)
          /\ Second(t) = IF ctl.lane = <<>> THEN None ELSE "display"
      <4>1. /\ Len(t.lane) <= 2 /\ From(t) = From(ctl)
            /\ First(t) = IF ctl.lane = <<>> THEN "display" ELSE First(ctl)
            /\ Second(t) = IF ctl.lane = <<>> THEN None ELSE "display"
        BY <1>1, <1>3, <1>5, <1>6, <2>1, <2>3, <3>1 DEF Joined, Queued
      <4>2. t.lane # <<>>
        BY <1>6, <2>1, <2>3, <3>2, <4>1, Views DEF Typed, None
      <4> QED  BY <1>6, <2>3, <3>2, <4>1, <4>2 DEF Holder
    <3>4. /\ t.phase = ctl.phase /\ t.session = ctl.session /\ t.historyId = ctl.historyId
          /\ t.terminal = ctl.terminal /\ t.at = ctl.at /\ t.frame = FALSE
          /\ t.projectOperations = ctl.projectOperations /\ Seen(ctl, t)
      BY <1>3, <2>1 DEF Drawn, Seen, Queued
    <3>5. Holder(ctl) \in {None, "press", "move", "gap", "eraseAll"}
      <4>1. Holder(ctl) \in Kinds \cup {None} /\ Holder(ctl) # "display"
        BY <1>6, <2>3, Views DEF TypeInv
      <4> QED  BY <1>6, <1>8, <2>3, <4>1 DEF InvAt, LaneOK, Kinds
    <3>6. LaneOK(t)
      BY <1>6, <1>8, <2>3, <3>2, <3>3, <3>4, <3>5 DEF InvAt, LaneOK, None
    <3>7. NativeOK(t, native)
      BY <1>6, <2>3, <3>4 DEF InvAt, NativeOK
    <3>8. SessionOK(t, t.at)
      BY <1>6, <1>8, <2>2, <2>3, <3>3, <3>4, <3>5 DEF InvAt, SessionOK, None
    <3>9. StrokeOK(t, t.at)
      BY <1>6, <1>8, <2>3, <3>2, <3>3, <3>4 DEF InvAt, StrokeOK, None
    <3>10. DisplayOK(t, t.at)
      BY <1>6, <2>3, <3>3, <3>4 DEF InvAt, DisplayOK, Seen, displayMatchesTarget
    <3> QED  BY <3>6, <3>7, <3>8, <3>9, <3>10 DEF InvAt
  <2> QED  BY <1>2, <1>8, <2>1, <2>2, <2>3, InputKeeps
<1> QED  BY <1>7, <1>8

LEMMA ReportDisplayErrorKeeps ==
  ASSUME TypeInv, reportDisplayError
  PROVE  TypeInv' /\ (Inv => Inv')
<1> DEFINE f == fail(ctl)
           t == [f EXCEPT !.phase = "error"]
<1>1. Input(t) /\ ctl.lane = <<>>
  BY DEF reportDisplayError
<1>2. f \in ControllerType /\ Same(ctl, f) /\ f.at = ctl.at
  BY FailIs, LikeIsSame DEF TypeInv
<1> HIDE DEF f
<1>3. /\ t \in ControllerType /\ t.phase = "error" /\ Seen(f, t) /\ Queued(f, t)
      /\ t.frame = f.frame /\ t.session = f.session /\ t.historyId = f.historyId
      /\ t.terminal = f.terminal /\ t.paintedObjectIds = f.paintedObjectIds
  BY <1>2 DEF ControllerType, Phases, Seen, Queued
<1> HIDE DEF t
<1>4. /\ First(t) = First(ctl) /\ Second(t) = Second(ctl) /\ From(t) = From(ctl)
      /\ Holder(t) = Holder(ctl) /\ t.at = ctl.at /\ t.lane = ctl.lane
  BY <1>2, <1>3 DEF First, Second, From, Holder, Same, Queued
<1>5. Typed(t) /\ t.paintedObjectIds = ctl.paintedObjectIds
  BY <1>2, <1>3, <1>4 DEF TypeInv, Typed, HeadOK, Same, Drawn
<1>6. ASSUME Inv
      PROVE  InvAt(t, t.at, native)
  <2>1. InvAt(f, t.at, native)
    BY <1>2, <1>4, <1>6, SameIsEnough DEF Inv
  <2>2. First(ctl) = None /\ Second(ctl) = None /\ Holder(ctl) = None /\ From(ctl) = None /\ ctl.at = "queued"
    <3>1. First(ctl) = None /\ Second(ctl) = None
      BY <1>1, Views DEF TypeInv
    <3>2. ctl.at = "queued"
      BY <3>1, NoneFits DEF TypeInv, HeadOK, ControllerType
    <3> QED  BY <3>1, <3>2 DEF Holder, From, None
  <2>3. First(f) = None /\ Second(f) = None /\ Holder(f) = None /\ From(f) = None /\ f.lane = <<>>
    BY <1>1, <1>2, <2>2 DEF Same, First, Second, Holder, From
  <2>4. LaneOK(t) /\ NativeOK(t, native)
    BY <1>3, <1>4, <2>1, <2>2, <2>3 DEF InvAt, LaneOK, NativeOK, Queued, None
  <2>5. SessionOK(t, t.at)
    BY <1>3, <1>4, <2>1, <2>2, <2>3 DEF InvAt, SessionOK, None
  <2>6. StrokeOK(t, t.at)
    BY <1>3, <1>4, <2>1, <2>2, <2>3 DEF InvAt, StrokeOK, None
  <2>7. DisplayOK(t, t.at)
    BY <1>3, <1>4, <2>1, <2>3 DEF InvAt, DisplayOK, Seen, displayMatchesTarget
  <2> QED  BY <2>4, <2>5, <2>6, <2>7 DEF InvAt
<1> QED  BY <1>1, <1>5, <1>6, InputKeeps

-----------------------------------------------------------------------------
(* The lane: the operation at its head, from call to call *)

LEMMA ToIs ==
  ASSUME NEW s \in ControllerType, NEW stage \in Stages, StageOf(First(s), stage),
         stage = "readSession" => s.session # NoSession
  PROVE  LET t == [s EXCEPT !.at = stage]
         IN /\ Typed(t) /\ Same(s, t) /\ t.at = stage
            /\ t.paintedObjectIds = s.paintedObjectIds
            /\ \A n : InvAt(s, stage, n) => InvAt(t, t.at, n)
<1> DEFINE t == [s EXCEPT !.at = stage]
<1>1. t \in ControllerType /\ t.at = stage
  BY DEF ControllerType
<1>2. Same(s, t)
  BY DEF ControllerType, Same, Drawn, Seen
<1> HIDE DEF t
<1>3. Typed(t) /\ t.paintedObjectIds = s.paintedObjectIds
  BY <1>1, <1>2 DEF Typed, HeadOK, First, Same, Drawn
<1>4. \A n : InvAt(s, stage, n) => InvAt(t, t.at, n)
  BY <1>1, <1>2, SameIsEnough
<1> QED  BY <1>1, <1>2, <1>3, <1>4 DEF t

\* The operation at the head, and whoever waits behind it.
LEMMA HeadIs ==
  ASSUME TypeInv, ctl.lane # <<>>
  PROVE  /\ ctl \in ControllerType /\ native \in NativeType
         /\ Kind = First(ctl) /\ Kind \in Kinds /\ Head(ctl.lane) \in OpType
         /\ Head(ctl.lane).kind = First(ctl) /\ Head(ctl.lane) = ctl.lane[1]
         /\ StageOf(First(ctl), ctl.at) /\ unshown \subseteq ctl.paintedObjectIds
         /\ Inv /\ First(ctl) # "display" =>
              /\ Len(ctl.lane) <= 2 /\ Second(ctl) \in {None, "display"}
              /\ Second(ctl) = "display" => ~ctl.frame
              /\ Holder(ctl) = First(ctl)
              /\ First(ctl) \in {"open", "target", "project", "close", "terminal"} => Second(ctl) = None
<1>1. ctl \in ControllerType
  BY DEF TypeInv
<1>2. Kind = First(ctl) /\ Kind \in Kinds /\ Head(ctl.lane) \in OpType
      /\ Head(ctl.lane).kind = First(ctl) /\ Head(ctl.lane) = ctl.lane[1]
  BY <1>1, Heads, Views
<1>3. Inv /\ First(ctl) # "display" =>
        /\ Len(ctl.lane) <= 2 /\ Second(ctl) \in {None, "display"}
        /\ Second(ctl) = "display" => ~ctl.frame
        /\ Holder(ctl) = First(ctl)
        /\ First(ctl) \in {"open", "target", "project", "close", "terminal"} => Second(ctl) = None
  BY DEF Inv, InvAt, LaneOK, Holder
<1> QED  BY <1>1, <1>2, <1>3 DEF TypeInv, HeadOK

\* Whatever runs may fail.
LEMMA MayStopHere ==
  ASSUME TypeInv, ctl.lane # <<>>, Inv, First(ctl) # "display" \/ Second(ctl) = None,
         ctl.at # "geometry"
  PROVE  MayStop(ctl, native, FALSE)
<1>1. /\ LaneOK(ctl) /\ NativeOK(ctl, native) /\ SessionOK(ctl, ctl.at) /\ DisplayOK(ctl, ctl.at)
  BY DEF Inv, InvAt
<1>2. ctl.projectOperations = IF First(ctl) = "project" THEN 1 ELSE 0
  BY <1>1 DEF LaneOK, Holder, None
<1>3. Second(ctl) \in {None, "display"} /\ (Second(ctl) = "display" => ~ctl.frame) /\ Len(ctl.lane) <= 2
  BY <1>1 DEF LaneOK
<1> QED  BY <1>1, <1>2, <1>3 DEF MayStop, SessionOK, DisplayOK

LEMMA FailureKeeps ==
  ASSUME TypeInv, ctl.lane # <<>>, ctl' = Stopped(ctl, FALSE), UNCHANGED <<native, unshown>>,
         Inv => (First(ctl) # "display" \/ Second(ctl) = None) /\ ctl.at # "geometry"
  PROVE  TypeInv' /\ (Inv => Inv')
<1> DEFINE t == Stopped(ctl, FALSE)
<1>1. /\ Typed(t) /\ t.paintedObjectIds = ctl.paintedObjectIds
      /\ \A n : MayStop(ctl, n, FALSE) => InvAt(t, t.at, n)
  BY StoppedKeeps DEF TypeInv
<1>2. ctl' = t
  OBVIOUS
<1> HIDE DEF t
<1>3. Inv => InvAt(t, t.at, native)
  BY <1>1, MayStopHere
<1>4. native' = native /\ native \in NativeType /\ unshown' \subseteq t.paintedObjectIds
  BY <1>1 DEF TypeInv
<1> QED  BY <1>1, <1>2, <1>3, <1>4, Keeps

LEMMA StrokeIs ==
  ASSUME NEW n \in NativeType, NEW k \in {"idle", "drawing", "finished"}
  PROVE  LET m == [n EXCEPT !.painting.stroke = k]
         IN /\ m \in NativeType /\ m.history = n.history
            /\ m.painting.target = n.painting.target /\ m.painting.channel = n.painting.channel
            /\ m.painting.stroke = k
BY DEF NativeType

LEMMA EngineStopKeeps ==
  ASSUME TypeInv, ctl.lane # <<>>, EngineCancels(ctl), ctl' = Stopped(Cancelled(ctl), TRUE),
         UNCHANGED unshown, Inv => First(ctl) # "display" \/ Second(ctl) = None
  PROVE  TypeInv' /\ (Inv => Inv')
<1> DEFINE c == Cancelled(ctl)
           t == Stopped(c, TRUE)
           m == [native EXCEPT !.painting.stroke = "idle"]
<1>1. ctl \in ControllerType /\ native \in NativeType /\ Accepts(ctl) /\ ctl.session # NoSession
      /\ native' = m /\ ctl' = t
  BY DEF TypeInv, EngineCancels, Accepts
<1>2. /\ c \in ControllerType /\ Queued(ctl, c) /\ c.frame = ctl.frame /\ c.phase = ctl.phase
      /\ c.terminal = ctl.terminal /\ c.historyId = ctl.historyId
      /\ c.paintedObjectIds = ctl.paintedObjectIds
      /\ c.session # NoSession /\ c.session.target = ctl.session.target
      /\ c.session.channel = ctl.session.channel
      /\ c.session.current = TRUE /\ c.session.stroke = FALSE
  BY <1>1, CancelledIs
<1> HIDE DEF c
<1>3. c.lane = ctl.lane
  BY <1>2 DEF Queued
<1>4. /\ Typed(t) /\ t.paintedObjectIds = c.paintedObjectIds
      /\ \A n : MayStop(c, n, TRUE) => InvAt(t, t.at, n)
  BY <1>1, <1>2, <1>3, StoppedKeeps
<1>5. /\ m \in NativeType /\ m.history = native.history
      /\ m.painting.target = native.painting.target
      /\ m.painting.channel = native.painting.channel /\ m.painting.stroke = "idle"
  BY <1>1, StrokeIs
<1> HIDE DEF t, m
<1>6. ASSUME Inv
      PROVE  MayStop(c, m, TRUE)
  <2>1. LaneOK(ctl) /\ NativeOK(ctl, native)
    BY <1>6 DEF Inv, InvAt
  <2>2. First(c) = First(ctl) /\ Second(c) = Second(ctl)
    BY <1>3 DEF First, Second
  <2>3. c.projectOperations = IF First(c) = "project" THEN 1 ELSE 0
    BY <1>2, <1>6, <2>1, <2>2 DEF LaneOK, Holder, None, Queued
  <2>4. /\ Second(c) \in {None, "display"} /\ (Second(c) = "display" => ~c.frame)
        /\ Len(c.lane) <= 2
    BY <1>2, <1>3, <1>6, <2>1, <2>2 DEF LaneOK
  <2>5. c.historyId
    BY <1>1, <1>2, <2>1 DEF NativeOK, Accepts
  <2>6. NativeOK(c, m)
    BY <1>1, <1>2, <1>5, <2>1, <2>5 DEF NativeOK
  <2> QED  BY <1>2, <2>3, <2>4, <2>5, <2>6 DEF MayStop
<1>7. unshown' \subseteq t.paintedObjectIds
  BY <1>2, <1>4 DEF TypeInv
<1> QED  BY <1>1, <1>4, <1>5, <1>6, <1>7, Keeps

\* The operation waits for its first call.
LEMMA StageKeeps ==
  ASSUME TypeInv, ctl.lane # <<>>, NEW stage \in Stages, StageOf(First(ctl), stage),
         stage = "readSession" => ctl.session # NoSession,
         ctl' = To(stage), UNCHANGED <<native, unshown>>, Inv => InvAt(ctl, stage, native)
  PROVE  TypeInv' /\ (Inv => Inv')
<1> DEFINE t == [ctl EXCEPT !.at = stage]
<1>1. /\ Typed(t) /\ t.paintedObjectIds = ctl.paintedObjectIds
      /\ \A n : InvAt(ctl, stage, n) => InvAt(t, t.at, n)
  BY ToIs DEF TypeInv
<1>2. ctl' = t
  BY DEF To
<1> HIDE DEF t
<1>3. native' = native /\ native \in NativeType /\ unshown' \subseteq t.paintedObjectIds
  BY <1>1 DEF TypeInv
<1> QED  BY <1>1, <1>2, <1>3, Keeps

LEMMA FirstCalls ==
  ASSUME NEW s, NEW n, NEW stage \in {"openHistory", "target", "begin", "sample", "candidate", "operation"},
         InvAt(s, "queued", n)
  PROVE  InvAt(s, stage, n)
<1>1. SessionOK(s, stage)
  BY DEF InvAt, SessionOK
<1>2. StrokeOK(s, stage)
  BY DEF InvAt, StrokeOK
<1>3. DisplayOK(s, stage)
  BY DEF InvAt, DisplayOK
<1> QED  BY <1>1, <1>2, <1>3 DEF InvAt

\* A press or an application that finds another target on display ends at once.
LEMMA MismatchKeeps ==
  ASSUME TypeInv, At("queued"), Kind \in {"press", "gap", "eraseAll"},
         NEW w \in ControllerType, w.phase = "idle", Seen(ctl, w), Queued(ctl, w),
         w.session = ctl.session, w.historyId = ctl.historyId, w.frame = ctl.frame,
         w.paintedObjectIds = ctl.paintedObjectIds,
         ctl' \in {Settled(w), Settled(Pressed(w, "none"))}, UNCHANGED <<native, unshown>>
  PROVE  TypeInv' /\ (Inv => Inv')
<1>1. ctl.lane # <<>> /\ ctl.at = "queued" /\ w.lane = ctl.lane
  BY DEF At, Queued
<1>2. Kind = First(ctl) /\ native \in NativeType
  BY <1>1, HeadIs
<1>3. PICK t \in {Settled(w), Settled(Pressed(w, "none"))} : ctl' = t
  OBVIOUS
<1>4. /\ Typed(t) /\ t.paintedObjectIds = w.paintedObjectIds
      /\ \A n : Resting(w, n) => InvAt(t, t.at, n)
  BY <1>1, <1>3, Settles
<1>5. ASSUME Inv
      PROVE  Resting(w, native)
  <2>1. /\ Len(w.lane) <= 2 /\ Second(w) \in {None, "display"} /\ (Second(w) = "display" => ~w.frame)
        /\ Holder(ctl) = First(ctl)
    BY <1>1, <1>2, <1>5, HeadIs DEF Second
  <2>2. /\ LaneOK(ctl) /\ NativeOK(ctl, native) /\ SessionOK(ctl, "queued")
        /\ StrokeOK(ctl, "queued") /\ DisplayOK(ctl, "queued")
    BY <1>1, <1>5 DEF Inv, InvAt
  <2>3. NativeOK(w, native)
    BY <2>2 DEF NativeOK
  <2>4. w.projectOperations = 0 /\ ~w.session.stroke
    BY <1>2, <2>1, <2>2 DEF LaneOK, StrokeOK, Queued
  <2>5. w.session # NoSession /\ w.historyId /\ w.session.current
    BY <1>2, <2>1, <2>2 DEF LaneOK, SessionOK
  <2>6. w.displayDirty \/ w.readFailed \/ (displayMatchesTarget(w) /\ w.display.current)
    BY <2>2, <2>5 DEF DisplayOK, Seen, displayMatchesTarget
  <2> QED  BY <1>1, <2>1, <2>3, <2>4, <2>5, <2>6 DEF Resting
<1>6. unshown' \subseteq t.paintedObjectIds /\ native' = native
  BY <1>4 DEF TypeInv
<1> QED  BY <1>2, <1>3, <1>4, <1>5, <1>6, Keeps

LEMMA StartKeeps ==
  ASSUME TypeInv, start
  PROVE  TypeInv' /\ (Inv => Inv')
<1> DEFINE idle == [ctl EXCEPT !.phase = "idle"]
<1>1. /\ At("queued") /\ ctl.lane # <<>> /\ ctl.at = "queued" /\ ctl \in ControllerType
      /\ UNCHANGED <<native, unshown>>
  BY DEF start, At, TypeInv
<1>2. /\ Kind = First(ctl) /\ Kind \in Kinds /\ native \in NativeType
      /\ unshown \subseteq ctl.paintedObjectIds
  BY <1>1, HeadIs
<1>3. Inv => InvAt(ctl, "queued", native)
  BY <1>1 DEF Inv
<1>4. /\ idle \in ControllerType /\ idle.phase = "idle"
  BY <1>1 DEF ControllerType, Phases
<1>5. /\ Seen(ctl, idle) /\ Queued(ctl, idle) /\ idle.session = ctl.session
      /\ idle.historyId = ctl.historyId /\ idle.frame = ctl.frame
      /\ idle.paintedObjectIds = ctl.paintedObjectIds
  BY <1>1 DEF ControllerType, Seen, Queued
<1>6. CASE Kind = "open"
  <2>1. ctl' = To("openHistory")
    BY <1>6 DEF start
  <2> QED  BY <1>1, <1>2, <1>3, <1>6, <2>1, StageKeeps, FirstCalls DEF Stages, StageOf
<1>7. CASE Kind = "target"
  <2>1. ctl' = To("target")
    BY <1>7 DEF start
  <2> QED  BY <1>1, <1>2, <1>3, <1>7, <2>1, StageKeeps, FirstCalls DEF Stages, StageOf
<1>8. CASE Kind = "press"
  <2> DEFINE w == [idle EXCEPT !.terminal = None]
  <2>1. ctl' = IF displayMatchesTarget(ctl) THEN To("begin") ELSE Settled(Pressed(w, "none"))
    BY <1>8 DEF start
  <2>2. CASE displayMatchesTarget(ctl)
    BY <1>1, <1>2, <1>3, <1>8, <2>1, <2>2, StageKeeps, FirstCalls DEF Stages, StageOf
  <2>3. CASE ~displayMatchesTarget(ctl)
    <3> HIDE DEF idle
    <3>1. w \in ControllerType /\ w.phase = "idle"
      BY <1>4 DEF ControllerType, Terminals
    <3>2. /\ Seen(ctl, w) /\ Queued(ctl, w) /\ w.session = ctl.session
          /\ w.historyId = ctl.historyId /\ w.frame = ctl.frame
          /\ w.paintedObjectIds = ctl.paintedObjectIds
      BY <1>4, <1>5 DEF ControllerType, Seen, Queued
    <3> HIDE DEF w
    <3> QED  BY <1>1, <1>8, <2>1, <2>3, <3>1, <3>2, MismatchKeeps
  <2> QED  BY <2>2, <2>3
<1>9. CASE Kind = "move"
  <2>1. ctl' = To("sample")
    BY <1>9 DEF start
  <2> QED  BY <1>1, <1>2, <1>3, <1>9, <2>1, StageKeeps, FirstCalls DEF Stages, StageOf
<1>10. CASE Kind = "terminal"
  <2> DEFINE t == DrainThenSettle(ctl)
  <2>1. ctl' = t
    BY <1>10 DEF start
  <2>2. /\ Typed(t) /\ t.paintedObjectIds = ctl.paintedObjectIds
        /\ IF Drains(ctl) THEN InvAt(ctl, "drain", native) => InvAt(t, t.at, native)
           ELSE Resting(ctl, native) => InvAt(t, t.at, native)
    BY <1>1, <1>2, <1>10, DrainThenSettleKeeps
  <2> HIDE DEF t
  <2>3. ASSUME Inv
        PROVE  IF Drains(ctl) THEN InvAt(ctl, "drain", native) ELSE Resting(ctl, native)
    <3>1. /\ Len(ctl.lane) <= 2 /\ Second(ctl) = None /\ Holder(ctl) = "terminal"
          /\ InvAt(ctl, "queued", native)
      BY <1>1, <1>2, <1>3, <1>10, <2>3, HeadIs
    <3>2. CASE Drains(ctl)
      <4>1. SessionOK(ctl, "drain")
        BY <1>2, <1>10, <3>1 DEF InvAt, SessionOK
      <4>2. StrokeOK(ctl, "drain")
        BY <1>2, <1>10, <3>1, <3>2 DEF InvAt, StrokeOK, LaneOK, Drains
      <4>3. DisplayOK(ctl, "drain")
        BY <3>1 DEF InvAt, DisplayOK
      <4> QED  BY <3>1, <3>2, <4>1, <4>2, <4>3 DEF InvAt
    <3>3. CASE ~Drains(ctl)
      <4>1. LaneOK(ctl) /\ ctl.phase \in {"ending", "cancelling"} /\ ctl.projectOperations = 0
        BY <3>1 DEF InvAt, LaneOK
      <4>2. ~ctl.session.stroke /\ ctl.terminal # None
        BY <3>1, <3>3, <4>1 DEF InvAt, StrokeOK, Drains
      <4>3. ctl.session # NoSession /\ ctl.historyId /\ ctl.session.current
        BY <3>1, <4>1 DEF InvAt, SessionOK
      <4> QED  BY <1>1, <3>1, <3>3, <4>1, <4>2, <4>3 DEF Resting, InvAt, DisplayOK, None
    <3> QED  BY <3>2, <3>3
  <2> QED  BY <1>1, <1>2, <2>1, <2>2, <2>3, Keeps
<1>11. CASE Kind = "gap"
  <2>1. ctl' = IF displayMatchesTarget(ctl) THEN To("candidate") ELSE Settled(idle)
    BY <1>11 DEF start
  <2>2. CASE displayMatchesTarget(ctl)
    BY <1>1, <1>2, <1>3, <1>11, <2>1, <2>2, StageKeeps, FirstCalls DEF Stages, StageOf
  <2>3. CASE ~displayMatchesTarget(ctl)
    <3> HIDE DEF idle
    <3> QED  BY <1>1, <1>4, <1>5, <1>11, <2>1, <2>3, MismatchKeeps
  <2> QED  BY <2>2, <2>3
<1>12. CASE Kind = "eraseAll"
  <2>1. ctl' = IF displayMatchesTarget(ctl) THEN To("begin") ELSE Settled(idle)
    BY <1>12 DEF start
  <2>2. CASE displayMatchesTarget(ctl)
    BY <1>1, <1>2, <1>3, <1>12, <2>1, <2>2, StageKeeps, FirstCalls DEF Stages, StageOf
  <2>3. CASE ~displayMatchesTarget(ctl)
    <3> HIDE DEF idle
    <3> QED  BY <1>1, <1>4, <1>5, <1>12, <2>1, <2>3, MismatchKeeps
  <2> QED  BY <2>2, <2>3
<1>13. CASE Kind = "project"
  <2>1. ctl' = IF active(ctl) THEN To("operation") ELSE To("plainOperation")
    BY <1>13 DEF start
  <2>2. CASE active(ctl)
    BY <1>1, <1>2, <1>3, <1>13, <2>1, <2>2, StageKeeps, FirstCalls DEF Stages, StageOf
  <2>3. CASE ~active(ctl)
    <3>1. ~Inv
      <4>1. SUFFICES ASSUME Inv PROVE FALSE
        OBVIOUS
      <4>2. Holder(ctl) = "project" /\ LaneOK(ctl)
        BY <1>1, <1>2, <1>13, <4>1, HeadIs DEF Inv, InvAt
      <4> QED  BY <2>3, <4>2 DEF LaneOK, active
    <3>2. "plainOperation" \in Stages /\ StageOf(First(ctl), "plainOperation")
      BY <1>2, <1>13 DEF Stages, StageOf
    <3> QED  BY <1>1, <2>1, <2>3, <3>1, <3>2, StageKeeps
  <2> QED  BY <2>2, <2>3
<1>14. CASE Kind = "close"
  <2> DEFINE t == CloseOwned(ctl)
  <2>1. ctl' = t
    BY <1>14 DEF start
  <2>2. /\ Typed(t) /\ t.paintedObjectIds = ctl.paintedObjectIds
        /\ \A n : MayClose(ctl, n) => InvAt(t, t.at, n)
    BY <1>1, <1>2, <1>14, ClosesKeeps
  <2> HIDE DEF t
  <2>3. ASSUME Inv
        PROVE  MayClose(ctl, native)
    <3>1. Holder(ctl) = "close" /\ InvAt(ctl, "queued", native)
      BY <1>1, <1>2, <1>3, <1>14, <2>3, HeadIs
    <3>2. ctl.phase = "closing"
      BY <3>1 DEF InvAt, LaneOK
    <3>3. ctl.session.stroke => ctl.terminal = None
      BY <3>1, <3>2 DEF InvAt, StrokeOK
    <3> QED  BY <1>1, <1>2, <1>14, <3>1, <3>3 DEF MayClose, InvAt, SessionOK, DisplayOK
  <2> QED  BY <1>1, <1>2, <2>1, <2>2, <2>3, Keeps
<1>15. CASE Kind = "display"
  <2>1. ctl' = IF Drains(ctl) THEN Draining(ctl, "drainFirst") ELSE Show(ctl)
    BY <1>15 DEF start
  <2>2. CASE Drains(ctl)
    <3> DEFINE t == Draining(ctl, "drainFirst")
    <3>1. "drainFirst" \in Stages /\ StageOf(First(ctl), "drainFirst")
      BY <1>2, <1>15 DEF Stages, StageOf
    <3>2. /\ Typed(t) /\ t.paintedObjectIds = ctl.paintedObjectIds
          /\ \A n : InvAt(ctl, "drainFirst", n) => InvAt(t, t.at, n)
      BY <1>1, <3>1, DrainingKeeps
    <3>3. Inv => InvAt(ctl, "drainFirst", native)
      BY <1>1, <1>2, <1>3, <1>15, <2>2, Restage DEF DisplayStages
    <3>4. ctl' = t
      BY <2>1, <2>2
    <3> HIDE DEF t
    <3> QED  BY <1>1, <1>2, <3>2, <3>3, <3>4, Keeps
  <2>3. CASE ~Drains(ctl)
    <3> DEFINE t == Show(ctl)
    <3>1. /\ Typed(t) /\ t.paintedObjectIds = ctl.paintedObjectIds
          /\ \A n : InvAt(ctl, "queued", n) /\ ~Drains(ctl) => InvAt(t, t.at, n)
      BY <1>1, <1>2, <1>15, ShowKeeps
    <3>2. ctl' = t
      BY <2>1, <2>3
    <3> HIDE DEF t
    <3> QED  BY <1>1, <1>2, <1>3, <2>3, <3>1, <3>2, Keeps
  <2> QED  BY <2>2, <2>3
<1> QED  BY <1>2, <1>6, <1>7, <1>8, <1>9, <1>10, <1>11, <1>12, <1>13, <1>14, <1>15 DEF Kinds

\* An operation leaves the lane in a state that needs nobody else.
LEMMA LeaveKeeps ==
  ASSUME TypeInv, ctl.lane # <<>>, NEW w \in ControllerType, w.lane = ctl.lane,
         w.paintedObjectIds = ctl.paintedObjectIds,
         NEW g \in {"none", "paint", "camera"}, ctl' \in {Settled(w), Settled(Pressed(w, g))},
         native' \in NativeType, UNCHANGED unshown, Inv => Resting(w, native')
  PROVE  TypeInv' /\ (Inv => Inv')
<1>1. PICK t \in {Settled(w), Settled(Pressed(w, g))} : ctl' = t
  OBVIOUS
<1>2. /\ Typed(t) /\ t.paintedObjectIds = w.paintedObjectIds
      /\ \A n : Resting(w, n) => InvAt(t, t.at, n)
  BY <1>1, Settles
<1>3. PICK m \in NativeType : native' = m
  OBVIOUS
<1>4. unshown' \subseteq t.paintedObjectIds /\ (Inv => InvAt(t, t.at, m))
  BY <1>2, <1>3 DEF TypeInv
<1> QED  BY <1>1, <1>2, <1>3, <1>4, Keeps

LEMMA OpenHistorySessionKeeps ==
  ASSUME TypeInv, openHistorySession
  PROVE  TypeInv' /\ (Inv => Inv')
<1>1. /\ ctl.lane # <<>> /\ ctl.at = "openHistory" /\ ctl \in ControllerType
      /\ native \in NativeType /\ UNCHANGED unshown
  BY DEF openHistorySession, At, TypeInv
<1>2. First(ctl) = "open" /\ unshown \subseteq ctl.paintedObjectIds
  BY <1>1, HeadIs DEF StageOf
<1>3. ASSUME Inv
      PROVE  /\ InvAt(ctl, "openHistory", native) /\ Holder(ctl) = "open" /\ Second(ctl) = None
             /\ Len(ctl.lane) <= 2 /\ ctl.session = NoSession /\ ~ctl.historyId
             /\ ctl.phase = "opening" /\ ctl.projectOperations = 0
  <2>1. InvAt(ctl, "openHistory", native) /\ Holder(ctl) = "open" /\ Second(ctl) = None
        /\ Len(ctl.lane) <= 2
    BY <1>1, <1>2, <1>3, HeadIs DEF Inv
  <2> QED  BY <1>2, <2>1 DEF InvAt, LaneOK, SessionOK
<1>4. CASE ~native.history /\ native' = [native EXCEPT !.history = TRUE]
           /\ ctl' = [ctl EXCEPT !.historyId = TRUE, !.at = "openSession"]
  <2> DEFINE t == [ctl EXCEPT !.historyId = TRUE, !.at = "openSession"]
             m == [native EXCEPT !.history = TRUE]
  <2>1. t \in ControllerType /\ t.historyId = TRUE /\ t.at = "openSession"
    BY <1>1 DEF ControllerType, Stages
  <2>2. /\ t.lane = ctl.lane /\ t.phase = ctl.phase /\ t.session = ctl.session /\ Seen(ctl, t)
        /\ t.terminal = ctl.terminal /\ t.paintedObjectIds = ctl.paintedObjectIds
        /\ t.projectOperations = ctl.projectOperations /\ t.frame = ctl.frame
    BY <1>1 DEF ControllerType, Seen
  <2>3. m \in NativeType /\ m.history = TRUE /\ m.painting = native.painting
    BY <1>1 DEF NativeType
  <2>4. ctl' = t /\ native' = m
    BY <1>4
  <2> HIDE DEF t, m
  <2>5. First(t) = First(ctl) /\ Second(t) = Second(ctl) /\ From(t) = From(ctl) /\ Holder(t) = Holder(ctl)
    BY <2>2 DEF First, Second, From, Holder
  <2>6. Typed(t)
    BY <1>2, <2>1, <2>5 DEF Typed, HeadOK, StageOf
  <2>7. ASSUME Inv
        PROVE  InvAt(t, "openSession", m)
    <3>1. From(ctl) = None
      BY <1>2, <1>3, <2>7 DEF From, None
    <3>2. LaneOK(t)
      BY <1>3, <2>2, <2>5, <2>7 DEF InvAt, LaneOK
    <3>3. NativeOK(t, m)
      BY <1>3, <2>1, <2>2, <2>3, <2>7 DEF InvAt, NativeOK
    <3>4. SessionOK(t, "openSession")
      BY <1>2, <1>3, <2>1, <2>2, <2>5, <2>7, <3>1 DEF InvAt, SessionOK, None
    <3>5. StrokeOK(t, "openSession")
      BY <1>2, <1>3, <2>1, <2>2, <2>5, <2>7 DEF InvAt, StrokeOK, None
    <3>6. DisplayOK(t, "openSession")
      BY <1>1, <1>3, <2>2, <2>7 DEF InvAt, DisplayOK, Seen, displayMatchesTarget
    <3> QED  BY <3>2, <3>3, <3>4, <3>5, <3>6 DEF InvAt
  <2> QED  BY <1>1, <1>2, <2>1, <2>2, <2>3, <2>4, <2>6, <2>7, Keeps
<1>5. CASE ctl' = Settled([fail(ctl) EXCEPT !.phase = "closed"]) /\ native' = native
  <2> DEFINE f == fail(ctl)
             w == [f EXCEPT !.phase = "closed"]
  <2>1. f \in ControllerType /\ Same(ctl, f)
    BY <1>1, FailIs, LikeIsSame
  <2> HIDE DEF f
  <2>2. /\ w \in ControllerType /\ w.phase = "closed" /\ w.lane = f.lane /\ w.frame = f.frame
        /\ w.session = f.session /\ w.historyId = f.historyId /\ Seen(f, w)
        /\ w.projectOperations = f.projectOperations
        /\ w.paintedObjectIds = f.paintedObjectIds
    BY <2>1 DEF ControllerType, Phases, Seen
  <2>3. ctl' = Settled(w)
    BY <1>5 DEF f
  <2> HIDE DEF w
  <2>4. /\ w.lane = ctl.lane /\ w.session = ctl.session /\ w.historyId = ctl.historyId
        /\ w.paintedObjectIds = ctl.paintedObjectIds /\ Second(w) = Second(ctl)
        /\ w.projectOperations = ctl.projectOperations
    BY <2>1, <2>2 DEF Same, Drawn, Second
  <2>5. ASSUME Inv
        PROVE  Resting(w, native)
    <3>1. NativeOK(w, native) /\ ~w.session.stroke /\ w.paintedObjectIds = {}
      BY <1>1, <1>3, <2>4, <2>5, Sessions DEF InvAt, NativeOK, SessionOK
    <3> QED  BY <1>1, <1>3, <2>2, <2>4, <2>5, <3>1 DEF Resting, None
  <2> QED  BY <1>1, <1>5, <2>2, <2>3, <2>4, <2>5, LeaveKeeps
<1> QED  BY <1>4, <1>5 DEF openHistorySession

\* The receipt of a session starts a display of its target.
LEMMA AdoptedIs ==
  ASSUME NEW s \in ControllerType
  PROVE  LET t == Adopted(s)
         IN /\ t \in ControllerType /\ Drawn(s, t) /\ Queued(s, t) /\ t.frame = s.frame
            /\ t.displayDirty = TRUE
<1> DEFINE p == Tool(s) = "static"
           t == [s EXCEPT !.displayDirty = TRUE, !.readFailed = FALSE, !.previewDirty = p]
<1>1. p \in BOOLEAN /\ Adopted(s) = t
  BY DEF Adopted
<1> HIDE DEF p
<1>2. t \in ControllerType /\ t.displayDirty = TRUE
  BY <1>1 DEF ControllerType
<1>3. Drawn(s, t) /\ Queued(s, t) /\ t.frame = s.frame
  BY DEF ControllerType, Drawn, Queued
<1> QED  BY <1>1, <1>2, <1>3

LEMMA OpenPaintingSessionKeeps ==
  ASSUME TypeInv, openPaintingSession
  PROVE  TypeInv' /\ (Inv => Inv')
<1> DEFINE op == Head(ctl.lane)
           e == [target |-> op.target, channel |-> op.channel, current |-> TRUE, stroke |-> FALSE]
           v == [ctl EXCEPT !.phase = "idle", !.session = e]
           m == [native EXCEPT !.painting =
                   [target |-> op.target, channel |-> op.channel, stroke |-> "idle"]]
           f == fail(ctl)
           u == [f EXCEPT !.at = "undoOpen"]
<1>1. /\ ctl.lane # <<>> /\ ctl.at = "openSession" /\ ctl \in ControllerType
      /\ native \in NativeType /\ UNCHANGED unshown
  BY DEF openPaintingSession, At, TypeInv
<1>2. /\ First(ctl) = "open" /\ unshown \subseteq ctl.paintedObjectIds
      /\ op \in OpType /\ op.kind = "open"
  BY <1>1, HeadIs DEF StageOf
<1>3. op.target \in Targets /\ op.channel \in Channels
  BY <1>2 DEF OpType
<1>4. ASSUME Inv
      PROVE  /\ InvAt(ctl, "openSession", native) /\ Holder(ctl) = "open" /\ Second(ctl) = None
             /\ Len(ctl.lane) <= 2 /\ ctl.session = NoSession /\ ctl.historyId
             /\ ctl.phase = "opening" /\ ctl.projectOperations = 0
  <2>1. InvAt(ctl, "openSession", native) /\ Holder(ctl) = "open" /\ Second(ctl) = None
        /\ Len(ctl.lane) <= 2
    BY <1>1, <1>2, <1>4, HeadIs DEF Inv
  <2> QED  BY <1>2, <2>1 DEF InvAt, LaneOK, SessionOK
<1>5. \/ native' = m /\ ctl' = Settled(Adopted(v))
      \/ ctl' = u /\ native' = native
  BY DEF openPaintingSession
<1>6. CASE native' = m /\ ctl' = Settled(Adopted(v))
  <2>1. e \in SessionType /\ e # NoSession /\ e.current = TRUE /\ e.stroke = FALSE
        /\ e.target = op.target /\ e.channel = op.channel
    BY <1>3, NoneAssumption DEF SessionType, NoSession
  <2>2. /\ m \in NativeType /\ m.history = native.history /\ m.painting.target = op.target
        /\ m.painting.channel = op.channel /\ m.painting.stroke = "idle"
    BY <1>1, <1>3 DEF NativeType
  <2> HIDE DEF e, m, op
  <2>3. v \in ControllerType /\ v.phase = "idle" /\ v.session = e
    BY <1>1, <2>1 DEF ControllerType, Phases
  <2>4. /\ v.lane = ctl.lane /\ v.frame = ctl.frame /\ v.historyId = ctl.historyId
        /\ v.projectOperations = ctl.projectOperations
        /\ v.paintedObjectIds = ctl.paintedObjectIds
    BY <1>1 DEF ControllerType
  <2> DEFINE w == Adopted(v)
  <2> HIDE DEF v
  <2>5. w \in ControllerType /\ Drawn(v, w) /\ Queued(v, w) /\ w.frame = v.frame /\ w.displayDirty = TRUE
    BY <2>3, AdoptedIs
  <2>6. ctl' = Settled(w)
    BY <1>6
  <2> HIDE DEF w
  <2>7. /\ w.phase = "idle" /\ w.session = e /\ w.lane = ctl.lane
        /\ w.historyId = ctl.historyId /\ w.projectOperations = ctl.projectOperations
        /\ w.paintedObjectIds = ctl.paintedObjectIds /\ Second(w) = Second(ctl)
    BY <2>3, <2>4, <2>5 DEF Drawn, Queued, Second
  <2>8. ASSUME Inv
        PROVE  Resting(w, m)
    <3>1. NativeOK(w, m)
      BY <1>4, <2>1, <2>2, <2>7, <2>8 DEF InvAt, NativeOK
    <3> QED  BY <1>1, <1>4, <2>1, <2>5, <2>7, <2>8, <3>1 DEF Resting, None
  <2> QED  BY <1>1, <1>6, <2>2, <2>5, <2>6, <2>7, <2>8, LeaveKeeps
<1>7. CASE ctl' = u /\ native' = native
  <2>1. Like(ctl, f) /\ f \in ControllerType
    BY <1>1, FailIs DEF Like
  <2>2. First(f) = "open" /\ f.paintedObjectIds = ctl.paintedObjectIds
    BY <1>2, <2>1 DEF Like, Drawn, Queued, First
  <2> HIDE DEF f
  <2>3. "undoOpen" \in Stages /\ StageOf(First(f), "undoOpen")
    BY <2>2 DEF Stages, StageOf
  <2>4. /\ Typed(u) /\ u.paintedObjectIds = f.paintedObjectIds
        /\ \A n : InvAt(f, "undoOpen", n) => InvAt(u, u.at, n)
    BY <2>1, <2>3, ToIs
  <2> HIDE DEF u
  <2>5. ASSUME Inv
        PROVE  InvAt(f, "undoOpen", native)
    <3>1. InvAt(f, "openSession", native)
      BY <1>4, <2>1, <2>5, LikeIsSame, SameIsEnough
    <3>2. SessionOK(f, "undoOpen") /\ StrokeOK(f, "undoOpen") /\ DisplayOK(f, "undoOpen")
      <4>1. SessionOK(f, "undoOpen")
        BY <3>1 DEF InvAt, SessionOK
      <4>2. StrokeOK(f, "undoOpen")
        BY <3>1 DEF InvAt, StrokeOK
      <4>3. DisplayOK(f, "undoOpen")
        BY <3>1 DEF InvAt, DisplayOK
      <4> QED  BY <4>1, <4>2, <4>3
    <3> QED  BY <3>1, <3>2 DEF InvAt
  <2> QED  BY <1>1, <1>2, <1>7, <2>2, <2>4, <2>5, Keeps
<1> QED  BY <1>5, <1>6, <1>7

LEMMA UndoOpenKeeps ==
  ASSUME TypeInv, undoOpen
  PROVE  TypeInv' /\ (Inv => Inv')
<1> DEFINE v == [ctl EXCEPT !.historyId = FALSE, !.phase = "closed"]
           m == [history |-> FALSE, painting |-> NoPainting]
           f == fail(ctl)
           w == [f EXCEPT !.phase = "error"]
<1>1. /\ ctl.lane # <<>> /\ ctl.at = "undoOpen" /\ ctl \in ControllerType
      /\ native \in NativeType /\ UNCHANGED unshown
  BY DEF undoOpen, At, TypeInv
<1>2. /\ First(ctl) = "open" /\ unshown \subseteq ctl.paintedObjectIds
  BY <1>1, HeadIs DEF StageOf
<1>3. ASSUME Inv
      PROVE  /\ InvAt(ctl, "undoOpen", native) /\ Second(ctl) = None
             /\ Len(ctl.lane) <= 2 /\ ctl.session = NoSession /\ ~ctl.session.stroke
             /\ ctl.projectOperations = 0 /\ ctl.paintedObjectIds = {}
  <2>1. InvAt(ctl, "undoOpen", native) /\ Holder(ctl) = "open" /\ Second(ctl) = None
        /\ Len(ctl.lane) <= 2
    BY <1>1, <1>2, <1>3, HeadIs DEF Inv
  <2> QED  BY <1>1, <1>2, <2>1, Sessions DEF InvAt, LaneOK, SessionOK
<1>4. \/ native' = m /\ ctl' = Settled(v)
      \/ ctl' = Settled(w) /\ native' = native
  BY DEF undoOpen
<1>5. CASE native' = m /\ ctl' = Settled(v)
  <2>1. v \in ControllerType /\ v.phase = "closed" /\ v.historyId = FALSE
    BY <1>1 DEF ControllerType, Phases
  <2>2. /\ v.lane = ctl.lane /\ v.session = ctl.session
        /\ v.projectOperations = ctl.projectOperations
        /\ v.paintedObjectIds = ctl.paintedObjectIds
    BY <1>1 DEF ControllerType
  <2>3. m \in NativeType /\ m.history = FALSE /\ m.painting = NoPainting
    BY DEF NativeType, NoPainting
  <2> HIDE DEF v, m
  <2>4. ASSUME Inv
        PROVE  Resting(v, m)
    <3>1. NativeOK(v, m) /\ Second(v) = None
      BY <1>3, <2>1, <2>2, <2>3, <2>4 DEF NativeOK, Second
    <3> QED  BY <1>1, <1>3, <2>1, <2>2, <2>4, <3>1 DEF Resting, None
  <2> QED  BY <1>1, <1>5, <2>1, <2>2, <2>3, <2>4, LeaveKeeps
<1>6. CASE ctl' = Settled(w) /\ native' = native
  <2>1. f \in ControllerType /\ Same(ctl, f)
    BY <1>1, FailIs, LikeIsSame
  <2> HIDE DEF f
  <2>2. /\ w \in ControllerType /\ w.phase = "error" /\ w.lane = f.lane
        /\ w.session = f.session /\ w.historyId = f.historyId
        /\ w.projectOperations = f.projectOperations
        /\ w.paintedObjectIds = f.paintedObjectIds
    BY <2>1 DEF ControllerType, Phases
  <2> HIDE DEF w
  <2>3. /\ w.lane = ctl.lane /\ w.session = ctl.session /\ w.historyId = ctl.historyId
        /\ w.paintedObjectIds = ctl.paintedObjectIds /\ Second(w) = Second(ctl)
        /\ w.projectOperations = ctl.projectOperations
    BY <2>1, <2>2 DEF Same, Drawn, Second
  <2>4. ASSUME Inv
        PROVE  Resting(w, native)
    <3>1. NativeOK(w, native)
      BY <1>3, <2>3, <2>4 DEF InvAt, NativeOK
    <3> QED  BY <1>1, <1>3, <2>2, <2>3, <2>4, <3>1 DEF Resting, None
  <2> QED  BY <1>1, <1>6, <2>2, <2>3, <2>4, LeaveKeeps
<1> QED  BY <1>4, <1>5, <1>6

LEMMA TargetPaintingSessionKeeps ==
  ASSUME TypeInv, targetPaintingSession
  PROVE  TypeInv' /\ (Inv => Inv')
<1> DEFINE i == Head(ctl.lane).target
           e == [ctl.session EXCEPT !.target = i]
           d == [ctl.display EXCEPT !.current = FALSE]
           v == [ctl EXCEPT !.session = e, !.hover = FALSE, !.phase = "idle", !.display = d]
           m == [native EXCEPT !.painting.target = i]
           f == fail(ctl)
           u == [f EXCEPT !.phase = "idle"]
<1>1. /\ ctl.lane # <<>> /\ ctl.at = "target" /\ ctl \in ControllerType
      /\ native \in NativeType /\ UNCHANGED unshown
  BY DEF targetPaintingSession, At, TypeInv
<1>2. /\ First(ctl) = "target" /\ unshown \subseteq ctl.paintedObjectIds
      /\ Head(ctl.lane) \in OpType /\ Head(ctl.lane).kind = "target"
  BY <1>1, HeadIs DEF StageOf
<1>3. i \in Targets
  BY <1>2 DEF OpType
<1>4. ASSUME Inv
      PROVE  /\ InvAt(ctl, "target", native) /\ Second(ctl) = None
             /\ Len(ctl.lane) <= 2 /\ ctl.session # NoSession /\ ctl.historyId
             /\ ctl.session.current /\ ~ctl.session.stroke /\ ctl.projectOperations = 0
  <2>1. InvAt(ctl, "target", native) /\ Holder(ctl) = "target" /\ Second(ctl) = None
        /\ Len(ctl.lane) <= 2
    BY <1>1, <1>2, <1>4, HeadIs DEF Inv
  <2> QED  BY <1>2, <2>1 DEF InvAt, LaneOK, SessionOK, StrokeOK
<1>5. [ctl EXCEPT !.session.target = i, !.hover = FALSE, !.phase = "idle",
                  !.display.current = FALSE] = v
  BY <1>1 DEF ControllerType
<1>6. \/ Accepts(ctl) /\ native.painting.stroke = "idle" /\ native' = m /\ ctl' = Settled(Adopted(v))
      \/ ctl' = Settled(u) /\ native' = native
  BY <1>5 DEF targetPaintingSession
<1>7. CASE Accepts(ctl) /\ native.painting.stroke = "idle" /\ native' = m /\ ctl' = Settled(Adopted(v))
  <2>1. ctl.session # NoSession
    BY <1>7 DEF Accepts
  <2>2. /\ e \in SessionType /\ e # NoSession /\ e.current = ctl.session.current
        /\ e.stroke = ctl.session.stroke /\ e.target = i /\ e.channel = ctl.session.channel
    BY <1>1, <1>3, <2>1, NoneAssumption DEF ControllerType, SessionType, NoSession
  <2>3. d \in DisplayType
    BY <1>1 DEF ControllerType, DisplayType
  <2>4. /\ m \in NativeType /\ m.history = native.history /\ m.painting.target = i
        /\ m.painting.channel = native.painting.channel
        /\ m.painting.stroke = native.painting.stroke
    BY <1>1, <1>3 DEF NativeType
  <2> HIDE DEF e, d, m, i
  <2>5. v \in ControllerType /\ v.phase = "idle" /\ v.session = e
    BY <1>1, <2>2, <2>3 DEF ControllerType, Phases
  <2>6. /\ v.lane = ctl.lane /\ v.frame = ctl.frame /\ v.historyId = ctl.historyId
        /\ v.projectOperations = ctl.projectOperations
        /\ v.paintedObjectIds = ctl.paintedObjectIds
    BY <1>1 DEF ControllerType
  <2> DEFINE w == Adopted(v)
  <2> HIDE DEF v
  <2>7. w \in ControllerType /\ Drawn(v, w) /\ Queued(v, w) /\ w.displayDirty = TRUE
    BY <2>5, AdoptedIs
  <2>8. ctl' = Settled(w)
    BY <1>7
  <2> HIDE DEF w
  <2>9. /\ w.phase = "idle" /\ w.session = e /\ w.lane = ctl.lane
        /\ w.historyId = ctl.historyId /\ w.projectOperations = ctl.projectOperations
        /\ w.paintedObjectIds = ctl.paintedObjectIds /\ Second(w) = Second(ctl)
    BY <2>5, <2>6, <2>7 DEF Drawn, Queued, Second
  <2>10. ASSUME Inv
         PROVE  Resting(w, m)
    <3>1. NativeOK(w, m)
      BY <1>4, <1>7, <2>2, <2>4, <2>9, <2>10 DEF InvAt, NativeOK
    <3> QED  BY <1>1, <1>4, <2>2, <2>7, <2>9, <2>10, <3>1 DEF Resting, None
  <2> QED  BY <1>1, <1>7, <2>4, <2>7, <2>8, <2>9, <2>10, LeaveKeeps
<1>8. CASE ctl' = Settled(u) /\ native' = native
  <2>1. f \in ControllerType /\ Same(ctl, f)
    BY <1>1, FailIs, LikeIsSame
  <2> HIDE DEF f
  <2>2. /\ u \in ControllerType /\ u.phase = "idle" /\ u.lane = f.lane
        /\ u.session = f.session /\ u.historyId = f.historyId /\ Seen(f, u)
        /\ u.projectOperations = f.projectOperations
        /\ u.paintedObjectIds = f.paintedObjectIds
    BY <2>1 DEF ControllerType, Phases, Seen
  <2> HIDE DEF u
  <2>3. /\ u.lane = ctl.lane /\ u.session = ctl.session /\ u.historyId = ctl.historyId
        /\ u.paintedObjectIds = ctl.paintedObjectIds /\ Second(u) = Second(ctl)
        /\ u.projectOperations = ctl.projectOperations /\ Seen(ctl, u)
    BY <2>1, <2>2 DEF Same, Drawn, Seen, Second
  <2>4. ASSUME Inv
        PROVE  Resting(u, native)
    <3>1. NativeOK(u, native)
      BY <1>4, <2>3, <2>4 DEF InvAt, NativeOK
    <3>2. u.displayDirty \/ u.readFailed \/ (displayMatchesTarget(u) /\ u.display.current)
      BY <1>4, <2>3, <2>4 DEF InvAt, DisplayOK, Seen, displayMatchesTarget
    <3> QED  BY <1>1, <1>4, <2>2, <2>3, <2>4, <3>1, <3>2 DEF Resting, None
  <2> QED  BY <1>1, <1>8, <2>2, <2>3, <2>4, LeaveKeeps
<1> QED  BY <1>6, <1>7, <1>8

\* A receipt inside an operation that draws: the engine's stroke and the session's.
Receipted(r, m) ==
  /\ r \in ControllerType /\ Queued(ctl, r) /\ r.frame = ctl.frame
  /\ r.historyId = ctl.historyId /\ r.paintedObjectIds = ctl.paintedObjectIds
  /\ r.session # NoSession /\ r.session.current
  /\ r.session.target = ctl.session.target /\ r.session.channel = ctl.session.channel
  /\ r.displayDirty
  /\ m \in NativeType /\ m.history = native.history
  /\ m.painting.target = native.painting.target /\ m.painting.channel = native.painting.channel
  /\ m.painting.stroke # "idle" <=> r.session.stroke

LEMMA ReceiptedIs ==
  ASSUME TypeInv, Accepts(ctl), NEW b \in BOOLEAN, NEW m \in NativeType,
         m.history = native.history, m.painting.target = native.painting.target,
         m.painting.channel = native.painting.channel, m.painting.stroke # "idle" <=> b
  PROVE  LET r == receipt(ctl, b)
         IN /\ Receipted(r, m) /\ r.phase = ctl.phase /\ r.terminal = ctl.terminal
            /\ r.session.stroke = b /\ ctl.session # NoSession
<1> DEFINE r == receipt(ctl, b)
<1>1. /\ r \in ControllerType /\ Queued(ctl, r) /\ r.frame = ctl.frame /\ r.phase = ctl.phase
      /\ r.terminal = ctl.terminal /\ r.historyId = ctl.historyId
      /\ r.paintedObjectIds = ctl.paintedObjectIds
      /\ r.session # NoSession /\ r.session.target = ctl.session.target
      /\ r.session.channel = ctl.session.channel
      /\ r.session.current = TRUE /\ r.session.stroke = b
      /\ r.displayDirty = TRUE
  BY ReceiptIs DEF TypeInv, Accepts
<1> HIDE DEF r
<1>2. Receipted(r, m)
  BY <1>1 DEF Receipted
<1>3. r.phase = ctl.phase /\ r.terminal = ctl.terminal /\ r.session.stroke = b /\ ctl.session # NoSession
  BY <1>1 DEF Accepts
<1> QED  BY <1>2, <1>3 DEF r

LEMMA DrawnIs ==
  ASSUME TypeInv, Inv, Accepts(ctl), ctl.lane # <<>>,
         First(ctl) \in {"press", "move", "gap", "eraseAll"}, NEW r, NEW m, Receipted(r, m),
         r.phase \in {"drawing", "ending", "cancelling"}
  PROVE  /\ LaneOK(r) /\ NativeOK(r, m) /\ r.historyId /\ Holder(r) = First(ctl)
         /\ First(r) = First(ctl) /\ From(r) = None /\ Second(r) \in {None, "display"}
         /\ Second(r) = "display" => ~r.frame
         /\ r.lane = ctl.lane /\ r.projectOperations = 0
         /\ \A stage \in {"begin", "miss", "drain"} : SessionOK(r, stage) /\ DisplayOK(r, stage)
<1>1. /\ InvAt(ctl, ctl.at, native) /\ Holder(ctl) = First(ctl) /\ Second(ctl) \in {None, "display"}
      /\ Second(ctl) = "display" => ~ctl.frame
  BY HeadIs DEF Inv
<1>2. /\ r.lane = ctl.lane /\ First(r) = First(ctl) /\ Second(r) = Second(ctl)
      /\ Holder(r) = First(ctl) /\ r.projectOperations = ctl.projectOperations
  BY <1>1 DEF Receipted, Queued, First, Second, Holder
<1>3. From(r) = None
  BY <1>1, <1>2 DEF From, None
<1>4. LaneOK(r) /\ r.projectOperations = 0
  BY <1>1, <1>2 DEF InvAt, LaneOK, Receipted, None
<1>5. ctl.historyId /\ ctl.session # NoSession
  BY <1>1 DEF Accepts, InvAt, NativeOK
<1>6. NativeOK(r, m) /\ r.historyId
  BY <1>1, <1>5 DEF InvAt, NativeOK, Receipted
<1>7. \A stage \in {"begin", "miss", "drain"} : SessionOK(r, stage)
  BY <1>2, <1>3, <1>6 DEF SessionOK, Receipted, None
<1>8. \A stage \in {"begin", "miss", "drain"} : DisplayOK(r, stage)
  BY <1>2 DEF DisplayOK, Receipted
<1> QED  BY <1>1, <1>2, <1>3, <1>4, <1>6, <1>7, <1>8 DEF Receipted

\* The drawing operation goes on, or settles, with the engine's answer.
LEMMA DrawsOn ==
  ASSUME TypeInv, Accepts(ctl), ctl.lane # <<>>,
         First(ctl) \in {"press", "move", "gap", "eraseAll"}, NEW r, NEW m, Receipted(r, m),
         r.session.stroke, ctl' = DrainThenSettle(r), native' = m, UNCHANGED unshown,
         Inv => /\ r.terminal # None => r.phase \in {"ending", "cancelling"}
                /\ r.terminal = None => r.phase = "drawing"
  PROVE  TypeInv' /\ (Inv => Inv')
<1> DEFINE t == DrainThenSettle(r)
<1>1. /\ ctl \in ControllerType /\ r \in ControllerType /\ r.lane = ctl.lane /\ m \in NativeType
      /\ r.paintedObjectIds = ctl.paintedObjectIds /\ unshown' \subseteq ctl.paintedObjectIds
  BY DEF TypeInv, Receipted, Queued
<1>2. /\ Typed(t) /\ t.paintedObjectIds = r.paintedObjectIds
      /\ IF Drains(r) THEN InvAt(r, "drain", m) => InvAt(t, t.at, m)
         ELSE Resting(r, m) => InvAt(t, t.at, m)
  BY <1>1, DrainThenSettleKeeps
<1>3. ctl' = t
  OBVIOUS
<1> HIDE DEF t
<1>4. ASSUME Inv
      PROVE  IF Drains(r) THEN InvAt(r, "drain", m) ELSE Resting(r, m)
  <2>1. r.phase \in {"drawing", "ending", "cancelling"}
    BY <1>4
  <2>2. /\ LaneOK(r) /\ NativeOK(r, m) /\ r.historyId /\ Holder(r) = First(ctl)
        /\ First(r) = First(ctl) /\ Second(r) \in {None, "display"}
        /\ Second(r) = "display" => ~r.frame
        /\ r.lane = ctl.lane /\ r.projectOperations = 0
        /\ SessionOK(r, "drain") /\ DisplayOK(r, "drain")
    BY <1>4, <2>1, DrawnIs
  <2>3. CASE Drains(r)
    <3>1. r.terminal # None /\ r.phase \in {"ending", "cancelling"}
      BY <1>4, <2>3 DEF Drains
    <3>2. StrokeOK(r, "drain")
      BY <2>2, <3>1 DEF StrokeOK
    <3> QED  BY <2>2, <2>3, <3>2 DEF InvAt
  <2>4. CASE ~Drains(r)
    <3>1. r.terminal = None /\ r.phase = "drawing"
      BY <1>4, <2>4 DEF Drains
    <3>2. Resting(r, m)
      BY <2>2, <3>1 DEF Resting, LaneOK, Receipted
    <3> QED  BY <2>4, <3>2
  <2> QED  BY <2>3, <2>4
<1>5. unshown' \subseteq t.paintedObjectIds
  BY <1>1, <1>2
<1> QED  BY <1>1, <1>2, <1>3, <1>4, <1>5, Keeps

LEMMA PreviewCandidateKeeps ==
  ASSUME TypeInv, previewCandidate
  PROVE  TypeInv' /\ (Inv => Inv')
<1>1. /\ ctl.lane # <<>> /\ ctl.at = "candidate" /\ ctl \in ControllerType
      /\ native \in NativeType /\ UNCHANGED <<native, unshown>>
  BY DEF previewCandidate, At, TypeInv
<1>2. First(ctl) = "gap" /\ unshown \subseteq ctl.paintedObjectIds
  BY <1>1, HeadIs DEF StageOf
<1> DEFINE r == receipt(ctl, FALSE)
           t == [r EXCEPT !.at = "begin"]
<1>3. \/ Accepts(ctl) /\ native.painting.stroke = "idle" /\ ctl' = t
      \/ ctl' = Stopped(ctl, FALSE)
  BY DEF previewCandidate
<1>4. CASE Accepts(ctl) /\ native.painting.stroke = "idle" /\ ctl' = t
  <2>1. /\ Receipted(r, native) /\ r.phase = ctl.phase /\ r.terminal = ctl.terminal
        /\ r.session.stroke = FALSE
    BY <1>1, <1>4, ReceiptedIs
  <2> HIDE DEF r
  <2>2. /\ r \in ControllerType /\ First(r) = "gap" /\ "begin" \in Stages /\ StageOf("gap", "begin")
        /\ r.paintedObjectIds = ctl.paintedObjectIds
    BY <1>2, <2>1 DEF Receipted, Queued, First, Stages, StageOf
  <2>3. /\ Typed(t) /\ t.paintedObjectIds = r.paintedObjectIds
        /\ \A n : InvAt(r, "begin", n) => InvAt(t, t.at, n)
    BY <2>2, ToIs
  <2> HIDE DEF t
  <2>4. ASSUME Inv
        PROVE  InvAt(r, "begin", native)
    <3>1. Holder(ctl) = "gap" /\ InvAt(ctl, "candidate", native)
      BY <1>1, <1>2, <2>4, HeadIs DEF Inv
    <3>2. r.phase \in {"drawing", "ending", "cancelling"}
      BY <2>1, <3>1 DEF InvAt, LaneOK
    <3>3. /\ LaneOK(r) /\ NativeOK(r, native) /\ Holder(r) = "gap" /\ r.lane = ctl.lane
          /\ SessionOK(r, "begin") /\ DisplayOK(r, "begin")
      BY <1>1, <1>2, <1>4, <2>1, <2>4, <3>2, DrawnIs
    <3>4. StrokeOK(r, "begin")
      BY <1>1, <2>1, <3>1, <3>2, <3>3 DEF InvAt, StrokeOK, None
    <3> QED  BY <3>3, <3>4 DEF InvAt
  <2> QED  BY <1>1, <1>2, <1>4, <2>2, <2>3, <2>4, Keeps
<1>5. CASE ctl' = Stopped(ctl, FALSE)
  BY <1>1, <1>2, <1>5, FailureKeeps
<1> QED  BY <1>3, <1>4, <1>5

LEMMA BeginPaintingStrokeKeeps ==
  ASSUME TypeInv, beginPaintingStroke
  PROVE  TypeInv' /\ (Inv => Inv')
<1> DEFINE r == receipt(ctl, TRUE)
<1>1. /\ ctl.lane # <<>> /\ ctl.at = "begin" /\ ctl \in ControllerType
      /\ native \in NativeType /\ UNCHANGED unshown
  BY DEF beginPaintingStroke, At, TypeInv
<1>2. /\ First(ctl) \in {"press", "gap", "eraseAll"} /\ unshown \subseteq ctl.paintedObjectIds
      /\ Kind = First(ctl)
  BY <1>1, HeadIs DEF StageOf
<1>3. ASSUME Inv
      PROVE  /\ Holder(ctl) = First(ctl) /\ ctl.phase \in {"drawing", "ending", "cancelling"}
             /\ ctl.phase \in {"ending", "cancelling"} => ctl.terminal # None
             /\ First(ctl) = "press" /\ ctl.phase = "drawing" => ctl.terminal = None
  <2>1. Holder(ctl) = First(ctl) /\ InvAt(ctl, "begin", native)
    BY <1>1, <1>2, <1>3, HeadIs DEF Inv
  <2> QED  BY <1>2, <2>1 DEF InvAt, LaneOK, StrokeOK
<1>4. CASE /\ Accepts(ctl) /\ Kind = "press"
           /\ native' = [native EXCEPT !.painting.stroke = "drawing"]
           /\ \E hit \in BOOLEAN :
                ctl' = IF ~hit /\ ctl.terminal = None THEN [r EXCEPT !.at = "miss"]
                       ELSE DrainThenSettle(r)
  <2> DEFINE m == [native EXCEPT !.painting.stroke = "drawing"]
             t == [r EXCEPT !.at = "miss"]
  <2>1. /\ m \in NativeType /\ m.history = native.history
        /\ m.painting.target = native.painting.target
        /\ m.painting.channel = native.painting.channel /\ m.painting.stroke = "drawing"
    BY <1>1, StrokeIs
  <2>2. native' = m /\ ((ctl.terminal = None /\ ctl' = t) \/ ctl' = DrainThenSettle(r))
    BY <1>4
  <2> HIDE DEF m
  <2>3. /\ Receipted(r, m) /\ r.phase = ctl.phase /\ r.terminal = ctl.terminal
        /\ r.session.stroke = TRUE
    BY <1>4, <2>1, ReceiptedIs
  <2> HIDE DEF r
  <2>4. CASE ctl.terminal = None /\ ctl' = t
    <3>1. /\ r \in ControllerType /\ First(r) = "press" /\ "miss" \in Stages /\ StageOf("press", "miss")
          /\ r.paintedObjectIds = ctl.paintedObjectIds
      BY <1>2, <1>4, <2>3 DEF Receipted, Queued, First, Stages, StageOf
    <3>2. /\ Typed(t) /\ t.paintedObjectIds = r.paintedObjectIds
          /\ \A n : InvAt(r, "miss", n) => InvAt(t, t.at, n)
      BY <3>1, ToIs
    <3> HIDE DEF t
    <3>3. ASSUME Inv
          PROVE  InvAt(r, "miss", m)
      <4>1. /\ LaneOK(r) /\ NativeOK(r, m) /\ Holder(r) = "press" /\ r.lane = ctl.lane
            /\ SessionOK(r, "miss") /\ DisplayOK(r, "miss")
        BY <1>1, <1>2, <1>3, <1>4, <2>3, <3>3, DrawnIs
      <4>2. StrokeOK(r, "miss")
        BY <1>1, <1>3, <2>3, <2>4, <3>1, <3>3, <4>1 DEF StrokeOK, None
      <4> QED  BY <4>1, <4>2 DEF InvAt
    <3> QED  BY <1>1, <1>2, <2>1, <2>2, <2>4, <3>1, <3>2, <3>3, Keeps
  <2>5. CASE ctl' = DrainThenSettle(r)
    <3>1. Inv => /\ r.terminal # None => r.phase \in {"ending", "cancelling"}
                 /\ r.terminal = None => r.phase = "drawing"
      BY <1>2, <1>3, <1>4, <2>3
    <3>2. r.session.stroke
      BY <2>3
    <3> QED  BY <1>1, <1>2, <1>4, <2>2, <2>3, <2>5, <3>1, <3>2, DrawsOn
  <2> QED  BY <2>2, <2>4, <2>5
<1>5. CASE /\ Accepts(ctl) /\ Kind # "press"
           /\ native' = [native EXCEPT !.painting.stroke = "finished"]
           /\ ctl' = Applying(r)
  <2> DEFINE m == [native EXCEPT !.painting.stroke = "finished"]
             k == IF r.terminal = None THEN "commit" ELSE r.terminal
             ph == IF k = "cancel" THEN "cancelling" ELSE "ending"
             x == [r EXCEPT !.terminal = k, !.phase = ph]
  <2>1. /\ m \in NativeType /\ m.history = native.history
        /\ m.painting.target = native.painting.target
        /\ m.painting.channel = native.painting.channel /\ m.painting.stroke = "finished"
    BY <1>1, StrokeIs
  <2>2. native' = m /\ ctl' = DrainThenSettle(x)
    BY <1>5 DEF Applying
  <2> HIDE DEF m
  <2>3. /\ Receipted(r, m) /\ r.phase = ctl.phase /\ r.terminal = ctl.terminal
        /\ r.session.stroke = TRUE
    BY <1>5, <2>1, ReceiptedIs
  <2> HIDE DEF r
  <2>4. k \in Terminals /\ k # None /\ ph \in {"ending", "cancelling"} /\ ph \in Phases
    BY <1>1, <2>3 DEF ControllerType, Terminals, Phases, None
  <2> HIDE DEF k, ph
  <2>5. x \in ControllerType /\ x.terminal = k /\ x.phase = ph
    BY <2>3, <2>4 DEF Receipted, ControllerType
  <2>6. /\ Queued(r, x) /\ x.frame = r.frame /\ x.historyId = r.historyId
        /\ x.paintedObjectIds = r.paintedObjectIds /\ x.session = r.session
        /\ x.displayDirty = r.displayDirty
    BY <2>3 DEF Receipted, ControllerType, Queued
  <2> HIDE DEF x
  <2>7. Receipted(x, m) /\ x.session.stroke
    BY <2>3, <2>5, <2>6 DEF Receipted, Queued
  <2>8. Inv => /\ x.terminal # None => x.phase \in {"ending", "cancelling"}
               /\ x.terminal = None => x.phase = "drawing"
    BY <2>4, <2>5
  <2> QED  BY <1>1, <1>2, <1>5, <2>2, <2>7, <2>8, DrawsOn
<1>6. CASE ctl' = Stopped(ctl, FALSE) /\ UNCHANGED native
  BY <1>1, <1>2, <1>6, FailureKeeps
<1>7. CASE EngineCancels(ctl) /\ ctl' = Stopped(Cancelled(ctl), TRUE)
  BY <1>1, <1>2, <1>7, EngineStopKeeps
<1> QED  BY <1>4, <1>5, <1>6, <1>7 DEF beginPaintingStroke

LEMMA CancelMissedKeeps ==
  ASSUME TypeInv, cancelMissed
  PROVE  TypeInv' /\ (Inv => Inv')
<1> DEFINE r == receipt(ctl, FALSE)
           w == [r EXCEPT !.phase = "idle"]
           m == [native EXCEPT !.painting.stroke = "idle"]
<1>1. /\ ctl.lane # <<>> /\ ctl.at = "miss" /\ ctl \in ControllerType
      /\ native \in NativeType /\ UNCHANGED unshown
  BY DEF cancelMissed, At, TypeInv
<1>2. First(ctl) = "press"
  BY <1>1, HeadIs DEF StageOf
<1>3. \/ Accepts(ctl) /\ native' = m /\ ctl' = Settled(Pressed(w, "camera"))
      \/ ctl' = Stopped(ctl, FALSE) /\ UNCHANGED native
  BY DEF cancelMissed
<1>4. CASE Accepts(ctl) /\ native' = m /\ ctl' = Settled(Pressed(w, "camera"))
  <2>1. /\ m \in NativeType /\ m.history = native.history
        /\ m.painting.target = native.painting.target
        /\ m.painting.channel = native.painting.channel /\ m.painting.stroke = "idle"
    BY <1>1, StrokeIs
  <2>2. native' = m /\ ctl' = Settled(Pressed(w, "camera"))
    BY <1>4
  <2> HIDE DEF m
  <2>3. Receipted(r, m) /\ r.phase = ctl.phase /\ r.session.stroke = FALSE
    BY <1>4, <2>1, ReceiptedIs
  <2> HIDE DEF r
  <2>4. w \in ControllerType /\ w.phase = "idle"
    BY <2>3 DEF Receipted, ControllerType, Phases
  <2>5. /\ w.lane = r.lane /\ w.frame = r.frame /\ w.session = r.session
        /\ w.projectOperations = r.projectOperations /\ w.historyId = r.historyId
        /\ w.paintedObjectIds = r.paintedObjectIds /\ w.displayDirty = r.displayDirty
    BY <2>3 DEF Receipted, ControllerType
  <2> HIDE DEF w
  <2>6. w.lane = ctl.lane /\ w.paintedObjectIds = ctl.paintedObjectIds
    BY <2>3, <2>5 DEF Receipted, Queued
  <2>7. ASSUME Inv
        PROVE  Resting(w, m)
    <3>1. r.phase \in {"drawing", "ending", "cancelling"}
      <4>1. Holder(ctl) = "press" /\ LaneOK(ctl)
        BY <1>1, <1>2, <2>7, HeadIs DEF Inv, InvAt
      <4> QED  BY <2>3, <4>1 DEF LaneOK
    <3>2. /\ LaneOK(r) /\ NativeOK(r, m) /\ r.historyId /\ Second(r) \in {None, "display"}
          /\ Second(r) = "display" => ~r.frame
          /\ r.lane = ctl.lane /\ r.projectOperations = 0
      BY <1>1, <1>2, <1>4, <2>3, <2>7, <3>1, DrawnIs
    <3>3. Second(w) = Second(r) /\ NativeOK(w, m)
      BY <2>5, <3>2 DEF Second, NativeOK
    <3> QED  BY <1>1, <2>3, <2>4, <2>5, <2>6, <3>2, <3>3 DEF Resting, LaneOK, Receipted
  <2> QED  BY <1>1, <2>1, <2>2, <2>4, <2>6, <2>7, LeaveKeeps
<1>5. CASE ctl' = Stopped(ctl, FALSE) /\ UNCHANGED native
  BY <1>1, <1>2, <1>5, FailureKeeps
<1> QED  BY <1>3, <1>4, <1>5

LEMMA SamplePaintingStrokeKeeps ==
  ASSUME TypeInv, samplePaintingStroke
  PROVE  TypeInv' /\ (Inv => Inv')
<1> DEFINE r == receipt(ctl, TRUE)
<1>1. /\ ctl.lane # <<>> /\ ctl.at = "sample" /\ ctl \in ControllerType
      /\ native \in NativeType /\ UNCHANGED unshown
  BY DEF samplePaintingStroke, At, TypeInv
<1>2. First(ctl) = "move"
  BY <1>1, HeadIs DEF StageOf
<1>3. CASE /\ Accepts(ctl) /\ native.painting.stroke = "drawing"
           /\ ctl' = DrainThenSettle(r) /\ UNCHANGED native
  <2>1. /\ Receipted(r, native) /\ r.phase = ctl.phase /\ r.terminal = ctl.terminal
        /\ r.session.stroke = TRUE
    BY <1>1, <1>3, ReceiptedIs
  <2>2. ctl' = DrainThenSettle(r) /\ native' = native
    BY <1>3
  <2> HIDE DEF r
  <2>3. ASSUME Inv
        PROVE  /\ r.terminal # None => r.phase \in {"ending", "cancelling"}
               /\ r.terminal = None => r.phase = "drawing"
    <3>1. Holder(ctl) = "move" /\ InvAt(ctl, "sample", native)
      BY <1>1, <1>2, <2>3, HeadIs DEF Inv
    <3>2. ctl.session.stroke
      BY <1>3, <3>1 DEF InvAt, NativeOK, Accepts
    <3> QED  BY <2>1, <3>1, <3>2 DEF InvAt, LaneOK, StrokeOK
  <2>4. r.session.stroke
    BY <2>1
  <2> QED  BY <1>1, <1>2, <1>3, <2>1, <2>2, <2>3, <2>4, DrawsOn
<1>4. CASE ctl' = Stopped(ctl, FALSE) /\ UNCHANGED native
  BY <1>1, <1>2, <1>4, FailureKeeps
<1>5. CASE EngineCancels(ctl) /\ ctl' = Stopped(Cancelled(ctl), TRUE)
  BY <1>1, <1>2, <1>5, EngineStopKeeps
<1> QED  BY <1>3, <1>4, <1>5 DEF samplePaintingStroke
\* A drain has a stroke to settle, and nobody behind it who would draw.
LEMMA DrainLane ==
  ASSUME TypeInv, AtDrain
  PROVE  /\ ctl.lane # <<>> /\ ctl \in ControllerType /\ native \in NativeType
         /\ unshown \subseteq ctl.paintedObjectIds /\ ctl.at \in Drainers
         /\ First(ctl) \in {"display", "press", "move", "terminal", "gap", "eraseAll"}
         /\ First(ctl) = "display" <=> ctl.at # "drain"
         /\ Kind = First(ctl)
         /\ Inv => /\ ctl.phase \in {"ending", "cancelling"} /\ ctl.session.stroke
                   /\ Len(ctl.lane) <= 2 /\ Second(ctl) \in {None, "display"}
                   /\ Second(ctl) = "display" => ~ctl.frame
                   /\ First(ctl) = "display" => Second(ctl) = None
                   /\ ctl.projectOperations = 0
<1>1. /\ ctl.lane # <<>> /\ ctl \in ControllerType /\ native \in NativeType
      /\ unshown \subseteq ctl.paintedObjectIds /\ ctl.at \in Drainers
  BY DEF AtDrain, TypeInv, Drainers
<1>2. Kind = First(ctl) /\ StageOf(First(ctl), ctl.at)
  BY <1>1, HeadIs
<1>3. /\ First(ctl) \in {"display", "press", "move", "terminal", "gap", "eraseAll"}
      /\ First(ctl) = "display" <=> ctl.at # "drain"
  BY <1>1, <1>2 DEF StageOf, Drainers
<1>4. ASSUME Inv
      PROVE  /\ ctl.phase \in {"ending", "cancelling"} /\ ctl.session.stroke
             /\ Len(ctl.lane) <= 2 /\ Second(ctl) \in {None, "display"}
             /\ Second(ctl) = "display" => ~ctl.frame
             /\ First(ctl) = "display" => Second(ctl) = None
             /\ ctl.projectOperations = 0
  <2>1. /\ LaneOK(ctl) /\ StrokeOK(ctl, ctl.at)
    BY <1>4 DEF Inv, InvAt
  <2>2. ctl.phase \in {"ending", "cancelling"} /\ ctl.session.stroke
    BY <1>1, <2>1 DEF StrokeOK, Drainers
  <2>3. CASE First(ctl) # "display"
    <3>1. Holder(ctl) = First(ctl)
      BY <2>3 DEF Holder
    <3> QED  BY <1>1, <1>3, <1>4, <2>1, <2>2, <2>3, <3>1, HeadIs DEF LaneOK
  <2>4. CASE First(ctl) = "display"
    <3>1. Holder(ctl) = Second(ctl)
      BY <2>4 DEF Holder
    <3>2. Second(ctl) = None
      BY <2>1, <2>2, <2>4, <3>1 DEF LaneOK, StrokeOK, None
    <3> QED  BY <2>1, <2>2, <3>1, <3>2 DEF LaneOK, None
  <2> QED  BY <2>3, <2>4
<1> QED  BY <1>1, <1>2, <1>3, <1>4

\* The controller after a terminal that succeeded, before it shows or settles.
LEMMA DrainedIs ==
  ASSUME NEW s \in ControllerType
  PROVE  LET t == [s EXCEPT !.terminal = None, !.terminalExecuting = FALSE, !.phase = "idle"]
             u == [t EXCEPT !.previewDirty = previewReady(t)]
         IN /\ u \in ControllerType /\ Seen(s, u) /\ Queued(s, u) /\ u.frame = s.frame
            /\ u.session = s.session /\ u.historyId = s.historyId
            /\ u.paintedObjectIds = s.paintedObjectIds
            /\ u.terminal = None /\ u.phase = "idle"
<1> DEFINE t == [s EXCEPT !.terminal = None, !.terminalExecuting = FALSE, !.phase = "idle"]
           p == previewReady(t)
           u == [t EXCEPT !.previewDirty = p]
<1>1. t \in ControllerType
  BY DEF ControllerType, Terminals, Phases
<1>2. /\ Seen(s, t) /\ Queued(s, t) /\ t.frame = s.frame
      /\ t.session = s.session /\ t.historyId = s.historyId
      /\ t.paintedObjectIds = s.paintedObjectIds /\ t.terminal = None /\ t.phase = "idle"
  BY DEF ControllerType, Seen, Queued
<1> HIDE DEF t
<1>3. p \in BOOLEAN
  BY <1>1 DEF previewReady, Tool, ControllerType
<1> HIDE DEF p
<1>4. u \in ControllerType
  BY <1>1, <1>3 DEF ControllerType
<1>5. /\ Seen(t, u) /\ Queued(t, u) /\ u.frame = t.frame
      /\ u.session = t.session /\ u.historyId = t.historyId
      /\ u.paintedObjectIds = t.paintedObjectIds /\ u.terminal = t.terminal /\ u.phase = t.phase
  BY <1>1 DEF ControllerType, Seen, Queued
<1> HIDE DEF u
<1>6. /\ u \in ControllerType /\ Seen(s, u) /\ Queued(s, u) /\ u.frame = s.frame
      /\ u.session = s.session /\ u.historyId = s.historyId
      /\ u.paintedObjectIds = s.paintedObjectIds
      /\ u.terminal = None /\ u.phase = "idle"
  BY <1>2, <1>4, <1>5 DEF Seen, Queued
<1> QED  BY <1>6 DEF u, p, t

\* The engine has ended the stroke: the display goes on, or the operation leaves.
LEMMA DrainedKeeps ==
  ASSUME TypeInv, AtDrain, Accepts(ctl), NEW m \in NativeType, m.history = native.history,
         m.painting.target = native.painting.target, m.painting.channel = native.painting.channel,
         m.painting.stroke = "idle", NEW s \in ControllerType, Queued(ctl, s), s.frame = ctl.frame,
         s.historyId = ctl.historyId, s.session # NoSession, s.session.target = ctl.session.target,
         s.session.channel = ctl.session.channel, s.session.current, ~s.session.stroke,
         s.displayDirty, ctl' = Drained(s), native' = m, unshown' \subseteq s.paintedObjectIds
  PROVE  TypeInv' /\ (Inv => Inv')
<1> DEFINE t == [s EXCEPT !.terminal = None, !.terminalExecuting = FALSE, !.phase = "idle"]
           u == [t EXCEPT !.previewDirty = previewReady(t)]
<1>1. /\ u \in ControllerType /\ Seen(s, u) /\ Queued(s, u) /\ u.frame = s.frame
      /\ u.session = s.session /\ u.historyId = s.historyId
      /\ u.paintedObjectIds = s.paintedObjectIds
      /\ u.terminal = None /\ u.phase = "idle"
  BY DrainedIs
<1>2. /\ ctl.lane # <<>> /\ ctl \in ControllerType /\ ctl.at \in Drainers
      /\ First(ctl) \in {"display", "press", "move", "terminal", "gap", "eraseAll"}
      /\ First(ctl) = "display" <=> ctl.at # "drain"
      /\ Kind = First(ctl)
      /\ Inv => /\ ctl.phase \in {"ending", "cancelling"} /\ ctl.session.stroke
                /\ Len(ctl.lane) <= 2 /\ Second(ctl) \in {None, "display"}
                /\ Second(ctl) = "display" => ~ctl.frame
                /\ First(ctl) = "display" => Second(ctl) = None
                /\ ctl.projectOperations = 0
  BY DrainLane
<1>3. ctl' = IF ctl.at = "drainFirst" THEN Show(u) ELSE Settled(Pressed(u, "paint"))
  BY <1>2 DEF Drained, SettledAs
<1> HIDE DEF u
<1>4. /\ u.lane = ctl.lane /\ First(u) = First(ctl) /\ Second(u) = Second(ctl)
      /\ u.lane # <<>> /\ u.frame = ctl.frame /\ u.projectOperations = ctl.projectOperations
  BY <1>1, <1>2 DEF Queued, First, Second
<1>5. ASSUME Inv
      PROVE  NativeOK(u, m) /\ u.historyId
  <2>1. NativeOK(ctl, native) /\ ctl.session # NoSession
    BY <1>5 DEF Inv, InvAt, Accepts
  <2> QED  BY <1>1, <2>1 DEF NativeOK, Accepts
<1>6. CASE ctl.at = "drainFirst"
  <2> DEFINE w == Show(u)
  <2>1. First(u) = "display"
    BY <1>2, <1>4, <1>6
  <2>2. /\ Typed(w) /\ w.paintedObjectIds = u.paintedObjectIds
        /\ \A n : InvAt(u, "queued", n) /\ ~Drains(u) => InvAt(w, w.at, n)
    BY <1>1, <2>1, ShowKeeps
  <2> HIDE DEF w
  <2>3. ctl' = w
    BY <1>3, <1>6 DEF w
  <2>4. ~Drains(u)
    BY <1>1 DEF Drains
  <2>5. ASSUME Inv
        PROVE  InvAt(u, "queued", m)
    <3>1. /\ Second(u) = None /\ u.projectOperations = 0 /\ Len(u.lane) <= 2
          /\ Holder(u) = None /\ From(u) = None
      BY <1>2, <1>4, <2>1, <2>5 DEF Holder, From, None
    <3>2. LaneOK(u)
      <4>1. "display" = First(u) => ~u.frame
        <5>1. First(ctl) = "display" /\ LaneOK(ctl)
          BY <1>4, <2>1, <2>5 DEF Inv, InvAt
        <5> QED  BY <1>4, <5>1 DEF LaneOK
      <4> QED  BY <1>1, <2>1, <3>1, <4>1 DEF LaneOK, None
    <3>3. SessionOK(u, "queued") /\ StrokeOK(u, "queued") /\ DisplayOK(u, "queued")
      <4>1. SessionOK(u, "queued")
        BY <1>1, <1>5, <2>1, <2>5, <3>1 DEF SessionOK, None
      <4>2. StrokeOK(u, "queued")
        BY <1>1, <1>4, <3>1 DEF StrokeOK, None
      <4>3. DisplayOK(u, "queued")
        BY <1>1, <1>4 DEF DisplayOK, Seen
      <4> QED  BY <4>1, <4>2, <4>3
    <3> QED  BY <1>5, <2>5, <3>2, <3>3 DEF InvAt
  <2> QED  BY <1>1, <2>2, <2>3, <2>4, <2>5, Keeps
<1>7. CASE ctl.at # "drainFirst"
  <2> DEFINE w == Settled(Pressed(u, "paint"))
  <2>1. ctl' = w
    BY <1>3, <1>7
  <2>2. /\ Typed(w) /\ w.paintedObjectIds = u.paintedObjectIds
        /\ \A n : Resting(u, n) => InvAt(w, w.at, n)
    BY <1>1, <1>4, Settles
  <2> HIDE DEF w
  <2>3. ASSUME Inv
        PROVE  Resting(u, m)
    BY <1>1, <1>2, <1>4, <1>5, <2>3 DEF Resting, Seen
  <2> QED  BY <1>1, <2>1, <2>2, <2>3, Keeps
<1> QED  BY <1>6, <1>7

LEMMA DrainCommitKeeps ==
  ASSUME TypeInv, drainCommit
  PROVE  TypeInv' /\ (Inv => Inv')
<1> DEFINE r == receipt(ctl, FALSE)
           m == [native EXCEPT !.painting.stroke = "idle"]
<1>1. AtDrain /\ Accepts(ctl) /\ native' = m
  BY DEF drainCommit, Commits
<1>2. PICK effective \in BOOLEAN :
        LET painted == IF effective /\ ctl.session.channel = Mmu THEN {ctl.session.target} ELSE {}
        IN /\ ctl' = Drained([r EXCEPT !.paintedObjectIds = @ \cup painted])
           /\ unshown' = unshown \cup painted
  BY DEF drainCommit
<1> DEFINE painted == IF effective /\ ctl.session.channel = Mmu THEN {ctl.session.target} ELSE {}
           s == [r EXCEPT !.paintedObjectIds = @ \cup painted]
<1>3. ctl' = Drained(s) /\ unshown' = unshown \cup painted
  BY <1>2
<1>4. /\ ctl \in ControllerType /\ native \in NativeType /\ unshown \subseteq ctl.paintedObjectIds
      /\ ctl.session # NoSession
  BY <1>1, DrainLane DEF Accepts
<1>5. /\ m \in NativeType /\ m.history = native.history
      /\ m.painting.target = native.painting.target
      /\ m.painting.channel = native.painting.channel /\ m.painting.stroke = "idle"
  BY <1>4, StrokeIs
<1> HIDE DEF m
<1>6. /\ r \in ControllerType /\ Queued(ctl, r) /\ r.frame = ctl.frame
      /\ r.historyId = ctl.historyId /\ r.paintedObjectIds = ctl.paintedObjectIds
      /\ r.session # NoSession /\ r.session.target = ctl.session.target
      /\ r.session.channel = ctl.session.channel
      /\ r.session.current = TRUE /\ r.session.stroke = FALSE
      /\ r.displayDirty = TRUE
  BY <1>4, ReceiptIs
<1>7. painted \subseteq Targets
  BY <1>4, Sessions
<1> HIDE DEF r, painted
<1>8. /\ s \in ControllerType /\ s.paintedObjectIds = r.paintedObjectIds \cup painted
      /\ Queued(r, s) /\ s.frame = r.frame /\ s.historyId = r.historyId /\ s.session = r.session
      /\ s.displayDirty = r.displayDirty
  <2>1. r.paintedObjectIds \cup painted \in SUBSET Targets
    BY <1>6, <1>7 DEF ControllerType
  <2>2. s \in ControllerType
    BY <1>6, <2>1 DEF ControllerType
  <2> QED  BY <1>6, <2>2 DEF ControllerType, Queued
<1> HIDE DEF s
<1>9. /\ Queued(ctl, s) /\ s.frame = ctl.frame /\ s.historyId = ctl.historyId
      /\ s.session # NoSession /\ s.session.target = ctl.session.target
      /\ s.session.channel = ctl.session.channel /\ s.session.current /\ ~s.session.stroke
      /\ s.displayDirty /\ unshown' \subseteq s.paintedObjectIds
  BY <1>3, <1>4, <1>6, <1>8 DEF Queued
<1> QED  BY <1>1, <1>3, <1>5, <1>8, <1>9, DrainedKeeps

LEMMA DrainCancelKeeps ==
  ASSUME TypeInv, drainCancel
  PROVE  TypeInv' /\ (Inv => Inv')
<1> DEFINE r == receipt(ctl, FALSE)
           m == [native EXCEPT !.painting.stroke = "idle"]
<1>1. AtDrain /\ Accepts(ctl) /\ native' = m /\ ctl' = Drained(r) /\ UNCHANGED unshown
  BY DEF drainCancel
<1>2. /\ ctl \in ControllerType /\ native \in NativeType /\ unshown \subseteq ctl.paintedObjectIds
      /\ ctl.session # NoSession
  BY <1>1, DrainLane DEF Accepts
<1>3. /\ m \in NativeType /\ m.history = native.history
      /\ m.painting.target = native.painting.target
      /\ m.painting.channel = native.painting.channel /\ m.painting.stroke = "idle"
  BY <1>2, StrokeIs
<1> HIDE DEF m
<1>4. /\ r \in ControllerType /\ Queued(ctl, r) /\ r.frame = ctl.frame
      /\ r.historyId = ctl.historyId /\ r.paintedObjectIds = ctl.paintedObjectIds
      /\ r.session # NoSession /\ r.session.target = ctl.session.target
      /\ r.session.channel = ctl.session.channel
      /\ r.session.current = TRUE /\ r.session.stroke = FALSE
      /\ r.displayDirty = TRUE
  BY <1>2, ReceiptIs
<1> HIDE DEF r
<1>5. unshown' \subseteq r.paintedObjectIds
  BY <1>1, <1>2, <1>4
<1> QED  BY <1>1, <1>3, <1>4, <1>5, DrainedKeeps

LEMMA DrainFailsKeeps ==
  ASSUME TypeInv, drainFails
  PROVE  TypeInv' /\ (Inv => Inv')
<1>1. /\ ctl.lane # <<>> /\ ctl \in ControllerType /\ native \in NativeType
      /\ unshown \subseteq ctl.paintedObjectIds /\ ctl.at \in Drainers
      /\ First(ctl) = "display" <=> ctl.at # "drain"
      /\ Inv => /\ ctl.phase \in {"ending", "cancelling"} /\ ctl.session.stroke
                /\ First(ctl) = "display" => Second(ctl) = None
  BY DrainLane DEF drainFails
<1>2. UNCHANGED unshown
  BY DEF drainFails
<1>3. \/ ctl' = DrainFailed(ctl, FALSE) /\ UNCHANGED native
      \/ EngineCancels(ctl) /\ ctl' = DrainFailed(Cancelled(ctl), TRUE)
  BY DEF drainFails
<1>4. CASE ctl.at \in {"drainFirst", "drainLast"}
  <2>1. First(ctl) = "display"
    BY <1>1, <1>4
  <2>2. CASE ctl' = DrainFailed(ctl, FALSE) /\ UNCHANGED native
    <3> DEFINE t == DisplayFailed(ctl)
    <3>1. ctl' = t
      BY <1>4, <2>2 DEF DrainFailed
    <3>2. /\ Typed(t) /\ t.paintedObjectIds = ctl.paintedObjectIds
          /\ \A n : InvAt(ctl, "geometry", n) => InvAt(t, t.at, n)
      BY <1>1, <2>1, DisplayFailedKeeps
    <3> HIDE DEF t
    <3>3. ASSUME Inv
          PROVE  InvAt(ctl, "geometry", native)
      <4>1. /\ ctl.at \in DisplayStages /\ "geometry" \in DisplayStages /\ "geometry" \notin Drainers
            /\ ctl.at # "geometry" /\ InvAt(ctl, ctl.at, native)
        BY <1>4, <3>3 DEF DisplayStages, Drainers, Inv
      <4> QED  BY <1>1, <2>1, <4>1, Restage
    <3> QED  BY <1>1, <1>2, <2>2, <3>1, <3>2, <3>3, Keeps
  <2>3. CASE EngineCancels(ctl) /\ ctl' = DrainFailed(Cancelled(ctl), TRUE)
    <3> DEFINE c == Cancelled(ctl)
               m == [native EXCEPT !.painting.stroke = "idle"]
               t == DisplayFailed(c)
    <3>1. ctl' = t /\ native' = m /\ Accepts(ctl)
      BY <1>4, <2>3 DEF DrainFailed, EngineCancels
    <3>2. /\ m \in NativeType /\ m.history = native.history
          /\ m.painting.target = native.painting.target
          /\ m.painting.channel = native.painting.channel /\ m.painting.stroke = "idle"
      BY <1>1, StrokeIs
    <3> HIDE DEF m
    <3>3. /\ c \in ControllerType /\ Queued(ctl, c) /\ c.frame = ctl.frame /\ c.phase = ctl.phase
          /\ c.terminal = ctl.terminal /\ c.historyId = ctl.historyId
          /\ c.paintedObjectIds = ctl.paintedObjectIds
          /\ c.session # NoSession /\ c.session.target = ctl.session.target
          /\ c.session.channel = ctl.session.channel
          /\ c.session.current = TRUE /\ c.session.stroke = FALSE
      BY <1>1, <3>1, CancelledIs DEF Accepts
    <3> HIDE DEF c
    <3>4. /\ First(c) = "display" /\ c.lane = ctl.lane /\ Second(c) = Second(ctl) /\ From(c) = From(ctl)
          /\ Holder(c) = Holder(ctl) /\ c.projectOperations = ctl.projectOperations
      BY <2>1, <3>3 DEF Queued, First, Second, From, Holder
    <3>5. /\ Typed(t) /\ t.paintedObjectIds = c.paintedObjectIds
          /\ \A n : InvAt(c, "geometry", n) => InvAt(t, t.at, n)
      BY <3>3, <3>4, DisplayFailedKeeps
    <3> HIDE DEF t
    <3>6. ASSUME Inv
          PROVE  InvAt(c, "geometry", m)
      <4>1. InvAt(ctl, ctl.at, native) /\ ctl.session # NoSession
        BY <3>1, <3>6 DEF Inv, Accepts
      <4>2. LaneOK(c)
        BY <2>1, <3>3, <3>4, <4>1 DEF InvAt, LaneOK
      <4>3. NativeOK(c, m) /\ c.historyId
        BY <3>1, <3>2, <3>3, <4>1 DEF InvAt, NativeOK, Accepts
      <4>4. SessionOK(c, "geometry")
        BY <1>1, <3>3, <3>4, <3>6, <4>1, <4>3 DEF InvAt, SessionOK
      <4>5. StrokeOK(c, "geometry")
        BY <1>1, <3>3, <3>4, <3>6, <4>1 DEF InvAt, StrokeOK
      <4>6. DisplayOK(c, "geometry")
        BY <1>1, <3>4 DEF DisplayOK
      <4> QED  BY <4>2, <4>3, <4>4, <4>5, <4>6 DEF InvAt
    <3> QED  BY <1>1, <1>2, <3>1, <3>2, <3>3, <3>5, <3>6, Keeps
  <2> QED  BY <1>3, <2>2, <2>3
<1>5. CASE ctl.at \notin {"drainFirst", "drainLast"}
  <2>1. ctl.at # "geometry"
    BY <1>1 DEF Drainers
  <2>2. CASE ctl' = DrainFailed(ctl, FALSE) /\ UNCHANGED native
    <3>1. ctl' = Stopped(ctl, FALSE)
      BY <1>5, <2>2 DEF DrainFailed
    <3> QED  BY <1>1, <1>2, <2>1, <2>2, <3>1, FailureKeeps
  <2>3. CASE EngineCancels(ctl) /\ ctl' = DrainFailed(Cancelled(ctl), TRUE)
    <3>1. ctl' = Stopped(Cancelled(ctl), TRUE)
      BY <1>5, <2>3 DEF DrainFailed
    <3> QED  BY <1>1, <1>2, <2>3, <3>1, EngineStopKeeps
  <2> QED  BY <1>3, <2>2, <2>3
<1> QED  BY <1>4, <1>5

\* The display operation's reads.
LEMMA PreviewPaintingKeeps ==
  ASSUME TypeInv, previewPainting
  PROVE  TypeInv' /\ (Inv => Inv')
<1> DEFINE r == receipt(ctl, FALSE)
<1>1. /\ ctl.lane # <<>> /\ ctl.at = "preview" /\ ctl \in ControllerType
      /\ native \in NativeType /\ UNCHANGED <<native, unshown>>
      /\ unshown \subseteq ctl.paintedObjectIds
  BY DEF previewPainting, At, TypeInv
<1>2. First(ctl) = "display"
  BY <1>1, HeadIs DEF StageOf
<1>3. \/ Accepts(ctl) /\ native.painting.stroke = "idle" /\ ctl' = ReadGeometry(r)
      \/ ctl' = DisplayFailed(ctl)
  BY DEF previewPainting
<1>4. CASE Accepts(ctl) /\ native.painting.stroke = "idle" /\ ctl' = ReadGeometry(r)
  <2> DEFINE t == ReadGeometry(r)
  <2>1. Receipted(r, native) /\ r.phase = ctl.phase /\ r.terminal = ctl.terminal
        /\ r.session.stroke = FALSE /\ ctl.session # NoSession
    BY <1>1, <1>4, ReceiptedIs
  <2> HIDE DEF r
  <2>2. /\ First(r) = "display" /\ r.lane = ctl.lane /\ Second(r) = Second(ctl)
        /\ From(r) = From(ctl) /\ Holder(r) = Holder(ctl) /\ r \in ControllerType
    BY <1>2, <2>1 DEF Receipted, Queued, First, Second, From, Holder
  <2>3. /\ Typed(t) /\ t.paintedObjectIds = r.paintedObjectIds
        /\ \A n : InvAt(r, "queued", n) => InvAt(t, t.at, n)
    BY <2>2, ReadGeometryKeeps
  <2> HIDE DEF t
  <2>4. ASSUME Inv
        PROVE  InvAt(r, "queued", native)
    <3>1. InvAt(ctl, "preview", native)
      BY <1>1, <2>4 DEF Inv
    <3>2. ~ctl.session.stroke /\ ctl.historyId
      BY <1>4, <2>1, <3>1 DEF InvAt, NativeOK, Accepts
    <3>3. LaneOK(r)
      BY <1>2, <2>1, <2>2, <3>1 DEF InvAt, LaneOK, Receipted, Queued
    <3>4. NativeOK(r, native)
      BY <2>1, <3>1, <3>2 DEF InvAt, NativeOK, Receipted
    <3>5. SessionOK(r, "queued")
      BY <2>1, <2>2, <3>1 DEF InvAt, SessionOK, Receipted
    <3>6. StrokeOK(r, "queued")
      BY <2>1, <2>2, <3>1, <3>2 DEF InvAt, StrokeOK, Receipted
    <3>7. DisplayOK(r, "queued")
      BY <1>1, <2>1, <2>2 DEF DisplayOK, Receipted
    <3> QED  BY <3>3, <3>4, <3>5, <3>6, <3>7 DEF InvAt
  <2>5. ctl' = t /\ unshown' \subseteq t.paintedObjectIds
    BY <1>1, <1>4, <2>1, <2>3 DEF t, Receipted
  <2> QED  BY <1>1, <2>3, <2>4, <2>5, Keeps
<1>5. CASE ctl' = DisplayFailed(ctl)
  <2> DEFINE t == DisplayFailed(ctl)
  <2>1. /\ Typed(t) /\ t.paintedObjectIds = ctl.paintedObjectIds
        /\ \A n : InvAt(ctl, "geometry", n) => InvAt(t, t.at, n)
    BY <1>1, <1>2, DisplayFailedKeeps
  <2>2. ctl' = t
    BY <1>5
  <2> HIDE DEF t
  <2>3. ASSUME Inv
        PROVE  InvAt(ctl, "geometry", native)
    <3>1. /\ "preview" \in DisplayStages /\ "geometry" \in DisplayStages /\ "geometry" \notin Drainers
          /\ InvAt(ctl, "preview", native)
      BY <1>1, <2>3 DEF DisplayStages, Drainers, Inv
    <3> QED  BY <1>1, <1>2, <3>1, Restage
  <2> QED  BY <1>1, <2>1, <2>2, <2>3, Keeps
<1> QED  BY <1>3, <1>4, <1>5

\* The reading is on display, or a later one is due.
LEMMA GetPaintingGeometryKeeps ==
  ASSUME TypeInv, getPaintingGeometry
  PROVE  TypeInv' /\ (Inv => Inv')
<1> DEFINE d == [target |-> ctl.session.target, fit |-> TRUE, current |-> TRUE]
           x == IF ctl.reading = "stale" THEN [ctl EXCEPT !.displayDirty = TRUE]
                ELSE [ctl EXCEPT !.display = d]
<1>1. /\ ctl.lane # <<>> /\ ctl.at = "geometry" /\ ctl \in ControllerType
      /\ native \in NativeType /\ UNCHANGED <<native, unshown>>
      /\ unshown \subseteq ctl.paintedObjectIds
  BY DEF getPaintingGeometry, At, TypeInv
<1>2. First(ctl) = "display"
  BY <1>1, HeadIs DEF StageOf
<1>3. \/ Accepts(ctl) /\ ctl' = FinishDisplay(x)
      \/ ctl' = DisplayFailed(ctl)
  BY DEF getPaintingGeometry
<1>4. CASE Accepts(ctl) /\ ctl' = FinishDisplay(x)
  <2> DEFINE t == FinishDisplay(x)
  <2>1. ctl.session # NoSession /\ ctl.session.target \in Targets
    BY <1>1, <1>4, Sessions DEF Accepts
  <2>2. d \in DisplayType /\ d.target = ctl.session.target /\ d.fit /\ d.current
    BY <2>1 DEF DisplayType
  <2> HIDE DEF d
  <2>3. x \in ControllerType
    BY <1>1, <2>2 DEF ControllerType
  <2>4. /\ Drawn(ctl, x) /\ Queued(ctl, x) /\ x.frame = ctl.frame
        /\ x.displayDirty \/ x.display = d
    BY <1>1 DEF ControllerType, Drawn, Queued
  <2> HIDE DEF x
  <2>5. /\ First(x) = "display" /\ x.lane = ctl.lane /\ Second(x) = Second(ctl)
        /\ From(x) = From(ctl) /\ Holder(x) = Holder(ctl)
    BY <1>2, <2>4 DEF Queued, First, Second, From, Holder
  <2>6. /\ Typed(t) /\ t.paintedObjectIds = x.paintedObjectIds
        /\ \A n : InvAt(x, "queued", n) => InvAt(t, t.at, n)
    BY <2>3, <2>5, FinishDisplayKeeps
  <2> HIDE DEF t
  <2>7. ASSUME Inv
        PROVE  InvAt(x, "queued", native)
    <3>1. InvAt(ctl, "geometry", native)
      BY <1>1, <2>7 DEF Inv
    <3>2. LaneOK(x)
      BY <1>2, <2>4, <2>5, <3>1 DEF InvAt, LaneOK, Drawn, Queued
    <3>3. NativeOK(x, native)
      BY <2>4, <3>1 DEF InvAt, NativeOK, Drawn
    <3>4. SessionOK(x, "queued")
      BY <1>2, <2>4, <2>5, <3>1 DEF InvAt, SessionOK, Drawn
    <3>5. StrokeOK(x, "queued")
      BY <1>1, <1>2, <2>4, <2>5, <3>1 DEF InvAt, StrokeOK, Drawn
    <3>6. DisplayOK(x, "queued")
      BY <1>1, <2>2, <2>4, <2>5 DEF DisplayOK, displayMatchesTarget, Drawn
    <3> QED  BY <3>2, <3>3, <3>4, <3>5, <3>6 DEF InvAt
  <2>8. ctl' = t /\ unshown' \subseteq t.paintedObjectIds
    BY <1>1, <1>4, <2>4, <2>6 DEF t, Drawn
  <2> QED  BY <1>1, <2>6, <2>7, <2>8, Keeps
<1>5. CASE ctl' = DisplayFailed(ctl)
  <2> DEFINE t == DisplayFailed(ctl)
  <2>1. /\ Typed(t) /\ t.paintedObjectIds = ctl.paintedObjectIds
        /\ \A n : InvAt(ctl, "geometry", n) => InvAt(t, t.at, n)
    BY <1>1, <1>2, DisplayFailedKeeps
  <2>2. ctl' = t
    BY <1>5
  <2> HIDE DEF t
  <2>3. Inv => InvAt(ctl, "geometry", native)
    BY <1>1 DEF Inv
  <2> QED  BY <1>1, <2>1, <2>2, <2>3, Keeps
<1> QED  BY <1>3, <1>4, <1>5

-----------------------------------------------------------------------------
(* Project commands and closing *)

\* A project operation that runs holds the lane alone, over a session that is at rest.
LEMMA ProjectIs ==
  ASSUME TypeInv, ctl.lane # <<>>, First(ctl) = "project", Inv
  PROVE  /\ LaneOK(ctl) /\ NativeOK(ctl, native) /\ Len(ctl.lane) <= 2 /\ Second(ctl) = None
         /\ Holder(ctl) = "project" /\ From(ctl) = None /\ ctl.phase = "opening"
         /\ ctl.projectOperations = 1 /\ ctl.session # NoSession /\ ~ctl.session.stroke
         /\ ctl.at # "plainOperation" /\ ctl.at # "geometry"
         /\ ctl.at # "prepareClosed" => ctl.historyId
         /\ ctl.at = "operation" => ctl.session.current
         /\ ctl.session.current => ctl.displayDirty \/ ctl.readFailed
                                   \/ (displayMatchesTarget(ctl) /\ ctl.display.current)
<1>1. InvAt(ctl, ctl.at, native)
  BY DEF Inv
<1>2. /\ Second(ctl) = None /\ Holder(ctl) = "project" /\ Len(ctl.lane) <= 2
      /\ StageOf("project", ctl.at)
  BY HeadIs
<1>3. From(ctl) = None
  BY <1>2 DEF From, None
<1>4. ctl.phase = "opening" /\ ctl.projectOperations = 1
  BY <1>1, <1>2 DEF InvAt, LaneOK
<1>5. /\ ctl.session # NoSession /\ (ctl.at # "prepareClosed" => ctl.historyId)
      /\ ctl.at = "operation" => ctl.session.current
      /\ ctl.at # "plainOperation"
  BY <1>1, <1>2 DEF InvAt, SessionOK
<1>6. ~ctl.session.stroke
  BY <1>1, <1>4 DEF InvAt, StrokeOK
<1>7. ctl.at # "geometry"
  BY <1>2 DEF StageOf
<1>8. ctl.session.current => ctl.displayDirty \/ ctl.readFailed
                             \/ (displayMatchesTarget(ctl) /\ ctl.display.current)
  BY <1>1, <1>5, <1>7 DEF InvAt, DisplayOK
<1> QED  BY <1>1, <1>2, <1>3, <1>4, <1>5, <1>6, <1>7, <1>8 DEF InvAt

\* The last project operation leaves an idle controller, or a closed one.
LEMMA ProjectRests ==
  ASSUME NEW s \in ControllerType, NEW n, s.lane # <<>>, Len(s.lane) <= 2, Second(s) = None,
         s.projectOperations = 1, NativeOK(s, n), ~s.session.stroke,
         \/ /\ s.phase = "opening" /\ s.session # NoSession /\ s.historyId /\ s.session.current
            /\ s.displayDirty \/ s.readFailed \/ (displayMatchesTarget(s) /\ s.display.current)
         \/ /\ s.phase = "closed" /\ s.session = NoSession /\ ~s.historyId
            /\ s.paintedObjectIds = {}
  PROVE  Resting(ProjectRest(s), n)
<1> DEFINE u == ProjectRest(s)
<1>1. /\ u \in ControllerType /\ Seen(s, u) /\ u.lane = s.lane /\ u.frame = s.frame
      /\ u.session = s.session /\ u.terminal = s.terminal /\ u.historyId = s.historyId
      /\ u.paintedObjectIds = s.paintedObjectIds /\ u.projectOperations = 0
      /\ u.phase = IF s.phase = "opening" THEN "idle" ELSE s.phase
  BY ProjectRestIs
<1> HIDE DEF u
<1>2. Second(u) = None /\ NativeOK(u, n)
  BY <1>1 DEF Second, NativeOK
<1>3. Resting(u, n)
  BY <1>1, <1>2 DEF Resting, Seen, displayMatchesTarget, None
<1> QED  BY <1>3 DEF u

\* A command that revised the painted target.
Revised ==
  [ctl EXCEPT !.session.current = FALSE, !.display.current = FALSE,
              !.display.fit = @ /\ ctl.display.target # ctl.session.target]

LEMMA RevisedIs ==
  ASSUME ctl \in ControllerType, ctl.session.target # None
  PROVE  /\ Revised \in ControllerType /\ Queued(ctl, Revised) /\ Revised.frame = ctl.frame
         /\ Revised.phase = ctl.phase /\ Revised.terminal = ctl.terminal
         /\ Revised.historyId = ctl.historyId
         /\ Revised.paintedObjectIds = ctl.paintedObjectIds
         /\ Revised.session # NoSession /\ Revised.session.target = ctl.session.target
         /\ Revised.session.channel = ctl.session.channel
         /\ Revised.session.current = FALSE /\ Revised.session.stroke = ctl.session.stroke
<1> DEFINE e == [ctl.session EXCEPT !.current = FALSE]
           f == ctl.display.fit /\ ctl.display.target # ctl.session.target
           d == [ctl.display EXCEPT !.current = FALSE, !.fit = f]
           t == [ctl EXCEPT !.session = e, !.display = d]
<1>1. /\ e \in SessionType /\ e # NoSession /\ e.target = ctl.session.target
      /\ e.channel = ctl.session.channel /\ e.current = FALSE /\ e.stroke = ctl.session.stroke
  BY DEF ControllerType, SessionType, NoSession
<1>2. f \in BOOLEAN
  BY DEF ControllerType, DisplayType
<1>3. Revised = t
  BY DEF Revised, ControllerType, SessionType, DisplayType
<1> HIDE DEF f
<1>4. d \in DisplayType
  BY <1>2 DEF ControllerType, DisplayType
<1> HIDE DEF e, d
<1>5. t \in ControllerType
  BY <1>1, <1>4 DEF ControllerType
<1>6. /\ Queued(ctl, t) /\ t.frame = ctl.frame /\ t.phase = ctl.phase
      /\ t.terminal = ctl.terminal /\ t.historyId = ctl.historyId
      /\ t.paintedObjectIds = ctl.paintedObjectIds /\ t.session = e
  BY DEF ControllerType, Queued
<1> QED  BY <1>1, <1>3, <1>5, <1>6

\* The command has run: what it left of the session is read again, or closed.
LEMMA CommandKeeps ==
  ASSUME TypeInv, ctl.lane # <<>>, First(ctl) = "project", ctl.at \in {"operation", "plainOperation"},
         UNCHANGED <<native, unshown>>,
         NEW s, s = ctl \/ (s = Revised /\ ctl.session.target # None),
         \/ ctl.at = "plainOperation" /\ ctl' = ProjectSettled(s)
         \/ s.session = NoSession /\ ctl' = Stopped(s, FALSE)
         \/ ctl.at = "operation" /\ s.session # NoSession
            /\ ctl' \in {CloseOwned(s), [s EXCEPT !.at = "readSession"]}
  PROVE  TypeInv' /\ (Inv => Inv')
<1>1. /\ ctl \in ControllerType /\ native \in NativeType
      /\ unshown \subseteq ctl.paintedObjectIds
  BY DEF TypeInv
<1>2. /\ s \in ControllerType /\ s.lane = ctl.lane /\ s.frame = ctl.frame /\ s.phase = ctl.phase
      /\ s.terminal = ctl.terminal /\ s.historyId = ctl.historyId
      /\ s.projectOperations = ctl.projectOperations
      /\ s.paintedObjectIds = ctl.paintedObjectIds /\ s.session.target = ctl.session.target
      /\ s.session.channel = ctl.session.channel
      /\ s.session.stroke = ctl.session.stroke
      /\ s = ctl \/ (s.session # NoSession /\ ~s.session.current)
  BY <1>1, RevisedIs DEF Queued
<1>3. /\ First(s) = "project" /\ Second(s) = Second(ctl) /\ From(s) = From(ctl)
      /\ Holder(s) = Holder(ctl)
  BY <1>2 DEF First, Second, From, Holder
<1>4. CASE ctl.at = "plainOperation" /\ ctl' = ProjectSettled(s)
  <2> DEFINE t == ProjectSettled(s)
  <2>1. Typed(t) /\ t.paintedObjectIds = s.paintedObjectIds
    BY <1>2, ProjectSettles
  <2>2. ctl' = t
    BY <1>4
  <2> HIDE DEF t
  <2>3. ~Inv
    BY <1>4, ProjectIs
  <2> QED  BY <1>1, <1>2, <2>1, <2>2, <2>3, Keeps
<1>5. CASE s.session = NoSession /\ ctl' = Stopped(s, FALSE)
  <2>1. s = ctl
    BY <1>2, <1>5
  <2>2. ~Inv
    BY <1>5, <2>1, ProjectIs
  <2> QED  BY <1>5, <2>1, <2>2, FailureKeeps
<1>6. ASSUME Inv
      PROVE  /\ s.session # NoSession /\ ~s.session.stroke /\ s.historyId /\ LaneOK(s)
             /\ NativeOK(s, native) /\ From(s) = None /\ Second(s) = None
             /\ Holder(s) = "project" /\ s.phase = "opening" /\ s.projectOperations = 1
             /\ s.session.current => s.displayDirty \/ s.readFailed
                                     \/ (displayMatchesTarget(s) /\ s.display.current)
  <2>1. /\ LaneOK(ctl) /\ NativeOK(ctl, native) /\ Second(ctl) = None
        /\ Holder(ctl) = "project" /\ From(ctl) = None /\ ctl.phase = "opening"
        /\ ctl.projectOperations = 1 /\ ctl.session # NoSession /\ ~ctl.session.stroke
        /\ ctl.historyId
        /\ ctl.session.current => ctl.displayDirty \/ ctl.readFailed
                                  \/ (displayMatchesTarget(ctl) /\ ctl.display.current)
    BY <1>6, ProjectIs
  <2>2. s.session # NoSession
    BY <1>2, <2>1
  <2>3. LaneOK(s)
    BY <1>2, <1>3, <2>1 DEF LaneOK
  <2>4. NativeOK(s, native)
    BY <1>2, <2>1, <2>2 DEF NativeOK
  <2> QED  BY <1>2, <1>3, <2>1, <2>2, <2>3, <2>4
<1>7. CASE s.session # NoSession /\ ctl' = CloseOwned(s)
  <2> DEFINE t == CloseOwned(s)
  <2>1. /\ Typed(t) /\ t.paintedObjectIds = s.paintedObjectIds
        /\ \A n : MayClose(s, n) => InvAt(t, t.at, n)
    BY <1>2, <1>3, ClosesKeeps
  <2>2. ctl' = t
    BY <1>7
  <2> HIDE DEF t
  <2>3. Inv => MayClose(s, native)
    BY <1>2, <1>3, <1>6 DEF MayClose, None
  <2> QED  BY <1>1, <1>2, <2>1, <2>2, <2>3, Keeps
<1>8. CASE s.session # NoSession /\ ctl' = [s EXCEPT !.at = "readSession"]
  <2> DEFINE t == [s EXCEPT !.at = "readSession"]
  <2>1. "readSession" \in Stages /\ StageOf(First(s), "readSession")
    BY <1>3 DEF Stages, StageOf
  <2>2. /\ Typed(t) /\ t.paintedObjectIds = s.paintedObjectIds
        /\ \A n : InvAt(s, "readSession", n) => InvAt(t, t.at, n)
    BY <1>2, <1>8, <2>1, ToIs
  <2>3. ctl' = t
    BY <1>8
  <2> HIDE DEF t
  <2>4. ASSUME Inv
        PROVE  InvAt(s, "readSession", native)
    <3>1. SessionOK(s, "readSession")
      BY <1>3, <1>6, <2>4 DEF SessionOK, None
    <3>2. StrokeOK(s, "readSession")
      BY <1>2, <1>3, <1>6, <2>4 DEF StrokeOK, None
    <3>3. DisplayOK(s, "readSession")
      BY <1>2, <1>6, <2>4 DEF DisplayOK
    <3> QED  BY <1>6, <2>4, <3>1, <3>2, <3>3 DEF InvAt
  <2> QED  BY <1>1, <1>2, <2>2, <2>3, <2>4, Keeps
<1> QED  BY <1>4, <1>5, <1>7, <1>8

LEMMA OperationKeeps ==
  ASSUME TypeInv, operation
  PROVE  TypeInv' /\ (Inv => Inv')
<1>1. /\ ctl.lane # <<>> /\ ctl.at \in {"operation", "plainOperation"} /\ ctl \in ControllerType
      /\ native \in NativeType /\ UNCHANGED <<native, unshown>>
      /\ unshown \subseteq ctl.paintedObjectIds
  BY DEF operation, At, TypeInv
<1>2. First(ctl) = "project"
  BY <1>1, HeadIs DEF StageOf
<1>3. \/ \E s \in {ctl} \cup (IF ctl.session.target = None THEN {} ELSE {Revised}),
            available \in BOOLEAN :
           ctl' = IF ctl.at = "plainOperation" THEN ProjectSettled(s)
                  ELSE IF s.session = NoSession THEN Stopped(s, FALSE)
                  ELSE IF ~available THEN CloseOwned(s) ELSE [s EXCEPT !.at = "readSession"]
      \/ ctl' = ProjectSettled(fail(ctl))
  BY DEF operation, Revised
<1>4. CASE \E s \in {ctl} \cup (IF ctl.session.target = None THEN {} ELSE {Revised}),
              available \in BOOLEAN :
             ctl' = IF ctl.at = "plainOperation" THEN ProjectSettled(s)
                    ELSE IF s.session = NoSession THEN Stopped(s, FALSE)
                    ELSE IF ~available THEN CloseOwned(s) ELSE [s EXCEPT !.at = "readSession"]
  <2>1. PICK s \in {ctl} \cup (IF ctl.session.target = None THEN {} ELSE {Revised}),
             available \in BOOLEAN :
               ctl' = IF ctl.at = "plainOperation" THEN ProjectSettled(s)
                      ELSE IF s.session = NoSession THEN Stopped(s, FALSE)
                      ELSE IF ~available THEN CloseOwned(s) ELSE [s EXCEPT !.at = "readSession"]
    BY <1>4
  <2>2. CASE s = ctl
    <3>1. \/ ctl.at = "plainOperation" /\ ctl' = ProjectSettled(s)
          \/ s.session = NoSession /\ ctl' = Stopped(s, FALSE)
          \/ /\ ctl.at = "operation" /\ s.session # NoSession
             /\ ctl' \in {CloseOwned(s), [s EXCEPT !.at = "readSession"]}
      BY <1>1, <2>1
    <3> QED  BY <1>1, <1>2, <2>2, <3>1, CommandKeeps
  <2>3. CASE s = Revised /\ ctl.session.target # None
    <3>1. \/ ctl.at = "plainOperation" /\ ctl' = ProjectSettled(s)
          \/ s.session = NoSession /\ ctl' = Stopped(s, FALSE)
          \/ /\ ctl.at = "operation" /\ s.session # NoSession
             /\ ctl' \in {CloseOwned(s), [s EXCEPT !.at = "readSession"]}
      BY <1>1, <2>1
    <3> QED  BY <1>1, <1>2, <2>3, <3>1, CommandKeeps
  <2> QED  BY <2>1, <2>2, <2>3
<1>5. CASE ctl' = ProjectSettled(fail(ctl))
  <2> DEFINE s == fail(ctl)
             t == ProjectSettled(s)
  <2>1. s \in ControllerType /\ Same(ctl, s)
    BY <1>1, FailIs, LikeIsSame
  <2> HIDE DEF s
  <2>2. s.lane # <<>> /\ s.paintedObjectIds = ctl.paintedObjectIds
    BY <1>1, <2>1 DEF Same, Drawn
  <2>3. /\ Typed(t) /\ t.paintedObjectIds = s.paintedObjectIds
        /\ \A n : Resting(ProjectRest(s), n) => InvAt(t, t.at, n)
    BY <2>1, <2>2, ProjectSettles
  <2>4. ctl' = t
    BY <1>5 DEF s
  <2> HIDE DEF t
  <2>5. ASSUME Inv
        PROVE  Resting(ProjectRest(s), native)
    <3>1. /\ NativeOK(ctl, native) /\ Len(ctl.lane) <= 2 /\ Second(ctl) = None
          /\ ctl.phase = "opening" /\ ctl.projectOperations = 1
          /\ ctl.session # NoSession /\ ~ctl.session.stroke /\ ctl.historyId
          /\ ctl.session.current
          /\ ctl.displayDirty \/ ctl.readFailed
             \/ (displayMatchesTarget(ctl) /\ ctl.display.current)
      BY <1>1, <1>2, <2>5, ProjectIs
    <3>2. /\ NativeOK(s, native) /\ Len(s.lane) <= 2 /\ Second(s) = None
          /\ s.phase = "opening" /\ s.projectOperations = 1
          /\ s.session # NoSession /\ ~s.session.stroke /\ s.historyId
          /\ s.session.current
          /\ s.displayDirty \/ s.readFailed
             \/ (displayMatchesTarget(s) /\ s.display.current)
      BY <2>1, <3>1 DEF Same, Drawn, Seen, NativeOK, Second, displayMatchesTarget
    <3> QED  BY <2>1, <2>2, <3>2, ProjectRests
  <2> QED  BY <1>1, <2>2, <2>3, <2>4, <2>5, Keeps
<1> QED  BY <1>3, <1>4, <1>5

LEMMA ReadPaintingSessionKeeps ==
  ASSUME TypeInv, readPaintingSession
  PROVE  TypeInv' /\ (Inv => Inv')
<1> DEFINE s == [ctl EXCEPT !.session.current = TRUE, !.displayDirty = TRUE, !.readFailed = FALSE]
           p == previewReady(s)
           r == [s EXCEPT !.previewDirty = p]
<1>1. /\ ctl.lane # <<>> /\ ctl.at = "readSession" /\ ctl \in ControllerType
      /\ native \in NativeType /\ UNCHANGED <<native, unshown>>
      /\ unshown \subseteq ctl.paintedObjectIds
  BY DEF readPaintingSession, At, TypeInv
<1>2. First(ctl) = "project" /\ ctl.session # NoSession
  BY <1>1, HeadIs DEF StageOf, TypeInv, HeadOK
<1>3. ctl' = ProjectSettled(r) \/ ctl' = Stopped(ctl, FALSE)
  BY DEF readPaintingSession
<1>4. CASE ctl' = ProjectSettled(r)
  <2> DEFINE t == ProjectSettled(r)
             e == [ctl.session EXCEPT !.current = TRUE]
  <2>1. /\ e \in SessionType /\ e # NoSession /\ e.target = ctl.session.target
        /\ e.channel = ctl.session.channel /\ e.current = TRUE /\ e.stroke = ctl.session.stroke
    BY <1>1, <1>2 DEF ControllerType, SessionType, NoSession
  <2>2. s = [ctl EXCEPT !.session = e, !.displayDirty = TRUE, !.readFailed = FALSE]
    BY <1>1 DEF ControllerType, SessionType
  <2> HIDE DEF e, s
  <2>3. s \in ControllerType
    BY <1>1, <2>1, <2>2 DEF ControllerType
  <2>4. /\ Queued(ctl, s) /\ s.frame = ctl.frame /\ s.phase = ctl.phase
        /\ s.historyId = ctl.historyId /\ s.paintedObjectIds = ctl.paintedObjectIds
        /\ s.session = e /\ s.displayDirty = TRUE
    BY <1>1, <2>2 DEF ControllerType, Queued
  <2>5. p \in BOOLEAN
    BY <2>3 DEF previewReady, Tool, ControllerType
  <2> HIDE DEF p
  <2>6. /\ r \in ControllerType /\ Queued(s, r) /\ r.frame = s.frame /\ r.phase = s.phase
        /\ r.historyId = s.historyId /\ r.paintedObjectIds = s.paintedObjectIds
        /\ r.session = s.session /\ r.displayDirty = s.displayDirty
    BY <2>3, <2>5 DEF ControllerType, Queued
  <2> HIDE DEF r
  <2>7. /\ r.lane = ctl.lane /\ r.lane # <<>> /\ r.paintedObjectIds = ctl.paintedObjectIds
    BY <1>1, <2>4, <2>6 DEF Queued
  <2>8. /\ Typed(t) /\ t.paintedObjectIds = r.paintedObjectIds
        /\ \A n : Resting(ProjectRest(r), n) => InvAt(t, t.at, n)
    BY <2>6, <2>7, ProjectSettles
  <2>9. ctl' = t
    BY <1>4
  <2> HIDE DEF t
  <2>10. ASSUME Inv
         PROVE  Resting(ProjectRest(r), native)
    <3>1. /\ NativeOK(ctl, native) /\ Len(ctl.lane) <= 2 /\ Second(ctl) = None
          /\ ctl.phase = "opening" /\ ctl.projectOperations = 1
          /\ ctl.session # NoSession /\ ~ctl.session.stroke /\ ctl.historyId
      BY <1>1, <1>2, <2>10, ProjectIs
    <3>2. NativeOK(r, native)
      BY <2>1, <2>4, <2>6, <3>1 DEF NativeOK
    <3>3. /\ Len(r.lane) <= 2 /\ Second(r) = None /\ r.phase = "opening"
          /\ r.projectOperations = 1 /\ r.session # NoSession /\ ~r.session.stroke
          /\ r.historyId /\ r.session.current /\ r.displayDirty
      BY <2>1, <2>4, <2>6, <2>7, <3>1 DEF Second, Queued
    <3> QED  BY <2>6, <2>7, <3>2, <3>3, ProjectRests
  <2> QED  BY <1>1, <2>7, <2>8, <2>9, <2>10, Keeps
<1>5. CASE ctl' = Stopped(ctl, FALSE)
  BY <1>1, <1>2, <1>5, FailureKeeps
<1> QED  BY <1>3, <1>4, <1>5

\* What a closing operation may find, in the stages of closeOwned().
LEMMA MayCloseHere ==
  ASSUME TypeInv, ctl.lane # <<>>, ctl.at \in {"cancelDraft", "closeHistory", "prepareClosed"}, Inv
  PROVE  MayClose(ctl, native) /\ Second(ctl) = None /\ Holder(ctl) = First(ctl)
<1>1. InvAt(ctl, ctl.at, native) /\ ctl \in ControllerType
  BY DEF Inv, TypeInv
<1>2. First(ctl) \in {"close", "project"}
  BY HeadIs DEF StageOf
<1>3. Second(ctl) = None /\ Holder(ctl) = First(ctl)
  BY <1>2, HeadIs
<1>4. ctl.phase \in {"closing", "opening"}
  BY <1>1, <1>2, <1>3 DEF InvAt, LaneOK
<1>5. ctl.session.stroke => ctl.terminal = None
  BY <1>1, <1>4 DEF InvAt, StrokeOK
<1>6. First(ctl) = "project" => ctl.session # NoSession /\ ~ctl.session.stroke
  BY <1>2, ProjectIs
<1>7. From(ctl) = "idle" => ctl.session # NoSession /\ ctl.session.current /\ ~ctl.session.stroke
  BY <1>1 DEF InvAt, SessionOK
<1>8. ctl.session = NoSession => ctl.paintedObjectIds = {}
  BY <1>1 DEF InvAt, SessionOK
<1>9. ctl.session # NoSession /\ ctl.session.current =>
        ctl.displayDirty \/ ctl.readFailed \/ (displayMatchesTarget(ctl) /\ ctl.display.current)
  BY <1>1 DEF InvAt, DisplayOK
<1> QED  BY <1>1, <1>2, <1>3, <1>5, <1>6, <1>7, <1>8, <1>9 DEF MayClose, InvAt

LEMMA ClosingFailsKeeps ==
  ASSUME TypeInv, ctl.lane # <<>>, ctl.at \in {"cancelDraft", "closeHistory", "prepareClosed"},
         ctl' = CloseFailed(ctl), UNCHANGED <<native, unshown>>
  PROVE  TypeInv' /\ (Inv => Inv')
<1> DEFINE t == CloseFailed(ctl)
<1>1. /\ ctl \in ControllerType /\ native \in NativeType /\ unshown \subseteq ctl.paintedObjectIds
  BY DEF TypeInv
<1>2. First(ctl) \in {"close", "project"}
  BY HeadIs DEF StageOf
<1>3. /\ Typed(t) /\ t.paintedObjectIds = ctl.paintedObjectIds
      /\ \A n : MayClose(ctl, n) => InvAt(t, t.at, n)
  BY <1>1, <1>2, CloseFailedKeeps
<1>4. ctl' = t
  OBVIOUS
<1> HIDE DEF t
<1>5. Inv => MayClose(ctl, native)
  BY MayCloseHere
<1> QED  BY <1>1, <1>3, <1>4, <1>5, Keeps

LEMMA CancelDraftKeeps ==
  ASSUME TypeInv, cancelDraft
  PROVE  TypeInv' /\ (Inv => Inv')
<1> DEFINE r == receipt(ctl, FALSE)
           w == [r EXCEPT !.terminal = None, !.terminalExecuting = FALSE]
           m == [native EXCEPT !.painting.stroke = "idle"]
<1>1. /\ ctl.lane # <<>> /\ ctl.at = "cancelDraft" /\ ctl \in ControllerType
      /\ native \in NativeType /\ UNCHANGED unshown /\ unshown \subseteq ctl.paintedObjectIds
  BY DEF cancelDraft, At, TypeInv
<1>2. First(ctl) \in {"close", "project"}
  BY <1>1, HeadIs DEF StageOf
<1>3. \/ Accepts(ctl) /\ native' = m /\ ctl' = CloseOwned(w)
      \/ ctl' = CloseFailed(ctl) /\ UNCHANGED native
  BY DEF cancelDraft
<1>4. CASE Accepts(ctl) /\ native' = m /\ ctl' = CloseOwned(w)
  <2> DEFINE t == CloseOwned(w)
  <2>1. /\ m \in NativeType /\ m.history = native.history
        /\ m.painting.target = native.painting.target
        /\ m.painting.channel = native.painting.channel /\ m.painting.stroke = "idle"
    BY <1>1, StrokeIs
  <2>2. native' = m /\ ctl' = t
    BY <1>4
  <2> HIDE DEF m
  <2>3. Receipted(r, m) /\ r.phase = ctl.phase /\ r.session.stroke = FALSE /\ ctl.session # NoSession
    BY <1>4, <2>1, ReceiptedIs
  <2> HIDE DEF r
  <2>4. w \in ControllerType
    BY <2>3 DEF Receipted, ControllerType, Terminals
  <2>5. /\ w.lane = r.lane /\ w.at = r.at /\ w.frame = r.frame /\ w.session = r.session
        /\ w.phase = r.phase /\ w.projectOperations = r.projectOperations
        /\ w.historyId = r.historyId /\ w.terminal = None
        /\ w.paintedObjectIds = r.paintedObjectIds /\ w.displayDirty = r.displayDirty
    BY <2>3 DEF Receipted, ControllerType
  <2> HIDE DEF w
  <2>6. /\ w.lane = ctl.lane /\ First(w) = First(ctl) /\ Second(w) = Second(ctl)
        /\ From(w) = From(ctl) /\ Holder(w) = Holder(ctl)
        /\ w.paintedObjectIds = ctl.paintedObjectIds
    BY <2>3, <2>5 DEF Receipted, Queued, First, Second, From, Holder
  <2>7. /\ Typed(t) /\ t.paintedObjectIds = w.paintedObjectIds
        /\ \A n : MayClose(w, n) => InvAt(t, t.at, n)
    BY <1>2, <2>4, <2>6, ClosesKeeps
  <2> HIDE DEF t
  <2>8. ASSUME Inv
        PROVE  MayClose(w, m)
    <3>1. LaneOK(ctl) /\ NativeOK(ctl, native)
      BY <2>8 DEF Inv, InvAt
    <3>2. LaneOK(w)
      BY <2>3, <2>5, <2>6, <3>1 DEF LaneOK, Receipted, Queued
    <3>3. ctl.historyId
      BY <1>4, <3>1 DEF Accepts, NativeOK
    <3>4. NativeOK(w, m)
      BY <2>1, <2>3, <2>5, <3>1, <3>3 DEF NativeOK, Receipted
    <3> QED  BY <1>1, <1>2, <2>3, <2>5, <2>6, <3>2, <3>4 DEF MayClose, Receipted
  <2>9. unshown' \subseteq t.paintedObjectIds
    BY <1>1, <2>6, <2>7
  <2> QED  BY <1>1, <2>1, <2>2, <2>7, <2>8, <2>9, Keeps
<1>5. CASE ctl' = CloseFailed(ctl) /\ UNCHANGED native
  BY <1>1, <1>5, ClosingFailsKeeps
<1> QED  BY <1>3, <1>4, <1>5

LEMMA CloseHistorySessionKeeps ==
  ASSUME TypeInv, closeHistorySession
  PROVE  TypeInv' /\ (Inv => Inv')
<1> DEFINE w == [ctl EXCEPT !.historyId = FALSE]
           m == [history |-> FALSE, painting |-> NoPainting]
<1>1. /\ ctl.lane # <<>> /\ ctl.at = "closeHistory" /\ ctl \in ControllerType
      /\ native \in NativeType /\ UNCHANGED unshown /\ unshown \subseteq ctl.paintedObjectIds
  BY DEF closeHistorySession, At, TypeInv
<1>2. First(ctl) \in {"close", "project"}
  BY <1>1, HeadIs DEF StageOf
<1>3. \/ native' = m /\ ctl' = CloseOwned(w)
      \/ ctl' = CloseFailed(ctl) /\ UNCHANGED native
  BY DEF closeHistorySession
<1>4. CASE native' = m /\ ctl' = CloseOwned(w)
  <2> DEFINE t == CloseOwned(w)
  <2>1. m \in NativeType
    BY DEF NativeType, NoPainting
  <2>2. /\ w \in ControllerType /\ w.historyId = FALSE /\ Seen(ctl, w) /\ Queued(ctl, w)
        /\ w.phase = ctl.phase /\ w.session = ctl.session /\ w.terminal = ctl.terminal
        /\ w.paintedObjectIds = ctl.paintedObjectIds /\ w.frame = ctl.frame
    BY <1>1 DEF ControllerType, Seen, Queued
  <2>3. native' = m /\ ctl' = t
    BY <1>4
  <2> HIDE DEF w
  <2>4. /\ w.lane = ctl.lane /\ First(w) = First(ctl) /\ Second(w) = Second(ctl)
        /\ From(w) = From(ctl) /\ Holder(w) = Holder(ctl)
    BY <2>2 DEF Queued, First, Second, From, Holder
  <2>5. /\ Typed(t) /\ t.paintedObjectIds = w.paintedObjectIds
        /\ \A n : MayClose(w, n) => InvAt(t, t.at, n)
    BY <1>2, <2>2, <2>4, ClosesKeeps
  <2> HIDE DEF t
  <2>6. ASSUME Inv
        PROVE  MayClose(w, m)
    <3>1. MayClose(ctl, native) /\ ~ctl.session.stroke
      <4>1. SessionOK(ctl, "closeHistory")
        BY <1>1, <2>6 DEF Inv, InvAt
      <4> QED  BY <1>1, <2>6, <4>1, MayCloseHere DEF SessionOK
    <3>2. LaneOK(w)
      BY <2>2, <2>4, <3>1 DEF MayClose, LaneOK, Queued
    <3>3. NativeOK(w, m)
      BY <2>2, <3>1 DEF NativeOK
    <3> QED  BY <2>2, <2>4, <3>1, <3>2, <3>3 DEF MayClose, Seen, displayMatchesTarget
  <2> HIDE DEF m
  <2> QED  BY <1>1, <2>1, <2>2, <2>3, <2>5, <2>6, Keeps
<1>5. CASE ctl' = CloseFailed(ctl) /\ UNCHANGED native
  BY <1>1, <1>5, ClosingFailsKeeps
<1> QED  BY <1>3, <1>4, <1>5

\* What the renderer has published leaves nothing of the session behind.
LEMMA ClosedIs ==
  ASSUME NEW s \in ControllerType
  PROVE  LET t == Closed(s)
         IN /\ t \in ControllerType /\ Queued(s, t) /\ t.phase = "closed" /\ t.session = NoSession
            /\ t.historyId = s.historyId /\ t.paintedObjectIds = {} /\ t.frame = FALSE
<1> DEFINE a == advancePreview(s)
           t == [a EXCEPT
                   !.paintedObjectIds = {}, !.frame = FALSE, !.displayDirty = FALSE,
                   !.previewDirty = FALSE, !.readFailed = FALSE, !.hover = FALSE,
                   !.phase = "closed", !.session = NoSession, !.display = NoDisplay,
                   !.error = FALSE, !.switching = FALSE]
<1>1. /\ a \in ControllerType /\ a.lane = s.lane /\ a.at = s.at
      /\ a.projectOperations = s.projectOperations /\ a.historyId = s.historyId
  BY AdvanceIs DEF Like, Drawn, Queued
<1>2. Closed(s) = t
  BY DEF Closed
<1> HIDE DEF a
<1>3. NoSession \in SessionType /\ NoDisplay \in DisplayType /\ "closed" \in Phases
  BY DEF NoSession, SessionType, NoDisplay, DisplayType, Phases
<1>4. t \in ControllerType
  <2> DEFINE b == [a EXCEPT !.paintedObjectIds = {}, !.frame = FALSE, !.displayDirty = FALSE,
                            !.previewDirty = FALSE, !.readFailed = FALSE, !.hover = FALSE]
             c == [b EXCEPT !.phase = "closed", !.session = NoSession, !.display = NoDisplay,
                            !.error = FALSE, !.switching = FALSE]
  <2>1. b \in ControllerType
    BY ZenonT(60), <1>1 DEF ControllerType
  <2>2. t = c
    BY <1>1 DEF ControllerType
  <2> HIDE DEF b
  <2>3. c \in ControllerType
    BY <1>3, <2>1 DEF ControllerType
  <2> QED  BY <2>2, <2>3
<1>5. /\ Queued(s, t) /\ t.phase = "closed" /\ t.session = NoSession
      /\ t.historyId = s.historyId /\ t.paintedObjectIds = {} /\ t.frame = FALSE
  BY <1>1 DEF ControllerType, Queued
<1> QED  BY <1>2, <1>4, <1>5

LEMMA PrepareClosedKeeps ==
  ASSUME TypeInv, prepareClosed
  PROVE  TypeInv' /\ (Inv => Inv')
<1> DEFINE s == Closed(ctl)
           op == Head(ctl.lane)
<1>1. /\ ctl.lane # <<>> /\ ctl.at = "prepareClosed" /\ ctl \in ControllerType
      /\ native \in NativeType /\ native' = native /\ unshown \subseteq ctl.paintedObjectIds
  BY DEF prepareClosed, At, TypeInv
<1>2. /\ First(ctl) \in {"close", "project"} /\ op \in OpType /\ op.kind = First(ctl)
      /\ Kind = First(ctl)
  BY <1>1, HeadIs DEF StageOf
<1>3. \/ /\ unshown' = unshown \ ctl.paintedObjectIds
         /\ ctl' = IF op.kind = "project" THEN ProjectSettled(s)
                   ELSE IF op.channel # None THEN Opening(Settled(s), op.target, op.channel)
                   ELSE Settled(s)
      \/ ctl' = CloseFailed(ctl) /\ UNCHANGED unshown
  BY DEF prepareClosed
<1>4. /\ s \in ControllerType /\ Queued(ctl, s) /\ s.phase = "closed" /\ s.session = NoSession
      /\ s.historyId = ctl.historyId /\ s.paintedObjectIds = {} /\ s.frame = FALSE
  BY <1>1, ClosedIs
<1> HIDE DEF s, op
<1>5. /\ s.lane = ctl.lane /\ s.lane # <<>> /\ Second(s) = Second(ctl)
      /\ s.projectOperations = ctl.projectOperations
  BY <1>1, <1>4 DEF Queued, Second
<1>6. ASSUME Inv
      PROVE  /\ Second(s) = None /\ Len(s.lane) <= 2 /\ NativeOK(s, native)
             /\ ~s.historyId /\ ~s.session.stroke
             /\ s.projectOperations = IF First(ctl) = "project" THEN 1 ELSE 0
  <2>1. MayClose(ctl, native) /\ Second(ctl) = None /\ Holder(ctl) = First(ctl)
    BY <1>1, <1>6, MayCloseHere
  <2>2. LaneOK(ctl) /\ NativeOK(ctl, native) /\ ~ctl.historyId
    BY <1>1, <1>6, <2>1 DEF Inv, InvAt, SessionOK
  <2>3. ~s.session.stroke
    BY <1>4 DEF NoSession
  <2>4. NativeOK(s, native)
    BY <1>4, <2>2, <2>3 DEF NativeOK
  <2> QED  BY <1>2, <1>4, <1>5, <2>1, <2>2, <2>3, <2>4 DEF LaneOK
<1>7. Inv /\ First(ctl) = "close" => Resting(s, native)
  BY <1>2, <1>4, <1>5, <1>6 DEF Resting
<1>8. CASE unshown' = {} /\ op.kind = "project" /\ ctl' = ProjectSettled(s)
  <2> DEFINE t == ProjectSettled(s)
  <2>1. /\ Typed(t) /\ t.paintedObjectIds = s.paintedObjectIds
        /\ \A n : Resting(ProjectRest(s), n) => InvAt(t, t.at, n)
    BY <1>4, <1>5, ProjectSettles
  <2>2. ctl' = t
    BY <1>8
  <2> HIDE DEF t
  <2>3. Inv => Resting(ProjectRest(s), native)
    BY <1>2, <1>4, <1>5, <1>6, <1>8, ProjectRests
  <2> QED  BY <1>1, <1>8, <2>1, <2>2, <2>3, Keeps
<1>9. /\ LET t == Settled(s)
         IN /\ Typed(t) /\ t.paintedObjectIds = s.paintedObjectIds
            /\ \A n : Resting(s, n) => InvAt(t, t.at, n)
      /\ Left(s, Settled(s))
  BY <1>4, <1>5, Settles, SettledIs
<1>10. CASE unshown' = {} /\ op.kind # "project" /\ ctl' = Settled(s)
  <2> DEFINE t == Settled(s)
  <2>1. /\ Typed(t) /\ t.paintedObjectIds = s.paintedObjectIds
        /\ \A n : Resting(s, n) => InvAt(t, t.at, n)
    BY <1>9
  <2>2. ctl' = t
    BY <1>10
  <2> HIDE DEF t
  <2>3. Inv => Resting(s, native)
    BY <1>2, <1>7, <1>10
  <2> QED  BY <1>1, <1>10, <2>1, <2>2, <2>3, Keeps
<1>11. CASE unshown' = {} /\ op.kind # "project" /\ op.channel # None
            /\ ctl' = Opening(Settled(s), op.target, op.channel)
  <2> DEFINE v == Settled(s)
             o == Op("open", op.target, op.channel, None)
             u == [v EXCEPT !.channel = op.channel, !.phase = "opening", !.error = FALSE]
             t == Opening(v, op.target, op.channel)
  <2>1. o \in OpType /\ o.kind = "open" /\ op.channel \in Channels
    BY <1>2, <1>11, NoneAssumption DEF OpType, Op, Kinds, None
  <2>2. t = [u EXCEPT !.lane = Append(@, o)] /\ ctl' = t
    BY <1>11 DEF Opening
  <2>3. /\ Typed(v) /\ v.paintedObjectIds = s.paintedObjectIds
        /\ \A n : Resting(s, n) => InvAt(v, v.at, n)
        /\ Left(s, v)
    BY <1>9
  <2> HIDE DEF o, t, v
  <2>4. /\ Base(v, u) /\ u.phase = "opening" /\ u.terminal = v.terminal
        /\ u.projectOperations = v.projectOperations
    BY <2>1, <2>3 DEF Typed, ControllerType, Phases, Base, Seen
  <2> HIDE DEF u
  <2>5. v \in ControllerType /\ HeadOK(v) /\ u \in ControllerType /\ HeadOK(u)
    BY <2>3, <2>4 DEF Typed, Base, HeadOK, First
  <2>6. /\ Typed(t) /\ Drawn(u, t) /\ Seen(u, t) /\ t.frame = u.frame
        /\ t.projectOperations = u.projectOperations /\ t.at = u.at /\ Joined(u, t, o)
    BY <2>1, <2>2, <2>5, JoinIs
  <2>7. Joined(v, t, o)
    BY <2>4, <2>6 DEF Joined, Base, First, Second, From
  <2>8. /\ t.session = v.session /\ t.historyId = v.historyId
        /\ t.paintedObjectIds = v.paintedObjectIds /\ t.frame = v.frame /\ Seen(v, t)
    BY <2>4, <2>6 DEF Base, Drawn, Seen
  <2>9. v.phase = "closed"
    BY <1>4, <2>3 DEF Left, Drawn
  <2>10. Reserves(v, t, o)
    BY <2>1, <2>4, <2>6, <2>9 DEF Reserves, Drawn
  <2>11. Inv => InvAt(v, v.at, native)
    BY <1>2, <1>7, <1>11, <2>3
  <2>12. Inv => InvAt(t, t.at, native)
    BY <2>1, <2>5, <2>6, <2>7, <2>8, <2>10, <2>11, ReserveKeeps DEF Typed
  <2> QED  BY <1>1, <1>11, <2>2, <2>6, <2>12, Keeps
<1>12. CASE ctl' = CloseFailed(ctl) /\ UNCHANGED unshown
  BY <1>1, <1>12, ClosingFailsKeeps
<1>13. unshown \ ctl.paintedObjectIds = {}
  BY <1>1
<1> QED  BY <1>3, <1>8, <1>10, <1>11, <1>12, <1>13

-----------------------------------------------------------------------------
(* The specification *)

LEMMA InitHolds ==
  ASSUME Init
  PROVE  TypeInv /\ Inv
<1>1. /\ ctl = Controller /\ native = [history |-> FALSE, painting |-> NoPainting]
      /\ unshown = {}
  BY DEF Init
<1>2. /\ NoSession \in SessionType /\ NoDisplay \in DisplayType
      /\ [c \in Channels |-> "brush"] \in [Channels -> {"brush", "pointer", "static"}]
      /\ <<>> \in Seq(OpType) /\ Mmu \in Channels
  BY PaintingAssumption DEF NoSession, SessionType, NoDisplay, DisplayType
<1>3. ctl \in ControllerType
  BY <1>1, <1>2 DEF Controller, ControllerType, Phases, Stages, Terminals
<1>4. /\ ctl.lane = <<>> /\ ctl.phase = "closed" /\ ctl.at = "queued" /\ ctl.session = NoSession
      /\ ctl.historyId = FALSE /\ ctl.projectOperations = 0 /\ ctl.frame = FALSE
      /\ ctl.paintedObjectIds = {}
  BY <1>1 DEF Controller
<1>5. First(ctl) = None /\ Second(ctl) = None /\ Len(ctl.lane) <= 2
  BY <1>3, <1>4, Views
<1>6. Holder(ctl) = None /\ From(ctl) = None
  BY <1>5 DEF Holder, From, None
<1>7. native \in NativeType
  BY <1>1 DEF NativeType, NoPainting
<1>8. TypeInv
  BY <1>1, <1>3, <1>4, <1>7, QueuedFits DEF TypeInv, HeadOK
<1>9. LaneOK(ctl)
  BY <1>4, <1>5, <1>6 DEF LaneOK, None
<1>10. NativeOK(ctl, native)
  <2>1. native.history = FALSE /\ native.painting = NoPainting
    BY <1>1
  <2>2. NoSession.stroke = FALSE
    BY DEF NoSession
  <2> QED  BY <1>4, <2>1, <2>2 DEF NativeOK
<1>11. SessionOK(ctl, ctl.at)
  BY <1>4, <1>5, <1>6 DEF SessionOK, None
<1>12. StrokeOK(ctl, ctl.at)
  BY <1>4, <1>5, <1>6 DEF StrokeOK, None, NoSession
<1>13. DisplayOK(ctl, ctl.at)
  BY <1>4 DEF DisplayOK
<1> QED  BY <1>8, <1>9, <1>10, <1>11, <1>12, <1>13 DEF Inv, InvAt

LEMMA RequestKeeps ==
  ASSUME TypeInv, Request
  PROVE  TypeInv' /\ (Alone /\ Inv => Inv')
<1>1. CASE \E t \in Targets : target(t) \/ \E c \in Channels : open(t, c) \/ openOther(t, c)
  BY <1>1, TargetKeeps, OpenKeeps, OpenOtherKeeps
<1>2. CASE close \/ projectOperation \/ reportDisplayError
  BY <1>2, CloseKeeps, ProjectOperationKeeps, ReportDisplayErrorKeeps
<1>3. CASE \E tool \in {"brush", "pointer", "static"} : setTool(tool)
  BY <1>3, SetToolKeeps
<1>4. CASE setSettings \/ \E inside \in BOOLEAN : hoverAt(inside)
  BY <1>4, SetSettingsKeeps, HoverAtKeeps
<1> QED  BY <1>1, <1>2, <1>3, <1>4 DEF Request

LEMMA StrokeKeeps ==
  ASSUME TypeInv, Stroke
  PROVE  TypeInv' /\ (Inv => Inv')
<1>1. CASE press \/ move \/ cancel
  BY <1>1, PressKeeps, MoveKeeps, CancelKeeps
<1>2. CASE \E sampled \in BOOLEAN : release(sampled)
  BY <1>2, ReleaseKeeps
<1>3. CASE \E kind \in {"gap", "eraseAll"} : apply(kind)
  BY <1>3, ApplyKeeps
<1> QED  BY <1>1, <1>2, <1>3 DEF Stroke

LEMMA HeadKeeps ==
  ASSUME TypeInv, Lane
  PROVE  TypeInv' /\ (Inv => Inv')
<1>1. CASE start \/ openHistorySession \/ openPaintingSession \/ undoOpen \/ targetPaintingSession
  BY <1>1, StartKeeps, OpenHistorySessionKeeps, OpenPaintingSessionKeeps, UndoOpenKeeps,
     TargetPaintingSessionKeeps
<1>2. CASE previewCandidate \/ beginPaintingStroke \/ cancelMissed \/ samplePaintingStroke
  BY <1>2, PreviewCandidateKeeps, BeginPaintingStrokeKeeps, CancelMissedKeeps,
     SamplePaintingStrokeKeeps
<1>3. CASE drainCommit \/ drainCancel \/ drainFails \/ previewPainting \/ getPaintingGeometry
  BY <1>3, DrainCommitKeeps, DrainCancelKeeps, DrainFailsKeeps, PreviewPaintingKeeps,
     GetPaintingGeometryKeeps
<1>4. CASE operation \/ readPaintingSession
  BY <1>4, OperationKeeps, ReadPaintingSessionKeeps
<1>5. CASE cancelDraft \/ closeHistorySession \/ prepareClosed
  BY <1>5, CancelDraftKeeps, CloseHistorySessionKeeps, PrepareClosedKeeps
<1> QED  BY <1>1, <1>2, <1>3, <1>4, <1>5 DEF Lane

LEMMA NextKeeps ==
  ASSUME TypeInv, [Next]_vars
  PROVE  TypeInv' /\ (Alone /\ Inv => Inv')
<1>1. CASE Request
  BY <1>1, RequestKeeps
<1>2. CASE Stroke
  BY <1>2, StrokeKeeps
<1>3. CASE frame
  BY <1>3, FrameKeeps
<1>4. CASE Lane
  BY <1>4, HeadKeeps
<1>5. CASE UNCHANGED vars
  BY SMTT(40), <1>5 DEF vars, TypeInv, Inv, InvAt, LaneOK, NativeOK, SessionOK, StrokeOK, DisplayOK, HeadOK,
              displayMatchesTarget, First, Second, From, Holder
<1> QED  BY <1>1, <1>2, <1>3, <1>4, <1>5 DEF Next

\* However many project commands overlap: every field of the controller and of the engine
\* keeps its type, every stage belongs to the operation that holds the lane, and the paint
\* that Prepare does not show yet is known to the controller.
THEOREM Types == Spec => []TypeInv
<1>1. Init => TypeInv
  BY InitHolds
<1>2. TypeInv /\ [Next]_vars => TypeInv'
  BY NextKeeps
<1> QED  BY <1>1, <1>2, PTL DEF Spec

\* A committed target that Prepare does not show yet stays in paintedObjectIds across target
\* and channel switches, project commands and closes that fail half way.
THEOREM PaintIsKept == Spec => []NothingPaintedIsLost
<1>1. TypeInv => NothingPaintedIsLost
  BY DEF TypeInv, NothingPaintedIsLost
<1> QED  BY <1>1, Types, PTL

\* While no two project commands overlap, the lane, both sides' sessions, the stroke with its
\* terminal and the display fit together in every state, inside operations too.
THEOREM Invariance == Spec /\ []OneProject => [](TypeInv /\ Inv)
<1>1. Init => TypeInv /\ Inv
  BY InitHolds
<1>2. TypeInv /\ Inv /\ OneProject' /\ [Next]_vars => (TypeInv /\ Inv)'
  BY NextKeeps DEF Alone
<1> QED  BY <1>1, <1>2, PTL DEF Spec

\* With the bound of the run they never overlap: there the premise always holds.
LEMMA BoundedToOne ==
  ASSUME MaxProject <= 1
  PROVE  Spec => []OneProject
<1>1. Init => TypeInv /\ Inv
  BY InitHolds
<1>2. TypeInv /\ Inv /\ [Next]_vars => (TypeInv /\ Inv)'
  BY NextKeeps DEF Alone
<1>3. Inv => OneProject
  BY DEF Inv, InvAt, LaneOK, OneProject
<1> QED  BY <1>1, <1>2, <1>3, PTL DEF Spec

\* While no two project commands overlap: an open stroke can still be ended by the user.
THEOREM StrokesCanEnd == Spec /\ []OneProject => []StrokeHasAnEnd
<1>1. TypeInv /\ Inv => StrokeHasAnEnd
  <2> SUFFICES ASSUME TypeInv, Inv, quiet, native.painting.stroke # "idle"
               PROVE  ctl.phase \in {"drawing", "error"} /\ ctl.historyId
    BY DEF StrokeHasAnEnd
  <2>1. InvAt(ctl, ctl.at, native) /\ ctl \in ControllerType /\ ctl.lane = <<>>
    BY DEF Inv, TypeInv, quiet
  <2>2. Holder(ctl) = None
    BY <2>1, Views DEF Holder
  <2>3. ctl.historyId /\ ctl.session.stroke
    BY <2>1 DEF InvAt, NativeOK, NoPainting
  <2>4. ctl.phase \in {"closed", "idle", "drawing", "ending", "cancelling", "error"}
    BY <2>1, <2>2 DEF InvAt, LaneOK
  <2> QED  BY <2>1, <2>3, <2>4 DEF InvAt, StrokeOK
<1> QED  BY <1>1, Invariance, PTL

\* While no two project commands overlap: closed is closed on both sides.
THEOREM ClosedAgrees == Spec /\ []OneProject => []ClosedIsClosed
<1>1. TypeInv /\ Inv => ClosedIsClosed
  <2> SUFFICES ASSUME TypeInv, Inv, ctl.phase = "closed"
               PROVE  ~native.history /\ native.painting = NoPainting /\ unshown = {}
    BY DEF ClosedIsClosed
  <2>1. InvAt(ctl, ctl.at, native)
    BY DEF Inv
  <2>2. ctl.session = NoSession /\ ~ctl.historyId /\ ctl.paintedObjectIds = {}
    BY <2>1 DEF InvAt, SessionOK
  <2>3. ~native.history /\ native.painting = NoPainting
    BY <2>1, <2>2 DEF InvAt, NativeOK
  <2>4. unshown = {}
    BY <2>2 DEF TypeInv
  <2> QED  BY <2>3, <2>4
<1> QED  BY <1>1, Invariance, PTL

\* The commands that are counted are the one that is in the lane.
LEMMA CommandsAreCounted ==
  ASSUME TypeInv, Inv
  PROVE  ctl.projectOperations =
           Cardinality({i \in DOMAIN ctl.lane : ctl.lane[i].kind = "project"})
<1> DEFINE S == {i \in DOMAIN ctl.lane : ctl.lane[i].kind = "project"}
<1>1. /\ LaneOK(ctl) /\ ctl \in ControllerType
  BY DEF TypeInv, Inv, InvAt
<1>2. /\ Len(ctl.lane) \in Nat /\ Len(ctl.lane) <= 2 /\ DOMAIN ctl.lane = 1..Len(ctl.lane)
      /\ First(ctl) = None => Second(ctl) = None
  BY <1>1, Views DEF LaneOK
<1>3. \A i \in DOMAIN ctl.lane : i = 1 \/ i = 2
  BY <1>2
<1>4. /\ 1 \in S <=> First(ctl) = "project"
      /\ 2 \in S <=> Second(ctl) = "project"
  BY <1>2 DEF First, Second, None
<1>5. First(ctl) = "project" => Second(ctl) # "project"
  BY <1>1 DEF LaneOK, None
<1>6. Holder(ctl) = "project" <=> First(ctl) = "project" \/ Second(ctl) = "project"
  BY <1>1 DEF LaneOK, Holder, None
<1>7. CASE First(ctl) = "project"
  <2>1. S = {1}
    BY <1>3, <1>4, <1>5, <1>7
  <2>2. Cardinality({1}) = 1
    BY FS_Singleton
  <2> QED  BY <1>1, <1>6, <1>7, <2>1, <2>2 DEF LaneOK
<1>8. CASE Second(ctl) = "project"
  <2>1. S = {2}
    BY <1>3, <1>4, <1>5, <1>8
  <2>2. Cardinality({2}) = 1
    BY FS_Singleton
  <2> QED  BY <1>1, <1>6, <1>8, <2>1, <2>2 DEF LaneOK
<1>9. CASE First(ctl) # "project" /\ Second(ctl) # "project"
  <2>1. S = {}
    BY <1>3, <1>4, <1>9
  <2>2. Cardinality({}) = 0
    BY FS_EmptySet
  <2> QED  BY <1>1, <1>6, <1>9, <2>1, <2>2 DEF LaneOK
<1> QED  BY <1>7, <1>8, <1>9

\* While no two project commands overlap: controller and engine keep their types and counts,
\* and between operations they have the same revision, target, channel and stroke.
THEOREM SessionsAgree == Spec /\ []OneProject => []SessionsConsistent
<1>1. TypeInv /\ Inv => TypeOK
  <2> SUFFICES ASSUME TypeInv, Inv PROVE TypeOK
    OBVIOUS
  <2>1. ctl \in ControllerType /\ native \in NativeType /\ unshown \subseteq ctl.paintedObjectIds
    BY DEF TypeInv
  <2>2. /\ ctl.phase \in Phases /\ ctl.terminal \in Terminals
        /\ ctl.gesture \in {"none", "pending", "paint", "camera"}
        /\ ctl.paintedObjectIds \subseteq Targets /\ unshown \subseteq Targets
    BY <2>1 DEF ControllerType
  <2>3. ctl.session.target \in Targets \cup {None}
    BY <2>1, Sessions
  <2>4. native.painting.stroke \in {"idle", "drawing", "finished"}
    BY <2>1 DEF NativeType
  <2> QED  BY <2>2, <2>3, <2>4, CommandsAreCounted DEF TypeOK
<1>2. TypeInv /\ Inv => InStep
  <2> SUFFICES ASSUME TypeInv, Inv, quiet, ctl.phase \in {"idle", "drawing"}
               PROVE  /\ Accepts(ctl) /\ native.painting.channel = ctl.session.channel
                      /\ ctl.session.stroke <=> native.painting.stroke # "idle"
                      /\ ctl.session.stroke <=> ctl.phase = "drawing"
    BY DEF InStep
  <2>1. InvAt(ctl, ctl.at, native) /\ ctl \in ControllerType /\ ctl.lane = <<>>
    BY DEF Inv, TypeInv, quiet
  <2>2. Holder(ctl) = None
    BY <2>1, Views DEF Holder
  <2>3. ctl.session # NoSession /\ ctl.historyId /\ ctl.session.current
    BY <2>1 DEF InvAt, SessionOK
  <2>4. /\ native.history /\ native.painting.target = ctl.session.target
        /\ native.painting.channel = ctl.session.channel
        /\ native.painting.stroke # "idle" <=> ctl.session.stroke
    BY <2>1, <2>3 DEF InvAt, NativeOK
  <2>5. ctl.session.stroke <=> ctl.phase = "drawing"
    BY <2>1, <2>2 DEF InvAt, StrokeOK
  <2> QED  BY <2>3, <2>4, <2>5 DEF Accepts
<1>3. TypeInv /\ Inv => SessionsConsistent
  BY <1>1, <1>2 DEF SessionsConsistent
<1> QED  BY <1>3, Invariance, PTL

\* While no two project commands overlap: an idle controller with nothing left to do shows
\* its target at the engine's revision, unless the last reading failed.
THEOREM ShownAgrees == Spec /\ []OneProject => []ShownIsCurrent
<1>1. TypeInv /\ Inv => ShownIsCurrent
  <2> SUFFICES ASSUME TypeInv, Inv, quiet, ctl.phase = "idle", ~ctl.frame
               PROVE  ctl.readFailed \/ (displayMatchesTarget(ctl) /\ ctl.display.current)
    BY DEF ShownIsCurrent
  <2>1. InvAt(ctl, ctl.at, native) /\ ctl \in ControllerType /\ ctl.lane = <<>>
    BY DEF Inv, TypeInv, quiet
  <2>2. ctl.at # "geometry"
    <3>1. First(ctl) = None /\ ctl.at \in Stages
      BY <2>1, Views DEF ControllerType
    <3> QED  BY <3>1, NoneFits DEF TypeInv, HeadOK
  <2>3. ctl.session # NoSession /\ ctl.session.current
    BY <2>1 DEF InvAt, SessionOK
  <2>4. ~ctl.displayDirty
    BY <2>1 DEF InvAt, DisplayOK
  <2> QED  BY <2>1, <2>2, <2>3, <2>4 DEF InvAt, DisplayOK
<1> QED  BY <1>1, Invariance, PTL
=============================================================================
