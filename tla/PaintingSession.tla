-------------------------- MODULE PaintingSession --------------------------
(***************************************************************************)
(* The PaintingController of the viewport against the painting session of  *)
(* the engine.                                                             *)
(*                                                                         *)
(* The controller is one object driven by callbacks: pointer and keyboard  *)
(* input, the display frame, project commands.  Whatever talks to the      *)
(* engine is an operation that waits in "lane" and runs alone at its head, *)
(* from await to await; input interleaves at every await.  "ctl" is the    *)
(* object, a handler or the code between two awaits is one step, and the   *)
(* engine answers a call and changes its session in the step that delivers *)
(* the answer: nobody else calls it, and nobody reads in between.          *)
(*                                                                         *)
(* Revisions are compared for equality with the engine's, so the session   *)
(* and the display carry "current" instead of a number; "fit" is FALSE     *)
(* after the displayed target's parts or transforms changed.  Preview      *)
(* generations are compared by the display operation only: "reading" tells *)
(* whether one was advanced since it started.  Left out: the candidates    *)
(* and their owner, the overhang highlight, the resource manifest, the     *)
(* palette and the values of the settings.                                 *)
(***************************************************************************)
EXTENDS Naturals, Sequences, SequencesExt, FiniteSets

CONSTANTS
  Targets,       \* paintable instances
  Channels,      \* painting channels
  Mmu,           \* the channel whose result Prepare shows
  Faults,        \* ways in which an engine call may fail: "business", "internal"
  MaxProject     \* bound: project commands admitted at a time

ASSUME PaintingAssumption ==
  /\ Targets # {} /\ Mmu \in Channels
  /\ Faults \subseteq {"business", "internal"} /\ MaxProject \in Nat

None == "none"
ASSUME NoneAssumption == None \notin Targets /\ None \notin Channels

VARIABLES
  ctl,     \* the PaintingController
  native,  \* the engine: history session, painting session and its stroke
  unshown  \* committed Mmu targets that Prepare has not been given

vars == <<ctl, native, unshown>>

Phases ==
  {"closed", "opening", "idle", "drawing", "ending", "cancelling", "closing", "error"}

Terminals == {None, "commit", "sampledCommit", "cancel"}

NoSession == [target |-> None, channel |-> None, current |-> FALSE, stroke |-> FALSE]
NoDisplay == [target |-> None, fit |-> FALSE, current |-> FALSE]
NoPainting == [target |-> None, channel |-> None, stroke |-> "idle"]

\* Tools by their preview: none, under the pointer, or of the whole target (gap).
Tools(c) == IF c = Mmu THEN {"brush", "pointer", "static"} ELSE {"brush"}

Controller ==
  [phase |-> "closed", channel |-> Mmu, tools |-> [c \in Channels |-> "brush"],
   session |-> NoSession, display |-> NoDisplay, error |-> FALSE, switching |-> FALSE,
   lane |-> <<>>, at |-> "queued", terminal |-> None, terminalExecuting |-> FALSE,
   historyId |-> FALSE, displayDirty |-> FALSE, previewDirty |-> FALSE, hover |-> FALSE,
   frame |-> FALSE, reading |-> "none", readFailed |-> FALSE, projectOperations |-> 0,
   paintedObjectIds |-> {}, gesture |-> "none"]

Init ==
  /\ ctl = Controller
  /\ native = [history |-> FALSE, painting |-> NoPainting]
  /\ unshown = {}

-----------------------------------------------------------------------------
(* The controller's parts *)

unfinished(s) == s.phase \in {"drawing", "ending", "cancelling"}
active(s) == s.phase # "closed"
commandAllowed(s) == ~active(s) \/ s.phase = "idle" \/ s.projectOperations > 0

Tool(s) == s.tools[s.channel]
Previews(s) == Tool(s) # "brush"
previewReady(s) == Tool(s) = "static" \/ (Tool(s) = "pointer" /\ s.hover)

displayMatchesTarget(s) ==
  s.session # NoSession /\ s.display.target = s.session.target /\ s.display.fit

advancePreview(s) == [s EXCEPT !.reading = IF @ = "input" THEN "stale" ELSE @]
invalidatePreview(s) == [advancePreview(s) EXCEPT !.hover = FALSE, !.previewDirty = FALSE]
InvalidateIfPreviews(s) == IF Previews(s) THEN invalidatePreview(s) ELSE s

fail(s) == [InvalidateIfPreviews(s) EXCEPT !.error = TRUE]

\* receipt(): the engine's new revision, which the display does not show yet.
receipt(s, stroke) ==
  [s EXCEPT !.session.current = TRUE, !.session.stroke = stroke, !.display.current = FALSE,
            !.displayDirty = TRUE, !.readFailed = FALSE]

scheduleDisplay(s) ==
  IF /\ s.lane = <<>> /\ s.session # NoSession /\ s.phase \in {"idle", "drawing"}
     /\ s.displayDirty \/ (s.previewDirty /\ s.phase = "idle")
  THEN [s EXCEPT !.frame = TRUE] ELSE s

\* exclusive(): an operation joins the lane, and leaves it when it settles.
Op(kind, target, channel, from) ==
  [kind |-> kind, target |-> target, channel |-> channel, from |-> from]
exclusive(s, kind) == [s EXCEPT !.lane = Append(@, Op(kind, None, None, None))]
Settled(s) ==
  scheduleDisplay([s EXCEPT !.lane = Tail(@), !.at = "queued", !.reading = "none"])

At(stage) == ctl.lane # <<>> /\ ctl.at = stage
Kind == Head(ctl.lane).kind
To(stage) == [ctl EXCEPT !.at = stage]

\* press() settles: the gesture that made it learns what it is.
Pressed(s, gesture) ==
  [s EXCEPT !.gesture = IF Kind = "press" /\ @ = "pending" THEN gesture ELSE @]

\* projectOperation()'s finally clause.
ProjectSettled(s) ==
  LET n == s.projectOperations - 1
  IN Settled([s EXCEPT !.projectOperations = n,
                       !.phase = IF @ = "opening" /\ n = 0 THEN "idle" ELSE @])

SettledAs(s) == IF Kind = "project" THEN ProjectSettled(s) ELSE Settled(Pressed(s, "paint"))

\* stopAfterFailure(); "cancelled" when the engine itself ended the stroke.
stopAfterFailure(s, cancelled) ==
  LET t == [invalidatePreview(fail(s)) EXCEPT !.terminal = None, !.terminalExecuting = FALSE]
  IN IF cancelled THEN [t EXCEPT !.displayDirty = TRUE, !.readFailed = FALSE, !.phase = "idle"]
     ELSE [t EXCEPT !.phase = "error"]
Stopped(s, cancelled) ==
  LET t == stopAfterFailure(s, cancelled)
  IN IF Kind = "project" THEN ProjectSettled(t) ELSE Settled(Pressed(t, "none"))

-----------------------------------------------------------------------------
(* The engine, as the controller calls it *)

\* A call is refused for a stale revision, and may fail for reasons of its own.
Accepts(s) ==
  /\ s.session # NoSession /\ s.session.current
  /\ native.history /\ native.painting.target = s.session.target
MayFail(accepted) == ~accepted \/ "business" \in Faults

\* cancel_internal_failure(): the stroke is cancelled and the answer carries its revision.
EngineCancels(s) ==
  /\ "internal" \in Faults /\ Accepts(s)
  /\ native' = [native EXCEPT !.painting.stroke = "idle"]
Cancelled(s) ==
  [s EXCEPT !.session.current = TRUE, !.session.stroke = FALSE, !.display.current = FALSE]

\* prepare_commit() refuses a final sample for a stroke that is finished (gap, eraseAll).
Commits(s) ==
  /\ Accepts(s)
  /\ \/ native.painting.stroke = "drawing"
     \/ native.painting.stroke = "finished" /\ s.terminal # "sampledCommit"

-----------------------------------------------------------------------------
(* Terminals: the commit or the cancellation that a stroke waits for *)

Drains(s) == s.terminal # None /\ s.session.stroke

Draining(s, stage) == [s EXCEPT !.terminalExecuting = TRUE, !.at = stage]
DrainThenSettle(s) == IF Drains(s) THEN Draining(s, "drain") ELSE SettledAs(s)

\* The display operation, from its first phase test to its end.
FinishDisplay(s) == IF Drains(s) THEN Draining(s, "drainLast") ELSE Settled(s)
ReadGeometry(s) ==
  IF s.displayDirty THEN [s EXCEPT !.displayDirty = FALSE, !.at = "geometry"]
  ELSE FinishDisplay(s)
Show(s) ==
  LET r == [s EXCEPT !.reading = IF Previews(s) THEN "input" ELSE "brush"]
  IN IF s.session = NoSession \/ s.phase \notin {"idle", "drawing"} THEN Settled(s)
     ELSE IF s.phase = "idle" /\ s.previewDirty
     THEN IF previewReady(s) THEN [r EXCEPT !.previewDirty = FALSE, !.at = "preview"]
          ELSE ReadGeometry([r EXCEPT !.previewDirty = FALSE])
     ELSE ReadGeometry(r)
DisplayFailed(s) ==
  LET t == [fail(s) EXCEPT !.readFailed = ~s.displayDirty]
  IN IF Drains(t) THEN Draining(t, "drainAgain") ELSE Settled(t)

\* What follows a terminal that succeeded.
Drained(s) ==
  LET t == [s EXCEPT !.terminal = None, !.terminalExecuting = FALSE, !.phase = "idle"]
      u == [t EXCEPT !.previewDirty = previewReady(t)]
  IN IF ctl.at = "drainFirst" THEN Show(u) ELSE SettledAs(u)

DrainFailed(s, cancelled) ==
  IF ctl.at \in {"drainFirst", "drainLast"} THEN DisplayFailed(s) ELSE Stopped(s, cancelled)

AtDrain == ctl.lane # <<>> /\ ctl.at \in {"drain", "drainFirst", "drainLast", "drainAgain"}

drainCommit ==
  /\ AtDrain /\ ctl.terminal # "cancel" /\ Commits(ctl)
  /\ \E effective \in BOOLEAN :
       LET painted == IF effective /\ ctl.session.channel = Mmu THEN {ctl.session.target} ELSE {}
       IN /\ ctl' = Drained([receipt(ctl, FALSE) EXCEPT !.paintedObjectIds = @ \cup painted])
          /\ unshown' = unshown \cup painted
  /\ native' = [native EXCEPT !.painting.stroke = "idle"]

drainCancel ==
  /\ AtDrain /\ ctl.terminal = "cancel" /\ Accepts(ctl)
  /\ native' = [native EXCEPT !.painting.stroke = "idle"]
  /\ ctl' = Drained(receipt(ctl, FALSE))
  /\ UNCHANGED unshown

drainFails ==
  /\ AtDrain
  /\ \/ MayFail(IF ctl.terminal = "cancel" THEN Accepts(ctl) ELSE Commits(ctl))
        /\ ctl' = DrainFailed(ctl, FALSE) /\ UNCHANGED native
     \/ ctl.terminal # "cancel" /\ Commits(ctl) /\ EngineCancels(ctl) /\ ctl' = DrainFailed(Cancelled(ctl), TRUE)
  /\ UNCHANGED unshown

\* Mutant: a terminal waits for the next operation, even if none is coming.
startTerminal_Waits(s) == s

\* startTerminal(): only an idle lane needs an operation of its own for it.
startTerminal(s) == IF s.lane = <<>> THEN exclusive(s, "terminal") ELSE s

-----------------------------------------------------------------------------
(* Input: pointer, keyboard, panel and project commands *)

Input(s) == ctl' = s /\ UNCHANGED <<native, unshown>>

Opening(s, t, c) ==
  LET u == [s EXCEPT !.channel = c, !.phase = "opening", !.error = FALSE]
  IN [u EXCEPT !.lane = Append(@, Op("open", t, c, None))]

Closing(s, t, c) ==
  LET u == [InvalidateIfPreviews(s) EXCEPT !.phase = "closing"]
  IN [u EXCEPT !.lane = Append(@, Op("close", t, c, s.phase))]

open(t, c) ==
  /\ ~ctl.switching /\ ctl.phase = "closed"
  /\ Input(Opening(ctl, t, c))

\* Another channel closes the session first; close() opens the new one if that worked.
openOther(t, c) ==
  /\ ~ctl.switching /\ ctl.phase = "idle" /\ c # ctl.channel
  /\ Input(Closing([ctl EXCEPT !.switching = TRUE], t, c))

target(t) ==
  /\ ~ctl.switching /\ ctl.phase = "idle" /\ t # ctl.session.target
  /\ LET s == [InvalidateIfPreviews(ctl) EXCEPT !.phase = "opening"]
     IN Input([s EXCEPT !.lane = Append(@, Op("target", t, None, None))])

close ==
  /\ ctl.phase \in {"idle", "error"} /\ ctl.gesture = "none"
  /\ Input(Closing(ctl, None, None))

setTool(tool) ==
  /\ ctl.phase \in {"idle", "closed"} /\ tool \in Tools(ctl.channel)
  /\ LET s == [advancePreview(ctl) EXCEPT !.tools[ctl.channel] = tool,
                                          !.previewDirty = tool # "brush"]
     IN Input(scheduleDisplay(s))

setSettings == active(ctl) /\ Input(scheduleDisplay([advancePreview(ctl) EXCEPT !.previewDirty = TRUE]))

\* hoverAt(): the pointer moves over the target, or leaves the canvas.
hoverAt(inside) ==
  /\ Tool(ctl) = "pointer"
  /\ IF inside THEN ctl.phase = "idle" /\ ctl.lane = <<>> /\ ~(ctl.previewDirty /\ ctl.hover)
     ELSE ctl.phase \in {"idle", "drawing", "ending"}
  /\ Input(scheduleDisplay([advancePreview(ctl) EXCEPT !.hover = inside, !.previewDirty = TRUE]))

Hovers(s) == IF Tool(s) = "pointer" THEN [advancePreview(s) EXCEPT !.hover = TRUE] ELSE s

\* down: with a tool that strokes, or as a camera gesture.
press ==
  /\ ctl.phase = "idle" /\ ctl.gesture = "none" /\ Tool(ctl) # "static"
  /\ ctl.lane # <<>> \/ displayMatchesTarget(ctl)
  /\ LET s == [Hovers(ctl) EXCEPT !.terminal = None, !.phase = "drawing", !.error = FALSE,
                                  !.gesture = "pending"]
     IN Input(exclusive(s, "press"))

move ==
  /\ ctl.gesture \in {"pending", "paint"}
  /\ ctl.phase = "drawing" /\ ctl.lane = <<>> /\ ctl.terminal = None
  /\ Input(exclusive(Hovers(ctl), "move"))

\* up with the last sample; or a lost capture or focus, without one.
release(sampled) ==
  /\ ctl.gesture \in {"pending", "paint", "camera"}
  /\ LET s == [ctl EXCEPT !.gesture = "none"]
         t == [(IF sampled THEN Hovers(s) ELSE s) EXCEPT
                 !.terminal = IF sampled THEN "sampledCommit" ELSE "commit", !.phase = "ending"]
     IN Input(IF ctl.gesture = "camera" \/ ~unfinished(ctl) \/ ctl.terminal # None THEN s
              ELSE startTerminal(t))

\* Escape during a stroke.
cancel ==
  /\ unfinished(ctl)
  /\ LET s == [ctl EXCEPT !.gesture = "none"]
         t == [InvalidateIfPreviews(s) EXCEPT !.terminal = "cancel", !.phase = "cancelling"]
     IN Input(IF ctl.terminalExecuting THEN s ELSE startTerminal(t))

\* The panel's buttons, which a gesture that holds the pointer cannot press.
apply(kind) ==
  /\ ctl.phase = "idle" /\ ctl.gesture = "none"
  /\ ctl.lane # <<>> \/ displayMatchesTarget(ctl)
  /\ Input(exclusive([advancePreview(ctl) EXCEPT !.phase = "drawing", !.error = FALSE], kind))

projectOperation ==
  /\ active(ctl) /\ commandAllowed(ctl) /\ ctl.projectOperations < MaxProject
  /\ LET s == IF Previews(ctl) THEN advancePreview(ctl) ELSE ctl
         t == [s EXCEPT !.projectOperations = @ + 1, !.phase = "opening"]
     IN Input(exclusive(t, "project"))

\* The scheduled callback: reserves the lane unless the phase has moved on.
frame ==
  /\ ctl.frame
  /\ LET s == [ctl EXCEPT !.frame = FALSE]
     IN Input(IF ctl.phase \in {"idle", "drawing"} THEN exclusive(s, "display") ELSE s)

reportDisplayError ==
  /\ "business" \in Faults /\ ctl.display # NoDisplay /\ ctl.lane = <<>>
  /\ Input([fail(ctl) EXCEPT !.phase = "error"])

-----------------------------------------------------------------------------
(* The head of the lane *)

\* closeOwned(), which close() and a project operation share.
CloseOwned(s) ==
  IF s.session.stroke THEN [s EXCEPT !.at = "cancelDraft"]
  ELSE IF s.historyId THEN [s EXCEPT !.at = "closeHistory"] ELSE [s EXCEPT !.at = "prepareClosed"]

\* The operation gets its turn in the application's FIFO and runs to its first call.
start ==
  /\ At("queued")
  /\ LET idle == [ctl EXCEPT !.phase = "idle"]
         matches == displayMatchesTarget(ctl)
     IN ctl' = CASE Kind = "open" -> To("openHistory")
                 [] Kind = "target" -> To("target")
                 [] Kind = "press" ->
                      IF matches THEN To("begin")
                      ELSE Settled(Pressed([idle EXCEPT !.terminal = None], "none"))
                 [] Kind = "move" -> To("sample")
                 [] Kind = "terminal" -> DrainThenSettle(ctl)
                 [] Kind = "gap" -> IF matches THEN To("candidate") ELSE Settled(idle)
                 [] Kind = "eraseAll" -> IF matches THEN To("begin") ELSE Settled(idle)
                 [] Kind = "project" -> To(IF active(ctl) THEN "operation" ELSE "plainOperation")
                 [] Kind = "close" -> CloseOwned(ctl)
                 [] Kind = "display" -> IF Drains(ctl) THEN Draining(ctl, "drainFirst") ELSE Show(ctl)
  /\ UNCHANGED <<native, unshown>>

\* Mutant: the history session's id is only kept once painting is open.
openHistorySession_Forgets ==
  /\ At("openHistory")
  /\ \/ /\ ~native.history
        /\ native' = [native EXCEPT !.history = TRUE]
        /\ ctl' = [ctl EXCEPT !.at = "openSession"]
     \/ /\ MayFail(~native.history)
        /\ ctl' = Settled([fail(ctl) EXCEPT !.phase = "closed"])
        /\ UNCHANGED native
  /\ UNCHANGED unshown

openHistorySession ==
  /\ At("openHistory")
  /\ \/ /\ ~native.history
        /\ native' = [native EXCEPT !.history = TRUE]
        /\ ctl' = [ctl EXCEPT !.historyId = TRUE, !.at = "openSession"]
     \/ /\ MayFail(~native.history)
        /\ ctl' = Settled([fail(ctl) EXCEPT !.phase = "closed"])
        /\ UNCHANGED native
  /\ UNCHANGED unshown

\* What a session receipt of the engine starts: a new display of the target.
Adopted(s) ==
  [s EXCEPT !.displayDirty = TRUE, !.readFailed = FALSE, !.previewDirty = Tool(s) = "static"]

openPaintingSession ==
  /\ At("openSession")
  /\ LET op == Head(ctl.lane)
     IN \/ /\ native' = [native EXCEPT !.painting =
                           [target |-> op.target, channel |-> op.channel, stroke |-> "idle"]]
           /\ ctl' = Settled(Adopted([ctl EXCEPT !.phase = "idle",
                !.session = [target |-> op.target, channel |-> op.channel,
                             current |-> TRUE, stroke |-> FALSE]]))
        \/ MayFail(TRUE) /\ ctl' = [fail(ctl) EXCEPT !.at = "undoOpen"] /\ UNCHANGED native
  /\ UNCHANGED unshown

undoOpen ==
  /\ At("undoOpen")
  /\ \/ /\ native' = [history |-> FALSE, painting |-> NoPainting]
        /\ ctl' = Settled([ctl EXCEPT !.historyId = FALSE, !.phase = "closed"])
     \/ MayFail(TRUE) /\ ctl' = Settled([fail(ctl) EXCEPT !.phase = "error"]) /\ UNCHANGED native
  /\ UNCHANGED unshown

\* Mutant: a new target starts a new set of painted objects.
targetPaintingSession_Resets ==
  /\ At("target")
  /\ LET t == Head(ctl.lane).target
         s == [ctl EXCEPT !.session.target = t, !.hover = FALSE, !.phase = "idle",
                          !.display.current = FALSE, !.paintedObjectIds = {}]
     IN /\ Accepts(ctl) /\ native' = [native EXCEPT !.painting.target = t]
        /\ ctl' = Settled(Adopted(s))
  /\ UNCHANGED unshown

targetPaintingSession ==
  /\ At("target")
  /\ LET t == Head(ctl.lane).target
         ok == Accepts(ctl) /\ native.painting.stroke = "idle"
         s == [ctl EXCEPT !.session.target = t, !.hover = FALSE, !.phase = "idle",
                          !.display.current = FALSE]
     IN \/ ok /\ native' = [native EXCEPT !.painting.target = t] /\ ctl' = Settled(Adopted(s))
        \/ MayFail(ok) /\ ctl' = Settled([fail(ctl) EXCEPT !.phase = "idle"]) /\ UNCHANGED native
  /\ UNCHANGED unshown

\* apply('gap') previews first: the stroke needs the engine's fresh candidate.
previewCandidate ==
  /\ At("candidate")
  /\ LET ok == Accepts(ctl) /\ native.painting.stroke = "idle"
     IN \/ ok /\ ctl' = [receipt(ctl, FALSE) EXCEPT !.at = "begin"]
        \/ MayFail(ok) /\ ctl' = Stopped(ctl, FALSE)
  /\ UNCHANGED <<native, unshown>>

Applying(s) ==
  LET terminal == IF s.terminal = None THEN "commit" ELSE s.terminal
  IN DrainThenSettle([s EXCEPT !.terminal = terminal,
                       !.phase = IF terminal = "cancel" THEN "cancelling" ELSE "ending"])

beginPaintingStroke ==
  /\ At("begin")
  /\ LET ok == Accepts(ctl) /\ native.painting.stroke = "idle"
         s == receipt(ctl, TRUE)
     IN \/ /\ ok /\ Kind = "press"
           /\ native' = [native EXCEPT !.painting.stroke = "drawing"]
           /\ \E hit \in BOOLEAN :
                ctl' = IF ~hit /\ ctl.terminal = None THEN [s EXCEPT !.at = "miss"]
                       ELSE DrainThenSettle(s)
        \/ /\ ok /\ Kind # "press"
           /\ native' = [native EXCEPT !.painting.stroke = "finished"]
           /\ ctl' = Applying(s)
        \/ MayFail(ok) /\ ctl' = Stopped(ctl, FALSE) /\ UNCHANGED native
        \/ ok /\ EngineCancels(ctl) /\ ctl' = Stopped(Cancelled(ctl), TRUE)
  /\ UNCHANGED unshown

\* Mutant: the camera takes the gesture and the engine keeps the stroke.
cancelMissed_OnlyHere ==
  /\ At("miss")
  /\ ctl' = Settled(Pressed([receipt(ctl, FALSE) EXCEPT !.phase = "idle"], "camera"))
  /\ UNCHANGED <<native, unshown>>

\* A press beside the target: the camera takes the gesture.
cancelMissed ==
  /\ At("miss")
  /\ \/ /\ Accepts(ctl) /\ native' = [native EXCEPT !.painting.stroke = "idle"]
        /\ ctl' = Settled(Pressed([receipt(ctl, FALSE) EXCEPT !.phase = "idle"], "camera"))
     \/ MayFail(Accepts(ctl)) /\ ctl' = Stopped(ctl, FALSE) /\ UNCHANGED native
  /\ UNCHANGED unshown

samplePaintingStroke ==
  /\ At("sample")
  /\ LET ok == Accepts(ctl) /\ native.painting.stroke = "drawing"
     IN \/ ok /\ ctl' = DrainThenSettle(receipt(ctl, TRUE)) /\ UNCHANGED native
        \/ MayFail(ok) /\ ctl' = Stopped(ctl, FALSE) /\ UNCHANGED native
        \/ ok /\ EngineCancels(ctl) /\ ctl' = Stopped(Cancelled(ctl), TRUE)
  /\ UNCHANGED unshown

\* The display operation's two reads.
previewPainting ==
  /\ At("preview")
  /\ LET ok == Accepts(ctl) /\ native.painting.stroke = "idle"
     IN \/ ok /\ ctl' = ReadGeometry(receipt(ctl, FALSE))
        \/ MayFail(ok) /\ ctl' = DisplayFailed(ctl)
  /\ UNCHANGED <<native, unshown>>

\* Mutant: an obsolete reading is dropped, and nobody reads again.
getPaintingGeometry_Drops ==
  /\ At("geometry")
  /\ \/ /\ Accepts(ctl)
        /\ ctl' = FinishDisplay(
             IF ctl.reading = "stale" THEN ctl
             ELSE [ctl EXCEPT !.display =
                     [target |-> ctl.session.target, fit |-> TRUE, current |-> TRUE]])
     \/ MayFail(Accepts(ctl)) /\ ctl' = DisplayFailed(ctl)
  /\ UNCHANGED <<native, unshown>>

getPaintingGeometry ==
  /\ At("geometry")
  /\ \/ /\ Accepts(ctl)
        /\ ctl' = FinishDisplay(
             IF ctl.reading = "stale" THEN [ctl EXCEPT !.displayDirty = TRUE]
             ELSE [ctl EXCEPT !.display =
                     [target |-> ctl.session.target, fit |-> TRUE, current |-> TRUE]])
     \/ MayFail(Accepts(ctl)) /\ ctl' = DisplayFailed(ctl)
  /\ UNCHANGED <<native, unshown>>

\* A project command: it may revise the painted target, or hide it from the renderer.
\* After a command that closed the session, there is nothing to refresh.
operation ==
  /\ At("operation") \/ At("plainOperation")
  /\ LET t == ctl.session.target
         revised == [ctl EXCEPT !.session.current = FALSE, !.display.current = FALSE,
                                !.display.fit = @ /\ ctl.display.target # t]
         After(s, targetAvailable) ==
           IF ctl.at = "plainOperation" THEN ProjectSettled(s)
           ELSE IF s.session = NoSession THEN Stopped(s, FALSE)
           ELSE IF ~targetAvailable THEN CloseOwned(s) ELSE [s EXCEPT !.at = "readSession"]
     IN \/ \E s \in {ctl} \cup (IF t = None THEN {} ELSE {revised}), available \in BOOLEAN :
             ctl' = After(s, available)
        \/ "business" \in Faults /\ ctl' = ProjectSettled(fail(ctl))
  /\ UNCHANGED <<native, unshown>>

\* Mutant: the answer is shown, and the revision in it is not taken over.
readPaintingSession_Ignores ==
  /\ At("readSession")
  /\ LET s == [ctl EXCEPT !.displayDirty = TRUE, !.readFailed = FALSE]
     IN ctl' = ProjectSettled([s EXCEPT !.previewDirty = previewReady(s)])
  /\ UNCHANGED <<native, unshown>>

\* "latest" reads whatever revision the engine has.
readPaintingSession ==
  /\ At("readSession")
  /\ LET ok == native.history /\ native.painting.target = ctl.session.target
         s == [ctl EXCEPT !.session.current = TRUE, !.displayDirty = TRUE, !.readFailed = FALSE]
     IN \/ ok /\ ctl' = ProjectSettled([s EXCEPT !.previewDirty = previewReady(s)])
        \/ MayFail(ok) /\ ctl' = Stopped(ctl, FALSE)
  /\ UNCHANGED <<native, unshown>>

\* The three calls of closeOwned(), and what each failure leaves for a retry.
CloseFailed(s) ==
  LET op == Head(ctl.lane)
      t == [fail(s) EXCEPT !.phase = IF s.historyId THEN op.from ELSE "error", !.switching = FALSE]
  IN IF op.kind = "project" THEN Stopped(s, FALSE) ELSE Settled(t)

cancelDraft ==
  /\ At("cancelDraft")
  /\ \/ /\ Accepts(ctl) /\ native' = [native EXCEPT !.painting.stroke = "idle"]
        /\ ctl' = CloseOwned([receipt(ctl, FALSE) EXCEPT
                    !.terminal = None, !.terminalExecuting = FALSE])
     \/ MayFail(Accepts(ctl)) /\ ctl' = CloseFailed(ctl) /\ UNCHANGED native
  /\ UNCHANGED unshown

\* The engine refuses while a stroke is open, and drops the painting session otherwise.
closeHistorySession ==
  /\ At("closeHistory")
  /\ LET ok == native.history /\ native.painting.stroke = "idle"
     IN \/ /\ ok /\ native' = [history |-> FALSE, painting |-> NoPainting]
           /\ ctl' = CloseOwned([ctl EXCEPT !.historyId = FALSE])
        \/ MayFail(ok) /\ ctl' = CloseFailed(ctl) /\ UNCHANGED native
  /\ UNCHANGED unshown

Closed(s) ==
  [advancePreview(s) EXCEPT
     !.paintedObjectIds = {}, !.frame = FALSE, !.displayDirty = FALSE, !.previewDirty = FALSE,
     !.readFailed = FALSE, !.hover = FALSE, !.phase = "closed", !.session = NoSession,
     !.display = NoDisplay, !.error = FALSE, !.switching = FALSE]

prepareClosed ==
  /\ At("prepareClosed")
  /\ LET op == Head(ctl.lane)
         s == Closed(ctl)
     IN \/ /\ unshown' = unshown \ ctl.paintedObjectIds
           /\ ctl' = IF op.kind = "project" THEN ProjectSettled(s)
                     ELSE IF op.channel # None THEN Opening(Settled(s), op.target, op.channel)
                     ELSE Settled(s)
        \/ MayFail(TRUE) /\ ctl' = CloseFailed(ctl) /\ UNCHANGED unshown
  /\ UNCHANGED native

-----------------------------------------------------------------------------

Request ==
  \/ \E t \in Targets : target(t) \/ \E c \in Channels : open(t, c) \/ openOther(t, c)
  \/ close \/ projectOperation \/ reportDisplayError
  \/ \E tool \in {"brush", "pointer", "static"} : setTool(tool)
  \/ setSettings \/ \E inside \in BOOLEAN : hoverAt(inside)

Stroke ==
  \/ press \/ move \/ cancel
  \/ \E sampled \in BOOLEAN : release(sampled)
  \/ \E kind \in {"gap", "eraseAll"} : apply(kind)

\* What the controller, the engine and the browser do by themselves.
Lane ==
  \/ start \/ openHistorySession \/ openPaintingSession \/ undoOpen \/ targetPaintingSession
  \/ previewCandidate \/ beginPaintingStroke \/ cancelMissed \/ samplePaintingStroke
  \/ drainCommit \/ drainCancel \/ drainFails \/ previewPainting \/ getPaintingGeometry
  \/ operation \/ readPaintingSession
  \/ cancelDraft \/ closeHistorySession \/ prepareClosed

Next == Request \/ Stroke \/ frame \/ Lane

Spec == Init /\ [][Next]_vars

Fairness == WF_vars(Lane) /\ WF_vars(frame)
FairSpec == Spec /\ Fairness

-----------------------------------------------------------------------------
(* Properties *)

quiet == ctl.lane = <<>>

\* The controller and the engine only take the values that the code gives them, and
\* as many project commands are counted as hold or wait for the lane.
TypeOK ==
  /\ ctl.phase \in Phases /\ ctl.terminal \in Terminals
  /\ ctl.gesture \in {"none", "pending", "paint", "camera"}
  /\ ctl.session.target \in Targets \cup {None}
  /\ ctl.paintedObjectIds \subseteq Targets /\ unshown \subseteq Targets
  /\ native.painting.stroke \in {"idle", "drawing", "finished"}
  /\ ctl.projectOperations = Cardinality({i \in DOMAIN ctl.lane : ctl.lane[i].kind = "project"})

\* A stroke that is open in the engine can still be ended: with nothing in the lane,
\* the controller draws or stands in "error", where close() cancels the draft, and it
\* knows the history session it has to close.  Otherwise the engine refuses every
\* project command for a stroke that the user cannot see.
StrokeHasAnEnd ==
  quiet /\ native.painting.stroke # "idle" => ctl.phase \in {"drawing", "error"} /\ ctl.historyId

\* Closed is closed on both sides: whatever failed on the way, a controller that says
\* "closed" has left no history session, no painting session and no unpublished paint.
ClosedIsClosed ==
  quiet /\ ctl.phase = "closed" =>
    ~native.history /\ native.painting = NoPainting /\ unshown = {}

\* Between operations, a controller that takes input has the engine's revision, target,
\* channel and stroke, after every mix of missed presses, failures, cancellations by
\* the engine and project commands: its next call is not refused as stale.
InStep ==
  quiet /\ ctl.phase \in {"idle", "drawing"} =>
    /\ Accepts(ctl) /\ native.painting.channel = ctl.session.channel
    /\ ctl.session.stroke <=> native.painting.stroke # "idle"
    /\ ctl.session.stroke <=> ctl.phase = "drawing"

\* Controller and engine keep their types and their counts, and agree between operations.
SessionsConsistent == TypeOK /\ InStep

\* A target whose committed paint Prepare does not show yet stays in paintedObjectIds
\* across target switches, channel switches and closes that fail half way.
NothingPaintedIsLost == unshown \subseteq ctl.paintedObjectIds

\* Once nothing is left to do, the target on screen is the session's at the engine's
\* revision, unless its last reading failed: no input makes an obsolete one final.
ShownIsCurrent ==
  quiet /\ ctl.phase = "idle" /\ ~ctl.frame =>
    ctl.readFailed \/ (displayMatchesTarget(ctl) /\ ctl.display.current)

\* A stroke that was released or cancelled is settled, or the panel says what failed:
\* some operation of the lane always takes its terminal.
StrokesSettle ==
  ctl.phase \in {"ending", "cancelling"} ~> ctl.phase \notin {"ending", "cancelling"} \/ ctl.error
=============================================================================
