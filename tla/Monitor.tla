------------------------------ MODULE Monitor ------------------------------
(***************************************************************************)
(* The terminal monitor (src/tui/monitor.cpp) in its fullscreen and pty    *)
(* modes: a render thread of its own that takes snapshots of the session,  *)
(* fills the log pane, draws frames through a differential renderer and    *)
(* obeys keys and the mouse, next to the host thread that works, updates   *)
(* the session, logs lines and at last destroys the monitor.               *)
(*                                                                         *)
(* Of the session only what snapshot() tells is kept, and in what order    *)
(* update() records it: a managed outcome with worker_mutex_ held, the     *)
(* outcome of the object watches without it; and that a session which      *)
(* failed throws from it.  Of the terminal it is kept where the panel is   *)
(* drawn: a pty never blocks a write, the current terminal does while it   *)
(* takes nothing, and a write takes effect when it returns.  The           *)
(* differential renderer, the scroll region and the escape sequence        *)
(* decoder belong to the Glyph library; they do here what monitor.cpp      *)
(* relies on.                                                              *)
(***************************************************************************)
EXTENDS Naturals, Sequences

CONSTANTS Cap,          \* kHeldCap, which is also the capacity of the pane
          Height,       \* the lines of the pane that are on screen
          MaxOutcomes,  \* bound on the outcomes of update()
          MaxWork,      \* bound on logged lines and outcomes, which count twice
          None

Threads == {"host", "render"}

ASSUME CapacitiesArePositive == Cap \in Nat \ {0} /\ Height \in Nat \ {0}
ASSUME NoneIsNoThread == None \notin Threads

Kinds == {"applied", "rejected"}
Origins == {"managed", "objects"}

\* Where the panel is drawn (src/tui/terminal.hpp:31-35).
Placements == {"current", "pty"}

\* A line of the log: the host's n-th, or what is told of the n-th outcome.
Line == [label : Kinds \cup {"app"}, tells : Nat]

\* The screen, top to bottom: the panel with its counters, the log pane.
Rows == 1..2

Events == {"wheel up", "wheel down", "press", "drag above", "drag", "drag below",
           "release", "esc", "y", "r", "q"}

VARIABLES
  host,      \* "working" in reloadable code, "safe" in update(), "closing", "gone"
  call,      \* thread -> the outcome its update() is recording, or Idle
  lock,      \* worker_mutex_: the thread that records a managed outcome
  session,   \* applied_, rejected_, last_result_ and where that came from
  made,      \* outcomes so far
  overlap,   \* history: have two update() calls been under way at once?
  fatal,     \* has the worker failed, or a commit that could not be undone?
  render,    \* what the render thread does next
  running,   \* running_
  shown,     \* last_applied_, last_rejected_
  stats,     \* the snapshot the frame is drawn from
  pending,   \* pending_logs_
  view,      \* log_view_: its lines, scroll offset and whether text is selected
  pane,      \* log_area_: was there room for the log pane?
  drawn,     \* what the renderer believes is on screen, None after a reset
  screen,    \* what is on screen
  place,     \* the placement, which does not change
  stalled,   \* does the current terminal take nothing?
  written,   \* lines the host has logged
  newest,    \* history: the newest Cap lines that were queued
  told       \* history: the outcome that the newest line about one tells

logs == <<pending, written, newest, told>>
display == <<drawn, screen, place, stalled>>
panel == <<shown, stats, view, pane, running>>
calls == <<call, lock, session, made, overlap, fatal>>
vars == <<host, calls, render, panel, logs, display>>

NoStats == [applied |-> 0, rejected |-> 0, last |-> 0, from |-> "managed"]
Idle == [kind |-> "applied", from |-> "managed", outcome |-> 0]

Smaller(a, b) == IF a < b THEN a ELSE b
LastOf(n, s) == SubSeq(s, Len(s) - Smaller(n, Len(s)) + 1, Len(s))

\* The exception of the render thread has not ended the process.
Alive == render # "terminated"

-----------------------------------------------------------------------------
(* The calls of update(), by whichever thread. *)

\* A failed session throws.  Else update() finds nothing to do, which changes
\* nothing, or has an outcome, whose counter comes first.  The object batch has
\* no lock: another update() in the same place may overwrite the count.
CountOutcome(t) ==
  /\ ~fatal /\ fatal' = fatal
  /\ made < MaxOutcomes /\ written + 2 * made + 2 <= MaxWork
  /\ made' = made + 1
  /\ overlap' = (overlap \/ \E u \in Threads \ {t} : call[u] # Idle)
  /\ \E kind \in Kinds, from \in Origins :
       /\ from = "managed" => lock = None
       /\ lock' = IF from = "managed" THEN t ELSE lock
       /\ call' = [call EXCEPT ![t] = [kind |-> kind, from |-> from, outcome |-> made + 1]]
       /\ \/ session' = [session EXCEPT ![kind] = @ + 1]
          \/ /\ \E u \in Threads \ {t} : call[u] # Idle /\ call[u].kind = kind
             /\ session' = session

\* The text of the result comes last; the host then goes back to work.
RecordOutcome(t) ==
  /\ Alive
  /\ call[t] # Idle
  /\ session' = [session EXCEPT !.last = call[t].outcome, !.from = call[t].from]
  /\ lock' = IF lock = t THEN None ELSE lock
  /\ call' = [call EXCEPT ![t] = Idle]
  /\ host' = IF t = "host" THEN "working" ELSE host
  /\ UNCHANGED <<made, overlap, fatal, render, panel, logs, display>>

\* The worker ends with an exception, or update(), by either thread, cannot undo
\* a commit; such a call counts nothing.
SessionFails ==
  /\ Alive /\ ~fatal
  /\ fatal' = TRUE
  /\ UNCHANGED <<host, call, lock, session, made, overlap, render, panel, logs, display>>

-----------------------------------------------------------------------------
(* The host thread. *)

\* Mistake: a full queue refuses the newest line.
QueuedUnlessFull(q, line) == IF Len(q) >= Cap THEN q ELSE Append(q, line)

\* queue_log: of the lines that are held back the newest Cap remain.
Queued(q, line) == Append(IF Len(q) >= Cap THEN Tail(q) ELSE q, line)

LogLine ==
  /\ Alive /\ host = "working"
  /\ written + 2 * made < MaxWork
  /\ written' = written + 1
  /\ LET line == [label |-> "app", tells |-> written + 1]
     IN pending' = Queued(pending, line) /\ newest' = LastOf(Cap, Append(newest, line))
  /\ told' = told
  /\ UNCHANGED <<host, calls, render, panel, display>>

\* At its safe point the host calls update().
HostCallsUpdate ==
  /\ Alive /\ host = "working" /\ host' = "safe"
  /\ CountOutcome("host")
  /\ UNCHANGED <<render, panel, logs, display>>

\* Mistake: the destructor waits for the user to close the panel.
DestroyWaiting ==
  /\ Alive /\ host = "working"
  /\ host' = "closing"
  /\ UNCHANGED <<calls, render, panel, logs, display>>

\* ~terminal_monitor: stop the render thread, then join it.
Destroy ==
  /\ Alive /\ host = "working"
  /\ host' = "closing" /\ running' = FALSE
  /\ UNCHANGED <<calls, render, shown, stats, view, pane, logs, display>>

Join ==
  /\ host = "closing" /\ render = "left"
  /\ host' = "gone"
  /\ UNCHANGED <<calls, render, panel, logs, display>>

-----------------------------------------------------------------------------
(* The display. *)

\* The terminal that the panel shares with the application stops taking bytes,
\* and may take them again; its writes block.  A pty drops what is not taken.
TerminalStops ==
  /\ Alive /\ place = "current" /\ ~stalled
  /\ stalled' = TRUE
  /\ UNCHANGED <<host, calls, render, panel, logs, drawn, screen, place>>

TerminalResumes ==
  /\ Alive /\ stalled
  /\ stalled' = FALSE
  /\ UNCHANGED <<host, calls, render, panel, logs, drawn, screen, place>>

\* write: it returns unless the far end of a blocking descriptor takes nothing.
WriteReturns == place = "pty" \/ ~stalled

-----------------------------------------------------------------------------
(* A frame. *)

\* The alternate screen and the mouse reports are switched on.
EnterLoop ==
  /\ render = "entering" /\ WriteReturns
  /\ render' = "loop"
  /\ UNCHANGED <<host, calls, panel, logs, display>>

\* The loop: a frame is drawn when it is due.
Rest ==
  /\ render = "loop" /\ running
  /\ render' = "input"
  /\ UNCHANGED <<host, calls, panel, logs, display>>

\* A counter that rose since the last frame is a line, with the newest result.
NewsOf(s, k) == IF s[k] > shown[k] THEN <<[label |-> k, tells |-> s.last]>> ELSE <<>>

\* What a snapshot tells, in the order render_frame queues it.
Told(s) == NewsOf(s, "applied") \o NewsOf(s, "rejected")

QueuedNews(q, s, k) == IF NewsOf(s, k) = <<>> THEN q ELSE Queued(q, NewsOf(s, k)[1])
QueuedTold(q, s) == QueuedNews(QueuedNews(q, s, "applied"), s, "rejected")

\* push_line keeps the newest Cap lines and follows the live end again.
Pushed(lines, fresh) == LastOf(Cap, lines \o fresh)

\* snapshot() looks for a failure first, with worker_mutex_ held, and takes the
\* mutex again for its copy.
AskSnapshot ==
  /\ render = "loop" /\ running
  /\ ~fatal /\ lock = None
  /\ render' = "asked"
  /\ UNCHANGED <<host, calls, panel, logs, display>>

\* Nobody on the render thread catches what snapshot() throws.
SnapshotThrows ==
  /\ render = "loop" /\ running
  /\ fatal
  /\ render' = "terminated"
  /\ UNCHANGED <<host, calls, panel, logs, display>>

\* render_frame: what snapshot() tells is queued.
\* flush_logs_if_following: a reader who scrolled up is left alone.
Observe ==
  /\ render = "asked"
  /\ lock = None
  /\ stats' = session
  /\ shown' = [k \in Kinds |-> session[k]]
  /\ newest' = LastOf(Cap, newest \o Told(session))
  /\ told' = IF Told(session) = <<>> THEN told ELSE session.last
  /\ LET queued == QueuedTold(pending, session)
     IN IF view.offset # 0 THEN pending' = queued /\ view' = view
        ELSE pending' = <<>> /\ view' = [view EXCEPT !.lines = Pushed(@, queued)]
  /\ render' = "flushed"
  /\ UNCHANGED <<host, calls, pane, running, written, display>>

\* render_log_pane: the lines in sight, and how many are held back.
Visible == LET end == Len(view.lines) - view.offset
           IN LastOf(Height, SubSeq(view.lines, 1, end))

\* render_monitor_pane and render_log_pane; a small terminal has no log pane.
Frame(roomy) ==
  <<[counts |-> <<stats.applied, stats.rejected>>, last |-> stats.last],
    IF roomy THEN [lines |-> Visible, held |-> Len(pending)] ELSE [lines |-> <<>>, held |-> 0]>>

\* The renderer emits the rows that differ from those it drew last.
Emitted(frame) == {r \in Rows : drawn = None \/ drawn[r] # frame[r]}

\* Where a write may stop: inside a row that is emitted, or not at all.
Whole == 3
Stops(frame) == Emitted(frame) \cup {Whole}

\* The display takes the rows above `stop' and a part of that row, and drops the
\* rest.
Received(frame, stop) ==
  [r \in Rows |-> IF r \notin Emitted(frame) \/ r > stop THEN screen[r]
                  ELSE IF r = stop THEN None ELSE frame[r]]

\* Mistake: the renderer is not told that a frame was dropped.
RemembersAnyway(frame, stop) == frame

\* write_display: after a short write the renderer starts over.
Remembered(frame, stop) == IF stop = Whole THEN frame ELSE None

DrawFrame ==
  /\ render = "flushed" /\ WriteReturns
  /\ \E roomy \in BOOLEAN : \E stop \in Stops(Frame(roomy)) :
       /\ pane' = roomy
       /\ screen' = Received(Frame(roomy), stop)
       /\ drawn' = Remembered(Frame(roomy), stop)
  /\ stats' = NoStats
  /\ render' = "input"
  /\ UNCHANGED <<host, calls, shown, view, running, logs, place, stalled>>

-----------------------------------------------------------------------------
(* Keys and the mouse. *)

Highest == IF Len(view.lines) > Height THEN Len(view.lines) - Height ELSE 0
Scrolled(up, n) == IF up THEN Smaller(view.offset + n, Highest)
                   ELSE view.offset - Smaller(n, view.offset)

\* The wheel drives the pane from anywhere, if there is one.
Wheel(up) ==
  view' = IF pane THEN [view EXCEPT !.offset = Scrolled(up, 1)] ELSE view

\* A press in the pane starts a selection.
Press == view' = IF pane THEN [view EXCEPT !.selecting = TRUE] ELSE view

\* Dragging past an edge of the pane scrolls, and the selection follows.
Drag(edge) ==
  view' = IF ~view.selecting \/ ~pane \/ edge = "drag" THEN view
          ELSE [view EXCEPT !.offset = Scrolled(edge = "drag above", 3)]

\* Releasing the button, or `y', copies the selection, which then ends; an
\* empty selection is kept.
CopySelection ==
  \E empty \in BOOLEAN :
    view' = IF view.selecting /\ ~empty THEN [view EXCEPT !.selecting = FALSE] ELSE view

\* Esc ends a selection or else the panel.
Escape ==
  IF view.selecting THEN view' = [view EXCEPT !.selecting = FALSE] /\ running' = running
  ELSE running' = FALSE /\ view' = view

\* dispatch: everything but closing and reloading happens in the view.
ViewEvent(e) ==
  /\ \/ e \in {"wheel up", "wheel down"} /\ Wheel(e = "wheel up")
     \/ e = "press" /\ Press
     \/ e \in {"drag above", "drag", "drag below"} /\ Drag(e)
     \/ e \in {"release", "y"} /\ CopySelection
  /\ running' = running

Dispatch(e) ==
  \/ ViewEvent(e) /\ UNCHANGED calls
  \/ e = "esc" /\ Escape /\ UNCHANGED calls
  \/ e = "q" /\ running' = FALSE /\ UNCHANGED <<view, calls>>
  \/ e = "r" /\ CountOutcome("render") /\ UNCHANGED <<view, running>>

\* handle_input_nb: the events of one read, one after the other; `r' calls
\* update() from here.
HandleEvent ==
  /\ render = "input" /\ call["render"] = Idle
  /\ \E e \in Events : Dispatch(e)
  /\ UNCHANGED <<host, render, shown, stats, pane, logs, display>>

EndInput ==
  /\ render = "input" /\ call["render"] = Idle
  /\ render' = "loop"
  /\ UNCHANGED <<host, calls, panel, logs, display>>

\* The last frame stays where the alternate screen is left.
LeaveLoop ==
  /\ render = "loop" /\ ~running /\ WriteReturns
  /\ render' = "left"
  /\ UNCHANGED <<host, calls, panel, logs, display>>

-----------------------------------------------------------------------------
Init ==
  /\ host = "working"
  /\ call = [t \in Threads |-> Idle]
  /\ lock = None
  /\ session = NoStats
  /\ made = 0
  /\ overlap = FALSE
  /\ fatal = FALSE
  /\ render = "entering"
  /\ running = TRUE
  /\ shown = [k \in Kinds |-> 0]
  /\ stats = NoStats
  /\ pending = <<>>
  /\ view = [lines |-> <<>>, offset |-> 0, selecting |-> FALSE]
  /\ pane = FALSE
  /\ drawn = None
  /\ screen = [r \in Rows |-> None]
  /\ place \in Placements
  /\ stalled = FALSE
  /\ written = 0
  /\ newest = <<>>
  /\ told = 0

HostStep ==
  \/ LogLine \/ HostCallsUpdate
  \/ RecordOutcome("host") \/ Destroy \/ Join

RenderStep ==
  \/ EnterLoop \/ Rest \/ AskSnapshot \/ SnapshotThrows \/ Observe \/ DrawFrame
  \/ EndInput \/ RecordOutcome("render") \/ LeaveLoop

Surroundings == SessionFails \/ TerminalStops \/ TerminalResumes

Next == HostStep \/ RenderStep \/ HandleEvent \/ Surroundings

Spec == Init /\ [][Next]_vars

\* Both threads run, update() returns, and what one read delivers ends.  The
\* host need not log, update or destroy, the user need not do anything, and a
\* terminal that stopped need not take bytes again.
FairSpec == Spec /\ WF_vars(RenderStep) /\ WF_vars(RecordOutcome("host")) /\ WF_vars(Join)

-----------------------------------------------------------------------------
(* Properties. *)

\* Whatever the display dropped, what the renderer takes its next difference
\* against is what is on screen ("a diff against a screen that never received
\* those cells would never repair them", src/tui/terminal.hpp:55-58).
ScreenIsTheFrame == drawn # None => screen = drawn

\* The newest Cap lines that were logged, by the host or about a reload, are
\* in the pane or held back for it, in the order they were logged, however
\* the reader scrolls (src/tui/monitor.cpp:331-358).
NewestLinesAreKept == LastOf(Cap, view.lines \o pending) = newest

\* A panel that has caught up with the counters has told the newest result, as
\* long as no two calls of update() overlapped.  The result of an object batch
\* is recorded without the mutex and may be missed between its counter and its
\* text; a managed one may not (src/tui/monitor.cpp:242-255).
LatestOutcomeIsTold ==
  (~overlap /\ lock = None /\ session.last # 0 /\ session.from = "managed"
     /\ \A k \in Kinds : shown[k] = session[k]) =>
    told = session.last

\* The log pane is current: nothing new is lost on the way into it.
LogIsCurrent == NewestLinesAreKept /\ LatestOutcomeIsTold

\* The panel that was asked to close, by a key or by the destructor, gives
\* the terminal back, and the destructor returns (src/tui/monitor.cpp:199-205),
\* or the process has ended with a failed session.  In a pty that is so
\* whatever the far end does, and in the current terminal if it is not stopped
\* for ever or again and again.
PanelCloses ==
  <>[]~stalled =>
    ((~running \/ host = "closing") ~> (~Alive \/ (render = "left" /\ host # "closing")))

\* "it must never block, because the far end stopping (a detached screen, a
\* stopped reader) must not wedge the render thread"
\* (src/tui/terminal.hpp:46-48): a frame that is written is done with, though
\* stdout in the current terminal is left blocking.
WritesReturn == render = "flushed" ~> render # "flushed"

\* "A fatal worker error is retained and reported by the next serialized public
\* call; it MUST NOT escape the worker and terminate the process"
\* (docs/managed-reload-design.md:286-287).  The next call may be snapshot() on
\* the render thread, where nobody catches it.
FailuresAreReported == Alive

\* "It MUST NOT call update() from its input or rendering thread"
\* (docs/managed-reload-design.md:948): update() runs only while the host
\* keeps its reloadable code quiescent (include/neko/session.hpp:15-18).
UpdatesAreQuiescent == \A t \in Threads : call[t] # Idle => host = "safe"
=============================================================================
