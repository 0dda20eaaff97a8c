------------------------------- MODULE TuiView -------------------------------
(***************************************************************************)
(* The interactive display (TUI in tui.go) and the run loop as it uses it  *)
(* (runWithContext in bottom.go).  The run loop writes events and closes   *)
(* the display in the end; a goroutine reads keys, or lines where there is *)
(* no raw terminal; another looks at the size of the terminal.  All take   *)
(* one mutex for the whole of a call, so that each call is a step.  An     *)
(* event is a number, which stands for what a search finds and a sort      *)
(* compares; columns, widths, wording, the status line and the help, which *)
(* takes rows as the details do, are layout.                               *)
(***************************************************************************)
EXTENDS Integers, Sequences, FiniteSets

CONSTANTS Texts,       \* what the text of an event may be
          Searches,    \* what is searched for
          EventLimit,  \* tuiEventLimit: events that are kept (2048)
          Sorts,       \* orders of the view: the timeline and those by a key (4)
          Heights,     \* what the height of the terminal may be
          Reserved,    \* lines that are not for events (13)
          MinRows      \* lines that always are (3)

NoSearch == 0   \* the empty search, which every event matches

ASSUME TuiAssumption ==
    /\ Texts \subseteq Nat \ {0}
    /\ NoSearch \in Searches /\ Searches \subseteq Nat
    /\ EventLimit \in Nat \ {0}
    /\ Sorts \in 1..4
    /\ Heights \subseteq Nat
    /\ Reserved \in Nat /\ MinRows \in Nat \ {0}

VARIABLES events,
          view,       \* paused, scroll, search, searching, draft, sort, detail
          height,     \* of the terminal, when it was last looked at
          input,      \* how input is read: "keys", "lines", or "none"
          reading,    \* the goroutine that reads input is there
          resizing,   \* the goroutine that looks at the size is there
          entered,    \* a frame has switched to the alternate screen
          closed,
          running,    \* the run loop is there
          stopped,    \* a key has cancelled its context
          terminal,   \* the terminal: its height,
          alternate,  \* whether it shows the alternate screen,
          raw,        \* whether it passes on single keys,
          broken,     \* whether using it fails,
          current,    \* whether the last frame it got shows the present state
          trimmed,    \* (history) an event in view was dropped after a scroll
          lateError   \* (history) line input failed after Close
frameVars == <<height, entered, alternate, current>>
vars == <<events, view, frameVars, input, reading, resizing, closed, running,
          stopped, terminal, raw, broken, trimmed, lateError>>

Interactive == input # "none"

-----------------------------------------------------------------------------
\* What a frame shows.

Matches(event) == view.search \in {NoSearch, event}

\* By duration the greatest first, by PID or command the least first, the
\* oldest first among equals.
Before(i, j) ==
    \/ view.sort = 1 /\ events[i] > events[j]
    \/ view.sort > 1 /\ events[i] < events[j]
    \/ (view.sort = 0 \/ events[i] = events[j]) /\ i < j

Matching == {i \in 1..Len(events) : Matches(events[i])}

\* What matches, in that order.
FilteredEvents ==
    LET matching == Matching
        place(i) == Cardinality({j \in matching : Before(j, i)}) + 1
    IN  [k \in 1..Cardinality(matching) |-> events[CHOOSE i \in matching : place(i) = k]]

Greater(a, b) == IF a > b THEN a ELSE b

VisibleEventLimit ==
    Greater(MinRows, height - Reserved - (IF view.detail THEN 3 ELSE 0))

\* Scrolled back by so many events, the last one visible is selected.
VisibleEvents ==
    LET list == FilteredEvents
        end == Greater(0, Len(list) - view.scroll)
        start == Greater(0, end - VisibleEventLimit)
    IN  SubSeq(list, start + 1, end)

Frame == [rows |-> VisibleEvents, kept |-> Len(events), view |-> view]

Undrawn == current' = (current /\ Frame' = Frame)

\* The first frame switches to the alternate screen, if it gets there.
Draw ==
    /\ height' = IF Interactive /\ ~broken THEN terminal ELSE height
    /\ entered' = (entered \/ Interactive)
    /\ alternate' = (alternate \/ (Interactive /\ ~entered /\ ~broken))
    /\ IF broken THEN Undrawn ELSE current' = TRUE

-----------------------------------------------------------------------------
\* Without a terminal to write to, nothing is read and no size watched.
Init ==
    /\ events = <<>>
    /\ view = [paused |-> FALSE, scroll |-> 0, search |-> NoSearch,
               searching |-> FALSE, draft |-> NoSearch, sort |-> 0,
               detail |-> FALSE]
    /\ input \in {"keys", "lines", "none"}
    /\ raw = (input = "keys") /\ reading = Interactive /\ resizing = Interactive
    /\ terminal \in Heights /\ height = terminal
    /\ entered = FALSE /\ alternate = FALSE /\ current = TRUE
    /\ closed = FALSE /\ running = TRUE /\ stopped = FALSE /\ broken = FALSE
    /\ trimmed = FALSE /\ lateError = FALSE

\* The oldest events are dropped: the scroll position, which counts from the
\* newest one, is left as it is.
Keep(event) ==
    /\ events' = IF Len(events) < EventLimit THEN Append(events, event)
                                             ELSE Append(Tail(events), event)
    /\ trimmed' = \/ trimmed
                  \/ view.scroll > 0 /\ Len(events) = EventLimit /\ Matches(Head(events))

\* Slip: no frame while the view is scrolled back.
StillWhileScrolled == view.paused \/ view.scroll > 0

Still == view.paused

\* A frame that cannot be written ends the run.
Write(event) ==
    /\ running /\ ~closed
    /\ Keep(event)
    /\ UNCHANGED <<view, input, reading, resizing, closed, stopped, terminal,
                   raw, broken, lateError>>
    /\ IF Still THEN UNCHANGED <<height, entered, alternate, running>> /\ Undrawn
                ELSE Draw /\ running' = ~broken

-----------------------------------------------------------------------------
\* Input.

\* Slip: as many steps back as there are events.
MoveOlderBeyond ==
    IF view.scroll < Len(FilteredEvents) THEN [view EXCEPT !.scroll = @ + 1]
                                         ELSE view

MoveOlder ==
    IF view.scroll < Len(FilteredEvents) - 1 THEN [view EXCEPT !.scroll = @ + 1]
                                             ELSE view

MoveNewer == IF view.scroll > 0 THEN [view EXCEPT !.scroll = @ - 1] ELSE view

\* What both keys and lines may do: p, k, j, d, clear, sort, or nothing but
\* a new frame (columns, help, what is unknown).
Commands ==
    {[view EXCEPT !.paused = ~@], MoveOlder, MoveNewer,
     [view EXCEPT !.detail = ~@],
     [view EXCEPT !.search = NoSearch, !.draft = NoSearch, !.scroll = 0],
     [view EXCEPT !.sort = (@ + 1) % Sorts, !.scroll = 0],
     view}

\* Keys edit a draft of the search, until Return or Escape.
SearchKeys ==
    {[view EXCEPT !.draft = draft] : draft \in Searches}
    \cup {[view EXCEPT !.search = view.draft, !.searching = FALSE, !.scroll = 0],
          [view EXCEPT !.draft = view.search, !.searching = FALSE]}

Keys == IF view.searching THEN SearchKeys
        ELSE Commands \cup {[view EXCEPT !.searching = TRUE, !.draft = view.search]}

Lines == Commands
         \cup {[view EXCEPT !.search = search, !.scroll = 0] : search \in Searches}

\* After Close what is read is ignored.
Handle ==
    /\ reading /\ ~closed
    /\ view' \in IF input = "keys" THEN Keys ELSE Lines
    /\ trimmed' = (trimmed /\ view'.scroll > 0)
    /\ UNCHANGED <<events, input, reading, resizing, closed, running, stopped,
                   terminal, raw, broken, lateError>>
    /\ Draw

\* q, Ctrl-C and Ctrl-D at any time, Escape outside a search; the status is set
\* but no frame is drawn.
Quit ==
    /\ reading /\ ~closed /\ ~stopped
    /\ stopped' = TRUE
    /\ UNCHANGED <<events, view, frameVars, input, reading, resizing, closed,
                   running, terminal, raw, broken, trimmed, lateError>>

InputEnds ==
    /\ reading /\ reading' = FALSE
    /\ UNCHANGED <<events, view, frameVars, input, resizing, closed, running,
                   stopped, terminal, raw, broken, trimmed, lateError>>

\* Slip: an error is shown whether or not the display is closed.
ErrorAlwaysShown == TRUE

\* The error of the reader of keys is shown while the display is open, that of
\* the reader of lines at any time.
ErrorShown == input = "lines" \/ ~closed

InputFails ==
    /\ reading /\ reading' = FALSE
    /\ lateError' = (lateError \/ (input = "lines" /\ closed))
    /\ UNCHANGED <<events, view, input, resizing, closed, running, stopped,
                   terminal, raw, broken, trimmed>>
    /\ IF ErrorShown THEN Draw ELSE UNCHANGED frameVars

-----------------------------------------------------------------------------
\* The size, and the end.

Resize ==
    /\ resizing /\ height # terminal /\ ~broken
    /\ UNCHANGED <<events, view, input, reading, resizing, closed, running, stopped,
                   terminal, raw, broken, trimmed, lateError>>
    /\ IF closed THEN height' = terminal /\ UNCHANGED <<entered, alternate>> /\ Undrawn
                 ELSE Draw

ResizeEnds ==
    /\ resizing /\ closed
    /\ resizing' = FALSE
    /\ UNCHANGED <<events, view, frameVars, input, reading, closed, running, stopped,
                   terminal, raw, broken, trimmed, lateError>>

\* The run loop ends because its context is cancelled, or for reasons of its
\* own (WatchRun).
Return ==
    /\ running /\ running' = FALSE
    /\ UNCHANGED <<events, view, frameVars, input, reading, resizing, closed,
                   stopped, terminal, raw, broken, trimmed, lateError>>

\* Deferred by the run loop: both the display and the input are restored, or
\* the errors returned.
Close ==
    /\ ~running /\ ~closed
    /\ closed' = TRUE
    /\ alternate' = (alternate /\ (broken \/ ~entered))
    /\ raw' = (raw /\ broken)
    /\ UNCHANGED <<events, view, height, entered, current, input, reading, resizing,
                   running, stopped, terminal, broken, trimmed, lateError>>

\* The user makes the terminal smaller or larger, or it goes away.
Terminal ==
    /\ \/ terminal' \in Heights \ {terminal} /\ UNCHANGED broken
       \/ ~broken /\ broken' = TRUE /\ UNCHANGED terminal
    /\ UNCHANGED <<events, view, frameVars, input, reading, resizing, closed,
                   running, stopped, raw, trimmed, lateError>>

Next ==
    \/ \E event \in Texts : Write(event)
    \/ Handle \/ Quit \/ InputEnds \/ InputFails
    \/ Resize \/ ResizeEnds \/ Return \/ Close \/ Terminal

Spec == Init /\ [][Next]_vars

-----------------------------------------------------------------------------
TypeOK ==
    /\ events \in Seq(Texts) /\ Len(events) =< EventLimit
    /\ view \in [paused : BOOLEAN, scroll : Nat, search : Searches,
                 searching : BOOLEAN, draft : Searches, sort : 0..Sorts - 1,
                 detail : BOOLEAN]
    /\ input \in {"keys", "lines", "none"}
    /\ height \in Heights /\ terminal \in Heights
    /\ {reading, resizing, entered, closed, running, stopped, alternate, current,
        raw, broken, trimmed, lateError} \subseteq BOOLEAN

\* While the display is open and not paused, the terminal shows the state as it
\* is: whatever is written, typed or resized, in whatever order, no step leaves
\* an old frame behind.
ScreenIsCurrent ==
    ~closed /\ ~broken /\ ~view.paused => current

\* The view is empty though events match only if a matching event was dropped
\* at the limit after the user had scrolled back; keys, searches and sorts
\* alone never scroll beyond the oldest event.
BlankOnlyAfterTrim ==
    (VisibleEvents = <<>> /\ FilteredEvents # <<>>) => trimmed

\* A closed display leaves the terminal as it was found, whatever its
\* goroutines do later, unless the terminal cannot be used, or the reader of
\* lines fails after Close: its error is drawn (tui.go:276).
TerminalRestored ==
    closed => /\ raw => broken
              /\ alternate => broken \/ lateError
=============================================================================
