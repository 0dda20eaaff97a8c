----------------------------- MODULE DisplayProofs -----------------------------
(***************************************************************************)
(* The display shows its present state, goes blank only where what was in  *)
(* view is dropped, and leaves the terminal as it was, for every limit of  *)
(* events, every set of searches and every terminal.                       *)
(* The cache of user names requests a uid once at a time and never forgets *)
(* that it may be requested again, for every capacity of the queue and any *)
(* number of uids and callers.                                             *)
(***************************************************************************)
EXTENDS TuiView, UidNames, Queues, SequenceTheorems, FiniteSetTheorems, TLAPS

-----------------------------------------------------------------------------
\* The display.

\* Only a frame that entered it leaves the terminal on the alternate screen.
EnteredFirst == alternate => entered

TuiInv == ScreenIsCurrent /\ EnteredFirst /\ TerminalRestored

LEMMA TuiInit == Init => TuiInv
  BY DEF Init, TuiInv, ScreenIsCurrent, EnteredFirst, TerminalRestored

\* A frame is current if it gets to the terminal, and enters the alternate
\* screen as the first one.
LEMMA DrawFacts ==
    ASSUME Draw
    PROVE  /\ ~broken => current'
           /\ alternate' => alternate \/ entered'
           /\ entered => entered'
  BY DEF Draw

\* A step that draws keeps the invariant while the display is open.
LEMMA DrawnWhileOpen ==
    ASSUME TuiInv, Draw, ~closed, UNCHANGED <<closed, raw, broken>>
    PROVE  TuiInv'
  BY DrawFacts DEF TuiInv, ScreenIsCurrent, EnteredFirst, TerminalRestored

\* A step that draws nothing keeps it if it is not the view that is resumed.
LEMMA NothingDrawn ==
    ASSUME TuiInv, UNCHANGED <<view, current, entered, alternate, closed, raw, lateError>>,
           broken => broken'
    PROVE  TuiInv'
  BY DEF TuiInv, ScreenIsCurrent, EnteredFirst, TerminalRestored

LEMMA WriteStep ==
    ASSUME TuiInv, NEW event \in Texts, Write(event)
    PROVE  TuiInv'
<1>1. ~closed /\ UNCHANGED <<view, closed, raw, broken>>
  BY DEF Write
<1>2. CASE Still
  <2>1. UNCHANGED <<entered, alternate>> /\ view'.paused
    BY <1>1, <1>2 DEF Write, Still
  <2> QED BY <1>1, <2>1 DEF TuiInv, ScreenIsCurrent, EnteredFirst, TerminalRestored
<1>3. CASE ~Still
  <2>1. Draw
    BY <1>3 DEF Write
  <2> QED BY <1>1, <2>1, DrawnWhileOpen
<1> QED BY <1>2, <1>3

\* Only the reader of lines draws after Close.
LEMMA InputFailsStep ==
    ASSUME TuiInv, InputFails
    PROVE  TuiInv'
<1>1. /\ UNCHANGED <<view, input, closed, raw, broken>>
      /\ lateError' = (lateError \/ (input = "lines" /\ closed))
  BY DEF InputFails
<1>2. CASE ~ErrorShown
  <2>1. UNCHANGED <<current, entered, alternate>> /\ closed
    BY <1>2 DEF InputFails, frameVars, ErrorShown
  <2> QED BY <1>1, <2>1 DEF TuiInv, ScreenIsCurrent, EnteredFirst, TerminalRestored
<1>3. CASE ErrorShown /\ ~closed
  <2>1. Draw
    BY <1>3 DEF InputFails
  <2> QED BY <1>1, <1>3, <2>1, DrawnWhileOpen
<1>4. CASE ErrorShown /\ closed
  <2>1. Draw /\ lateError'
    BY <1>1, <1>4 DEF InputFails, ErrorShown
  <2> QED BY <1>1, <1>4, <2>1, DrawFacts
          DEF TuiInv, ScreenIsCurrent, EnteredFirst, TerminalRestored
<1> QED BY <1>2, <1>3, <1>4

LEMMA ResizeStep ==
    ASSUME TuiInv, Resize
    PROVE  TuiInv'
<1>1. UNCHANGED <<view, closed, raw, broken, lateError>>
  BY DEF Resize
<1>2. CASE closed
  <2>1. UNCHANGED <<entered, alternate>>
    BY <1>2 DEF Resize
  <2> QED BY <1>1, <1>2, <2>1
          DEF TuiInv, ScreenIsCurrent, EnteredFirst, TerminalRestored
<1>3. CASE ~closed
  <2>1. Draw
    BY <1>3 DEF Resize
  <2> QED BY <1>1, <1>3, <2>1, DrawnWhileOpen
<1> QED BY <1>2, <1>3

\* Close leaves the alternate screen, which EnteredFirst says a frame entered.
LEMMA CloseStep ==
    ASSUME TuiInv, Close
    PROVE  TuiInv'
<1>1. /\ closed' = TRUE
      /\ alternate' = (alternate /\ (broken \/ ~entered))
      /\ raw' = (raw /\ broken)
      /\ UNCHANGED <<entered, broken, lateError>>
  BY DEF Close
<1> QED BY <1>1 DEF TuiInv, ScreenIsCurrent, EnteredFirst, TerminalRestored

LEMMA TuiStep == TuiInv /\ [Next]_vars => TuiInv'
<1> SUFFICES ASSUME TuiInv, [Next]_vars PROVE TuiInv'
  OBVIOUS
<1>1. CASE UNCHANGED vars
  BY <1>1, NothingDrawn DEF vars, frameVars
<1>2. ASSUME NEW event \in Texts, Write(event) PROVE TuiInv'
  BY <1>2, WriteStep
<1>3. CASE Handle
  <2>1. Draw /\ ~closed /\ UNCHANGED <<closed, raw, broken>>
    BY <1>3 DEF Handle
  <2> QED BY <2>1, DrawnWhileOpen
<1>4. CASE Quit
  BY <1>4, NothingDrawn DEF Quit, frameVars
<1>5. CASE InputEnds
  BY <1>5, NothingDrawn DEF InputEnds, frameVars
<1>6. CASE InputFails
  BY <1>6, InputFailsStep
<1>7. CASE Resize
  BY <1>7, ResizeStep
<1>8. CASE ResizeEnds
  BY <1>8, NothingDrawn DEF ResizeEnds, frameVars
<1>9. CASE Return
  BY <1>9, NothingDrawn DEF Return, frameVars
<1>10. CASE Close
  BY <1>10, CloseStep
<1>11. CASE Terminal
  <2>1. /\ UNCHANGED <<view, current, entered, alternate, closed, raw, lateError>>
        /\ broken => broken'
    BY <1>11 DEF Terminal, frameVars
  <2> QED BY <2>1, NothingDrawn
<1> QED BY <1>1, <1>2, <1>3, <1>4, <1>5, <1>6, <1>7, <1>8, <1>9, <1>10, <1>11 DEF Next

\* The inductive invariant of the display.
THEOREM TuiInvariant == Spec => []TuiInv
  BY TuiInit, TuiStep, PTL DEF Spec

\* While it is open and not paused, the display shows the state as it is (the
\* frames drawn by TUI.Write, handleKey, handleCommand and watchSize).
THEOREM AlwaysCurrent == Spec => []ScreenIsCurrent
<1>1. TuiInv => ScreenIsCurrent
  BY DEF TuiInv
<1> QED BY <1>1, TuiInvariant, PTL

\* A closed display has left the terminal as it was, but for a terminal that
\* fails and a late error of the reader of lines (TUI.Close).
THEOREM AlwaysRestored == Spec => []TerminalRestored
<1>1. TuiInv => TerminalRestored
  BY DEF TuiInv
<1> QED BY <1>1, TuiInvariant, PTL

-----------------------------------------------------------------------------
(***************************************************************************)
(* Scrolling.  The scroll position is a number of events that match, and   *)
(* only a trim makes these fewer.                                          *)
(***************************************************************************)
Views == [paused : BOOLEAN, scroll : Nat, search : Searches, searching : BOOLEAN,
          draft : Searches, sort : 0..Sorts - 1, detail : BOOLEAN]

EventsKept == events \in Seq(Texts) /\ Len(events) =< EventLimit

InView(scroll) == scroll = 0 \/ scroll < Cardinality(Matching)

\* What is known of the terminal is a size it may have.
Sized == height \in Heights /\ terminal \in Heights

ScrollInv == EventsKept /\ Sized /\ view \in Views /\ (trimmed \/ InView(view.scroll))

LEMMA PlacesAreFinite ==
    ASSUME NEW n \in Nat, NEW places \in SUBSET (1..n)
    PROVE  IsFiniteSet(places) /\ Cardinality(places) \in Nat
<1>1. IsFiniteSet(1..n)
  BY FS_Interval
<1>2. IsFiniteSet(places)
  BY <1>1, FS_Subset
<1> QED BY <1>2, FS_CardinalityType

LEMMA MatchingIsFinite ==
    ASSUME EventsKept
    PROVE  IsFiniteSet(Matching) /\ Cardinality(Matching) \in Nat
<1>1. Matching \in SUBSET (1..Len(events)) /\ Len(events) \in Nat
  BY DEF Matching, EventsKept
<1> QED BY <1>1, PlacesAreFinite

\* Filtering and sorting leave the events that match.
LEMMA FilteredLength ==
    ASSUME EventsKept
    PROVE  /\ Len(FilteredEvents) = Cardinality(Matching)
           /\ FilteredEvents \in Seq({FilteredEvents[k] : k \in 1..Cardinality(Matching)})
<1> DEFINE n == Cardinality(Matching)
           list == FilteredEvents
           S == {list[k] : k \in 1..n}
<1>1. n \in Nat
  BY MatchingIsFinite
<1>2. list = [k \in 1..n |-> list[k]] /\ DOMAIN list = 1..n
  BY DEF FilteredEvents
<1> HIDE DEF n, list
<1>3. list \in [1..n -> S]
  BY <1>2
<1>4. list \in Seq(S)
  <2> HIDE DEF S
  <2> QED BY <1>1, <1>3, SeqDef
<1>5. Len(list) \in Nat /\ 1..Len(list) = 1..n
  <2> HIDE DEF S
  <2> QED BY <1>2, <1>4, LenProperties
<1>6. Len(list) = n
  BY <1>1, <1>5
<1> QED BY <1>4, <1>6 DEF n, list

\* Something that matches is in view where the scroll position is one of it.
LEMMA InViewIsVisible ==
    ASSUME ScrollInv, InView(view.scroll), FilteredEvents # <<>>
    PROVE  VisibleEvents # <<>>
<1> DEFINE n == Len(FilteredEvents)
           end == Greater(0, n - view.scroll)
           limit == VisibleEventLimit
           start == Greater(0, end - limit)
           S == {FilteredEvents[k] : k \in 1..Cardinality(Matching)}
<1>1. n = Cardinality(Matching) /\ n \in Nat /\ FilteredEvents \in Seq(S)
  BY FilteredLength, MatchingIsFinite DEF ScrollInv
<1>2. n # 0
  <2> HIDE DEF S
  <2> QED BY <1>1, NoElements
<1>3. view.scroll \in Nat
  BY DEF ScrollInv, Views
<1>4. VisibleEvents = SubSeq(FilteredEvents, start + 1, end)
  BY DEF VisibleEvents
<1> HIDE DEF n, S
<1>5. end \in 1..n
  BY <1>1, <1>2, <1>3 DEF InView, Greater
<1>6. limit \in Int /\ limit >= 1
  BY TuiAssumption DEF ScrollInv, Sized, VisibleEventLimit, Greater
<1> HIDE DEF end, limit
<1>7. start \in Nat /\ start < end
  BY <1>1, <1>5, <1>6 DEF Greater
<1> HIDE DEF start
<1>8. \A k \in (start + 1)..end : FilteredEvents[k] \in S
  BY <1>1, <1>5, <1>7 DEF S, n
<1> DEFINE rows == SubSeq(FilteredEvents, start + 1, end)
<1>9. Len(rows) = end - (start + 1) + 1
  BY <1>1, <1>5, <1>7, <1>8, SubSeqProperties
<1>10. VisibleEvents = rows
  BY <1>4
<1>11. Len(<<>>) = 0
  OBVIOUS
<1> HIDE DEF rows
<1> QED BY <1>1, <1>5, <1>7, <1>9, <1>10, <1>11

\* Where no frame is drawn for another size, the height is that of the
\* terminal or stays.
LEMMA SizeStep == Sized /\ [Next]_vars => Sized'
<1> SUFFICES ASSUME Sized, [Next]_vars PROVE Sized'
  OBVIOUS
<1>1. terminal' \in Heights
  BY DEF Sized, Next, vars, Write, Handle, Quit, InputEnds, InputFails, Resize,
         ResizeEnds, Return, Close, Terminal
<1>2. height' \in {height, terminal}
  BY DEF Next, vars, frameVars, Write, Draw, Handle, Quit, InputEnds, InputFails,
         Resize, ResizeEnds, Return, Close, Terminal
<1> QED BY <1>1, <1>2 DEF Sized

\* Where the events and the search stay, what matches does.
LEMMA MatchingStays ==
    ASSUME UNCHANGED events, view'.search = view.search
    PROVE  UNCHANGED Matching
  BY DEF Matching, Matches

\* An event that is kept makes what matches fewer only where the one dropped
\* for it matched.
LEMMA KeepMatches ==
    ASSUME EventsKept, NEW event \in Texts, Keep(event), UNCHANGED view
    PROVE  /\ EventsKept' /\ Cardinality(Matching)' \in Nat
           /\ \/ Cardinality(Matching) =< Cardinality(Matching)'
              \/ Len(events) = EventLimit /\ Matches(Head(events))
<1>1. events \in Seq(Texts) /\ Len(events) =< EventLimit /\ EventLimit \in Nat \ {0}
  BY TuiAssumption DEF EventsKept
<1>2. CASE Len(events) < EventLimit
  <2>1. events' = Append(events, event)
    BY <1>2 DEF Keep
  <2>2. /\ events' \in Seq(Texts) /\ Len(events') = Len(events) + 1 /\ Len(events) \in Nat
        /\ \A i \in 1..Len(events) : events'[i] = events[i]
    BY <1>1, <2>1, Appending
  <2>3. EventsKept'
    BY <1>1, <1>2, <2>2 DEF EventsKept
  <2>4. Matching \in SUBSET Matching'
    BY <2>2 DEF Matching, Matches
  <2>5. IsFiniteSet(Matching') /\ Cardinality(Matching)' \in Nat
    <3>1. Matching' \in SUBSET (1..(Len(events) + 1)) /\ Len(events) + 1 \in Nat
      BY <2>2 DEF Matching
    <3> QED BY <3>1, PlacesAreFinite
  <2>6. Cardinality(Matching) =< Cardinality(Matching')
    BY <2>4, <2>5, FS_Subset
  <2> QED BY <2>3, <2>5, <2>6
<1>3. CASE ~(Len(events) < EventLimit)
  <2>1. events' = Append(Tail(events), event)
    BY <1>3 DEF Keep
  <2>2. Len(events) \in Nat /\ Len(events) = EventLimit /\ events # <<>>
    BY <1>1, <1>3
  <2>3. /\ Tail(events) \in Seq(Texts) /\ Len(Tail(events)) = Len(events) - 1
        /\ Head(events) = events[1]
        /\ \A i \in 1..(Len(events) - 1) : Tail(events)[i] = events[i + 1]
    BY <1>1, <2>2, Taking
  <2>4. /\ events' \in Seq(Texts) /\ Len(events') = Len(Tail(events)) + 1
        /\ \A i \in 1..Len(Tail(events)) : events'[i] = Tail(events)[i]
    <3> DEFINE rest == Tail(events)
    <3>1. rest \in Seq(Texts) /\ events' = Append(rest, event)
      BY <2>1, <2>3
    <3> HIDE DEF rest
    <3>2. /\ events' \in Seq(Texts) /\ Len(events') = Len(rest) + 1
          /\ \A i \in 1..Len(rest) : events'[i] = rest[i]
      BY <3>1, Appending
    <3> QED BY <3>2 DEF rest
  <2>5. /\ Len(events') = Len(events)
        /\ \A i \in 1..(Len(events) - 1) : events'[i] = events[i + 1]
    BY <2>2, <2>3, <2>4
  <2>6. EventsKept'
    BY <1>1, <2>2, <2>4, <2>5 DEF EventsKept
  <2>7. IsFiniteSet(Matching') /\ Cardinality(Matching)' \in Nat
    <3>1. Matching' \in SUBSET (1..Len(events))
      BY <2>5 DEF Matching
    <3> QED BY <2>2, <3>1, PlacesAreFinite
  <2>8. CASE ~Matches(Head(events))
    <3> DEFINE moved == [i \in Matching |-> i - 1]
    <3>1. ASSUME NEW i \in Matching
          PROVE  i \in Int /\ i - 1 \in Matching'
      <4>1. i \in 1..Len(events) /\ i # 1 /\ Matches(events[i])
        BY <2>3, <2>8 DEF Matching
      <4>2. i - 1 \in 1..(Len(events) - 1) /\ (i - 1) + 1 = i
        BY <2>2, <4>1
      <4>3. i - 1 \in 1..Len(events') /\ events'[i - 1] = events[i]
        BY <2>2, <2>5, <4>2
      <4> QED BY <4>1, <4>3 DEF Matching, Matches
    <3>2. moved \in [Matching -> Matching']
      BY <3>1
    <3>3. \A a, b \in Matching : moved[a] = moved[b] => a = b
      BY <3>1
    <3> HIDE DEF moved
    <3>4. moved \in Injection(Matching, Matching')
      BY <3>2, <3>3 DEF Injection, IsInjective
    <3>5. Cardinality(Matching) =< Cardinality(Matching')
      BY <2>7, <3>4, FS_Injection
    <3> QED BY <2>6, <2>7, <3>5
  <2> QED BY <2>2, <2>6, <2>7, <2>8
<1> QED BY <1>2, <1>3

\* Where the events and the search stay, so does what is in view of a scroll
\* position; one that is nearer is in view, and so is the newest event.
LEMMA ScrollingStays ==
    ASSUME EventsKept, view \in Views, UNCHANGED events,
           \/ view'.scroll = 0
           \/ /\ view'.search = view.search
              /\ view'.scroll \in Nat
              /\ view'.scroll =< view.scroll \/ InView(view'.scroll)
    PROVE  /\ EventsKept'
           /\ InView(view.scroll) => InView(view.scroll)'
<1>1. EventsKept'
  BY DEF EventsKept
<1>2. Cardinality(Matching) \in Nat
  BY MatchingIsFinite
<1>3. CASE view'.scroll = 0
  BY <1>1, <1>3 DEF InView
<1>4. CASE /\ view'.search = view.search
           /\ view'.scroll \in Nat
           /\ view'.scroll =< view.scroll \/ InView(view'.scroll)
  <2>1. Cardinality(Matching)' = Cardinality(Matching)
    BY <1>4, MatchingStays
  <2> QED BY <1>1, <1>2, <1>4, <2>1 DEF InView, Views
<1> QED BY <1>3, <1>4

\* Keys and lines never scroll out of view.
LEMMA HandleScrolls ==
    ASSUME EventsKept, view \in Views, Handle
    PROVE  /\ view' \in Views
           /\ \/ view'.scroll = 0
              \/ /\ view'.search = view.search
                 /\ view'.scroll \in Nat
                 /\ view'.scroll =< view.scroll \/ InView(view'.scroll)
<1>1. Cardinality(Matching) \in Nat /\ Len(FilteredEvents) = Cardinality(Matching)
  BY MatchingIsFinite, FilteredLength
<1>2. NoSearch \in Searches /\ Sorts \in 1..4
  BY TuiAssumption
<1>3. view.scroll \in Nat /\ view.sort \in 0..Sorts - 1
  BY DEF Views
<1>4. (view.sort + 1) % Sorts \in 0..Sorts - 1
  BY <1>2, <1>3
<1> DEFINE Fine(v) == /\ v \in Views
                      /\ \/ v.scroll = 0
                         \/ /\ v.search = view.search
                            /\ v.scroll =< view.scroll \/ InView(v.scroll)
<1>5. Fine(view)
  BY <1>3
<1>6. ASSUME NEW v \in Views, v.scroll = view.scroll, v.search = view.search
       PROVE  Fine(v)
  BY <1>3, <1>6
<1>7. Fine(MoveOlder)
  <2>1. CASE view.scroll < Len(FilteredEvents) - 1
    <3>1. MoveOlder = [view EXCEPT !.scroll = @ + 1]
      BY <2>1 DEF MoveOlder
    <3>2. view.scroll + 1 < Cardinality(Matching)
      BY <1>1, <1>3, <2>1
    <3> QED BY <1>3, <3>1, <3>2 DEF Views, InView
  <2>2. CASE ~(view.scroll < Len(FilteredEvents) - 1)
    BY <1>5, <2>2 DEF MoveOlder
  <2> QED BY <2>1, <2>2
<1>8. Fine(MoveNewer)
  BY <1>3 DEF Views, MoveNewer
<1>9. \A v \in Commands : Fine(v)
  <2>1. /\ Fine([view EXCEPT !.paused = ~@])
        /\ Fine([view EXCEPT !.detail = ~@])
    <3>1. (~view.paused) \in BOOLEAN /\ (~view.detail) \in BOOLEAN
      OBVIOUS
    <3>2. /\ \A b \in BOOLEAN : Fine([view EXCEPT !.paused = b])
          /\ \A b \in BOOLEAN : Fine([view EXCEPT !.detail = b])
      BY <1>6 DEF Views
    <3> HIDE DEF Fine
    <3> QED BY <3>1, <3>2
  <2>2. Fine([view EXCEPT !.search = NoSearch, !.draft = NoSearch, !.scroll = 0])
    BY <1>2 DEF Views
  <2>3. Fine([view EXCEPT !.sort = (@ + 1) % Sorts, !.scroll = 0])
    BY <1>4 DEF Views
  <2> HIDE DEF Fine
  <2> QED BY <1>5, <1>7, <1>8, <2>1, <2>2, <2>3 DEF Commands
<1>10. \A v \in Lines : Fine(v)
  <2>1. \A search \in Searches : Fine([view EXCEPT !.search = search, !.scroll = 0])
    BY DEF Views
  <2> HIDE DEF Fine
  <2> QED BY <1>9, <2>1 DEF Lines
<1>11. \A v \in Keys : Fine(v)
  <2>1. \A draft \in Searches : Fine([view EXCEPT !.draft = draft])
    BY <1>3 DEF Views
  <2>2. Fine([view EXCEPT !.search = view.draft, !.searching = FALSE, !.scroll = 0])
    BY DEF Views
  <2>3. Fine([view EXCEPT !.draft = view.search, !.searching = FALSE])
    BY <1>6 DEF Views
  <2>4. Fine([view EXCEPT !.searching = TRUE, !.draft = view.search])
    BY <1>6 DEF Views
  <2> HIDE DEF Fine
  <2> QED BY <1>9, <2>1, <2>2, <2>3, <2>4 DEF Keys, SearchKeys
<1>12. view' \in Keys \/ view' \in Lines
  BY DEF Handle
<1>13. Fine(view')
  <2> HIDE DEF Fine
  <2> QED BY <1>10, <1>11, <1>12
<1> QED BY <1>13 DEF Views

LEMMA ScrollInit == Init => ScrollInv
<1> SUFFICES ASSUME Init PROVE ScrollInv
  OBVIOUS
<1>1. events = <<>> /\ Len(<<>>) = 0 /\ <<>> \in Seq(Texts)
  BY DEF Init
<1>2. EventsKept
  BY <1>1, TuiAssumption DEF EventsKept
<1>3. view \in Views /\ view.scroll = 0
  BY TuiAssumption DEF Init, Views
<1> QED BY <1>2, <1>3 DEF Init, ScrollInv, Sized, InView

LEMMA ScrollStep == ScrollInv /\ [Next]_vars => ScrollInv'
<1> SUFFICES ASSUME ScrollInv, [Next]_vars PROVE ScrollInv'
  OBVIOUS
<1>1. Sized'
  BY SizeStep DEF ScrollInv
<1>2. EventsKept /\ view \in Views /\ (trimmed \/ InView(view.scroll))
  BY DEF ScrollInv
<1>3. ASSUME NEW event \in Texts, Write(event)
      PROVE  ScrollInv'
  <2>1. Keep(event) /\ UNCHANGED view
    BY <1>3 DEF Write
  <2>2. /\ EventsKept' /\ Cardinality(Matching)' \in Nat
        /\ \/ Cardinality(Matching) =< Cardinality(Matching)'
           \/ Len(events) = EventLimit /\ Matches(Head(events))
    BY <1>2, <2>1, KeepMatches
  <2>3. CASE trimmed'
    BY <1>1, <1>2, <2>1, <2>2, <2>3 DEF ScrollInv
  <2>4. CASE ~trimmed'
    <3>1. ~trimmed /\ ~(view.scroll > 0 /\ Len(events) = EventLimit /\ Matches(Head(events)))
      BY <2>1, <2>4 DEF Keep
    <3>2. view.scroll \in Nat /\ Cardinality(Matching) \in Nat
      BY <1>2, MatchingIsFinite DEF Views
    <3>3. CASE view.scroll = 0
      BY <1>1, <1>2, <2>1, <2>2, <3>3 DEF ScrollInv, InView
    <3>4. CASE view.scroll # 0
      <4>1. Cardinality(Matching) =< Cardinality(Matching)' /\ view.scroll < Cardinality(Matching)
        BY <1>2, <2>2, <3>1, <3>2, <3>4 DEF InView
      <4>2. Cardinality(Matching)' \in Nat
        BY <2>2
      <4>3. view'.scroll < Cardinality(Matching)'
        BY <2>1, <3>2, <4>1, <4>2
      <4> QED BY <1>1, <1>2, <2>1, <2>2, <4>3 DEF ScrollInv, InView
    <3> QED BY <3>3, <3>4
  <2> QED BY <2>3, <2>4
<1>4. CASE Handle
  <2>1. UNCHANGED events /\ trimmed' = (trimmed /\ view'.scroll > 0)
    BY <1>4 DEF Handle
  <2>2. /\ view' \in Views
        /\ \/ view'.scroll = 0
           \/ /\ view'.search = view.search
              /\ view'.scroll \in Nat
              /\ view'.scroll =< view.scroll \/ InView(view'.scroll)
    BY <1>2, <1>4, HandleScrolls
  <2>3. EventsKept' /\ (InView(view.scroll) => InView(view.scroll)')
    BY <1>2, <2>1, <2>2, ScrollingStays
  <2>4. view'.scroll > 0 \/ InView(view.scroll)'
    BY <2>2 DEF Views, InView
  <2> QED BY <1>1, <1>2, <2>1, <2>2, <2>3, <2>4 DEF ScrollInv
<1>5. CASE UNCHANGED <<events, view, trimmed>>
  <2>1. EventsKept' /\ (InView(view.scroll) => InView(view.scroll)')
    BY <1>2, <1>5, ScrollingStays DEF Views
  <2> QED BY <1>1, <1>2, <1>5, <2>1 DEF ScrollInv
<1>6. \/ \E event \in Texts : Write(event)
      \/ Handle
      \/ UNCHANGED <<events, view, trimmed>>
  BY DEF Next, vars, Quit, InputEnds, InputFails, Resize, ResizeEnds, Return, Close, Terminal
<1> QED BY <1>3, <1>4, <1>5, <1>6

Flags == {reading, resizing, entered, closed, running, stopped, alternate, current,
          raw, broken, trimmed, lateError} \subseteq BOOLEAN

LEMMA FlagsStep == Flags /\ [Next]_vars => Flags'
<1> SUFFICES ASSUME Flags, [Next]_vars PROVE Flags'
  OBVIOUS
<1> USE DEF frameVars
<1>1. ASSUME Draw
      PROVE  {entered', alternate', current'} \subseteq BOOLEAN
  BY <1>1 DEF Draw, Undrawn, Flags
<1>2. ASSUME Undrawn
      PROVE  current' \in BOOLEAN
  BY <1>2 DEF Undrawn
<1>3. CASE UNCHANGED vars
  BY <1>3 DEF vars, Flags
<1>4. ASSUME NEW event \in Texts, Write(event) PROVE Flags'
  <2>1. trimmed' \in BOOLEAN
    BY <1>4 DEF Write, Keep
  <2>2. UNCHANGED <<reading, resizing, closed, stopped, raw, broken, lateError>>
    BY <1>4 DEF Write
  <2>3. {entered', alternate', current', running'} \subseteq BOOLEAN
    BY <1>1, <1>2, <1>4 DEF Write, Flags
  <2> QED BY <2>1, <2>2, <2>3 DEF Flags
<1>5. CASE Handle
  <2>1. trimmed' \in BOOLEAN
    BY <1>5 DEF Handle
  <2>2. /\ UNCHANGED <<reading, resizing, closed, running, stopped, raw, broken, lateError>>
        /\ Draw
    BY <1>5 DEF Handle
  <2> QED BY <1>1, <2>1, <2>2 DEF Flags
<1>6. CASE Quit \/ InputEnds \/ ResizeEnds \/ Return \/ Terminal
  BY <1>6 DEF Quit, InputEnds, ResizeEnds, Return, Terminal, Flags
<1>7. CASE InputFails
  <2>1. reading' \in BOOLEAN /\ lateError' \in BOOLEAN
    BY <1>7 DEF InputFails
  <2>2. UNCHANGED <<resizing, closed, running, stopped, raw, broken, trimmed>>
    BY <1>7 DEF InputFails
  <2>3. {entered', alternate', current'} \subseteq BOOLEAN
    BY <1>1, <1>7 DEF InputFails, Flags
  <2> QED BY <2>1, <2>2, <2>3 DEF Flags
<1>8. CASE Resize
  BY <1>1, <1>2, <1>8 DEF Resize, Flags
<1>9. CASE Close
  BY <1>9 DEF Close, Flags
<1> QED BY <1>3, <1>4, <1>5, <1>6, <1>7, <1>8, <1>9 DEF Next

\* The display's state is well typed: at most tuiEventLimit events are kept.
THEOREM DisplayTyping == Spec => []TypeOK
<1>1. Init => Flags /\ input \in {"keys", "lines", "none"}
  BY DEF Init, Flags, Interactive
<1>2. input \in {"keys", "lines", "none"} /\ [Next]_vars => (input \in {"keys", "lines", "none"})'
  BY DEF Next, vars, Write, Handle, Quit, InputEnds, InputFails, Resize, ResizeEnds,
         Return, Close, Terminal
<1>3. ScrollInv /\ Flags /\ input \in {"keys", "lines", "none"} => TypeOK
  BY DEF ScrollInv, EventsKept, Sized, Views, Flags, TypeOK
<1> QED BY <1>1, <1>2, <1>3, ScrollInit, ScrollStep, FlagsStep, PTL DEF Spec

\* The view goes blank only where a matching event was dropped after a scroll:
\* moveOlder stops at the oldest event, and whatever changes what matches or
\* its order (search, clear, sort) goes back to the newest one.
THEOREM BlankWhenTrimmed == Spec => []BlankOnlyAfterTrim
<1>1. ScrollInv => BlankOnlyAfterTrim
  BY InViewIsVisible DEF ScrollInv, BlankOnlyAfterTrim
<1>2. Spec => []ScrollInv
  BY ScrollInit, ScrollStep, PTL DEF Spec
<1> QED BY <1>1, <1>2, PTL

-----------------------------------------------------------------------------
\* The user names.

UidInv == UidTypeOK /\ RequestedOnce

LEMMA UidInvInit == UidInit => UidInv
<1> SUFFICES ASSUME UidInit PROVE UidInv
  OBVIOUS
<1>1. requests \in Seq(Uids) /\ Len(requests) = 0
  BY DEF UidInit
<1>2. UidTypeOK
  BY <1>1, UidAssumption DEF UidInit, UidTypeOK
<1>3. {requests[i] : i \in 1..Len(requests)} = {}
  BY <1>1
<1>4. RequestedOnce
  BY <1>1, <1>3 DEF UidInit, RequestedOnce
<1> QED BY <1>2, <1>4 DEF UidInv

\* A request that finds its place keeps the queue free of copies.
LEMMA QueueStep ==
    ASSUME UidInv, NEW caller \in Callers, Queue(caller)
    PROVE  UidInv'
<1> DEFINE uid == asking[caller]
<1> USE DEF UidInv
<1>1. uid \in Uids
  BY DEF Queue, UidTypeOK
<1>2. asking' \in [Callers -> Uids \cup {NoUid}] /\ UNCHANGED <<names, lookingUp>>
  BY DEF Queue, UidTypeOK
<1>3. CASE uid \notin pending /\ Len(requests) < QueueCapacity
  <2>1. requests' = Append(requests, uid) /\ pending' = pending \cup {uid}
    BY <1>3 DEF Queue, Request
  <2>2. /\ requests' \in Seq(Uids) /\ Len(requests') = Len(requests) + 1
        /\ Len(requests) \in Nat
        /\ \A i \in 1..Len(requests) : requests'[i] = requests[i]
        /\ requests'[Len(requests) + 1] = uid
    BY <1>1, <2>1, Appending DEF UidTypeOK
  <2>3. UidTypeOK'
    BY <1>1, <1>2, <1>3, <2>1, <2>2, UidAssumption DEF UidTypeOK
  <2>4. /\ \A i \in 1..Len(requests) : requests[i] # uid
        /\ lookingUp # uid
    BY <1>1, <1>3, UidAssumption DEF RequestedOnce
  <2>5. 1..Len(requests') = 1..Len(requests) \cup {Len(requests) + 1}
    BY <2>2
  <2>6. \A i, j \in 1..Len(requests') : requests'[i] = requests'[j] => i = j
    BY <2>2, <2>4, <2>5 DEF RequestedOnce
  <2>7. \A i \in 1..Len(requests') : requests'[i] # lookingUp'
    BY <1>2, <2>2, <2>4, <2>5 DEF RequestedOnce
  <2>8. {requests'[i] : i \in 1..Len(requests')}
            = {requests[i] : i \in 1..Len(requests)} \cup {uid}
    BY <2>2, <2>5
  <2>9. RequestedOnce'
    BY <1>2, <2>1, <2>6, <2>7, <2>8 DEF RequestedOnce
  <2> QED BY <2>3, <2>9
<1>4. CASE ~(uid \notin pending /\ Len(requests) < QueueCapacity)
  <2>1. UNCHANGED <<requests, pending>>
    BY <1>4 DEF Queue, Request
  <2> QED BY <1>2, <2>1 DEF UidTypeOK, RequestedOnce
<1> QED BY <1>3, <1>4

\* The uid that is taken stays pending while it is looked up.
LEMMA TakeStep ==
    ASSUME UidInv, Take
    PROVE  UidInv'
<1> USE DEF UidInv
<1>1. /\ requests \in Seq(Uids) /\ requests # <<>>
      /\ lookingUp = NoUid /\ lookingUp' = Head(requests)
      /\ requests' = Tail(requests)
      /\ UNCHANGED <<names, pending, asking>>
  BY DEF Take, UidTypeOK
<1>2. /\ requests' \in Seq(Uids) /\ Head(requests) \in Uids
      /\ lookingUp' = requests[1]
      /\ Len(requests) \in Nat \ {0} /\ Len(requests') = Len(requests) - 1
      /\ \A i \in 1..(Len(requests) - 1) : requests'[i] = requests[i + 1]
  BY <1>1, Taking
<1>3. UidTypeOK'
  BY <1>1, <1>2, UidAssumption DEF UidTypeOK
<1>4. \A i, j \in 1..Len(requests') : requests'[i] = requests'[j] => i = j
  BY <1>2 DEF RequestedOnce
<1>5. \A i \in 1..Len(requests') : requests'[i] # lookingUp'
  BY <1>2 DEF RequestedOnce
<1>6. {requests[i] : i \in 1..Len(requests)}
          = {requests'[i] : i \in 1..Len(requests')} \cup {lookingUp'}
  <2>1. ASSUME NEW i \in 1..Len(requests)
        PROVE  i = 1 \/ (i - 1 \in 1..Len(requests') /\ requests'[i - 1] = requests[i])
    BY <1>2
  <2>2. ASSUME NEW i \in 1..Len(requests')
        PROVE  i + 1 \in 1..Len(requests) /\ requests'[i] = requests[i + 1]
    BY <1>2
  <2> QED BY <1>2, <2>1, <2>2
<1>7. lookingUp' # NoUid
  BY <1>1, <1>2, UidAssumption
<1>8. pending' = {requests'[i] : i \in 1..Len(requests')} \cup ({lookingUp'} \ {NoUid})
  BY <1>1, <1>6, <1>7 DEF RequestedOnce
<1> QED BY <1>3, <1>4, <1>5, <1>8 DEF RequestedOnce

LEMMA ResolveStep ==
    ASSUME UidInv, Resolve
    PROVE  UidInv'
<1> USE DEF UidInv
<1>1. /\ lookingUp \in Uids
      /\ names' = names \cup {lookingUp} /\ pending' = pending \ {lookingUp}
      /\ lookingUp' = NoUid
      /\ UNCHANGED <<requests, asking>>
  BY DEF Resolve, UidTypeOK
<1>2. UidTypeOK'
  BY <1>1 DEF UidTypeOK
<1>3. \A i \in 1..Len(requests) : requests[i] \in Uids
  BY DEF UidTypeOK
<1>4. RequestedOnce'
  BY <1>1, <1>3, UidAssumption DEF RequestedOnce
<1> QED BY <1>2, <1>4

LEMMA UidInvStep == UidInv /\ [UidNext]_uidVars => UidInv'
<1> SUFFICES ASSUME UidInv, [UidNext]_uidVars PROVE UidInv'
  OBVIOUS
<1>1. CASE UNCHANGED uidVars
  BY <1>1 DEF uidVars, UidInv, UidTypeOK, RequestedOnce
<1>2. ASSUME NEW caller \in Callers, Queue(caller) PROVE UidInv'
  BY <1>2, QueueStep
<1>3. ASSUME NEW caller \in Callers, NEW uid \in Uids, Ask(caller, uid) PROVE UidInv'
  BY <1>3 DEF Ask, UidInv, UidTypeOK, RequestedOnce
<1>4. CASE Take
  BY <1>4, TakeStep
<1>5. CASE Resolve
  BY <1>5, ResolveStep
<1> QED BY <1>1, <1>2, <1>3, <1>4, <1>5 DEF UidNext

\* A uid is never in the queue twice, nor while it is looked up, and pending
\* says exactly which uids are on their way (uidNameResolver.queue and
\* resolveRequests).
THEOREM OnceAtATime == UidSpec => [](UidTypeOK /\ RequestedOnce)
<1>1. UidSpec => []UidInv
  BY UidInvInit, UidInvStep, PTL DEF UidSpec
<1>2. UidInv => UidTypeOK /\ RequestedOnce
  BY DEF UidInv
<1> QED BY <1>1, <1>2, PTL
=============================================================================
