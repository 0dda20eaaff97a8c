---------------------------- MODULE WatchRunProofs ----------------------------
(***************************************************************************)
(* What the run loop of WatchRun keeps to, for every capacity of the event *)
(* channel and any number of events: one source watches at a time, its     *)
(* error always finds a place, the switch to polling is told of once and   *)
(* before the first polled event, and no event is lost or written twice    *)
(* while the run goes on.                                                  *)
(***************************************************************************)
EXTENDS WatchRun, Queues, TLAPS

-----------------------------------------------------------------------------
\* The inductive invariant.

\* Before the loop nothing has happened yet.
NothingYet ==
    stage \in {"select", "open"} =>
        /\ events = <<>> /\ errors = <<>> /\ written = <<>>
        /\ result = "none"
        /\ \A b \in Backends : watcher[b] = "none" /\ sent[b] = 0

\* A watcher that has returned has returned something.
VerdictGiven ==
    \A b \in Backends : watcher[b] \in {"leaving", "done"} => verdict[b] # "none"

BackendChosen == stage \in {"open", "loop"} => backend \in Backends

\* Only the backend in use watches, and polling watches only as that.
OnlyBackendActive ==
    /\ \A b \in Backends : Active(b) => b = backend
    /\ watcher["poll"] # "none" => backend = "poll"

\* An error in the channel is the only one, and its sender is done.
ErrorIsLast ==
    errors # <<>> =>
        /\ Len(errors) = 1
        /\ \A b \in Backends : ~Active(b)

\* Who watches, and what may be in the error channel.
Control ==
    /\ VerdictGiven
    /\ NothingYet
    /\ BackendChosen
    /\ OnlyBackendActive
    /\ ErrorIsLast

\* Only a backend that was started has sent events.
OnlyStartedSend ==
    \A b \in Backends :
        watcher[b] = "none" =>
            /\ sent[b] = 0
            /\ \A i \in 1..Len(events) : events[i].source # b
            /\ \A i \in 1..Len(written) : written[i].source # b

\* A gap line is written only when polling takes over, and where it follows
\* a native source it is there before the first polled line.
GapMeansPolling ==
    \A i \in 1..Len(written) : written[i] = GapLine => backend = "poll"

BothStarted == watcher["native"] # "none" /\ watcher["poll"] # "none"

GapWhenBoth == BothStarted => \E i \in 1..Len(written) : written[i] = GapLine

GapFirst ==
    \A i \in 1..Len(written) :
        written[i].source = "poll" /\ watcher["native"] # "none" =>
            \E j \in 1..i : written[j] = GapLine

SwitchedOnce ==
    \A i, j \in 1..Len(written) :
        written[i] = GapLine /\ written[j] = GapLine => i = j

Telling ==
    /\ OnlyStartedSend
    /\ GapMeansPolling
    /\ GapWhenBoth
    /\ GapFirst
    /\ SwitchedOnce

-----------------------------------------------------------------------------
LEMMA LineFacts ==
    /\ GapLine \in Lines
    /\ Events \subseteq Lines
  BY DEF Lines

LEMMA GapFacts ==
    /\ GapLine.source = "gap"
    /\ \A e \in Events : e # GapLine /\ e.source \in Backends
  BY DEF Lines, Events, GapLine, Event, Backends

-----------------------------------------------------------------------------
\* Type correctness.

LEMMA TypeInit == Init => TypeOK
<1> SUFFICES ASSUME Init PROVE TypeOK
  OBVIOUS
<1>1. events \in Seq(Events) /\ written \in Seq(Lines)
  BY DEF Init
<1>2. errors \in Seq({"cancelled", "failed"})
  BY DEF Init
<1>3. /\ watcher \in [Backends -> {"none", "watching", "leaving", "done"}]
      /\ verdict \in [Backends -> {"none", "cancelled", "failed"}]
      /\ sent \in [Backends -> Nat]
  BY DEF Init
<1> QED BY <1>1, <1>2, <1>3 DEF Init, TypeOK

\* A verdict is taken from the channel and nothing else is done to it.
LEMMA VerdictTaken ==
    ASSUME errors \in Seq({"cancelled", "failed"}), errors # <<>>, errors' = Tail(errors)
    PROVE  errors' \in Seq({"cancelled", "failed"})
  BY Taking

\* The log is cleared, or grows by a line.
Growth ==
    \/ written' = written
    \/ written' = <<>>
    \/ \E line \in Lines : written' = Append(written, line) \/ written' = <<line>>

LEMMA WrittenGrows ==
    ASSUME written \in Seq(Lines), Growth
    PROVE  written' \in Seq(Lines)
<1>1. CASE written' = written
  BY <1>1
<1>2. CASE written' = <<>>
  BY <1>2
<1>3. ASSUME NEW line \in Lines, written' = Append(written, line)
      PROVE  written' \in Seq(Lines)
  BY <1>3, Appending
<1>4. ASSUME NEW line \in Lines, written' = <<line>>
      PROVE  written' \in Seq(Lines)
  BY <1>4
<1> QED BY <1>1, <1>2, <1>3, <1>4 DEF Growth

LEMMA TypeStep == TypeOK /\ VerdictGiven /\ [Next]_vars => TypeOK'
<1> SUFFICES ASSUME TypeOK, VerdictGiven, [Next]_vars PROVE TypeOK'
  OBVIOUS
<1> USE DEF TypeOK, channelVars, watcherVars, runVars
<1>1. CASE UNCHANGED vars
  BY <1>1 DEF vars
<1>2. CASE SelectBackend
  BY <1>2 DEF SelectBackend
<1>3. CASE OpenLog
  <2>1. written' \in Seq(Lines)
    <3>1. written' = written \/ written' = <<>> \/ written' = <<GapLine>>
      BY <1>3 DEF OpenLog
    <3> QED BY <3>1, LineFacts, WrittenGrows DEF Growth
  <2> QED BY <1>3, <2>1 DEF OpenLog
<1>4. CASE SeeCancelled
  BY <1>4 DEF SeeCancelled, Leave
<1>5. CASE WriteEvent
  <2>1. events' \in Seq(Events) /\ Head(events) \in Events
    BY <1>5, Taking DEF WriteEvent
  <2>2. written' \in Seq(Lines)
    <3>1. written' = written \/ written' = Append(written, Head(events))
      BY <1>5 DEF WriteEvent
    <3>2. Head(events) \in Lines
      BY <2>1, LineFacts
    <3> QED BY <3>1, <3>2, WrittenGrows DEF Growth
  <2> QED BY <1>5, <2>1, <2>2 DEF WriteEvent, Leave
<1>6. CASE SeeBackendCancelled
  <2>1. errors' \in Seq({"cancelled", "failed"})
    BY <1>6, VerdictTaken DEF SeeBackendCancelled
  <2> QED BY <1>6, <2>1 DEF SeeBackendCancelled, Leave
<1>7. CASE FallBack
  <2>1. errors' \in Seq({"cancelled", "failed"})
    BY <1>7, VerdictTaken DEF FallBack, BackendFailed
  <2>2. written' \in Seq(Lines)
    <3>1. written' = written \/ written' = Append(written, GapLine)
      BY <1>7 DEF FallBack
    <3> QED BY <3>1, LineFacts, WrittenGrows DEF Growth
  <2> QED BY <1>7, <2>1, <2>2 DEF FallBack, Leave, Backends
<1>8. CASE GiveUp
  <2>1. errors' \in Seq({"cancelled", "failed"})
    BY <1>8, VerdictTaken DEF GiveUp, BackendFailed
  <2> QED BY <1>8, <2>1 DEF GiveUp, Leave
<1>9. CASE CloseTUI
  BY <1>9 DEF CloseTUI
<1>10. CASE StopRun
  BY <1>10 DEF StopRun
<1>11. CASE Cancel
  BY <1>11 DEF Cancel
<1>12. ASSUME NEW b \in Backends, SendEvent(b) PROVE TypeOK'
  <2>1. Event(b, sent[b] + 1) \in Events
    BY DEF Event, Events
  <2>2. events' \in Seq(Events)
    BY <1>12, <2>1, Appending DEF SendEvent
  <2> QED BY <1>12, <2>2 DEF SendEvent
<1>13. ASSUME NEW b \in Backends, EndWatch(b) PROVE TypeOK'
  BY <1>13 DEF EndWatch
<1>14. ASSUME NEW b \in Backends, Deliver(b) PROVE TypeOK'
  <2>1. verdict[b] \in {"cancelled", "failed"}
    BY <1>14 DEF Deliver, VerdictGiven
  <2>2. errors' \in Seq({"cancelled", "failed"})
    BY <1>14, <2>1, Appending DEF Deliver
  <2> QED BY <1>14, <2>2 DEF Deliver
<1> QED BY <1>1, <1>2, <1>3, <1>4, <1>5, <1>6, <1>7, <1>8, <1>9, <1>10, <1>11,
           <1>12, <1>13, <1>14 DEF Next, Run, Watcher
-----------------------------------------------------------------------------
\* The control invariants.

LEMMA ControlInit == Init => Control
  BY DEF Init, Control, VerdictGiven, NothingYet, BackendChosen,
         OnlyBackendActive, ErrorIsLast, Active, Backends

LEMMA Room ==
    ASSUME NEW S, NEW s \in Seq(S), Len(s) < 1
    PROVE  s = <<>>
  OBVIOUS

LEMMA OneErrorTaken ==
    ASSUME TypeOK, Control, errors # <<>>, errors' = Tail(errors)
    PROVE  errors' = <<>>
  BY DEF TypeOK, Control, ErrorIsLast

LEMMA ControlStep == TypeOK /\ Control /\ [Next]_vars => Control'
<1> SUFFICES ASSUME TypeOK, Control, [Next]_vars PROVE Control'
  OBVIOUS
<1> USE DEF Control, VerdictGiven, NothingYet, BackendChosen, OnlyBackendActive,
            ErrorIsLast, Active, channelVars, watcherVars, runVars
<1>0. /\ watcher \in [Backends -> {"none", "watching", "leaving", "done"}]
      /\ verdict \in [Backends -> {"none", "cancelled", "failed"}]
      /\ Backends = {"native", "poll"}
  BY DEF TypeOK, Backends
<1>1. CASE UNCHANGED vars
  BY <1>1 DEF vars
<1>2. CASE SelectBackend
  BY <1>0, <1>2 DEF SelectBackend
<1>3. CASE OpenLog
  BY <1>0, <1>3 DEF OpenLog
<1>4. CASE SeeCancelled
  BY <1>4 DEF SeeCancelled, Leave
<1>5. CASE WriteEvent
  BY <1>5 DEF WriteEvent, Leave
<1>6. CASE SeeBackendCancelled
  <2>1. errors' = <<>>
    BY <1>6, OneErrorTaken DEF SeeBackendCancelled
  <2> QED BY <1>6, <2>1 DEF SeeBackendCancelled, Leave
<1>7. CASE FallBack
  <2>1. errors' = <<>> /\ \A b \in Backends : ~Active(b)
    BY <1>7, OneErrorTaken DEF FallBack, BackendFailed
  <2> QED BY <1>0, <1>7, <2>1 DEF FallBack, BackendFailed, Leave
<1>8. CASE GiveUp
  <2>1. errors' = <<>>
    BY <1>8, OneErrorTaken DEF GiveUp, BackendFailed
  <2> QED BY <1>8, <2>1 DEF GiveUp, Leave
<1>9. CASE CloseTUI
  BY <1>9 DEF CloseTUI
<1>10. CASE StopRun
  BY <1>10 DEF StopRun
<1>11. CASE Cancel
  BY <1>11 DEF Cancel
<1>12. ASSUME NEW b \in Backends, SendEvent(b) PROVE Control'
  BY <1>0, <1>12 DEF SendEvent
<1>13. ASSUME NEW b \in Backends, EndWatch(b) PROVE Control'
  BY <1>0, <1>13 DEF EndWatch
<1>14. ASSUME NEW b \in Backends, Deliver(b) PROVE Control'
  <2>1. errors = <<>>
    BY <1>14, Room DEF Deliver, TypeOK
  <2>2. errors' = <<verdict[b]>>
    BY <1>14, <2>1 DEF Deliver
  <2> QED BY <1>0, <1>14, <2>2 DEF Deliver
<1> QED BY <1>1, <1>2, <1>3, <1>4, <1>5, <1>6, <1>7, <1>8, <1>9, <1>10, <1>11,
           <1>12, <1>13, <1>14 DEF Next, Run, Watcher
-----------------------------------------------------------------------------
\* What the log tells of the switch.

LEMMA TellingInit == Init => Telling
<1> SUFFICES ASSUME Init PROVE Telling
  OBVIOUS
<1>1. Len(events) = 0 /\ Len(written) = 0
  BY DEF Init
<1>2. \A b \in Backends : watcher[b] = "none" /\ sent[b] = 0
  BY DEF Init
<1> QED BY <1>1, <1>2 DEF Telling, OnlyStartedSend, GapMeansPolling, GapWhenBoth,
                    BothStarted, GapFirst, SwitchedOnce, Backends

\* A step that writes nothing, sends nothing and starts nobody.
LEMMA TellingKept ==
    ASSUME Telling, UNCHANGED <<events, written, sent, backend>>,
           \A b \in Backends : watcher'[b] = "none" <=> watcher[b] = "none"
    PROVE  Telling'
  BY DEF Telling, OnlyStartedSend, GapMeansPolling, GapWhenBoth, BothStarted,
         GapFirst, SwitchedOnce, Backends

LEMMA TellingWrite == TypeOK /\ Telling /\ WriteEvent => Telling'
<1> SUFFICES ASSUME TypeOK, Telling, WriteEvent PROVE Telling'
  OBVIOUS
<1> DEFINE e == Head(events)
<1> DEFINE n == Len(written)
<1>1. /\ e \in Events /\ e = events[1] /\ Len(events) \in Nat \ {0}
      /\ Len(events') = Len(events) - 1
      /\ \A i \in 1..(Len(events) - 1) : events'[i] = events[i + 1]
  BY Taking DEF WriteEvent, TypeOK
<1>2. e # GapLine /\ e.source \in Backends /\ e \in Lines
  BY <1>1, GapFacts, LineFacts
<1>3. UNCHANGED <<sent, backend, watcher>>
  BY DEF WriteEvent, watcherVars
<1> HIDE DEF e
<1>4. CASE written' = written
  <2>1. OnlyStartedSend'
    BY <1>1, <1>3, <1>4 DEF Telling, OnlyStartedSend
  <2>2. GapMeansPolling' /\ GapWhenBoth' /\ GapFirst' /\ SwitchedOnce'
    BY <1>3, <1>4 DEF Telling, GapMeansPolling, GapWhenBoth, BothStarted, GapFirst,
                      SwitchedOnce
  <2> QED BY <2>1, <2>2 DEF Telling
<1>5. CASE written' = Append(written, e)
  <2>1. /\ n \in Nat /\ Len(written') = n + 1
        /\ \A i \in 1..n : written'[i] = written[i]
        /\ written'[n + 1] = e
    BY <1>2, <1>5, Appending DEF TypeOK
  <2> HIDE DEF n
  <2>2. OnlyStartedSend'
    BY <1>1, <1>3, <2>1 DEF Telling, OnlyStartedSend, n
  <2>3. GapMeansPolling'
    BY <1>2, <1>3, <2>1 DEF Telling, GapMeansPolling, n
  <2>4. GapWhenBoth'
    BY <1>3, <2>1 DEF Telling, GapWhenBoth, BothStarted, n
  <2>5. GapFirst'
    <3> SUFFICES ASSUME NEW i \in (1..Len(written))', (written[i].source)' = "poll",
                        (watcher["native"])' # "none"
                 PROVE  \E j \in 1..i : written'[j] = GapLine
      BY DEF GapFirst
    <3>1. CASE i \in 1..n
      BY <1>3, <2>1, <3>1 DEF Telling, GapFirst, n
    <3>2. CASE i = n + 1
      <4>1. watcher["poll"] # "none"
        BY <1>1, <2>1, <3>2 DEF Telling, OnlyStartedSend, Backends
      <4> QED BY <1>3, <2>1, <3>2, <4>1 DEF Telling, GapWhenBoth, BothStarted, n
    <3> QED BY <2>1, <3>1, <3>2
  <2>6. SwitchedOnce'
    BY <1>2, <2>1 DEF Telling, SwitchedOnce, n
  <2> QED BY <2>2, <2>3, <2>4, <2>5, <2>6 DEF Telling
<1> QED BY <1>4, <1>5 DEF WriteEvent, e

LEMMA TellingFallBack == TypeOK /\ Control /\ Telling /\ FallBack => Telling'
<1> SUFFICES ASSUME TypeOK, Control, Telling, FallBack PROVE Telling'
  OBVIOUS
<1> DEFINE n == Len(written)
<1>1. /\ backend = "native" /\ UNCHANGED <<events, sent>>
      /\ watcher["poll"] = "none"
      /\ watcher \in [Backends -> {"none", "watching", "leaving", "done"}]
      /\ Backends = {"native", "poll"}
  BY DEF FallBack, BackendFailed, Control, BackendChosen, OnlyBackendActive, TypeOK, Backends
<1>2. CASE UNCHANGED <<written, backend, watcher>>
  BY <1>1, <1>2, TellingKept
<1>3. CASE /\ written' = Append(written, GapLine)
           /\ backend' = "poll"
           /\ watcher' = [watcher EXCEPT !["poll"] = "watching"]
  <2>1. /\ n \in Nat /\ Len(written') = n + 1
        /\ \A i \in 1..n : written'[i] = written[i]
        /\ written'[n + 1] = GapLine
    BY <1>3, LineFacts, Appending DEF TypeOK
  <2> HIDE DEF n
  <2>2. \A i \in 1..n : written[i] # GapLine /\ written[i].source # "poll"
    BY <1>1 DEF Telling, GapMeansPolling, OnlyStartedSend, n
  <2>3. OnlyStartedSend'
    BY <1>1, <1>3, <2>1, GapFacts DEF Telling, OnlyStartedSend, n
  <2>4. GapMeansPolling' /\ GapWhenBoth'
    BY <1>3, <2>1 DEF GapMeansPolling, GapWhenBoth, BothStarted
  <2>5. GapFirst'
    BY <2>1, <2>2, GapFacts DEF GapFirst
  <2>6. SwitchedOnce'
    BY <2>1, <2>2 DEF SwitchedOnce
  <2> QED BY <2>3, <2>4, <2>5, <2>6 DEF Telling
<1> QED BY <1>2, <1>3 DEF FallBack

LEMMA TellingOpen == TypeOK /\ Control /\ Telling /\ OpenLog => Telling'
<1> SUFFICES ASSUME TypeOK, Control, Telling, OpenLog PROVE Telling'
  OBVIOUS
<1>1. /\ Len(events) = 0 /\ written = <<>> /\ UNCHANGED <<events, sent, backend>>
      /\ \A b \in Backends : watcher[b] = "none" /\ sent[b] = 0
      /\ watcher \in [Backends -> {"none", "watching", "leaving", "done"}]
      /\ backend \in Backends
      /\ Backends = {"native", "poll"}
  BY DEF OpenLog, Control, NothingYet, BackendChosen, TypeOK, Backends, channelVars
<1>2. CASE UNCHANGED <<written, watcher>>
  BY <1>1, <1>2, TellingKept
<1>3. CASE /\ watcher' = [watcher EXCEPT ![backend] = "watching"]
           /\ written' = <<>>
  <2>1. Len(written') = 0
    BY <1>3
  <2> QED BY <1>1, <1>3, <2>1 DEF Telling, OnlyStartedSend, GapMeansPolling,
             GapWhenBoth, BothStarted, GapFirst, SwitchedOnce
<1>4. CASE /\ watcher' = [watcher EXCEPT ![backend] = "watching"]
           /\ backend = "poll"
           /\ written' = <<GapLine>>
  <2>1. Len(written') = 1 /\ written'[1] = GapLine
    BY <1>4
  <2> QED BY <1>1, <1>4, <2>1, GapFacts DEF Telling, OnlyStartedSend, GapMeansPolling,
             GapWhenBoth, BothStarted, GapFirst, SwitchedOnce
<1> QED BY <1>2, <1>3, <1>4 DEF OpenLog, Unavailable

LEMMA TellingSend ==
    ASSUME TypeOK, Telling, NEW b \in Backends, SendEvent(b) PROVE Telling'
<1>1. Event(b, sent[b] + 1) \in Events /\ Event(b, sent[b] + 1).source = b
  BY DEF Event, Events, TypeOK
<1>2. /\ Len(events') = Len(events) + 1 /\ Len(events) \in Nat
      /\ \A i \in 1..Len(events) : events'[i] = events[i]
      /\ events'[Len(events) + 1].source = b
  BY <1>1, Appending DEF SendEvent, TypeOK
<1>3. /\ UNCHANGED <<written, backend, watcher>>
      /\ watcher[b] # "none"
      /\ sent' = [sent EXCEPT ![b] = @ + 1]
      /\ sent \in [Backends -> Nat]
  BY DEF SendEvent, runVars, TypeOK
<1> QED BY <1>2, <1>3 DEF Telling, OnlyStartedSend, GapMeansPolling, GapWhenBoth,
                          BothStarted, GapFirst, SwitchedOnce

LEMMA TellingStep == TypeOK /\ Control /\ Telling /\ [Next]_vars => Telling'
<1> SUFFICES ASSUME TypeOK, Control, Telling, [Next]_vars PROVE Telling'
  OBVIOUS
<1>1. CASE UNCHANGED vars
  BY <1>1, TellingKept DEF vars, channelVars, watcherVars, runVars
<1>2. CASE SelectBackend
  <2>1. /\ Len(events) = 0 /\ Len(written) = 0
        /\ UNCHANGED <<events, written, sent, watcher>>
        /\ \A b \in Backends : watcher[b] = "none" /\ sent[b] = 0
    BY <1>2 DEF SelectBackend, Control, NothingYet, channelVars, watcherVars
  <2> QED BY <2>1 DEF Telling, OnlyStartedSend, GapMeansPolling, GapWhenBoth,
                      BothStarted, GapFirst, SwitchedOnce, Backends
<1>3. CASE SeeCancelled \/ SeeBackendCancelled \/ GiveUp \/ CloseTUI \/ StopRun \/ Cancel
  BY <1>3, TellingKept DEF SeeCancelled, SeeBackendCancelled, GiveUp, CloseTUI, StopRun,
                           Cancel, BackendFailed, channelVars, watcherVars, runVars
<1>4. ASSUME NEW b \in Backends, EndWatch(b) \/ Deliver(b) PROVE Telling'
  <2>1. UNCHANGED <<events, written, sent, backend>>
    BY <1>4 DEF EndWatch, Deliver, channelVars, runVars
  <2>2. \A c \in Backends : watcher'[c] = "none" <=> watcher[c] = "none"
    BY <1>4 DEF EndWatch, Deliver, TypeOK
  <2> QED BY <2>1, <2>2, TellingKept
<1> QED BY <1>1, <1>2, <1>3, <1>4, TellingWrite, TellingFallBack, TellingOpen, TellingSend
           DEF Next, Run, Watcher
-----------------------------------------------------------------------------
\* No event is lost or written twice.

\* The events in the channel have been sent, in order.
Fifo ==
    /\ \A i \in 1..Len(events) : events[i].number \in 1..sent[events[i].source]
    /\ \A i, j \in 1..Len(events) :
          i < j /\ events[i].source = events[j].source =>
              events[i].number < events[j].number

\* Whether event n of b is in lines.
In(b, n, lines) == \E i \in 1..Len(lines) : lines[i].source = b /\ lines[i].number = n

Accounted ==
    result = "none" =>
        \A b \in Backends :
            /\ \A n : In(b, n, written) \/ In(b, n, events) <=> n \in 1..sent[b]
            /\ \A n : ~(In(b, n, written) /\ In(b, n, events))

LEMMA AccountedIsNothingSkipped == Accounted => NothingSkipped
<1>1. \A b, n, lines : In(b, n, lines) <=> n \in From(b, lines)
  BY DEF In, From
<1> QED BY <1>1 DEF Accounted, NothingSkipped

LEMMA AccountedInit == Init => Fifo /\ Accounted
<1> SUFFICES ASSUME Init PROVE Fifo /\ Accounted
  OBVIOUS
<1>1. Len(events) = 0 /\ Len(written) = 0
  BY DEF Init
<1>2. \A b \in Backends : 1..sent[b] = {}
  BY DEF Init
<1> QED BY <1>1, <1>2 DEF Fifo, Accounted, In

LEMMA AccountedKept ==
    ASSUME Fifo, Accounted, UNCHANGED <<events, sent>>,
           result' = "none" => UNCHANGED <<written, result>>
    PROVE  Fifo' /\ Accounted'
<1>1. Fifo'
  BY DEF Fifo
<1>2. Accounted'
  <2> SUFFICES ASSUME result' = "none", NEW b \in Backends
               PROVE  /\ \A n : In(b, n, written') \/ In(b, n, events') <=> n \in 1..sent'[b]
                      /\ \A n : ~(In(b, n, written') /\ In(b, n, events'))
    BY DEF Accounted
  <2> QED BY DEF Accounted
<1> QED BY <1>1, <1>2

\* A gap is not an event of a source.
LEMMA InWithGap ==
    ASSUME TypeOK, NEW lines \in {Append(written, GapLine), <<GapLine>>, <<>>},
           written = <<>> \/ lines = Append(written, GapLine)
    PROVE  \A b \in Backends : \A n : In(b, n, lines) <=> In(b, n, written)
<1>1. GapLine.source \notin Backends
  BY GapFacts DEF Backends
<1>2. CASE lines = Append(written, GapLine)
  BY <1>1, <1>2, Appending, LineFacts DEF In, TypeOK
<1>3. CASE written = <<>> /\ lines = <<GapLine>>
  <2>1. Len(written) = 0 /\ Len(lines) = 1 /\ lines[1] = GapLine
    BY <1>3
  <2> QED BY <1>1, <2>1 DEF In
<1>4. CASE written = <<>> /\ lines = <<>>
  BY <1>4
<1> QED BY <1>2, <1>3, <1>4

LEMMA AccountedGap ==
    ASSUME TypeOK, Fifo, Accounted, UNCHANGED <<events, sent>>,
           result' = "none" => 
              /\ result = "none"
              /\ \/ written' = written
                 \/ written' = Append(written, GapLine)
                 \/ written = <<>> /\ written' \in {<<GapLine>>, <<>>}
    PROVE  Fifo' /\ Accounted'
<1>1. Fifo'
  BY DEF Fifo
<1>2. ASSUME result' = "none"
      PROVE  \A b \in Backends : \A n : In(b, n, written') <=> In(b, n, written)
  BY <1>2, InWithGap
<1>3. Accounted'
  <2> SUFFICES ASSUME result' = "none", NEW b \in Backends
               PROVE  /\ \A n : In(b, n, written') \/ In(b, n, events') <=> n \in 1..sent'[b]
                      /\ \A n : ~(In(b, n, written') /\ In(b, n, events'))
    BY DEF Accounted
  <2> QED BY <1>2 DEF Accounted
<1> QED BY <1>1, <1>3

LEMMA AccountedWrite == TypeOK /\ Fifo /\ Accounted /\ WriteEvent => Fifo' /\ Accounted'
<1> SUFFICES ASSUME TypeOK, Fifo, Accounted, WriteEvent PROVE Fifo' /\ Accounted'
  OBVIOUS
<1> DEFINE e == Head(events)
<1> DEFINE m == Len(events)
<1>1. /\ e \in Lines /\ e = events[1] /\ m \in Nat \ {0}
      /\ Len(events') = m - 1
      /\ \A i \in 1..(m - 1) : events'[i] = events[i + 1]
  BY Taking, LineFacts DEF WriteEvent, TypeOK
<1>2. UNCHANGED sent
  BY DEF WriteEvent, watcherVars
<1> HIDE DEF e, m
<1>3. Fifo'
  <2>1. ASSUME NEW i \in 1..(m - 1)
        PROVE  events'[i].number \in 1..sent[events'[i].source]
    <3>1. events'[i] = events[i + 1] /\ i + 1 \in 1..m
      BY <1>1
    <3> QED BY <3>1 DEF Fifo, m
  <2>2. ASSUME NEW i \in 1..(m - 1), NEW j \in 1..(m - 1), i < j,
               events'[i].source = events'[j].source
        PROVE  events'[i].number < events'[j].number
    <3>1. /\ events'[i] = events[i + 1] /\ i + 1 \in 1..m
          /\ events'[j] = events[j + 1] /\ j + 1 \in 1..m
          /\ i + 1 < j + 1
      BY <1>1, <2>2
    <3> QED BY <2>2, <3>1 DEF Fifo, m
  <2> QED BY <1>1, <1>2, <2>1, <2>2 DEF Fifo
<1>4. ASSUME result' = "none"
      PROVE  written' = Append(written, e) /\ result = "none"
  BY <1>4 DEF WriteEvent, Leave, e
<1>5. ASSUME written' = Append(written, e), NEW b, NEW n
      PROVE  In(b, n, written') <=> In(b, n, written) \/ (e.source = b /\ e.number = n)
  <2>1. /\ Len(written') = Len(written) + 1 /\ Len(written) \in Nat
        /\ \A i \in 1..Len(written) : written'[i] = written[i]
        /\ written'[Len(written) + 1] = e
    BY <1>1, <1>5, Appending DEF TypeOK
  <2> QED BY <2>1 DEF In
<1>6. ASSUME NEW b, NEW n
      PROVE  /\ In(b, n, events) <=> In(b, n, events') \/ (e.source = b /\ e.number = n)
             /\ ~(In(b, n, events') /\ e.source = b /\ e.number = n)
  <2>1. ASSUME In(b, n, events)
        PROVE  In(b, n, events') \/ (e.source = b /\ e.number = n)
    <3>1. PICK i \in 1..m : events[i].source = b /\ events[i].number = n
      BY <2>1 DEF In, m
    <3>2. CASE i = 1
      BY <1>1, <3>1, <3>2
    <3>3. CASE i # 1
      <4>1. i - 1 \in 1..(m - 1) /\ events'[i - 1] = events[(i - 1) + 1] /\ (i - 1) + 1 = i
        BY <1>1, <3>3
      <4> QED BY <1>1, <3>1, <4>1 DEF In
    <3> QED BY <3>2, <3>3
  <2>2. ASSUME In(b, n, events')
        PROVE  In(b, n, events) /\ ~(e.source = b /\ e.number = n)
    <3>1. PICK i \in 1..(m - 1) : events'[i].source = b /\ events'[i].number = n
      BY <1>1, <2>2 DEF In
    <3>2. /\ i + 1 \in 1..m /\ 1 \in 1..m /\ 1 < i + 1
          /\ events[i + 1].source = b /\ events[i + 1].number = n
      BY <1>1, <3>1
    <3>3. In(b, n, events)
      BY <3>2 DEF In, m
    <3>4. e.source = b => e.number < n
      BY <1>1, <3>2 DEF Fifo, m
    <3>5. n \in Nat
      BY <3>2, <3>1 DEF Fifo, TypeOK, Events, m
    <3> QED BY <3>3, <3>4, <3>5
  <2>3. e.source = b /\ e.number = n => In(b, n, events)
    BY <1>1 DEF In, m
  <2> QED BY <2>1, <2>2, <2>3
<1>7. Accounted'
  <2> SUFFICES ASSUME result' = "none" PROVE Accounted'
    BY DEF Accounted
  <2> QED BY <1>2, <1>4, <1>5, <1>6 DEF Accounted
<1> QED BY <1>3, <1>7

LEMMA AccountedSend ==
    ASSUME TypeOK, Fifo, Accounted, NEW b \in Backends, SendEvent(b)
    PROVE  Fifo' /\ Accounted'
<1> DEFINE e == Event(b, sent[b] + 1)
<1> DEFINE m == Len(events)
<1>1. e \in Events /\ e.source = b /\ e.number = sent[b] + 1
  BY DEF Event, Events, TypeOK
<1> HIDE DEF e
<1>2. /\ Len(events') = m + 1 /\ m \in Nat
      /\ \A i \in 1..m : events'[i] = events[i]
      /\ events'[m + 1] = e
  BY <1>1, Appending DEF SendEvent, TypeOK, e
<1>3. /\ UNCHANGED <<written, result>>
      /\ sent' = [sent EXCEPT ![b] = @ + 1]
      /\ sent \in [Backends -> Nat]
  BY DEF SendEvent, runVars, TypeOK
<1> HIDE DEF m
<1>4. ASSUME NEW i \in 1..m PROVE events[i] \in Events
  BY DEF TypeOK, m
<1>5. ASSUME NEW i \in 1..m
      PROVE  /\ events[i].source \in Backends /\ events[i].number \in Nat
             /\ events[i].number \in 1..sent[events[i].source]
  BY <1>4 DEF Events, Fifo, m
<1>6. Fifo'
  <2>1. \A i \in 1..(m + 1) : events'[i].number \in 1..sent'[events'[i].source]
    BY <1>1, <1>2, <1>3, <1>5
  <2>2. ASSUME NEW i \in 1..(m + 1), NEW j \in 1..(m + 1), i < j,
               events'[i].source = events'[j].source
        PROVE  events'[i].number < events'[j].number
    <3>1. CASE j = m + 1
      <4>1. i \in 1..m /\ events'[i] = events[i] /\ events[i].source = b
        BY <1>1, <1>2, <2>2, <3>1
      <4>2. events[i].number \in 1..sent[b] /\ events'[j].number = sent[b] + 1
        BY <1>1, <1>2, <1>5, <3>1, <4>1
      <4> QED BY <1>3, <4>1, <4>2
    <3>2. CASE j # m + 1
      <4>1. i \in 1..m /\ j \in 1..m
        BY <1>2, <2>2, <3>2
      <4> QED BY <1>2, <2>2, <4>1 DEF Fifo, m
    <3> QED BY <3>1, <3>2
  <2> QED BY <1>2, <2>1, <2>2 DEF Fifo
<1>7. ASSUME NEW c, NEW n
      PROVE  In(c, n, events') <=> In(c, n, events) \/ (c = b /\ n = sent[b] + 1)
  BY <1>1, <1>2 DEF In, m
<1>8. Accounted'
  <2> SUFFICES ASSUME result = "none", Accounted, NEW c \in Backends
               PROVE  /\ \A n : In(c, n, written) \/ In(c, n, events') <=> n \in 1..sent'[c]
                      /\ \A n : ~(In(c, n, written) /\ In(c, n, events'))
    BY <1>3 DEF Accounted
  <2>1. /\ \A n : In(c, n, written) \/ In(c, n, events) <=> n \in 1..sent[c]
        /\ \A n : ~(In(c, n, written) /\ In(c, n, events))
    BY DEF Accounted
  <2>2. CASE c = b
    <3>1. \A n : n \in 1..sent'[b] <=> n \in 1..sent[b] \/ n = sent[b] + 1
      BY <1>3
    <3>2. sent[b] + 1 \notin 1..sent[b]
      BY <1>3
    <3> QED BY <1>7, <2>1, <2>2, <3>1, <3>2
  <2>3. CASE c # b
    BY <1>3, <1>7, <2>1, <2>3
  <2> QED BY <2>2, <2>3
<1> QED BY <1>6, <1>8

LEMMA AccountedStep ==
    TypeOK /\ Control /\ Fifo /\ Accounted /\ [Next]_vars => Fifo' /\ Accounted'
<1> SUFFICES ASSUME TypeOK, Control, Fifo, Accounted, [Next]_vars PROVE Fifo' /\ Accounted'
  OBVIOUS
<1>1. CASE UNCHANGED vars
  BY <1>1, AccountedKept DEF vars, channelVars, watcherVars, runVars
<1>2. CASE SelectBackend
  BY <1>2, AccountedKept DEF SelectBackend, channelVars, watcherVars
<1>3. CASE OpenLog
  <2>1. UNCHANGED <<events, sent>> /\ written = <<>>
    BY <1>3 DEF OpenLog, Control, NothingYet, channelVars
  <2>2. result' = "none" => result = "none" /\ written' \in {<<GapLine>>, <<>>}
    BY <1>3 DEF OpenLog
  <2> QED BY <2>1, <2>2, AccountedGap
<1>4. CASE SeeCancelled \/ SeeBackendCancelled \/ GiveUp
  BY <1>4, AccountedKept DEF SeeCancelled, SeeBackendCancelled, GiveUp, BackendFailed,
                             Leave, watcherVars, channelVars
<1>5. CASE FallBack
  <2>1. UNCHANGED <<events, sent>>
    BY <1>5 DEF FallBack
  <2>2. result' = "none" => result = "none" /\ written' = Append(written, GapLine)
    BY <1>5 DEF FallBack, Leave
  <2> QED BY <2>1, <2>2, AccountedGap
<1>6. CASE CloseTUI
  BY <1>6, AccountedKept DEF CloseTUI, watcherVars, channelVars
<1>7. CASE StopRun \/ Cancel
  BY <1>7, AccountedKept DEF StopRun, Cancel, watcherVars, channelVars, runVars
<1>8. ASSUME NEW b \in Backends, EndWatch(b) \/ Deliver(b) PROVE Fifo' /\ Accounted'
  BY <1>8, AccountedKept DEF EndWatch, Deliver, channelVars, runVars
<1> QED BY <1>1, <1>2, <1>3, <1>4, <1>5, <1>6, <1>7, <1>8, AccountedWrite, AccountedSend
           DEF Next, Run, Watcher

-----------------------------------------------------------------------------
\* The theorems.

IInv == TypeOK /\ Control /\ Telling /\ Fifo /\ Accounted

\* The invariant holds in every run, whatever the capacity of the channel and
\* the number of events.
THEOREM Invariant == Spec => []IInv
<1>1. Init => IInv
  BY TypeInit, ControlInit, TellingInit, AccountedInit DEF IInv
<1>2. IInv /\ [Next]_vars => IInv'
  BY TypeStep, ControlStep, TellingStep, AccountedStep DEF IInv, Control
<1> QED BY <1>1, <1>2, PTL DEF Spec

\* The run's state is well typed: a watcher that returned has a verdict.
THEOREM Typing == Spec => []TypeOK
<1>1. IInv => TypeOK
  BY DEF IInv
<1> QED BY <1>1, Invariant, PTL

\* The native source and polling never watch at the same time.
THEOREM OneSourceAtATime == Spec => []OneSource
<1>1. IInv => OneSource
  BY DEF IInv, Control, OnlyBackendActive, OneSource, Backends
<1> QED BY <1>1, Invariant, PTL

\* A watcher that has still to deliver its error finds the channel empty.
THEOREM ErrorsFindRoom == Spec => []ErrorsNeverBlock
<1>1. IInv => ErrorsNeverBlock
  BY DEF IInv, Control, ErrorIsLast, ErrorsNeverBlock
<1> QED BY <1>1, Invariant, PTL

\* The log tells of the switch once, and before the first polled event.
THEOREM SwitchIsTold == Spec => []ToldOfSwitch
<1>1. IInv => ToldOfSwitch
  <2> SUFFICES ASSUME IInv PROVE ToldOfSwitch
    OBVIOUS
  <2>1. sent["native"] > 0 => watcher["native"] # "none"
    BY DEF IInv, Telling, OnlyStartedSend, Backends
  <2> QED BY <2>1 DEF IInv, Telling, GapFirst, SwitchedOnce, ToldOfSwitch
<1> QED BY <1>1, Invariant, PTL

\* While the run goes on no event is lost or written twice.
THEOREM EventsAreKept == Spec => []NothingSkipped
<1>1. IInv => NothingSkipped
  BY AccountedIsNothingSkipped DEF IInv
<1> QED BY <1>1, Invariant, PTL
=============================================================================
