------------------------------- MODULE WatchRun -------------------------------
(***************************************************************************)
(* runWithContext (bottom.go): one run of Bottom.  A backend is selected   *)
(* (backend.go) and watches in a goroutine of its own.  Its events come    *)
(* over a bounded channel, its one error over another; the run writes the  *)
(* events to the log or the TUI, and where the backend was chosen          *)
(* automatically it replaces a native source that fails by polling, once.  *)
(***************************************************************************)
EXTENDS Integers, Sequences

CONSTANTS Capacity,   \* of the event channel (256)
          MaxEvents   \* bound on the events one backend sends

ASSUME RunAssumption == Capacity \in Nat \ {0} /\ MaxEvents \in Nat

Backends == {"native", "poll"}

VARIABLES stage,      \* "select", "open", "loop", "defers", "returned"
          backend,    \* the backend in use, "none" before selection
          fallbackAllowed,
          events,     \* the event channel
          errors,     \* the channel for what a backend's Watch returned
          watcher,    \* per backend: "none", "watching", "leaving", "done"
          verdict,    \* per backend: the error its Watch returns
          sent,       \* per backend: how many events it sent
          cancelled,  \* runContext, cancelled by a signal, a key or stopRun
          tui,        \* "none", "open", "closed"
          written,    \* the lines written
          result      \* "none", "ok", or what failed: "selection", "write",
                      \* "backend", "close"
channelVars == <<events, errors>>
watcherVars == <<watcher, verdict, sent>>
runVars == <<stage, backend, fallbackAllowed, tui, written, result>>
vars == <<channelVars, watcherVars, runVars, cancelled>>

Event(source, number) == [source |-> source, number |-> number]
GapLine == Event("gap", 0)

Init ==
    /\ stage = "select" /\ backend = "none" /\ fallbackAllowed = FALSE
    /\ events = <<>> /\ errors = <<>>
    /\ watcher = [b \in Backends |-> "none"]
    /\ verdict = [b \in Backends |-> "none"]
    /\ sent = [b \in Backends |-> 0]
    /\ cancelled = FALSE /\ tui = "none" /\ written = <<>> /\ result = "none"

-----------------------------------------------------------------------------
\* The run.

\* selectBackend: an explicit choice is final, the automatic one may fall
\* back.  Where no native source is available the automatic choice is
\* polling, and fallbackAllowed stays set.
SelectBackend ==
    /\ stage = "select"
    /\ \/ /\ stage' = "open"
          /\ backend' \in Backends
          /\ fallbackAllowed' \in BOOLEAN
          /\ UNCHANGED result
       \/ /\ stage' = "defers" /\ result' = "selection"
          /\ UNCHANGED <<backend, fallbackAllowed>>
    /\ UNCHANGED <<channelVars, watcherVars, cancelled, tui, written>>

\* Polling in place of a source that is not available is told of at once.
Unavailable == backend = "poll" /\ fallbackAllowed

\* The TUI is opened, or the first line written, and the backend started;
\* a failing write ends the run.
OpenLog ==
    /\ stage = "open"
    /\ tui' \in {"none", "open"}
    /\ \/ /\ stage' = "loop"
          /\ watcher' = [watcher EXCEPT ![backend] = "watching"]
          /\ written' = IF Unavailable THEN <<GapLine>> ELSE <<>>
          /\ UNCHANGED result
       \/ /\ stage' = "defers" /\ result' = "write"
          /\ tui' = "open" => Unavailable
          /\ UNCHANGED <<watcher, written>>
    /\ UNCHANGED <<channelVars, verdict, sent, cancelled, backend, fallbackAllowed>>

\* Slip: break leaves the select, not the loop.
Break(outcome) == stage' = stage /\ result' = outcome

Leave(outcome) == stage' = "defers" /\ result' = outcome

\* The select of the loop: any ready case may be taken.
SeeCancelled ==
    /\ stage = "loop" /\ cancelled
    /\ Leave("ok")
    /\ UNCHANGED <<channelVars, watcherVars, cancelled, backend,
                   fallbackAllowed, tui, written>>

WriteEvent ==
    /\ stage = "loop" /\ events # <<>>
    /\ events' = Tail(events)
    /\ \/ written' = Append(written, Head(events)) /\ UNCHANGED <<stage, result>>
       \/ Leave("write") /\ UNCHANGED written
    /\ UNCHANGED <<errors, watcherVars, cancelled, backend, fallbackAllowed, tui>>

\* A backend that was cancelled ends the run quietly.
SeeBackendCancelled ==
    /\ stage = "loop" /\ errors # <<>> /\ Head(errors) = "cancelled"
    /\ errors' = Tail(errors)
    /\ Leave("ok")
    /\ UNCHANGED <<events, watcherVars, cancelled, backend, fallbackAllowed,
                   tui, written>>

\* Slips: the failure is seen before the watcher has delivered it, or is
\* left in the channel.
BackendFailing == stage = "loop" /\ verdict[backend] = "failed" /\ UNCHANGED errors

BackendFailedUnread ==
    stage = "loop" /\ errors # <<>> /\ Head(errors) = "failed" /\ UNCHANGED errors

BackendFailed ==
    stage = "loop" /\ errors # <<>> /\ Head(errors) = "failed" /\ errors' = Tail(errors)

\* Slips of the fallback: a channel of its own for the new backend; no line
\* that tells of it; the choice left as it was.
FallBackAfresh ==
    /\ BackendFailed
    /\ fallbackAllowed /\ backend # "poll"
    /\ written' = Append(written, GapLine)
    /\ backend' = "poll" /\ fallbackAllowed' = FALSE
    /\ watcher' = [watcher EXCEPT !["poll"] = "watching"]
    /\ events' = <<>>
    /\ UNCHANGED <<verdict, sent, cancelled, tui, stage, result>>

FallBackSilently ==
    /\ BackendFailed
    /\ fallbackAllowed /\ backend # "poll"
    /\ backend' = "poll" /\ fallbackAllowed' = FALSE
    /\ watcher' = [watcher EXCEPT !["poll"] = "watching"]
    /\ UNCHANGED <<events, verdict, sent, cancelled, tui, stage, result, written>>

FallBackAgain ==
    /\ BackendFailed
    /\ fallbackAllowed
    /\ written' = Append(written, GapLine)
    /\ watcher' = [watcher EXCEPT !["poll"] = "watching"]
    /\ UNCHANGED <<events, verdict, sent, cancelled, tui, stage, result, backend,
                   fallbackAllowed>>

FallBack ==
    /\ BackendFailed
    /\ fallbackAllowed /\ backend # "poll"
    /\ \/ /\ written' = Append(written, GapLine)
          /\ backend' = "poll" /\ fallbackAllowed' = FALSE
          /\ watcher' = [watcher EXCEPT !["poll"] = "watching"]
          /\ UNCHANGED <<stage, result>>
       \/ /\ Leave("write")
          /\ UNCHANGED <<written, backend, fallbackAllowed, watcher>>
    /\ UNCHANGED <<events, verdict, sent, cancelled, tui>>

\* Slip: only an explicitly chosen source may fail.
GiveUpExplicit ==
    /\ BackendFailed
    /\ ~fallbackAllowed
    /\ Leave("backend")
    /\ UNCHANGED <<events, watcherVars, cancelled, backend, fallbackAllowed,
                   tui, written>>

GiveUp ==
    /\ BackendFailed
    /\ ~(fallbackAllowed /\ backend # "poll")
    /\ Leave("backend")
    /\ UNCHANGED <<events, watcherVars, cancelled, backend, fallbackAllowed,
                   tui, written>>

\* The deferred calls, the last one first: the TUI is closed, which may fail
\* and then is the error of a run that had none, and the context cancelled.
CloseTUI ==
    /\ stage = "defers" /\ tui = "open"
    /\ tui' = "closed"
    /\ result' \in IF result = "ok" THEN {"ok", "close"} ELSE {result}
    /\ UNCHANGED <<channelVars, watcherVars, cancelled, stage, backend,
                   fallbackAllowed, written>>

StopRun ==
    /\ stage = "defers" /\ tui # "open"
    /\ cancelled' = TRUE
    /\ stage' = "returned"
    /\ UNCHANGED <<channelVars, watcherVars, backend, fallbackAllowed, tui,
                   written, result>>

\* A signal, or the quit key of an open TUI.
Cancel ==
    /\ stage # "returned" /\ ~cancelled
    /\ cancelled' = TRUE
    /\ UNCHANGED <<channelVars, watcherVars, runVars>>

-----------------------------------------------------------------------------
\* The goroutine of a backend.

\* sendEvent waits for room in the channel, or for the cancellation.
SendEvent(b) ==
    /\ watcher[b] = "watching"
    /\ sent[b] < MaxEvents
    /\ Len(events) < Capacity
    /\ events' = Append(events, Event(b, sent[b] + 1))
    /\ sent' = [sent EXCEPT ![b] = @ + 1]
    /\ UNCHANGED <<errors, watcher, verdict, runVars, cancelled>>

\* Slip: the error of a failing source is overwritten.
EndWatchUntold(b) ==
    /\ watcher[b] = "watching"
    /\ watcher' = [watcher EXCEPT ![b] = "leaving"]
    /\ UNCHANGED <<channelVars, verdict, sent, runVars, cancelled>>

\* Watch returns: the source fails, or the context is cancelled, which may
\* still fail to close the source.  No backend returns without an error.
EndWatch(b) ==
    /\ watcher[b] = "watching"
    /\ \E outcome \in {"failed"} \cup (IF cancelled THEN {"cancelled"} ELSE {}) :
          verdict' = [verdict EXCEPT ![b] = outcome]
    /\ watcher' = [watcher EXCEPT ![b] = "leaving"]
    /\ UNCHANGED <<channelVars, sent, runVars, cancelled>>

\* Slip: the error channel has no place, and is read by the loop only.
DeliverToLoop(b) ==
    /\ watcher[b] = "leaving" /\ stage = "loop"
    /\ Len(errors) < 1
    /\ errors' = Append(errors, verdict[b])
    /\ watcher' = [watcher EXCEPT ![b] = "done"]
    /\ UNCHANGED <<events, verdict, sent, runVars, cancelled>>

\* The goroutine ends once the error channel has taken its verdict.
Deliver(b) ==
    /\ watcher[b] = "leaving"
    /\ Len(errors) < 1
    /\ errors' = Append(errors, verdict[b])
    /\ watcher' = [watcher EXCEPT ![b] = "done"]
    /\ UNCHANGED <<events, verdict, sent, runVars, cancelled>>

Run == \/ SelectBackend \/ OpenLog \/ SeeCancelled \/ WriteEvent
       \/ SeeBackendCancelled \/ FallBack \/ GiveUp \/ CloseTUI \/ StopRun

Watcher(b) == SendEvent(b) \/ EndWatch(b) \/ Deliver(b)

Next == Run \/ Cancel \/ \E b \in Backends : Watcher(b)

Spec == Init /\ [][Next]_vars

(***************************************************************************)
(* The run's goroutine goes on, and its select takes the cancellation in   *)
(* the end; a watcher looks at the context again and again, whether it     *)
(* waits for its source or for room in the channel.                        *)
(***************************************************************************)
Fairness ==
    /\ WF_vars(Run)
    /\ SF_vars(SeeCancelled)
    /\ \A b \in Backends : /\ WF_vars(cancelled /\ EndWatch(b))
                           /\ WF_vars(Deliver(b))

FairSpec == Spec /\ Fairness
-----------------------------------------------------------------------------
Events == [source : Backends, number : Nat]
Lines == Events \cup {GapLine}

TypeOK ==
    /\ stage \in {"select", "open", "loop", "defers", "returned"}
    /\ backend \in Backends \cup {"none"}
    /\ fallbackAllowed \in BOOLEAN
    /\ events \in Seq(Events)
    /\ errors \in Seq({"cancelled", "failed"})
    /\ watcher \in [Backends -> {"none", "watching", "leaving", "done"}]
    /\ verdict \in [Backends -> {"none", "cancelled", "failed"}]
    /\ sent \in [Backends -> Nat]
    /\ cancelled \in BOOLEAN
    /\ tui \in {"none", "open", "closed"}
    /\ written \in Seq(Lines)
    /\ result \in {"none", "ok", "selection", "write", "backend", "close"}

Active(b) == watcher[b] \in {"watching", "leaving"}

\* Two sources never watch at once: polling starts only after the native
\* watcher has returned, so no process is told of by both.
OneSource == ~(Active("native") /\ Active("poll"))

\* The single place of the error channel is free whenever a watcher comes to
\* deliver, also after the run has returned: no goroutine is left behind.
ErrorsNeverBlock == \A b \in Backends : Active(b) => errors = <<>>

From(source, lines) ==
    {lines[i].number : i \in {j \in 1..Len(lines) : lines[j].source = source}}

\* While the run goes on, each event sent is either written or still in the
\* channel, a fallback notwithstanding.
NothingSkipped ==
    result = "none" =>
        \A b \in Backends :
            /\ From(b, written) \cup From(b, events) = 1..sent[b]
            /\ From(b, written) \cap From(b, events) = {}

\* The log says once that the source was switched, and before the first polled
\* event that follows a native source: a reader knows who tells what.
ToldOfSwitch ==
    /\ \A i, j \in 1..Len(written) :
          written[i] = GapLine /\ written[j] = GapLine => i = j
    /\ \A i \in 1..Len(written) :
          written[i].source = "poll" /\ sent["native"] > 0 =>
              \E j \in 1..i : written[j] = GapLine

\* The end of a source never goes unnoticed: the run returns, or, where the
\* source was the native one, polling takes over.
SourceLossNoticed ==
    \A b \in Backends :
        watcher[b] = "done" ~> \/ stage = "returned"
                               \/ b = "native" /\ watcher["poll"] # "none"

\* A cancelled run returns, even with a watcher that keeps the channel full.
CancelReturns == cancelled ~> stage = "returned"

\* When the run has returned every goroutine it started comes to its end.
WatchersEnd == stage = "returned" ~> \A b \in Backends : ~Active(b)
=============================================================================
