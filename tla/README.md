# Bottom, specified

Bottom prints a line for every process start, executable replacement, stop and
detected capture gap of one computer. This directory specifies how it gets
there: TLA+ modules of its watchers, its run loop and its trace, configurations
that check them with TLC, and proofs checked by TLAPS.

Paths below are relative to the repository; `name.go:12` is a line of it.

## 1. The system

| Part | Code | State it keeps | Operations |
|---|---|---|---|
| Process tables | `types.go`, `snapshot.go`, `lifecycle_helpers.go`, `backend_poll.go:83-140` | identity -> process, as a Go map | find by PID, remove by PID, carry an observation over, compare two tables |
| Snapshots | `snapshot_linux.go` (and `_unix`, `_darwin`, `_windows`) | the table being built | list PIDs, read one process, skip it when that fails, estimate its start time |
| Polling backend | `backend_poll.go` | previous table | baseline, tick, compare, send events |
| Linux process connector | `platform_events_linux.go` | table, last sequence number per CPU, resync flag | subscribe, snapshot, receive, apply fork / exec / exit, resync, align names |
| Windows ETW, macOS Endpoint Security | `platform_events_windows_etw.go`, `platform_events_darwin_endpoint.go` (+ bridge) | table, loss counter, channel fed by a callback | as above, fed by a callback that must not block |
| Run loop | `bottom.go:78-165`, `backend.go` | backend in use, `fallbackAllowed`, two channels, TUI | select a backend, write events, fall back, end, deferred calls |
| Trace | `trace.go` | observed processes by PID, tracked PIDs, result channel of the root | start command, tick, select descendants, tail, reap |
| Interactive display | `tui.go`, `filters.go` | last 2048 events, search, sort, scroll position, pause | keys or typed lines, new events, resize, close |
| User names | `identity.go` | name cache, bounded queue | ask, resolve |
| Lines, options, version, completion | `log_messages.go`, `bottom.go`, `completion.go`, `signals_*.go` | none | formatting, parsing |

The files `recorder*.go`, `recording_*.go`, `correlation*.go`, `otel.go`,
`churn.go`, `selftest.go` and `boot_id_*.go` hold a package clause and nothing
else.

**How the parts interact.** The run loop starts one backend in a goroutine
(`bottom.go:156`) and receives its events from a channel of 256 places and its
one error from a channel of one place. A backend reads the operating system
(snapshots, or notices the kernel queues on a socket), keeps a table of its own
that nothing else touches, and sends the differences. On Windows and macOS the
notices come by a callback on a thread of the system, which puts them into a
channel of 4096 places or counts what finds it full. The run loop owns the log
and the switch to polling; with a terminal it also writes to the display, whose
input and size are looked after by goroutines of their own under one mutex.
Whoever builds a process asks the cache of user names, which never waits: a
goroutine of the package resolves what was asked. The trace is a run of its own without a backend: it
takes snapshots itself, and a goroutine waits for the command and reports its
end over a channel. Everything ends by the cancellation of one context.

**What is hard.** A snapshot is not taken at once: processes come, go, change
and are replaced under the same PID between the listing and the reads. Notices
tell of the past while `/proc` tells of the present, and a resync overtakes
notices that are still queued. Notices get lost. Several cases of a `select`
are ready at once. An identity may be provisional, or not tell two runs apart.
Cancellation, failing reads and failing writes come at any step.

**What makes each part correct**

- *Tables*: filed under their own identity, one entry per PID, so that the
  lookup by PID in map order has one answer.
- *Polling*: the log and the table agree but for events being sent; every line
  of the log is allowed by the lines before it; starts and ends are reported.
- *Connector*: whenever the notices about a PID are used up the table is right
  about it; losses are found; what was lost is made up for.
- *Callback-fed backends*: the same, though a notice may be applied before or
  after the snapshot that makes up for the loss it showed; a counted loss is
  reported; the session or client is closed however the watch ends.
- *Run loop*: one source at a time; no event lost or doubled; the switch is told
  of once and first; no goroutine is left behind; the end of a source is noticed.
- *Trace*: the command is waited for; start, replacements and stop in turn for
  each PID; a stop means the process has gone (the exceptions are named, see
  findings 3 and 4); the tail ends; what it leaves
  behind is told.
- *Display*: the screen shows the present state; scrolling never leads beyond
  the oldest event; the terminal is left as it was found.
- *User names*: a uid is requested once at a time and can always be requested
  again; in the end it gets its name.

## 2. Modules

```
LifecycleLog        what every log promises (abstract)
ProcessTable        identities, tables and their comparison (pure)
OsProcesses         the operating system (external)
PollingWatch        the polling backend       EXTENDS OsProcesses, ProcessTable   implements LifecycleLog
ConnectorWatch      the connector backend     EXTENDS OsProcesses, ProcessTable
CallbackWatch       ETW, Endpoint Security    EXTENDS OsProcesses, ProcessTable
TraceRun            bottom trace              EXTENDS OsProcesses, ProcessTable   implements LifecycleLog
WatchRun            the run loop, with watchers reduced to what they do to its channels
TuiView             the interactive display, with the run loop reduced to what it does to it
UidNames            the cache of user names

Queues, Tables      lemmas on queues and on process tables
PollingWatchProofs, ConnectorWatchProofs, CallbackWatchProofs,
TraceRunProofs, WatchRunProofs, DisplayProofs       theorems about them
MC*                 instances for TLC
```

**LifecycleLog** is the abstract specification: a log is a line variable, the
identities that are live in it and what each was first observed as. A `start`
may be written only for an identity that is not live (and, where identities are
unique, never was), `exec` and `stop` only for a live one and with its first
observation; a gap at any time. After cancellation nothing is promised, because
`sendEvent` may drop any event then.

**ProcessTable** translates the pure functions. A process is reduced to its
identity, its *image* (the pair `Command`, `Exe`, which is all a replacement is
recognised by), its start time and the time it was first captured. `Preserve`,
`SameGeneration` and `DiffEvents` are `preserveProcessObservation`,
`sameProcessGeneration` and the two loops of `emitSnapshotDiff`.

**OsProcesses** is external: fork, exec, exit and reap per PID and a clock in
seconds. A process that ended may stay as a zombie, whose command line and
executable link read as empty (`Defunct`). Its one assumption is that a PID is
not given out twice within one second-tick of the start token. All snapshots
read one process in one step, though `stat`, `cmdline` and `exe` are read one
after the other (`snapshot_linux.go:51-57`): a replacement between them gives an
image that is corrected as the next one is.

**PollingWatch**. `TakeSnapshot` lists the PIDs, `ReadPid`/`SkipPid` read them
one by one while the system goes on, `Baseline` and `Compare` are the two uses
of a finished snapshot, `Send`/`Drop` the two ways out of `sendEvent`. Events of
one comparison are a set that is sent in any order, as Go's map iteration has
it, but stops last. `Tokened = FALSE` is the case of `ps` snapshots, whose
identities have no start token; `Offsets` the errors of the boot time estimate,
counted from the smallest one (so that none is negative), or `NoClock`.

**ConnectorWatch** adds the kernel's queue: `Raise` puts a notice on the socket
or loses it, with or without `overrun`. The watcher's variables are those of
`Watch` (`processes`, `sequences`, `needsResync`); `batch` is the notice between
`recvfrom` and its application. `ForkNotice`, `ExecNotice` and `ExitNotice` are
the three cases of the handler, with the read of `/proc` they make (`Readings`:
it may find the process, its successor, or nothing). `Aligned` is
`alignProcessIdentities`. `missed`, `missing` and `lost` are history: they
remember which notices were lost so that the properties can speak of it.

**CallbackWatch** is one module for the two backends that are called back,
because their loops differ only in order and detail; `version` tells which one
is watched: `Etw`, or the version of the Endpoint Security messages. What
depends on it: whether notices are numbered, in one sequence (version 4) or by
kind (2, 3), or not at all (ETW); what a notice says of its process (`Described`:
everything, everything but the start time, or only the PID, so that the process
is read); what it says for an image (`Said`: the arguments in an exec notice, the
path of the executable in a fork notice, `endpoint_security_bridge_darwin.m:58-78`;
the constant `Says` tells what image that makes); whether there is an exec; when callbacks begin; and the trace that may
end by itself (`TraceEnds`). The callback is `Callback`, a send that does not
wait, and `CountLost`, the count of one that failed, as the code has them: two
steps that Watch may come between. `Receive` is a case of the select with the
check of the sequence number and, on a gap, the snapshot *before* the notice is
applied; `CheckLost` looks at the count *after* it. `ReadPid` reads the listed
processes one by one. When an entry was first captured is left out here:
`PollingWatch` is about it.

**WatchRun** has one action per case of the `select`, the two deferred calls,
and the goroutine of each backend. `Leave` is a `return` from the loop: the
deferred calls follow. The loop's case of a watcher that returns no error
(`bottom.go:132-134`) is left out: no backend does.

**TraceRun** keeps `observed` and `tracked` by PID as the code does. Children
are found by the parents read in the snapshot; when a process ends its children
pass to another parent. `Select` is the selection; the update then goes over the
selected PIDs in order (`Follow`), and over what is observed but not selected
(`Leave`), and the lines of each PID are written before the next one is looked
at, as in the code's two loops. A failing write ends the trace at any line
(`WriteFails`), and `ReapRoot` is the deferred wait. What a snapshot finds of a
process depends on three constants: `Tokened` (FALSE for `ps`, which gives
neither a start token nor a start time), `Dated` (FALSE where a start time may be
missing from one read and there in the next: `/proc/uptime` cannot be read, or
the start lies more than a second ahead), and `Unreadable`, the PIDs whose read
may fail though they are listed.

**TuiView** takes every call that holds the mutex as one step: `Write` (with
retention, `Keep`), `Handle` (one key or one line, whatever it does to the
view), `Quit`, `InputFails`, `Resize`, `Close`. An event is a number: a search
matches one number or all, a sort compares them (`Before`, a stable order over
what is `Matching`; `FilteredEvents` lists it). `Draw` stands for `drawLocked`:
it looks at the size, switches to the alternate screen the first time, and
writes a frame unless the terminal is `broken`. `current` says whether the last
frame shows what a new one would show; it is computed by comparing `Frame`
before and after a step that does not draw. Wording, columns and the status
line are not part of a frame.

**UidNames** takes the two locked sections of `uidNameResolver.name` as two
steps (`Ask` under the read lock, `Queue` under the write lock), and the
resolver's goroutine as `Take` and `Resolve`.

Definitions marked *Slip* are mistakes one could make in this code (a lookup by
PID alone, a baseline before the subscription, a `break` for a `return`, ...).
No run uses them as they stand. Each property is accompanied by a slip that
breaks it, which shows that the property looks where it should: replacing the
definition that follows by the slip makes TLC find a violation.

## 3. Runs

| Run | Instance | Shows |
|---|---|---|
| `polling` | 1 PID, 2 images, zombies, failing reads, 2 clock values | typing, `LogMatchesTable`, `PidSharedOnlyWhileStopping`, implements `LifecycleLog`, starts and ends are reported |
| `polling_zombie` | same, reads do not fail | finding 1 |
| `connector` | 1 PID, 2 images, zombies, 1 CPU, losses, socket of 2, sequence numbers modulo 2, 3 notices | `TableSound`, `TableExact`, `GapsTellLosses` |
| `connector_live` | same, 1 image, socket of 1, 2 notices | `GoneIsForgotten`, `RunningIsKnown`, `OverrunIsReported` |
| `connector_twice` | 1 image, no zombies, no losses | finding 2 |
| `callback` | 1 PID, 2 images, zombies, fork notices with an image of their own, ETW and message versions 2 and 4, one buffer and a channel of 1, 3 notices (2 for version 2), 2 clock values | `TableSound`, `TableExact`, `Released`, `LossIsReported`, `GoneIsForgotten` |
| `watch_run` | channel of 2, 3 events per source | one source, free error channel, no event lost, the switch told of once and before polled events (`ToldOfSwitch`), end of a source noticed, everything ends |
| `trace` | 2 PIDs, zombies, 2 clock values, start times always found, the root's read may fail | the command is waited for, `LifecycleLog` by PID, stops mean gone, the end is explained |
| `trace_undated` | 2 PIDs, neither start times nor tokens | finding 4 |
| `trace_live` | 2 PIDs, 1 clock value, start times found or not | when the running root is stopped in the log (`RootStopIsItsEnd`), the tail ends, children come to be followed |
| `trace_reuse` | 2 PIDs, 3 clock values | finding 3 |
| `display` | 3 events of 2 texts kept, searches for one or all, 2 orders, heights for 2 rows and 1; 3 uids, 2 callers, queue of 1 | `ScreenIsCurrent`, `BlankOnlyAfterTrim`, `TerminalRestored`; `RequestedOnce`, `AllAreNamed` |

**Bounds, and why they are enough.** Nothing in the watchers relates two PIDs
except the order of events within a comparison, which the properties do not
depend on; so one PID with its reuse covers polling and connector, and the
theorems lift the polling results to any number. With two clock values a PID has
two generations, with three it has three. Two images let a replacement happen
and be undone. A socket of two places overflows and also keeps notices older
than the loss; sequence numbers modulo 2 wrap around within three notices. The
event channel of two places fills up while three events are sent. Two notices
are enough for `connector_live`: a fork that is lost, an exit that is lost, or
an exit and a fork of the PID's next process; with a socket of one place the
second one may overflow it, over a first that is still queued. A third makes
checking `~>` take too long. The trace needs two PIDs for a parent and a child,
and to have the root's PID reused; a `Linger` of 3 ticks against a `Poll` of 1
keeps both clauses of `traceFinished` apart (`trace`; 2 ticks in `trace_live`,
where the tail only has to end). Start times that come and go are checked in
`trace_live`, on one clock value and so without the reuse of a PID; the theorems
have both at once.

With one buffer and a channel of one place both losses of the callback-fed
backends happen: the one only a gap in the numbers tells, and the counted one.
Three notices are the fewest that show a gap with one sequence (one received,
one lost, one that shows it). A gap in the numbering by kind would need five
and is not reached; the code on the way is the same, and version 4 goes it.
Version 3 differs from 4 in numbering only and from 2 in `Described` only.

The display keeps 3 events so that trimming happens with room for one or two
rows: a scroll position can be at, before and beyond the oldest event. `Reserved`
is the code's; `MinRows` is 1 in place of 3 and the orders are two of four, of
which one follows the age of events and one does not. The display and the cache
of names share no state; the run checks each while the other rests. In the
uid part a queue of one place is full with one request, while a third uid and a
second caller ask.

The bounds are `MaxClock`, `MaxNotices`, `MaxEvents`, `MaxAge`; each stops only the
environment, which is why deadlock is not checked: when the clock has run out,
the notices are used up or the run has returned, the model rests.

**Fairness.** Goroutines that can run do run (weak fairness of the steps
between two waits). Go's `select` chooses at random among ready cases, so none
is passed over for ever (strong fairness of `Return`, `SeeCancelled`,
`SeeResult`, `TakeSnapshot`, and `Receive`, `Tick`, `Return` of the callback-fed
watch, whose select has the timer among its cases). The connector's resync timer is looked at before the socket
(`platform_events_linux.go:113-118`), so it is not starved by traffic. Readers
take what is sent: the run loop does nothing between two receives that waits
for a backend. Snapshots, and the reads of one process, do not for ever fail;
that is an assumption about the operating system, and needed: with snapshots
that always fail the tail of a trace never ends, because `traceFinished` is
looked at after a successful snapshot only. Names are asked for again as long as
processes are built (strong fairness of `Ask` for each caller and uid), and
lookups end. No fairness is assumed of processes, of the callback, of
cancellation, of the user, or of a source that fails.

## 4. What the runs found

1. *A process that ends is logged as replaced* (`polling_zombie`,
   `backend_poll.go:63`). Read as a zombie, its command line is empty, the
   stat name stands in, and the comparison sees another `Command` and `Exe`.
2. *A process is started twice* (`connector_twice`,
   `platform_events_linux.go:115`). A periodic resync sees a process whose fork
   notice is still queued; the notice, applied later, starts it again.
3. *An unrelated process is followed* (`trace_reuse`, `trace.go:247`). A tracked
   PID that was reused between two snapshots counts as tracked.
4. *A running command is logged as stopped* (`trace_undated`,
   `lifecycle_helpers.go:33`). Where a snapshot has no start time for it (`ps`, or
   `/proc/uptime` unreadable), the provisional root of a trace cannot be matched
   with the process found under its PID: it is stopped, and started under its
   stable identity, while it runs (`trace.go:207-212`). `RootStopIsItsEnd` says that
   this is the only way, and that the start follows at once.

Weaknesses of the log that follow from what the properties of the passing runs
allow, each named in the definition that allows it and without a run of its own:

- *A process that has ended is put back* (`platform_events_linux.go:115`). Until
  its parent waits for it an ended process is listed in `/proc`, and a snapshot
  takes it in (`snapshot_linux.go:36-46`). A resync after the exit notice
  therefore starts it again in the log, and nothing removes it before a later
  resync does: being waited for raises no notice. `TableExact` of the connector
  allows exactly this entry for a PID that is free (`Right`), and no other.
- *A fork is followed by a replacement* (`endpoint_security_bridge_darwin.m:61`).
  The command of a fork notice is the path of the executable, that of a snapshot
  the argument list (`snapshot_darwin.go:29`), so the first resync after a fork
  sees another command. Of a process that ends between the listing and the
  reading of its arguments the name stands in for the command
  (`snapshot_darwin.go:30`), with the same effect. `TableExact` of the callback-fed
  watch allows both images (`Right`).
- *Native events after the switch to polling* (`bottom.go:121`). The `select` may
  take the error of a failed source before the events it left in the channel.
  `ToldOfSwitch` places the polled events after the line of the switch, not the
  native ones before it.

Observations that are no disagreement with what the repository says, and are
stated as exceptions of the properties or as comments in the modules:

- A scrolled view can go blank when the events it shows are trimmed: the scroll
  position counts from the newest event and is not moved (`BlankOnlyAfterTrim`
  says that nothing else does it).
- The error of the *line* reader is drawn after `Close` (`tui.go:276-280`), which
  switches a restored terminal to the alternate screen again if no frame had
  been drawn, or leaves a frame on it (`TerminalRestored` exempts `lateError`).
- A failed send and its count are two steps. A loss counted after the last
  notice was applied is not told until another notice comes; the timer's
  snapshot makes the table right meanwhile, without a gap in the log.
- Losses in the buffers of ETW itself are counted by Windows and not read.
- An ETW start whose process cannot be read any more gets an identity made from
  the time of the event, which does not differ in form from a stable one; a
  later snapshot stops it and starts the process again. So does Endpoint
  Security with the provisional identities of messages before version 3: only
  the connector renames its entries.

## 5. Proofs

Checked by TLAPS for every value of the constants, under the assumptions the
modules name (`OsAssumption`, `PollingAssumption`, `ConnectorAssumption`,
`CallbackAssumption`, `TraceAssumption`, `RunAssumption`, `UidAssumption`,
`TuiAssumption`; they say of what kind the constants are, and nothing of the code).

**`PollingWatchProofs`.** `Typing`, `LogMatches`, `PidShared` and `Refinement`
(the watcher implements `LifecycleLog`), for any number of PIDs and images,
start tokens or none, failing reads or none, and any error of the boot time.
`LogMatchesTable` is not inductive: that it survives a comparison depends on the
tables being filed by identity with one entry per PID (`TablesSound`), that it
survives a send depends on what is pending: at most one event of a kind per
identity, starts and replacements for entries of the new table and with its
observations, stops for identities it does not have (`PendingSound`). The stop
of a process must count the lifetime its start announced, though its entry is
no longer in the table: `StopsAgree`. That a stopped identity never comes back
(`OneShot`, claimed only with start tokens and no failing reads) needs the
system's side: an identity missing from a finished scan has left, and what has
left has a token smaller than any process its PID will ever be given
(`NeverTwice`). The invariant is their conjunction. The refinement is then one
case per action: `Baseline` is the abstract `Open`, `Send` one of the four
lines, `Cancel` is `Cut`, the rest stutters.

**`WatchRunProofs`.** `OneSourceAtATime`, `ErrorsFindRoom`, `SwitchIsTold` and
`EventsAreKept`, for every capacity of the channel and any number of events. The
invariant has three parts. `Control`: only the backend in use is active, and an
error in the channel means that nobody is, so the channel has room for whoever
comes next. `Telling`: a backend that was never started has sent nothing, so the
gap written at the switch stands before any polled line. `Fifo` and `Accounted`:
the events in the channel are in the order they were sent, which is needed to
see that the one taken out of it is not still in it.

**`ConnectorWatchProofs`, `CallbackWatchProofs`.** `AlwaysSound` of both: the
table holds each PID once, under its own identity, so that `findProcessByPID`
has one answer. A notice removes what its PID had before it puts an entry
(`ReplaceIsFiled`); a resync replaces the table by a snapshot, which has each PID
once because no PID is both in it and still to be read (`NextApart`); renaming
changes identities within one PID. In `CallbackWatchProofs` what is still to be
read is a table of listings, which must name their PID (`TodoFiled`). `Typing`
of the connector adds the types of the queue and the history. `AlwaysReleased`:
a watcher that returned has closed its session, and without an error only when
cancelled.

`ExactWhenTold` of both: the table is right about a PID when nothing is on its
way about it, for any number of PIDs, CPUs and versions, any capacity, with or
without zombies, and however losses, resyncs and the system interleave. What is
right (`Right`): of a running process one entry, with its identity (but for version
2, which has only provisional ones) and its image: the very image for the
connector and ETW, and for Endpoint Security that one or what a notice says in
its place. Of a process that has ended nothing, or, for the connector and
macOS, what a snapshot found of it before it was waited for: its defunct image,
under its own identity, and only where there are zombies. Such an entry may
outlive the zombie (section 4); `GoneIsForgotten` says that it goes in the end. The property looks at the
moment when the queue is empty, the invariant (`RightInv`) at all others:

- `LastTells`: of a PID that lost no notice, the last one that is queued or in
  hand tells how things are. A notice of the past need not; the last one must,
  because every change of a process raises one.
- `TableRight`: where none is left, the table is right. Applying the last one
  makes it so, because `/proc` is read then (or the notice itself describes the
  process), and reading finds what the notice tells of. A process that cannot be
  read has ended, so its notice was not the last.
- `ScanRight`: a scan is right about what it has read if nothing came since, and
  what it has still to read is there to be read. So a finished scan is right
  about every PID that lost no notice since it began, which is what `missing`
  remembers, and adopting it turns `missing` into `missed`.
- `Phases`: no notice is there before the subscription, and one is in hand only
  in the loop. This is where subscribing before the first snapshot is needed.

What is proved of a step is what it does to the last notice about each PID, from
the lemmas of `Queues` (`LastSent`, `LastReceived`) and of `Tables`
(`RemoveAtPid`, `PutAtPid`). TLC checked the invariants on the instances of the
runs, and with two PIDs and zombies, before they were proved.

`GapsAreLosses`: the connector sees a gap exactly when notices of the CPU were
lost since its last one. `CountInv` says for every CPU that the numbers add up:
of two of its notices in the queue with none of it between them, the second has
the number of the first, plus one, plus what was lost between them
(`Adjacent`, `Follows`); so has the first in the queue with respect to the last
one received (`FirstIn`); and the last number, in the queue or received, plus
one, plus what was lost since, is the next number the kernel gives (`UpToDate`).
All of it is modulo the width of the numbers, so the proof starts with
arithmetic: it does not matter when a sum is wrapped (`Plus`), and less than a
whole cycle is never nothing (`Nothing`). Resyncs do not touch `sequences`, and
thread notices count, which is why the sums come out.

**`TraceRunProofs`.** `Typing`, with what control requires (`Control`): nothing is
observed or written before the command is started, and nothing is written after
a write failed. `AlwaysWaited`: no step returns while the command runs.
`Refinement`: the trace implements `LifecycleLog` told by PID, because what is
pending leads from the log to what is observed (`Leads`, `LogFollows`): the lines
of one PID, at most two of them, fit the log one after another, and the log then
holds the PIDs and the first observations of `observed`. `EndExplained`: the
trace ends with nothing observed and nothing pending, or with a gap as the last
line (`Explained`); with `LogFollows` that gives nothing live. `RootStopped`: while
the command runs, its root is what was started, in `observed` and in every
snapshot (`RootStays`: it is not reaped, so its PID is not given out again, and
its birth is what the trace recorded). So a snapshot that finds its start time
matches it, whatever earlier snapshots missed, and a provisional root that is
found without one is stopped by the two lines that start it anew (`RootLines`,
`Restart`); nothing else comes to be pending that would stop it.
`StopsAreEnds`, for every PID whose own reads do not fail, where there are start
tokens (`Sure`): what is observed is never younger than what its PID has
(`NoYounger`), what a finished scan misses has left (`MissedHasLeft`), and what
has left stays away under that identity (`Left`); a stop is written for what was
missed, or for what a younger process of the PID has replaced. No induction over
the descendants is needed: `Selected` is the least set closed under parents, of
which the proofs use only that it lies in the snapshot and holds what is kept.

**`DisplayProofs`.** `AlwaysCurrent` and `AlwaysRestored`, for any events,
searches, orders and terminals; the second needs that an alternate screen was
entered by a frame (`EnteredFirst`), or `Close` would not leave it.
`BlankWhenTrimmed`: the scroll position is zero or less than the number of events
that match, unless one in view was dropped (`ScrollInv`). `moveOlder` stops one
short of that number; whatever changes it otherwise resets the position; an
event that is kept makes it fewer only if the one dropped for it matched, which
is seen by moving every place down by one (an injection, `KeepMatches`). For
this `FilteredEvents` is written by places and not by `SelectSeq` and `SortSeq`,
whose lengths would need an induction. `DisplayTyping` comes with it.
`OnceAtATime`: the invariant relates the queue, the uid being looked up and
`pending`; the proof is about which places of the queue move.

**`Queues`, `Tables`.** What the proofs have in common. `Queues`: what sending and
receiving do to the elements, to the last one in a set (`Held`, `LastOf`), to the
first (`FirstIn`) and to two without another between them (`Adjacent`). `Tables`:
that the functions of `ProcessTable` keep entries under their own identities,
and what they leave under a PID, for records of which only the identity or the
image matters.

**Only model-checked.** Every property with `~>` or `<>`: liveness is out of reach
of TLAPS. Every invariant and action property of a passing run is proved. No
RECURSIVE operator is used anywhere.

## 6. Not modelled

- Log lines, options, completion, version and signals, the release tool:
  sequential code that keeps no state.
- Parsing (`/proc/stat`, netlink framing, ETW records, the copying of Endpoint
  Security messages). A malformed, truncated or overrun batch of netlink
  messages is the overflow case of `ConnectorWatch`: gap and resync.
- Parents, users, terminals and exit codes of events: they decorate lines. The
  trace's parents are modelled, as it selects by them.
- Several messages in one datagram: the connector's notices arrive one by one.
- A replacement between the three reads of one process in `/proc`.
- Columns, widths, the status line and the help of the display. That a quitting
  key ends the run is not stated as liveness: it is the cancellation of
  `WatchRun`, whose `CancelReturns` starts from there.

## 7. Plan

Done, in this order: `ProcessTable`, `OsProcesses`, `LifecycleLog`,
`PollingWatch` and its proofs, `ConnectorWatch`, `WatchRun` and its proofs,
`TraceRun`, `CallbackWatch`, `TuiView`, `UidNames`, and the proofs of these four
and of the connector: first that the tables are sound, then the trace as a
whole, then that the tables are exact, the gaps and the scroll position.

What could follow:

1. `LifecycleLog` restricted to what notices promise (an identity may be
   provisional, and started again after a resync), implemented by
   `ConnectorWatch` and `CallbackWatch`.
2. A theorem on the gaps of the callback-fed watchers, with one sequence and
   with one per kind: they are numbered like the connector's, and lost in two
   places.
3. Larger instances: two CPUs for the connector, version 2 with five notices.
