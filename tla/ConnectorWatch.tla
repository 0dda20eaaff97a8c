---------------------------- MODULE ConnectorWatch ----------------------------
(***************************************************************************)
(* LinuxProcConnectorBackend.Watch (platform_events_linux.go).  The kernel *)
(* queues a notice for every fork, exec and exit on a netlink socket, each *)
(* with a sequence number of the CPU it was raised on; the queue has an    *)
(* end, and notices may be lost.  The watcher applies the notices one by   *)
(* one to its process table, reading /proc for what a notice does not say, *)
(* and reconciles the table with a snapshot now and then, and whenever it  *)
(* finds that a notice was lost.  A notice tells of the past, a read of    *)
(* the present.                                                            *)
(***************************************************************************)
EXTENDS OsProcesses, ProcessTable, Sequences

CONSTANTS Cpus,        \* the CPUs that raise notices
          Blank,       \* the image of a process known from a notice alone
          Skips,       \* may the read of a listed process fail?
          Losses,      \* may a notice be lost without an overflow?
          Capacity,    \* notices the socket holds
          SeqWidth,    \* sequence numbers wrap around at this (2^32)
          MaxNotices   \* bound on the notices the kernel raises

ASSUME ConnectorAssumption ==
    /\ Blank \notin Images \cup {Defunct, Gone}
    /\ Skips \in BOOLEAN /\ Losses \in BOOLEAN
    /\ Capacity \in Nat \ {0}
    /\ SeqWidth \in Nat \ {0, 1}
    /\ MaxNotices \in Nat

VARIABLES socket,     \* notices queued
          overrun,    \* the socket dropped a notice: ENOBUFS is due
          raised,     \* per CPU: notices raised so far
          pc,         \* where the watcher is
          cancelled,  \* ctx
          todo,       \* listed PIDs the running scan has still to read
          next,       \* the snapshot being read
          processes,  \* the watcher's table
          sequences,  \* CPU -> the last sequence number received from it
          batch,      \* the notice received and not yet applied, if any
          needsResync, \* a snapshot is called for, once it is applied
          outbox,     \* sets of events still to be sent, one after another
          line,       \* the log: the last line
          reported,   \* the log: identities started and not stopped since
          missed,     \* (history) PIDs of a lost notice no resync has made up for
          missing,    \* (history) PIDs of notices lost since a scan began
          lost        \* (history) per CPU: lost in a row, modulo SeqWidth
kernelVars == <<osVars, socket, overrun, raised>>
scanVars == <<todo, next>>
noticeVars == <<sequences, batch, needsResync>>
watchVars == <<pc, cancelled, scanVars, noticeVars, processes, outbox>>
logVars == <<line, reported>>
historyVars == <<missed, missing, lost>>
vars == <<kernelVars, watchVars, logVars, historyVars>>

GapEvent == [kind |-> "gap"]

Init ==
    /\ OsInit
    /\ socket = <<>> /\ overrun = FALSE /\ raised = [cpu \in Cpus |-> 0]
    /\ pc = "setup" /\ cancelled = FALSE
    /\ todo = {} /\ next = EmptyTable /\ processes = EmptyTable
    /\ sequences = [cpu \in {} |-> 0] /\ batch = <<>> /\ needsResync = FALSE
    /\ outbox = <<>>
    /\ line = [kind |-> "none"] /\ reported = {}
    /\ missed = {} /\ missing = {} /\ lost = [cpu \in Cpus |-> 0]

-----------------------------------------------------------------------------
\* The kernel.

\* Slip: the snapshot is taken before the socket is bound.
SubscribedLate == pc \in {"loop", "scan"}

Subscribed == pc \notin {"setup", "returned"}

Queued(pid) == \E i \in 1..Len(socket) : socket[i].pid = pid

\* A notice is queued, or lost: because the queue is full, which the next
\* receive call is told, or without a trace but for its sequence number.
\* `after' is history: how many notices of its CPU were lost just before.
Queue(kind, pid, cpu) ==
    /\ Len(socket) < Capacity
    /\ socket' = Append(socket,
          [kind |-> kind, pid |-> pid, stamp |-> clock, cpu |-> cpu,
           sequence |-> raised[cpu] % SeqWidth, after |-> lost[cpu]])
    /\ lost' = [lost EXCEPT ![cpu] = 0]
    /\ UNCHANGED <<overrun, missed, missing>>

Lose(pid, cpu) ==
    /\ \/ Len(socket) = Capacity /\ overrun' = TRUE
       \/ Losses /\ UNCHANGED overrun
    /\ missed' = missed \cup {pid}
    /\ missing' = missing \cup {pid}
    /\ lost' = [lost EXCEPT ![cpu] = (@ + 1) % SeqWidth]
    /\ UNCHANGED socket

Raise(kind, pid) ==
    \E cpu \in Cpus :
        /\ raised[cpu] < MaxNotices
        /\ raised' = [raised EXCEPT ![cpu] = @ + 1]
        /\ IF Subscribed THEN Queue(kind, pid, cpu) \/ Lose(pid, cpu)
                         ELSE UNCHANGED <<socket, overrun, historyVars>>

System ==
    /\ \/ \E pid \in Pids :
             \/ \E image \in Images :
                   \/ Fork(pid, image) /\ Raise("fork", pid)
                   \/ Execute(pid, image) /\ Raise("exec", pid)
             \/ Exit(pid) /\ Raise("exit", pid)
             \/ Running(pid) /\ UNCHANGED osVars /\ Raise("thread", pid)
             \/ Reap(pid) /\ UNCHANGED <<socket, overrun, raised, historyVars>>
       \/ Elapse /\ UNCHANGED <<socket, overrun, raised, historyVars>>
    /\ UNCHANGED <<watchVars, logVars>>

-----------------------------------------------------------------------------
\* Snapshots.  The clock is exact here: PollingWatch looks at its errors.

Identity(pid) == StableId(pid, os[pid].birth)

ReadProcess(pid) == Captured(Identity(pid), os[pid].image, os[pid].birth, clock)

Subscribe ==
    /\ pc = "setup"
    /\ pc' \in {"baseline", "returned"}
    /\ UNCHANGED <<kernelVars, cancelled, scanVars, noticeVars, processes,
                   outbox, logVars, historyVars>>

Idle == pc = "loop" /\ batch = <<>> /\ outbox = <<>>

\* Slip: no snapshot but the first and those a known loss calls for.
TakeSnapshotOnLoss ==
    /\ \/ pc = "baseline" /\ pc' = "first"
       \/ Idle /\ needsResync /\ pc' = "scan"
    /\ todo' = {pid \in Pids : Listed(pid)}
    /\ next' = EmptyTable
    /\ missing' = {}
    /\ UNCHANGED <<kernelVars, cancelled, noticeVars, processes, outbox,
                   logVars, missed, lost>>

\* The initial snapshot, taken when notices are already being queued, the
\* periodic one, and the one that a lost notice calls for.
TakeSnapshot ==
    /\ \/ pc = "baseline" /\ pc' = "first"
       \/ Idle /\ pc' = "scan"
    /\ todo' = {pid \in Pids : Listed(pid)}
    /\ next' = EmptyTable
    /\ missing' = {}
    /\ UNCHANGED <<kernelVars, cancelled, noticeVars, processes, outbox,
                   logVars, missed, lost>>

SnapshotFails ==
    /\ \/ pc = "baseline" /\ pc' = "returned" /\ UNCHANGED <<outbox, needsResync>>
       \/ /\ Idle /\ UNCHANGED pc
          /\ outbox' = <<{GapEvent}>>
          /\ needsResync' = FALSE
    /\ UNCHANGED <<kernelVars, cancelled, scanVars, sequences, batch, processes,
                   logVars, historyVars>>

ReadPid(pid) ==
    /\ pc \in {"first", "scan"}
    /\ pid \in todo /\ Listed(pid)
    /\ todo' = todo \ {pid}
    /\ next' = Put(next, Identity(pid), ReadProcess(pid))
    /\ UNCHANGED <<kernelVars, pc, cancelled, noticeVars, processes, outbox,
                   logVars, historyVars>>

SkipPid(pid) ==
    /\ pc \in {"first", "scan"}
    /\ pid \in todo /\ (Skips \/ ~Listed(pid))
    /\ todo' = todo \ {pid}
    /\ UNCHANGED <<kernelVars, pc, cancelled, next, noticeVars, processes, outbox,
                   logVars, historyVars>>

\* Entries known under a provisional name take the name the snapshot has for
\* them, so that the comparison does not see a stop and a start.
Aligned(table, snapshot) ==
    LET renamed == {id \in DOMAIN snapshot \ DOMAIN table :
                       \E old \in AtPid(table, id.pid) :
                          Provisional(old) /\ SameGeneration(table[old], snapshot[id])}
        former == {old \in DOMAIN table : \E id \in renamed : id.pid = old.pid}
    IN  [id \in (DOMAIN table \ former) \cup renamed |->
            IF id \in renamed
            THEN [table[CHOOSE old \in former : old.pid = id.pid] EXCEPT !.id = id]
            ELSE table[id]]

\* The events emitSnapshotDiff sends, the stops last.
InOrder(events) ==
    SelectSeq(<<{e \in events : e.kind # "stop"}, {e \in events : e.kind = "stop"}>>,
              LAMBDA set : set # {})

\* The table is up to date with a snapshot, except where a notice that is
\* older than a lost one is still to come.
Adopt ==
    /\ todo = {}
    /\ pc \in {"first", "scan"} /\ pc' = "loop"
    /\ missed' = missing \cup {pid \in missed : Queued(pid)}
    /\ needsResync' = FALSE
    /\ IF pc = "first"
       THEN processes' = next /\ UNCHANGED outbox
       ELSE LET previous == Aligned(processes, next) IN
            /\ processes' = PreserveAll(previous, next)
            /\ outbox' = InOrder(DiffEvents(previous, PreserveAll(previous, next)))
    /\ next' = EmptyTable
    /\ UNCHANGED <<kernelVars, cancelled, todo, sequences, batch, logVars,
                   missing, lost>>

-----------------------------------------------------------------------------
\* Notices.

NoProcess == [id |-> "none"]

Find(pid) ==
    IF AtPid(processes, pid) = {} THEN {NoProcess}
                                  ELSE {processes[id] : id \in AtPid(processes, pid)}

Readings(pid) ==
    (IF Listed(pid) THEN {ReadProcess(pid)} ELSE {})
    \cup (IF Skips \/ ~Listed(pid) THEN {NoProcess} ELSE {})

\* Slip: a process that could not be read is filed under what was read of it.
NoImage(notice) ==
    Captured(ConnectorId(notice.pid, notice.stamp), os[notice.pid].image,
             notice.stamp, clock)

\* All that is known of a process that could not be read.
FromNotice(notice) ==
    Captured(ConnectorId(notice.pid, notice.stamp), Blank, notice.stamp, clock)

\* Slip: the entry of the PID's former process is left in the table.
AddBeside(pid, proc) == Put(processes, proc.id, proc)

Replace(pid, proc) == Put(RemoveByPid(processes, pid), proc.id, proc)

ForkNotice(notice, old, read) ==
    LET new == IF read = NoProcess THEN FromNotice(notice) ELSE read
        known == old # NoProcess /\ SameGeneration(old, new)
        proc == IF ~known THEN new
                ELSE IF read = NoProcess THEN old ELSE Preserve(old, read)
    IN  /\ processes' = Replace(notice.pid, proc)
        /\ outbox' = (IF old # NoProcess /\ ~known
                      THEN <<{EventOf("stop", old)}>> ELSE <<>>)
                     \o <<{EventOf("start", proc)}>>

\* Unlike a fork, an exec takes an entry of the same PID to be the same run.
ExecNotice(notice, old, read) ==
    LET proc == IF read = NoProcess
                THEN IF old = NoProcess THEN FromNotice(notice) ELSE old
                ELSE IF old = NoProcess THEN read ELSE Preserve(old, read)
    IN  /\ processes' = Replace(notice.pid, proc)
        /\ outbox' = <<{EventOf("exec", proc)}>>

ExitNotice(notice, old) ==
    LET proc == IF old = NoProcess THEN FromNotice(notice) ELSE old
    IN  /\ processes' = RemoveByPid(processes, notice.pid)
        /\ outbox' = <<{EventOf("stop", proc)}>>

\* Threads have notices of their own, which count only for the sequence.
Apply(notice) ==
    \/ /\ notice.kind = "fork"
       /\ \E old \in Find(notice.pid), read \in Readings(notice.pid) :
             ForkNotice(notice, old, read)
    \/ /\ notice.kind = "exec"
       /\ \E old \in Find(notice.pid), read \in Readings(notice.pid) :
             ExecNotice(notice, old, read)
    \/ /\ notice.kind = "exit"
       /\ \E old \in Find(notice.pid) : ExitNotice(notice, old)
    \/ /\ notice.kind = "thread"
       /\ UNCHANGED <<processes, outbox>>

ApplyNotice ==
    /\ batch # <<>> /\ outbox = <<>>
    /\ Apply(Head(batch))
    /\ batch' = <<>>
    /\ UNCHANGED <<kernelVars, pc, cancelled, scanVars, sequences, needsResync,
                   logVars, historyVars>>

\* Slip: the sequence is expected to go on for ever.
SequenceGapUnbounded(notice) ==
    /\ notice.cpu \in DOMAIN sequences
    /\ notice.sequence # sequences[notice.cpu] + 1

\* Is the notice not the successor of the last one of its CPU?
SequenceGap(notice) ==
    /\ notice.cpu \in DOMAIN sequences
    /\ notice.sequence # (sequences[notice.cpu] + 1) % SeqWidth

Receive ==
    /\ Idle /\ ~needsResync
    /\ ~overrun /\ socket # <<>>
    /\ socket' = Tail(socket)
    /\ batch' = <<Head(socket)>>
    /\ sequences' = Put(sequences, Head(socket).cpu, Head(socket).sequence)
    /\ needsResync' = SequenceGap(Head(socket))
    /\ outbox' = IF SequenceGap(Head(socket)) THEN <<{GapEvent}>> ELSE <<>>
    /\ UNCHANGED <<osVars, overrun, raised, pc, cancelled, scanVars, processes,
                   logVars, historyVars>>

\* Slip: the overflow is made up for by a snapshot, but not reported.
ReceiveOverrunSilently ==
    /\ Idle /\ ~needsResync
    /\ overrun
    /\ overrun' = FALSE
    /\ needsResync' = TRUE
    /\ UNCHANGED <<osVars, socket, raised, pc, cancelled, scanVars, sequences,
                   batch, processes, outbox, logVars, historyVars>>

\* ENOBUFS comes before the notices that are still queued.
ReceiveOverrun ==
    /\ Idle /\ ~needsResync
    /\ overrun
    /\ overrun' = FALSE
    /\ outbox' = <<{GapEvent}>>
    /\ needsResync' = TRUE
    /\ UNCHANGED <<osVars, socket, raised, pc, cancelled, scanVars, sequences,
                   batch, processes, logVars, historyVars>>

\* Any other error of the socket ends the watch.
ReceiveFails ==
    /\ Idle /\ ~needsResync
    /\ pc' = "returned"
    /\ UNCHANGED <<kernelVars, cancelled, scanVars, noticeVars, processes, outbox,
                   logVars, historyVars>>

-----------------------------------------------------------------------------
\* Sending, and the end.

\* The first event to be sent is taken from the first set.
Dequeue(event) ==
    /\ outbox # <<>> /\ event \in Head(outbox)
    /\ outbox' = IF Head(outbox) = {event} THEN Tail(outbox)
                 ELSE <<Head(outbox) \ {event}>> \o Tail(outbox)
    /\ UNCHANGED <<kernelVars, pc, cancelled, scanVars, noticeVars, processes,
                   historyVars>>

Send(event) ==
    /\ Dequeue(event)
    /\ line' = event
    /\ reported' = CASE event.kind = "start" -> reported \cup {event.id}
                     [] event.kind = "stop" -> reported \ {event.id}
                     [] OTHER -> reported

Drop(event) ==
    /\ cancelled
    /\ Dequeue(event)
    /\ UNCHANGED logVars

Cancel ==
    /\ pc # "returned" /\ ~cancelled
    /\ cancelled' = TRUE
    /\ UNCHANGED <<kernelVars, pc, scanVars, noticeVars, processes, outbox,
                   logVars, historyVars>>

Return ==
    /\ Idle /\ ~needsResync /\ cancelled
    /\ pc' = "returned"
    /\ UNCHANGED <<kernelVars, cancelled, scanVars, noticeVars, processes, outbox,
                   logVars, historyVars>>

Watch ==
    \/ Subscribe \/ TakeSnapshot \/ SnapshotFails \/ Adopt
    \/ \E pid \in todo : ReadPid(pid) \/ SkipPid(pid)
    \/ Receive \/ ReceiveOverrun \/ ReceiveFails \/ ApplyNotice
    \/ outbox # <<>> /\ \E event \in Head(outbox) : Send(event) \/ Drop(event)
    \/ Cancel \/ Return

Next == Watch \/ System

Spec == Init /\ [][Next]_vars

(***************************************************************************)
(* The goroutine runs on, its reader takes what is sent, the resync timer  *)
(* expires again and again (it is looked at before the socket is), and     *)
(* snapshots do not for ever fail.                                         *)
(***************************************************************************)
Fairness ==
    /\ WF_vars(Subscribe) /\ SF_vars(TakeSnapshot)
    /\ WF_vars(\E pid \in todo : ReadPid(pid) \/ SkipPid(pid))
    /\ WF_vars(Adopt) /\ WF_vars(ApplyNotice)
    /\ SF_vars(Receive \/ ReceiveOverrun)
    /\ WF_vars(outbox # <<>> /\ \E event \in Head(outbox) : Send(event) \/ Drop(event))
    /\ SF_vars(Return)

FairSpec == Spec /\ Fairness

-----------------------------------------------------------------------------
Ids == [source : Sources, pid : Pids, token : Nat]

IsTable(table) ==
    /\ table = [id \in DOMAIN table |-> table[id]]
    /\ DOMAIN table \subseteq Ids
    /\ \A id \in DOMAIN table :
          table[id] \in [id : Ids, image : Images \cup {Defunct, Blank},
                        started : Nat, captured : Nat]

Notices == [kind : {"fork", "exec", "exit", "thread"}, pid : Pids, stamp : Nat,
            cpu : Cpus, sequence : Nat, after : Nat]

TypeOK ==
    /\ OsTypeOK
    /\ socket \in Seq(Notices) /\ Len(socket) =< Capacity
    /\ batch \in Seq(Notices) /\ Len(batch) =< 1
    /\ overrun \in BOOLEAN /\ cancelled \in BOOLEAN /\ needsResync \in BOOLEAN
    /\ raised \in [Cpus -> Nat] /\ lost \in [Cpus -> Nat]
    /\ pc \in {"setup", "baseline", "first", "loop", "scan", "returned"}
    /\ todo \subseteq Pids
    /\ missed \subseteq Pids /\ missing \subseteq Pids
    /\ IsTable(next) /\ IsTable(processes)

\* findProcessByPID takes the first entry of a PID it comes across: it is
\* well defined because no PID is ever held twice, whatever notices and
\* snapshots of whatever age are applied to the table.
TableSound == Sound(processes)

\* Nothing is on its way that would tell the watcher of a change of pid.
Untold(pid) ==
    /\ pid \notin missed
    /\ ~Queued(pid)
    /\ \A i \in 1..Len(batch) : batch[i].pid # pid

\* The table knows a running process under its own identity, once, and with
\* its current image.  Of a process that has ended it knows nothing, unless
\* its parent has yet to wait for it, or had when a snapshot last found it:
\* snapshots list zombies, so a resync puts an ended process back, and being
\* waited for raises no notice.
Right(table, pid) ==
    /\ Running(pid) => /\ AtPid(table, pid) = {Identity(pid)}
                       /\ table[Identity(pid)].image = os[pid].image
    /\ ~Running(pid) => \A id \in AtPid(table, pid) :
                           Zombies /\ id = Identity(pid) /\ table[id].image = Defunct

\* When the notices about a PID are used up, the table is right about it,
\* however notices, resyncs and the system were interleaved.  It is so from
\* the first snapshot on because the watcher subscribed before it took it.
TableExact ==
    pc \in {"loop", "scan"} /\ ~Skips =>
        \A pid \in Pids : Untold(pid) => Right(processes, pid)

\* A sequence gap is found exactly when notices of the CPU were lost since
\* its last one, over wrap-arounds, thread notices and resyncs; only the
\* loss of a whole cycle, or before the first notice of a CPU, goes unseen.
GapsTellLosses ==
    [][batch = <<>> /\ batch' # <<>> =>
          (needsResync' <=> /\ batch'[1].cpu \in DOMAIN sequences
                            /\ batch'[1].after # 0)]_vars

\* Every name a process may have in the table.
Names == {StableId(pid, birth) : pid \in Pids, birth \in 1..MaxClock}
         \cup {ConnectorId(pid, stamp) : pid \in Pids, stamp \in 1..MaxClock}

\* An entry that names no listed process does not stay in the table, even if
\* the notice of the exit was lost, or a stale notice brought the entry back.
GoneIsForgotten ==
    \A id \in Names :
        (id \in DOMAIN processes /\ ~(Listed(id.pid) /\ id = Identity(id.pid))) ~>
            (id \notin DOMAIN processes \/ cancelled \/ pc = "returned")

\* An overflow of the socket does not go unnoticed: the gap is the next event
\* to be sent, and a resync is called for.
OverrunIsReported ==
    overrun ~> \/ ~overrun /\ outbox = <<{GapEvent}>> /\ needsResync
               \/ cancelled \/ pc = "returned"

\* Sooner or later every process that goes on running is in the table, even
\* if the notice of its fork was lost.
RunningIsKnown ==
    \A pid \in Pids :
        Running(pid) ~> \/ ~Running(pid)
                        \/ Identity(pid) \in DOMAIN processes
                        \/ cancelled \/ pc = "returned"

\* A process is started in the log once: not again while it is live (SPEC.md:
\* Bottom "logs process starts").
StartedOnce ==
    outbox # <<>> =>
        \A event \in Head(outbox) : event.kind = "start" => event.id \notin reported
=============================================================================
