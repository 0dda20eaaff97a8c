---------------------------- MODULE CallbackWatch ----------------------------
(***************************************************************************)
(* The two watchers that are called back by the system: windowsETWBackend  *)
(* (platform_events_windows_etw.go, snapshot_windows.go) and               *)
(* macOSEndpointBackend (platform_events_darwin_endpoint.go).  A callback  *)
(* on a thread of the system puts each notice into a bounded channel and   *)
(* counts those that find it full; Watch applies the notices to its table  *)
(* and reconciles the table with snapshots.  The two differ in what a      *)
(* notice says, in what is read besides, and in the order of applying a    *)
(* notice and making up for a loss.  When an entry was first observed      *)
(* (`captured') is left out here.                                          *)
(***************************************************************************)
EXTENDS OsProcesses, ProcessTable, Sequences

CONSTANTS Versions,    \* sources: Etw, or the version of Endpoint Security
          Blank,       \* the image of a process of which it cannot be read
          Says,        \* what an Endpoint Security notice says of an image
          Skips,       \* may reading a process that runs fail?
          Buffers,     \* notices the system holds back for the callback
          Capacity,    \* notices the channel holds (4096)
          First,       \* the number of the first notice
          MaxNotices   \* bound on the notices the system raises, by version

Etw == 0

ASSUME CallbackAssumption ==
    /\ Versions \subseteq {Etw, 2, 3, 4}
    /\ Blank \notin Images \cup {Defunct, Gone}
    /\ Says \in [{"fork", "exec"} -> [Images -> Images]]
    /\ Skips \in BOOLEAN
    /\ Buffers \in Nat \ {0} /\ Capacity \in Nat \ {0}
    /\ First \in Nat /\ MaxNotices \in [Versions -> Nat]

VARIABLES version,    \* the source that is watched
          session,    \* the tracing session or client of the system
          ended,      \* ETW: ProcessTrace returned, traceResult is filled
          raised,     \* notices raised, of each kind and of all kinds
          buffered,   \* notices raised and not yet called back
          notices,    \* handler.notices
          lost,       \* handler.lost - reportedLost
          dropping,   \* the callback found the channel full, has yet to count
          pc,         \* where Watch is
          cancelled,  \* ctx
          result,     \* what Watch returned
          todo,       \* the listed PIDs of a snapshot that are yet to be read
          next,       \* the snapshot
          processes,  \* the table of Watch
          sequences,  \* the last sequence numbers, of each kind and of all
          batch,      \* the notice received and not yet applied, if any
          outbox,     \* sets of events still to be sent, one after another
          missed,     \* (history) PIDs of a lost notice not yet made up for
          missing     \* (history) PIDs of notices lost during a scan
sourceVars == <<osVars, raised, buffered>>
callbackVars == <<notices, lost, dropping>>
sessionVars == <<version, session, ended>>
scanVars == <<todo, next>>
historyVars == <<missed, missing>>
vars == <<sourceVars, callbackVars, sessionVars, pc, cancelled, result, scanVars,
          processes, sequences, batch, outbox, historyVars>>

Kinds == {"fork", "exec", "exit"}

GapEvent == [kind |-> "gap"]

Init ==
    /\ OsInit
    /\ version \in Versions /\ session = "none" /\ ended = FALSE
    /\ raised = [kind \in Kinds \cup {"all"} |-> 0] /\ buffered = <<>>
    /\ notices = <<>> /\ lost = 0 /\ dropping = FALSE
    /\ pc = "open" /\ cancelled = FALSE /\ result = "none"
    /\ todo = EmptyTable /\ next = EmptyTable /\ processes = EmptyTable
    /\ sequences = [kind \in Kinds \cup {"all"} |-> 0]
    /\ batch = <<>> /\ outbox = <<>>
    /\ missed = {} /\ missing = {}

-----------------------------------------------------------------------------
\* The system.  Version 4 of Endpoint Security numbers all notices in one
\* sequence, older ones those of each kind.  Notices that find the buffers
\* full are lost, which only a gap in the numbers tells, and ETW has none.

Numbering(kind) == IF version \in {2, 3} THEN kind ELSE "all"

Scanning == pc \in {"first", "scan"}

Miss(pid) ==
    /\ missed' = missed \cup {pid}
    /\ missing' = IF Scanning THEN missing \cup {pid} ELSE missing

\* Slip: the session is opened after the first snapshot.
SubscribedLate == session = "open" /\ pc \notin {"baseline", "first"}

Subscribed == session = "open"

Raise(kind, pid, birth, image) ==
    IF ~Subscribed THEN UNCHANGED <<raised, buffered, historyVars>>
    ELSE /\ raised["all"] < MaxNotices[version]
         /\ raised' = [k \in DOMAIN raised |->
                IF k \in {"all", kind} THEN raised[k] + 1 ELSE raised[k]]
         /\ IF Len(buffered) < Buffers
            THEN /\ buffered' = Append(buffered,
                       [kind |-> kind, pid |-> pid, stamp |-> clock,
                        birth |-> birth, image |-> image,
                        sequence |-> IF version = Etw THEN 0
                                     ELSE First + raised[Numbering(kind)]])
                 /\ UNCHANGED historyVars
            ELSE Miss(pid) /\ UNCHANGED buffered

\* Windows has no exec: a process keeps its image; nor does it list a process
\* that has ended.
System ==
    /\ \/ \E pid \in Pids :
             \/ \E image \in Images :
                   \/ Fork(pid, image) /\ Raise("fork", pid, clock, image)
                   \/ /\ version # Etw
                      /\ Execute(pid, image)
                      /\ Raise("exec", pid, os[pid].birth, image)
             \/ /\ Exit(pid)
                /\ version = Etw => os'[pid].image = Gone
                /\ Raise("exit", pid, os[pid].birth, os[pid].image)
             \/ Reap(pid) /\ UNCHANGED <<raised, buffered, historyVars>>
       \/ Elapse /\ UNCHANGED <<raised, buffered, historyVars>>
    /\ UNCHANGED <<callbackVars, sessionVars, pc, cancelled, result, scanVars,
                   processes, sequences, batch, outbox>>

-----------------------------------------------------------------------------
\* The callback: a send that does not wait, or a count, in two steps.

Looping == pc \in {"loop", "list", "scan", "apply", "check"}

\* ETW calls back while ProcessTrace runs, which Watch starts after its first
\* snapshot; Endpoint Security from the subscription on.
CallsBack == session = "open" /\ (version = Etw => Looping /\ ~ended)

Callback ==
    /\ CallsBack /\ ~dropping /\ buffered # <<>>
    /\ buffered' = Tail(buffered)
    /\ IF Len(notices) < Capacity
       THEN /\ notices' = Append(notices, Head(buffered))
            /\ UNCHANGED <<dropping, historyVars>>
       ELSE /\ dropping' = TRUE
            /\ Miss(Head(buffered).pid)
            /\ UNCHANGED notices
    /\ UNCHANGED <<osVars, raised, lost, sessionVars, pc, cancelled, result,
                   scanVars, processes, sequences, batch, outbox>>

CountLost ==
    /\ dropping
    /\ dropping' = FALSE
    /\ lost' = lost + 1
    /\ UNCHANGED <<sourceVars, notices, sessionVars, pc, cancelled, result,
                   scanVars, processes, sequences, batch, outbox, historyVars>>

\* ProcessTrace fails, or returns because someone else stopped the session.
TraceEnds ==
    /\ version = Etw /\ Looping /\ ~ended
    /\ ended' = TRUE
    /\ UNCHANGED <<sourceVars, callbackVars, version, session, pc, cancelled,
                   result, scanVars, processes, sequences, batch, outbox,
                   historyVars>>

-----------------------------------------------------------------------------
\* Opening and snapshots.

Identity(pid) == StableId(pid, os[pid].birth)

\* The handler is registered before anything can call it back.  An ETW session
\* that was started but cannot be opened for reading is closed again.
Open ==
    /\ pc = "open"
    /\ \/ session' = "open" /\ pc' = "baseline" /\ UNCHANGED result
       \/ /\ session' \in IF version = Etw THEN {"none", "closed"} ELSE {"none"}
          /\ pc' = "returned" /\ result' = "failed"
    /\ UNCHANGED <<sourceVars, callbackVars, version, ended, cancelled, scanVars,
                   processes, sequences, batch, outbox, historyVars>>

\* The system lists its processes at once.  The list of macOS has their start
\* times, that of Windows only a name that stands for the image.
Listing(pid) ==
    IF version = Etw THEN Captured(StableId(pid, 0), Blank, 0, 0)
                     ELSE Captured(Identity(pid), Blank, os[pid].birth, 0)

TakeSnapshot ==
    /\ outbox = <<>>
    /\ \/ pc = "baseline" /\ pc' = "first"
       \/ pc = "list" /\ pc' = "scan"
    /\ todo' = [pid \in {p \in Pids : Listed(p)} |-> Listing(pid)]
    /\ UNCHANGED <<sourceVars, callbackVars, sessionVars, cancelled, result, next,
                   processes, sequences, batch, outbox, historyVars>>

\* Slip: ES returns and leaves its client open.
BaselineFailsOpen ==
    /\ pc = "baseline" /\ pc' = "returned"
    /\ session' = IF version = Etw THEN "closed" ELSE session
    /\ result' = "failed"

BaselineFails ==
    /\ pc = "baseline" /\ pc' = "returned"
    /\ session' = "closed"
    /\ result' = "failed"

\* A snapshot that fails, at whatever place, leaves nothing behind.
SnapshotFails ==
    /\ outbox = <<>>
    /\ \/ BaselineFails /\ UNCHANGED outbox
       \/ /\ pc = "list" /\ pc' = IF batch = <<>> THEN "loop" ELSE "apply"
          /\ outbox' = <<{GapEvent}>>
          /\ UNCHANGED <<session, result>>
    /\ UNCHANGED <<sourceVars, callbackVars, version, ended, cancelled, scanVars,
                   processes, sequences, batch, historyVars>>

\* What can be read of a PID by now, which may be of another process than the
\* one that was listed, or nothing: macOS keeps no arguments of a zombie.
Reading(pid, listing) ==
    (IF ~Running(pid) THEN {} ELSE
     IF version = Etw THEN {Captured(Identity(pid), os[pid].image, os[pid].birth, 0)}
                      ELSE {[listing EXCEPT !.image = os[pid].image]})
    \cup (IF Skips \/ ~Running(pid) THEN {listing} ELSE {})

ReadPid(pid) ==
    /\ Scanning
    /\ \E proc \in Reading(pid, todo[pid]) : next' = Put(next, proc.id, proc)
    /\ todo' = Without(todo, {pid})
    /\ UNCHANGED <<sourceVars, callbackVars, sessionVars, pc, cancelled, result,
                   processes, sequences, batch, outbox, historyVars>>

\* The events emitSnapshotDiff sends, the stops last.
InOrder(events) ==
    SelectSeq(<<{e \in events : e.kind # "stop"}, {e \in events : e.kind = "stop"}>>,
              LAMBDA set : set # {})

Waiting(pid) ==
    \E queue \in {buffered, notices, batch} :
        \E i \in 1..Len(queue) : queue[i].pid = pid

\* Unlike on Linux, an entry under a provisional name is not renamed: it is
\* stopped, and started under the name the snapshot has.
Adopt ==
    /\ DOMAIN todo = {}
    /\ IF pc = "first"
       THEN pc' = "loop" /\ processes' = next /\ UNCHANGED outbox
       ELSE /\ pc = "scan" /\ pc' = IF batch = <<>> THEN "loop" ELSE "apply"
            /\ processes' = PreserveAll(processes, next)
            /\ outbox' = InOrder(DiffEvents(processes, PreserveAll(processes, next)))
    /\ next' = EmptyTable
    /\ missed' = missing \cup {pid \in missed : Waiting(pid)}
    /\ missing' = {}
    /\ UNCHANGED <<sourceVars, callbackVars, sessionVars, cancelled, result, todo,
                   sequences, batch>>

-----------------------------------------------------------------------------
\* Notices.

NoProcess == [id |-> "none"]

Find(pid) ==
    IF AtPid(processes, pid) = {} THEN {NoProcess}
                                  ELSE {processes[id] : id \in AtPid(processes, pid)}

\* "es:pid:version" or "etw:pid:time".
NoticeId(notice) ==
    [source |-> IF version = Etw THEN "etw" ELSE "es",
     pid |-> notice.pid, token |-> notice.stamp]

\* A time when no process was born: that of a notice is never exactly the one
\* the system remembers of the start.
EventTime(notice) == MaxClock + notice.stamp

\* The command of an exec notice is made of the arguments; a fork or an exit
\* notice has the path of the executable in their place.
Said(notice) == Says[IF notice.kind = "exec" THEN "exec" ELSE "fork"][notice.image]

\* What a notice says of its process (Endpoint Security, from the notice
\* alone; messages before version 3 lack the start time), or what is read for
\* it (ETW).  The name made from the time of an ETW notice looks like a
\* stable one.
Described(notice) ==
    IF version = 2 THEN {Captured(NoticeId(notice), Said(notice), 0, 0)}
    ELSE IF version # Etw
    THEN {Captured(StableId(notice.pid, notice.birth), Said(notice), notice.birth, 0)}
    ELSE Reading(notice.pid,
            Captured(StableId(notice.pid, EventTime(notice)), Blank, EventTime(notice), 0))

\* Slip: the entry of the PID's former process is left in the table.
AddBeside(pid, proc) == Put(processes, proc.id, proc)

Replace(pid, proc) == Put(RemoveByPid(processes, pid), proc.id, proc)

StartNotice(notice, old, new) ==
    LET known == old # NoProcess /\ SameGeneration(old, new)
        proc == IF known THEN Preserve(old, new) ELSE new
    IN  /\ processes' = Replace(notice.pid, proc)
        /\ outbox' = (IF old # NoProcess /\ ~known
                      THEN <<{EventOf("stop", old)}>> ELSE <<>>)
                     \o <<{EventOf("start", proc)}>>

ExecNotice(notice, old, new) ==
    LET proc == IF old = NoProcess THEN new ELSE Preserve(old, new)
    IN  /\ processes' = Replace(notice.pid, proc)
        /\ outbox' = <<{EventOf("exec", proc)}>>

\* Nothing is read for an ETW notice of an end.
StopNotice(notice, old) ==
    LET unknown == IF version = Etw
                   THEN Captured(NoticeId(notice), Blank, EventTime(notice), 0)
                   ELSE CHOOSE proc \in Described(notice) : TRUE
    IN  /\ processes' = RemoveByPid(processes, notice.pid)
        /\ outbox' = <<{EventOf("stop", IF old = NoProcess THEN unknown ELSE old)}>>

Apply(notice) ==
    \E old \in Find(notice.pid) :
        \/ /\ notice.kind = "fork"
           /\ \E new \in Described(notice) : StartNotice(notice, old, new)
        \/ /\ notice.kind = "exec"
           /\ \E new \in Described(notice) : ExecNotice(notice, old, new)
        \/ notice.kind = "exit" /\ StopNotice(notice, old)

ApplyNotice ==
    /\ pc = "apply" /\ outbox = <<>>
    /\ Apply(Head(batch))
    /\ batch' = <<>> /\ pc' = "check"
    /\ UNCHANGED <<sourceVars, callbackVars, sessionVars, cancelled, result,
                   scanVars, sequences, historyVars>>

\* Slip: ES makes up for a loss without the channel's count.
CheckLostOfEtw ==
    /\ pc = "check" /\ outbox = <<>>
    /\ IF lost > 0 /\ version = Etw
       THEN lost' = 0 /\ outbox' = <<{GapEvent}>> /\ pc' = "list"
       ELSE pc' = "loop" /\ UNCHANGED <<lost, outbox>>
    /\ UNCHANGED <<sourceVars, notices, dropping, sessionVars, cancelled, result,
                   scanVars, processes, sequences, batch, historyVars>>

CheckLost ==
    /\ pc = "check" /\ outbox = <<>>
    /\ IF lost > 0
       THEN lost' = 0 /\ outbox' = <<{GapEvent}>> /\ pc' = "list"
       ELSE pc' = "loop" /\ UNCHANGED <<lost, outbox>>
    /\ UNCHANGED <<sourceVars, notices, dropping, sessionVars, cancelled, result,
                   scanVars, processes, sequences, batch, historyVars>>

-----------------------------------------------------------------------------
\* The select of the loop takes any case that is ready.

Selecting == pc = "loop" /\ outbox = <<>>

\* 0 stands for no number, in a notice and in the memory of the last one.
SequenceGap(notice) ==
    LET previous == sequences[Numbering(notice.kind)] IN
    /\ notice.sequence # 0
    /\ previous # 0
    /\ notice.sequence # previous + 1

\* A gap calls for a snapshot before the notice that showed it is applied.
Receive ==
    /\ Selecting /\ notices # <<>>
    /\ notices' = Tail(notices)
    /\ batch' = <<Head(notices)>>
    /\ IF SequenceGap(Head(notices))
       THEN pc' = "list" /\ outbox' = <<{GapEvent}>>
       ELSE pc' = "apply" /\ UNCHANGED outbox
    /\ sequences' = IF Head(notices).sequence = 0 THEN sequences
                    ELSE [sequences EXCEPT
                             ![Numbering(Head(notices).kind)] = Head(notices).sequence]
    /\ UNCHANGED <<sourceVars, lost, dropping, sessionVars, cancelled, result,
                   scanVars, processes, historyVars>>

\* Slip: the timer's snapshot is taken only after a loss was counted.
TickAfterLoss ==
    /\ Selecting /\ lost > 0
    /\ pc' = "list"
    /\ UNCHANGED <<sourceVars, callbackVars, sessionVars, cancelled, result,
                   scanVars, processes, sequences, batch, outbox, historyVars>>

Tick ==
    /\ Selecting
    /\ pc' = "list"
    /\ UNCHANGED <<sourceVars, callbackVars, sessionVars, cancelled, result,
                   scanVars, processes, sequences, batch, outbox, historyVars>>

\* A session that cannot be closed makes the watch fail even if cancelled.
\* What nothing can reach any more is forgotten.
Return ==
    /\ Selecting /\ (cancelled \/ ended)
    /\ pc' = "returned" /\ session' = "closed"
    /\ result' \in IF cancelled THEN {"cancelled", "failed"} ELSE {"failed"}
    /\ processes' = EmptyTable /\ buffered' = <<>> /\ notices' = <<>>
    /\ UNCHANGED <<osVars, raised, lost, dropping, version, ended, cancelled,
                   scanVars, sequences, batch, outbox, historyVars>>

\* An event is sent, or dropped once the watch is cancelled.
Send(event) ==
    /\ outbox # <<>> /\ event \in Head(outbox)
    /\ outbox' = IF Head(outbox) = {event} THEN Tail(outbox)
                 ELSE <<Head(outbox) \ {event}>> \o Tail(outbox)
    /\ UNCHANGED <<sourceVars, callbackVars, sessionVars, pc, cancelled, result,
                   scanVars, processes, sequences, batch, historyVars>>

Cancel ==
    /\ pc # "returned" /\ ~cancelled
    /\ cancelled' = TRUE
    /\ UNCHANGED <<sourceVars, callbackVars, sessionVars, pc, result, scanVars,
                   processes, sequences, batch, outbox, historyVars>>

SendSome == outbox # <<>> /\ \E event \in Head(outbox) : Send(event)

Watch ==
    \/ Open \/ TakeSnapshot \/ SnapshotFails \/ Adopt
    \/ \E pid \in DOMAIN todo : ReadPid(pid)
    \/ Receive \/ ApplyNotice \/ CheckLost \/ Tick \/ SendSome
    \/ Cancel \/ Return

Next == Watch \/ Callback \/ CountLost \/ TraceEnds \/ System

Spec == Init /\ [][Next]_vars

(***************************************************************************)
(* Watch runs on, what it sends is taken, select does not for ever pass    *)
(* over a case that is ready, and snapshots do not for ever fail.          *)
(***************************************************************************)
Fairness ==
    /\ WF_vars(Open) /\ SF_vars(TakeSnapshot) /\ WF_vars(Adopt)
    /\ WF_vars(\E pid \in DOMAIN todo : ReadPid(pid))
    /\ SF_vars(Receive) /\ SF_vars(Tick) /\ SF_vars(Return)
    /\ WF_vars(ApplyNotice) /\ WF_vars(CheckLost) /\ WF_vars(SendSome)

FairSpec == Spec /\ Fairness

-----------------------------------------------------------------------------
\* findProcessByPID takes the first entry of a PID it comes across: it is well
\* defined because every entry is filed under its own identity and no PID is
\* held twice, whatever notices and snapshots of whatever age are applied.
TableSound == Sound(processes)

\* Nothing is on its way that would tell the watcher of a change of pid.
Untold(pid) == pid \notin missed /\ ~Waiting(pid)

\* What the table may hold for an image: what a snapshot reads of it or, until
\* the next snapshot, what the last notice of Endpoint Security said.
Versed(image) ==
    IF version = Etw THEN {image}
    ELSE {image, Says["fork"][image], Says["exec"][image]}

\* The table has one entry for a running process, with its current image and,
\* where notices give start times, its identity.  Of a process that has ended
\* it has none, unless its parent has yet to wait for it, or had when a
\* snapshot of macOS last listed it: being waited for raises no notice.
Right(table, pid) ==
    /\ Running(pid) =>
          \E id \in AtPid(table, pid) :
             /\ AtPid(table, pid) = {id}
             /\ table[id].image \in Versed(os[pid].image)
             /\ version # 2 => id = Identity(pid)
    /\ ~Running(pid) =>
          \A id \in AtPid(table, pid) :
             /\ Zombies /\ version # Etw
             /\ id = Identity(pid) /\ table[id].image = Blank

\* When the notices about a PID are used up, the table is right about it,
\* though a notice may be applied before or after the snapshot that makes up
\* for the loss it showed.
TableExact ==
    Looping /\ ~Skips => \A pid \in Pids : Untold(pid) => Right(processes, pid)

\* However Watch ends, the session it opened is closed, and only a cancelled
\* watch ends without an error: the run loop falls back on nothing else.
Released ==
    pc = "returned" => session # "open" /\ (result = "failed" \/ cancelled)

\* A dropped notice that was counted while others are queued is reported as a
\* gap (SPEC.md "report sequence or queue losses as gaps"), though the count
\* is looked at only after a notice was applied.
LossIsReported ==
    (lost > 0 /\ notices # <<>>) ~>
        (lost = 0 /\ outbox = <<{GapEvent}>>) \/ cancelled \/ pc = "returned"

\* An entry that names no listed process does not stay in the table: a lost
\* notice of an end, a late notice of a start, or a process that could not be
\* read again, is made up for by the timer's snapshots.
Stale(pid) ==
    \E id \in AtPid(processes, pid) : ~(Listed(pid) /\ id = Identity(pid))

GoneIsForgotten ==
    \A pid \in Pids : Stale(pid) ~> ~Stale(pid) \/ cancelled \/ pc = "returned"
=============================================================================
