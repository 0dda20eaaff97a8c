----------------------------- MODULE PollingWatch -----------------------------
(***************************************************************************)
(* PollingBackend.Watch (backend_poll.go) over the process snapshots of    *)
(* snapshot_linux.go, or of `ps' (snapshot.go) when identities have no     *)
(* start token.  A snapshot is not atomic: the PIDs are listed first and   *)
(* then read one by one while the system goes on.  Two successive tables   *)
(* are compared and the differences sent, one event at a time, until the   *)
(* context is cancelled.                                                   *)
(***************************************************************************)
EXTENDS OsProcesses, ProcessTable

CONSTANTS Tokened,   \* do identities carry a start token?
          Skips,     \* may the read of a listed process fail?
          Offsets    \* what an estimate of the boot time may be wrong by, counted
                     \* from the smallest error there is

NoClock == -1        \* the boot time could not be read

ASSUME PollingAssumption ==
    /\ Tokened \in BOOLEAN
    /\ Skips \in BOOLEAN
    /\ Offsets \subseteq Nat \cup {NoClock}

VARIABLES pc,        \* "idle", "scan" or "returned"
          begun,     \* has the initial snapshot been taken?
          cancelled, \* ctx
          offset,    \* error of the boot time read for the running scan
          todo,      \* listed PIDs the running scan has still to read
          next,      \* the snapshot being read
          previous,  \* the last complete one
          pending,   \* events of the last comparison not yet sent
          reported,  \* the log: identity -> first observation, while live
          ended,     \* the log: identities whose Stop was written
          line       \* the log: the last line
watchVars == <<pc, begun, cancelled, offset, todo, next, previous, pending>>
logVars == <<reported, ended, line>>
vars == <<osVars, watchVars, logVars>>

FirstOf(proc) == [started |-> proc.started, captured |-> proc.captured]

GapEvent == [kind |-> "gap"]

Init ==
    /\ OsInit
    /\ pc = "idle" /\ begun = FALSE /\ cancelled = FALSE
    /\ offset \in Offsets /\ todo = {} /\ next = EmptyTable
    /\ previous = EmptyTable /\ pending = {}
    /\ reported = EmptyTable /\ ended = {} /\ line = [kind |-> "none"]

-----------------------------------------------------------------------------
\* What one process is read as.  A start time that lies more than a second
\* in the future is taken for an error and left out.
StartedAt(birth) ==
    IF ~Tokened \/ offset = NoClock \/ birth + offset > clock + 1
    THEN 0 ELSE birth + offset

Identity(pid) == StableId(pid, IF Tokened THEN os[pid].birth ELSE 0)

ReadProcess(pid) ==
    Captured(Identity(pid), os[pid].image, StartedAt(os[pid].birth), clock)

\* ReadProcessSnapshot: at once for the baseline, at each tick from then on.
TakeSnapshot ==
    /\ pc = "idle" /\ pending = {}
    /\ pc' = "scan"
    /\ offset' \in Offsets
    /\ todo' = {pid \in Pids : Listed(pid)}
    /\ next' = EmptyTable
    /\ UNCHANGED <<osVars, begun, cancelled, previous, pending, logVars>>

\* The initial failure ends the watch; a later one is reported as a gap and
\* the previous table stays in force.
SnapshotFails ==
    /\ pc = "idle" /\ pending = {}
    /\ IF begun THEN pending' = {GapEvent} /\ pc' = pc
                ELSE pc' = "returned" /\ UNCHANGED pending
    /\ UNCHANGED <<osVars, begun, cancelled, offset, todo, next, previous, logVars>>

\* Slip: a process that has gone is read as if it were there.
ReadPidBlindly(pid) ==
    /\ pc = "scan"
    /\ pid \in todo
    /\ todo' = todo \ {pid}
    /\ next' = Put(next, Identity(pid), ReadProcess(pid))
    /\ UNCHANGED <<osVars, pc, begun, cancelled, offset, previous, pending, logVars>>

\* stat, cmdline and exe of one process are read in one step.
ReadPid(pid) ==
    /\ pc = "scan"
    /\ pid \in todo /\ Listed(pid)
    /\ todo' = todo \ {pid}
    /\ next' = Put(next, Identity(pid), ReadProcess(pid))
    /\ UNCHANGED <<osVars, pc, begun, cancelled, offset, previous, pending, logVars>>

\* The process is gone by now, or reading it fails: it is left out.
SkipPid(pid) ==
    /\ pc = "scan"
    /\ pid \in todo /\ (Skips \/ ~Listed(pid))
    /\ todo' = todo \ {pid}
    /\ UNCHANGED <<osVars, pc, begun, cancelled, offset, next, previous, pending, logVars>>

Baseline ==
    /\ pc = "scan" /\ todo = {} /\ ~begun
    /\ pc' = "idle" /\ begun' = TRUE
    /\ previous' = next
    /\ reported' = [id \in DOMAIN next |-> FirstOf(next[id])]
    /\ UNCHANGED <<osVars, cancelled, offset, todo, next, pending, ended, line>>

\* emitSnapshotDiff computes its events from the two tables alone.
Compare ==
    /\ pc = "scan" /\ todo = {} /\ begun
    /\ pc' = "idle"
    /\ previous' = PreserveAll(previous, next)
    /\ pending' = DiffEvents(previous, PreserveAll(previous, next))
    /\ UNCHANGED <<osVars, begun, cancelled, offset, todo, next, logVars>>

\* The loop over the new table comes before the loop over the old one.
InTurn(event) ==
    event.kind = "stop" => \A other \in pending : other.kind = "stop"

Write(event) ==
    /\ line' = event
    /\ \/ /\ event.kind = "start"
          /\ reported' = Put(reported, event.id, FirstOf(event))
          /\ UNCHANGED ended
       \/ /\ event.kind = "stop"
          /\ reported' = Without(reported, {event.id})
          /\ ended' = ended \cup {event.id}
       \/ /\ event.kind \in {"exec", "gap"}
          /\ UNCHANGED <<reported, ended>>

\* sendEvent: the event is taken, or the context is cancelled, and when both
\* are possible either may win.
Send(event) ==
    /\ event \in pending /\ InTurn(event)
    /\ pending' = pending \ {event}
    /\ Write(event)
    /\ UNCHANGED <<osVars, pc, begun, cancelled, offset, todo, next, previous>>

Drop(event) ==
    /\ event \in pending /\ InTurn(event)
    /\ cancelled
    /\ pending' = pending \ {event}
    /\ UNCHANGED <<osVars, pc, begun, cancelled, offset, todo, next, previous, logVars>>

Cancel ==
    /\ pc # "returned"
    /\ ~cancelled
    /\ cancelled' = TRUE
    /\ UNCHANGED <<osVars, pc, begun, offset, todo, next, previous, pending, logVars>>

\* The context is looked at between two ticks, not before the baseline.
Return ==
    /\ pc = "idle" /\ pending = {}
    /\ begun /\ cancelled
    /\ pc' = "returned"
    /\ UNCHANGED <<osVars, begun, cancelled, offset, todo, next, previous, pending, logVars>>

Watch ==
    \/ TakeSnapshot \/ SnapshotFails \/ Baseline \/ Compare \/ Cancel \/ Return
    \/ \E pid \in todo : ReadPid(pid) \/ SkipPid(pid)
    \/ \E event \in pending : Send(event) \/ Drop(event)

System ==
    /\ \/ Elapse
       \/ \E pid \in Pids :
             \/ Exit(pid) \/ Reap(pid)
             \/ \E image \in Images : Fork(pid, image) \/ Execute(pid, image)
    /\ UNCHANGED <<watchVars, logVars>>

Next == Watch \/ System

Spec == Init /\ [][Next]_vars

(***************************************************************************)
(* The watcher's goroutine is never left unscheduled, its reader takes     *)
(* what is sent, and Go's select does not for ever prefer one ready case,  *)
(* nor do snapshots, or the reads of one process, for ever fail.           *)
(***************************************************************************)
Fairness ==
    /\ SF_vars(TakeSnapshot)
    /\ SF_vars(Return)
    /\ WF_vars(Baseline \/ Compare)
    /\ WF_vars(\E pid \in todo : ReadPid(pid) \/ SkipPid(pid))
    /\ \A pid \in Pids : SF_vars(ReadPid(pid))
    /\ WF_vars(\E event \in pending : Send(event) \/ Drop(event))

FairSpec == Spec /\ Fairness
-----------------------------------------------------------------------------
Ids == [source : Sources, pid : Pids, token : Nat]

IsProcess(proc) ==
    proc \in [id : Ids, image : Images \cup {Defunct},
              started : Nat, captured : Nat \ {0}]

IsTable(table) ==
    /\ table = [id \in DOMAIN table |-> table[id]]
    /\ DOMAIN table \subseteq Ids
    /\ \A id \in DOMAIN table : IsProcess(table[id])

IsEvent(event) ==
    \/ event = GapEvent
    \/ event \in [kind : {"start", "exec", "stop"}, id : Ids,
                  image : Images \cup {Defunct}, started : Nat, captured : Nat]

IsLog(log) ==
    /\ log = [id \in DOMAIN log |-> log[id]]
    /\ DOMAIN log \subseteq Ids
    /\ \A id \in DOMAIN log : log[id] \in [started : Nat, captured : Nat]

TypeOK ==
    /\ OsTypeOK
    /\ pc \in {"idle", "scan", "returned"}
    /\ begun \in BOOLEAN
    /\ cancelled \in BOOLEAN
    /\ offset \in Offsets
    /\ todo \subseteq Pids
    /\ IsTable(next)
    /\ IsTable(previous)
    /\ \A event \in pending : IsEvent(event)
    /\ IsLog(reported)
    /\ ended \subseteq Ids
    /\ line = [kind |-> "none"] \/ IsEvent(line)

Due(kind, id) == \E event \in pending : event.kind = kind /\ event.id = id

\* Until cancellation the log and the table agree: what the log holds to be
\* live is what the table holds, but for the events still to be sent, and
\* under the same first observation.  Nothing is lost, nothing sent twice.
LogMatchesTable ==
    begun /\ ~cancelled =>
        /\ \A id \in DOMAIN reported \cup DOMAIN previous :
              id \in DOMAIN reported <=>
                 \/ id \in DOMAIN previous /\ ~Due("start", id)
                 \/ Due("stop", id)
        /\ \A id \in DOMAIN reported \cap DOMAIN previous :
              /\ reported[id].captured = previous[id].captured
              /\ reported[id].started # 0 =>
                    reported[id].started = previous[id].started

\* A PID that was reused between two snapshots is started under its new
\* identity before it is stopped under the old one.  Two identities of one
\* PID are live in the log only while the Stop of one of them is on its way.
PidSharedOnlyWhileStopping ==
    ~cancelled =>
        \A a, b \in DOMAIN reported :
            a # b /\ a.pid = b.pid => Due("stop", a) \/ Due("stop", b)

\* The log keeps the abstract promise; identities are reused only where
\* nothing in them tells two generations apart or a read may fail.
Log == INSTANCE LifecycleLog WITH
          OneShot <- Tokened /\ ~Skips,
          phase <- IF cancelled THEN "cut" ELSE IF begun THEN "open" ELSE "closed",
          live <- reported,
          ended <- IF Tokened /\ ~Skips THEN ended ELSE {}
KeepsPromise == Log!LogSpec

\* A process of this identity is on the system now.
OnSystem(id) == Listed(id.pid) /\ os[id.pid].birth = id.token

KnownIds == {StableId(pid, birth) : pid \in Pids, birth \in 1..MaxClock}

\* A process that is gone does not stay live in the log: its Stop follows,
\* unless the watch is cancelled first.
EndIsReported ==
    \A id \in KnownIds :
        (id \in DOMAIN reported /\ ~OnSystem(id)) ~>
            (id \notin DOMAIN reported \/ cancelled)

\* A process that stays is in the log sooner or later, even if its first
\* reads fail.
StartIsReported ==
    \A id \in KnownIds :
        OnSystem(id) ~> \/ id \in DOMAIN reported
                        \/ ~OnSystem(id)
                        \/ cancelled \/ pc = "returned"

\* An Exec line tells of an image the process executed (SPEC.md: "It logs
\* process starts, executable replacements, stops").
ExecIsReplacement == line.kind = "exec" => line.image \in Images
=============================================================================
