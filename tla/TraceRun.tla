------------------------------ MODULE TraceRun ------------------------------
(***************************************************************************)
(* runTrace (trace.go): a command is started and followed, with its        *)
(* descendants, by snapshots.  The command's root is waited for by a       *)
(* goroutine of its own, which reports its end over a channel; descendants *)
(* that outlive it are watched for a while.  The trace keeps, by PID, the  *)
(* processes it has observed, and looks for children of those in every     *)
(* snapshot.                                                               *)
(***************************************************************************)
EXTENDS OsProcesses, ProcessTable, Sequences

CONSTANTS Root,    \* the PID the command is given
          Outside, \* the parent of all processes nobody here forked
          Asked,   \* the image of the command as it was typed
          Unreadable, \* PIDs whose read may fail though they are listed
          Tokened, \* has an identity a token, and a record a start time? (not ps)
          Dated,   \* is the start time always found? (not if the uptime cannot
                   \* be read, nor if it lies more than a second ahead)
          Poll,    \* the polling interval, in ticks
          Linger   \* the tail: how long descendants are watched, in ticks

ASSUME TraceAssumption ==
    /\ Pids \subseteq Nat /\ Root \in Pids /\ Outside \notin Pids
    /\ Asked \notin Images \cup {Defunct, Gone}
    /\ Zombies      \* the root is one until it is waited for
    /\ Unreadable \subseteq Pids
    /\ Tokened \in BOOLEAN /\ Dated \in BOOLEAN /\ (Dated => Tokened)
    /\ Poll \in Nat \ {0} /\ Linger \in Nat

MaxAge == IF Linger > 2 * Poll THEN Linger ELSE 2 * Poll

VARIABLES parent,    \* per PID: the PID of the process's parent
          command,   \* "none", "running", "waited", "taken"
          age,       \* ticks since it was waited for, up to MaxAge
          pc,        \* "start", "loop", "scan", "update", "reap", "returned"
          todo,      \* PIDs the scan has still to read, or the update to follow
          next,      \* the snapshot being read, or what is selected of it, by PID
          observed,  \* PID -> the process followed under it
          tracked,   \* the PIDs followed
          pending,   \* lines to be written, in order
          result,    \* what is to be returned
          line,      \* the log: the last line
          reported   \* the log: PID -> first observation, while live
systemVars == <<osVars, parent>>
commandVars == <<command, age>>
scanVars == <<todo, next>>
followVars == <<observed, tracked>>
logVars == <<line, reported>>
vars == <<systemVars, commandVars, pc, scanVars, followVars,
          pending, result, logVars>>

GapEvent == [kind |-> "gap"]

\* A process is also known by its parent here.
Process(id, image, started, captured, ppid) ==
    [id |-> id, image |-> image, started |-> started, captured |-> captured,
     parent |-> ppid]

Identity(pid) == StableId(pid, IF Tokened THEN os[pid].birth ELSE 0)

\* The start time a snapshot finds, or the zero time.
StartTimes(pid) == (IF Tokened THEN {os[pid].birth} ELSE {})
                   \cup (IF Dated THEN {} ELSE {0})

ReadProcess(pid, started) ==
    Process(Identity(pid), os[pid].image, started, clock, parent[pid])

Init ==
    /\ OsInit /\ ~Listed(Root)
    /\ parent = [pid \in Pids |-> Outside]
    /\ command = "none" /\ age = 0
    /\ pc = "start"
    /\ todo = {} /\ next = EmptyTable
    /\ observed = EmptyTable /\ tracked = {} /\ pending = <<>>
    /\ result = "none" /\ line = [kind |-> "none"] /\ reported = EmptyTable

-----------------------------------------------------------------------------
\* The system, while the trace lasts: a process that ends leaves its children
\* to another parent.

Child(pid, ppid, image) ==
    /\ ppid # Outside => Running(ppid)
    /\ pid = Root => command # "none"
    /\ Fork(pid, image)
    /\ parent' = [parent EXCEPT ![pid] = ppid]

\* The command is a zombie until it is waited for.
Traced(pid) == pid = Root /\ command = "running"

Ends(pid) ==
    /\ Exit(pid)
    /\ Traced(pid) => os'[pid].image = Defunct
    /\ parent' = [q \in Pids |-> IF parent[q] = pid THEN Outside ELSE parent[q]]

System ==
    /\ pc # "returned"
    /\ \/ /\ \/ Elapse
             \/ \E pid \in Pids :
                   \/ \E image \in Images : Execute(pid, image)
                   \/ ~Traced(pid) /\ Reap(pid)
          /\ UNCHANGED parent
       \/ \E pid \in Pids :
             \/ Ends(pid)
             \/ \E ppid \in Pids \cup {Outside}, image \in Images :
                   Child(pid, ppid, image)
    /\ UNCHANGED <<commandVars, pc, scanVars, followVars, pending,
                   result, logVars>>

\* waitForTracedCommand: the result waits in a channel of its own.
WaitForRoot ==
    /\ command = "running"
    /\ Reap(Root)
    /\ command' = "waited"
    /\ UNCHANGED <<parent, age, pc, scanVars, followVars,
                   pending, result, logVars>>

\* Time passes, once it matters; the tail has a clock of its own.
Pass ==
    /\ command \in {"waited", "taken"}
    /\ age < MaxAge
    /\ age' = age + 1
    /\ UNCHANGED <<systemVars, command, pc, scanVars,
                   followVars, pending, result, logVars>>

-----------------------------------------------------------------------------
\* The run.

\* The first snapshot, or the command, fails.
StartFails ==
    /\ pc = "start"
    /\ pc' = "returned"
    /\ result' \in {"snapshot", "start"}
    /\ UNCHANGED <<systemVars, commandVars, scanVars, followVars,
                   pending, logVars>>

StartCommand ==
    /\ pc = "start"
    /\ \E image \in Images : Fork(Root, image)
    /\ parent' = [parent EXCEPT ![Root] = Outside]
    /\ command' = "running"
    /\ LET root == Process([source |-> "trace", pid |-> Root, token |-> clock],
                           Asked, clock, clock, Outside)
       IN  /\ observed' = Put(observed, Root, root)
           /\ pending' = <<EventOf("start", root)>>
    /\ tracked' = {Root}
    /\ pc' = "loop"
    /\ UNCHANGED <<age, scanVars, result, logVars>>

Idle == pc = "loop" /\ pending = <<>>

\* The context may be done at any time: a gap, and the end.
SeeCancelled ==
    /\ Idle
    /\ pending' = <<GapEvent>>
    /\ pc' = "reap" /\ result' = "cancelled"
    /\ UNCHANGED <<systemVars, commandVars, scanVars, followVars,
                   logVars>>

\* Slip: the PID of the root is still tracked when the root has ended.
SeeResultTracked ==
    /\ Idle /\ command = "waited"
    /\ command' = "taken"
    /\ pending' = <<EventOf("stop", observed[Root])>>
    /\ observed' = Without(observed, {Root})
    /\ UNCHANGED <<systemVars, age, pc, scanVars, result, logVars, tracked>>

\* The root's end comes from the channel.
SeeResult ==
    /\ Idle /\ command = "waited"
    /\ command' = "taken"
    /\ IF Root \in DOMAIN observed
       THEN /\ pending' = <<EventOf("stop", observed[Root])>>
            /\ observed' = Without(observed, {Root})
            /\ tracked' = tracked \ {Root}
       ELSE UNCHANGED <<pending, followVars>>
    /\ UNCHANGED <<systemVars, age, pc, scanVars, result,
                   logVars>>

\* A tick.
TakeSnapshot ==
    /\ Idle
    /\ pc' = "scan"
    /\ todo' = {pid \in Pids : Listed(pid)}
    /\ next' = EmptyTable
    /\ UNCHANGED <<systemVars, commandVars, followVars, pending,
                   result, logVars>>

SnapshotFails ==
    /\ Idle
    /\ pending' = <<GapEvent>>
    /\ UNCHANGED <<systemVars, commandVars, pc, scanVars,
                   followVars, result, logVars>>

ReadPid(pid) ==
    /\ pc = "scan"
    /\ pid \in todo /\ Listed(pid)
    /\ todo' = todo \ {pid}
    /\ \E started \in StartTimes(pid) : next' = Put(next, pid, ReadProcess(pid, started))
    /\ UNCHANGED <<systemVars, commandVars, pc, followVars, pending,
                   result, logVars>>

SkipPid(pid) ==
    /\ pc = "scan"
    /\ pid \in todo /\ (pid \in Unreadable \/ ~Listed(pid))
    /\ todo' = todo \ {pid}
    /\ UNCHANGED <<systemVars, commandVars, pc, next, followVars,
                   pending, result, logVars>>

RootActive == command # "taken"

\* Slip: the selection starts from the root alone.
KeptRoot == DOMAIN next \cap (IF RootActive THEN {Root} ELSE {})

\* The PIDs a selection starts from, whatever process they are of by now.
Kept == DOMAIN next \cap (tracked \cup IF RootActive THEN {Root} ELSE {})

\* Slip: no children are looked for.
SelectedKept == Kept

\* selectTracedProcesses: those, and whatever has a selected parent.
Selected ==
    LET closed(set) == Kept \subseteq set /\
                       \A pid \in DOMAIN next : next[pid].parent \in set => pid \in set
    IN  {pid \in DOMAIN next :
            \A set \in SUBSET DOMAIN next : closed(set) => pid \in set}

\* What is known under a PID after the snapshot.
Known(pid) ==
    IF pid \in DOMAIN observed /\ SameGeneration(observed[pid], next[pid])
    THEN Preserve(observed[pid], next[pid]) ELSE next[pid]

LinesOf(pid) ==
    IF pid \notin DOMAIN observed THEN <<EventOf("start", Known(pid))>>
    ELSE IF ~SameGeneration(observed[pid], next[pid])
    THEN <<EventOf("stop", observed[pid]), EventOf("start", Known(pid))>>
    ELSE IF observed[pid].image # next[pid].image
    THEN <<EventOf("exec", Known(pid))>>
    ELSE <<>>

\* The update goes over the selection in the order of the PIDs, and then over
\* what is observed but not selected; it waits for its lines to be written.
IsFirst(pid, pids) == pid \in pids /\ \A other \in pids : pid =< other

Select ==
    /\ pc = "scan" /\ todo = {}
    /\ pc' = "update"
    /\ next' = [pid \in Selected |-> next[pid]]
    /\ todo' = Selected
    /\ UNCHANGED <<systemVars, commandVars, followVars, pending, result, logVars>>

Follow(pid) ==
    /\ pc = "update" /\ pending = <<>>
    /\ IsFirst(pid, todo)
    /\ todo' = todo \ {pid}
    /\ pending' = LinesOf(pid)
    /\ observed' = Put(observed, pid, Known(pid))
    /\ tracked' = tracked \cup {pid}
    /\ UNCHANGED <<systemVars, commandVars, pc, next, result, logVars>>

Unselected ==
    DOMAIN observed \ (DOMAIN next \cup IF RootActive THEN {Root} ELSE {})

Leave(pid) ==
    /\ pc = "update" /\ pending = <<>> /\ todo = {}
    /\ IsFirst(pid, Unselected)
    /\ pending' = <<EventOf("stop", observed[pid])>>
    /\ observed' = Without(observed, {pid})
    /\ tracked' = tracked \ {pid}
    /\ UNCHANGED <<systemVars, commandVars, pc, scanVars, result, logVars>>

Updated == pc = "update" /\ pending = <<>> /\ todo = {} /\ Unselected = {}

\* Slip: the tail lasts as long as a descendant does.
AllFinished == observed = EmptyTable /\ age >= 2 * Poll

TraceFinished ==
    \/ observed = EmptyTable /\ age >= 2 * Poll
    \/ age >= Linger

\* Slip: the survivors are passed over in silence.
FinishSilently ==
    /\ Updated
    /\ IF command = "taken" /\ TraceFinished
       THEN pc' = "reap" /\ result' \in {"ok", "command"}
       ELSE pc' = "loop" /\ UNCHANGED result
    /\ next' = EmptyTable
    /\ UNCHANGED <<systemVars, commandVars, todo, followVars, pending, logVars>>

\* At the end of a tick, and of the trace if the tail is over.  The snapshot
\* is the tick's own.
Finish ==
    /\ Updated
    /\ \/ /\ command = "taken" /\ TraceFinished
          /\ pending' = IF observed # EmptyTable THEN <<GapEvent>> ELSE <<>>
          /\ pc' = "reap"
          /\ result' \in {"ok", "command"}
       \/ /\ ~(command = "taken" /\ TraceFinished)
          /\ pc' = "loop"
          /\ UNCHANGED <<pending, result>>
    /\ next' = EmptyTable
    /\ UNCHANGED <<systemVars, commandVars, todo, followVars, logVars>>

FirstOf(event) == [started |-> event.started, captured |-> event.captured]

Record(event) ==
    \/ /\ event.kind = "start"
       /\ reported' = Put(reported, event.id.pid, FirstOf(event))
    \/ /\ event.kind = "stop"
       /\ reported' = Without(reported, {event.id.pid})
    \/ /\ event.kind \in {"exec", "gap"}
       /\ UNCHANGED reported

WriteLine ==
    /\ pending # <<>>
    /\ pending' = Tail(pending)
    /\ line' = Head(pending)
    /\ Record(Head(pending))
    /\ UNCHANGED <<systemVars, commandVars, pc, scanVars, followVars,
                   result>>

\* A line that cannot be written ends the trace.
WriteFails ==
    /\ pending # <<>>
    /\ pending' = <<>> /\ todo' = {} /\ next' = EmptyTable
    /\ pc' = "reap" /\ result' = "write"
    /\ UNCHANGED <<systemVars, commandVars, followVars, logVars>>

\* Slip: after an error the trace returns at once.
ReturnAtOnce ==
    /\ pc = "reap" /\ pending = <<>>
    /\ pc' = "returned"
    /\ UNCHANGED <<systemVars, commandVars, scanVars, followVars, pending, result,
                   logVars>>

\* The deferred reapTraceRoot waits for a root whose end was not yet seen.
ReapRoot ==
    /\ pc = "reap" /\ pending = <<>>
    /\ command # "running"
    /\ pc' = "returned"
    /\ command' = "taken"
    /\ result' = IF result = "cancelled" THEN "ok" ELSE result
    /\ UNCHANGED <<systemVars, age, scanVars, followVars,
                   pending, logVars>>

Run ==
    \/ StartFails \/ StartCommand \/ SeeCancelled \/ SeeResult
    \/ TakeSnapshot \/ SnapshotFails
    \/ \E pid \in todo : ReadPid(pid) \/ SkipPid(pid)
    \/ Select \/ Finish
    \/ \E pid \in Pids : Follow(pid) \/ Leave(pid)
    \/ WriteLine \/ WriteFails \/ ReapRoot

Next == Run \/ WaitForRoot \/ Pass \/ System

Spec == Init /\ [][Next]_vars

(***************************************************************************)
(* Bottom's goroutines run on and time passes; the select takes each ready *)
(* case in the end, and snapshots do not for ever fail.                    *)
(***************************************************************************)
Fairness ==
    /\ WF_vars(StartFails \/ StartCommand)
    /\ SF_vars(SeeResult) /\ SF_vars(TakeSnapshot)
    /\ WF_vars(\E pid \in todo : ReadPid(pid) \/ SkipPid(pid))
    /\ \A pid \in Pids : SF_vars(ReadPid(pid))
    /\ WF_vars(Select \/ Finish)
    /\ WF_vars(\E pid \in Pids : Follow(pid) \/ Leave(pid))
    /\ WF_vars(WriteLine \/ WriteFails)
    /\ WF_vars(WaitForRoot) /\ WF_vars(ReapRoot) /\ WF_vars(Pass)

FairSpec == Spec /\ Fairness
-----------------------------------------------------------------------------
TraceIds == [source : {"os", "trace"}, pid : Pids, token : Nat]

Processes == [id : TraceIds, image : Images \cup {Defunct, Asked},
              started : Nat, captured : Nat \ {0}, parent : Pids \cup {Outside}]

Events == {GapEvent}
          \cup [kind : {"start", "exec", "stop"}, id : TraceIds,
                image : Images \cup {Defunct, Asked},
                started : Nat, captured : Nat \ {0}]

\* A table by PID: each process is filed under its own.
IsFollowed(table) ==
    /\ DOMAIN table \subseteq Pids
    /\ \A pid \in DOMAIN table : table[pid] \in Processes /\ table[pid].id.pid = pid

TypeOK ==
    /\ OsTypeOK
    /\ parent \in [Pids -> Pids \cup {Outside}]
    /\ command \in {"none", "running", "waited", "taken"}
    /\ age \in 0..MaxAge
    /\ pc \in {"start", "loop", "scan", "update", "reap", "returned"}
    /\ todo \subseteq Pids
    /\ IsFollowed(next) /\ IsFollowed(observed)
    /\ tracked = DOMAIN observed
    /\ pending \in Seq(Events) /\ Len(pending) =< 2
    /\ result \in {"none", "snapshot", "start", "cancelled", "write", "ok", "command"}
    /\ DOMAIN reported \subseteq Pids
    /\ reported \in [DOMAIN reported -> [started : Nat, captured : Nat \ {0}]]
    /\ line \in {[kind |-> "none"]} \cup Events

\* What a line of the log is about is its PID: the root is started under a
\* provisional identity and stopped under its stable one.
ByPidOnly(event) ==
    IF event.kind \in {"none", "gap"} THEN event ELSE [event EXCEPT !.id = @.pid]

\* Of every PID the log tells a start, replacements and a stop, in turn, all
\* bound to its first observation; also across the reuse of the PID.
Log == INSTANCE LifecycleLog WITH
          OneShot <- FALSE,
          phase <- IF pc = "start" THEN "closed" ELSE "open",
          live <- reported,
          ended <- {},
          line <- ByPidOnly(line)
KeepsPromise == Log!LogSpec

\* The trace does not return before the command has ended: not when it is
\* cancelled, and not when the log fails.
WaitsForRoot == pc = "returned" => command # "running"

\* A trace that returns leaves no process live in the log without a gap as
\* its last line, unless the log could not be written.
EndIsExplained ==
    pc = "returned" /\ result \in {"ok", "command"} =>
        reported = EmptyTable \/ line = GapEvent

\* While the command runs the log does not stop the root, whatever a snapshot
\* missed, but in one case: the provisional root cannot be matched with what a
\* snapshot found without a start time.  Then it is stopped once, and in the
\* same breath started under the name it keeps, unless the log breaks there.
RestartDue ==
    /\ Len(pending) = 1 /\ pending[1].kind = "start"
    /\ pending[1].id = Identity(Root) /\ pending[1].started = 0

RootStopIsItsEnd ==
    line.kind = "stop" /\ line.id.pid = Root /\ command = "running" =>
        /\ ~Dated /\ line.id.source = "trace"
        /\ RestartDue \/ pc = "reap"

\* The log stops what has stopped (SPEC.md: a trace "logs observed starts,
\* executable replacements, and stops").
StopsAreObserved ==
    line.kind = "stop" /\ line.id.pid = Root => command # "running"

OnSystem(id) == Listed(id.pid) /\ os[id.pid].birth = id.token

\* A descendant that is stopped in the log has gone, however often it passed
\* to another parent and whatever else could not be read, if its own reads do
\* not fail and its identity tells it from later processes of its PID.
StopMeansGone ==
    Tokened /\ line.kind = "stop" /\ line.id.pid \notin Unreadable \cup {Root} =>
        ~OnSystem(line.id)

\* After the command has ended the trace comes to its end, whatever
\* descendants it left behind.
TailEnds == command = "waited" ~> pc = "returned"

\* A process whose parent is followed is followed, if both stay.
ChildIsFollowed ==
    \A pid, ppid \in Pids :
        (Running(pid) /\ parent[pid] = ppid /\ ppid \in DOMAIN observed) ~>
            \/ pid \in DOMAIN observed
            \/ ~Running(pid) \/ parent[pid] # ppid \/ ppid \notin DOMAIN observed
            \/ pc \in {"reap", "returned"}

\* The log tells of the command and its descendants only: what is started in
\* it is the root or has a parent that is followed or selected.
OnlyDescendants ==
    pc = "update" =>
        \A i \in 1..Len(pending) :
            pending[i].kind = "start" /\ pending[i].id.pid # Root =>
                next[pending[i].id.pid].parent \in DOMAIN observed \cup DOMAIN next
=============================================================================
