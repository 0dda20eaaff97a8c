---------------------------- MODULE TraceRunProofs ----------------------------
(***************************************************************************)
(* The trace keeps the promise of LifecycleLog by PID, never returns while *)
(* its command runs, explains what it leaves behind, and says exactly when *)
(* a stop in the log need not be an end, for every set of PIDs and images  *)
(* and every clock, whatever fails, and whenever it is cancelled.          *)
(***************************************************************************)
EXTENDS TraceRun, Tables, Queues, TLAPS

-----------------------------------------------------------------------------
(***************************************************************************)
(* The inductive invariant.                                                *)
(***************************************************************************)

\* A process that is there was born.
Born == \A pid \in Pids : Listed(pid) => os[pid].birth > 0

\* The command is started where the start is left, and by nobody else.
\* Nothing has been written or read before, and nothing is written after a
\* write has failed.
Control ==
    /\ pc = "start" => /\ command = "none" /\ result = "none" /\ pending = <<>>
                       /\ DOMAIN next = {} /\ line.kind = "none"
    /\ pc = "returned" => pending = <<>>
    /\ pc = "update" => todo \subseteq DOMAIN next
    /\ command = "none" => /\ observed = EmptyTable
                           /\ pc \in {"start", "returned"}
                           /\ pending = <<>> /\ line.kind = "none"
    /\ result = "write" => pending = <<>> /\ pc \in {"reap", "returned"}
    /\ result \in {"snapshot", "start"} => command = "none"

\* The log after one more event, and whether it may take it.
After(log, event) ==
    CASE event.kind = "start" -> Put(log, event.id.pid, FirstOf(event))
      [] event.kind = "stop"  -> Without(log, {event.id.pid})
      [] OTHER                -> log

Fits(log, event) ==
    /\ event.kind = "start" => event.id.pid \notin DOMAIN log
    /\ event.kind \in {"exec", "stop"} =>
          event.id.pid \in DOMAIN log /\ Log!Agree(log[event.id.pid], FirstOf(event))

\* A log is bound to a table, and lines lead from one to the other.
Bound(log, table) ==
    /\ DOMAIN log = DOMAIN table
    /\ \A pid \in DOMAIN table : Log!Agree(log[pid], FirstOf(table[pid]))

Leads(log, lines, table) ==
    /\ lines = <<>> => Bound(log, table)
    /\ Len(lines) = 1 => /\ Fits(log, lines[1])
                         /\ Bound(After(log, lines[1]), table)
    /\ Len(lines) = 2 => /\ Fits(log, lines[1])
                         /\ Fits(After(log, lines[1]), lines[2])
                         /\ Bound(After(After(log, lines[1]), lines[2]), table)

\* What is pending brings the log to what is observed.
LogFollows == result # "write" => Leads(reported, pending, observed)

\* The trace ends with nothing observed, or with a gap as its last line.
Explained ==
    pc \in {"reap", "returned"} /\ result \in {"ok", "command", "cancelled"} =>
        \/ observed = EmptyTable /\ pending = <<>>
        \/ pending = <<GapEvent>>
        \/ pending = <<>> /\ line = GapEvent

\* While the command runs the root is what was started, also in a snapshot,
\* though a snapshot may not find its start time.
RootStays ==
    command = "running" =>
        /\ Listed(Root)
        /\ Root \in DOMAIN observed
        /\ IF observed[Root].id.source = "os" THEN observed[Root].id = Identity(Root)
           ELSE observed[Root].started = os[Root].birth
        /\ Root \in DOMAIN next => /\ next[Root].id = Identity(Root)
                                   /\ next[Root].started \in StartTimes(Root)

\* The one way to stop a root that runs: the lines that start it anew, without
\* a start time, under the name it keeps.
StopsRoot(event) == event.kind = "stop" /\ event.id.pid = Root

Restart(lines) ==
    /\ ~Dated
    /\ Len(lines) = 2
    /\ lines[1].id.source = "trace"
    /\ lines[2].kind = "start" /\ lines[2].id = Identity(Root) /\ lines[2].started = 0

RootNotStopped ==
    /\ command = "running" => \A i \in 1..Len(pending) :
          StopsRoot(pending[i]) => i = 1 /\ Restart(pending)
    /\ RootStopIsItsEnd

WaitInv == TypeOK /\ Born /\ Control /\ WaitsForRoot
LogInv == LogFollows /\ Explained
RootInv == RootStays /\ RootNotStopped

\* A process that has left does not come back under its identity.
Left(system, id) ==
    \/ system[id.pid].birth > id.token
    \/ system[id.pid].image = Gone /\ system[id.pid].birth = id.token

\* The PIDs whose reads do not fail and whose identities tell processes apart;
\* the root's has an end of its own.
Sure == IF Tokened THEN Pids \ (Unreadable \cup {Root}) ELSE {}

\* What is read is at most as old as what was read before, and not younger
\* than the PID's last process.
NoYounger ==
    /\ \A pid \in DOMAIN observed \cap Sure :
          /\ observed[pid].id.source = "os"
          /\ observed[pid].id.token =< os[pid].birth
    /\ \A pid \in DOMAIN next \cap Sure :
          /\ next[pid].id.source = "os"
          /\ next[pid].id.token =< os[pid].birth
          /\ pid \in DOMAIN observed => observed[pid].id.token =< next[pid].id.token

\* What a snapshot misses has left.
MissedHasLeft ==
    /\ pc = "scan" => \A pid \in DOMAIN observed \cap Sure :
          pid \in todo \/ pid \in DOMAIN next \/ Left(os, observed[pid].id)
    /\ pc = "update" => \A pid \in DOMAIN observed \cap Sure :
          pid \in DOMAIN next \/ Left(os, observed[pid].id)

StopsHaveLeft ==
    /\ \A i \in 1..Len(pending) :
          pending[i].kind = "stop" /\ pending[i].id.pid \in Sure => Left(os, pending[i].id)
    /\ line.kind = "stop" /\ line.id.pid \in Sure => Left(os, line.id)

GoneInv == NoYounger /\ MissedHasLeft /\ StopsHaveLeft

-----------------------------------------------------------------------------
(***************************************************************************)
(* What the system may do in any step.                                     *)
(***************************************************************************)

OsStep ==
    \/ \E pid \in Pids :
          \/ \E image \in Images : Fork(pid, image) \/ Execute(pid, image)
          \/ Exit(pid) \/ Reap(pid)
    \/ Elapse
    \/ UNCHANGED osVars

LEMMA StepsOfSystem == [Next]_vars => OsStep
<1> SUFFICES ASSUME [Next]_vars PROVE OsStep
  OBVIOUS
<1>1. CASE System
  BY <1>1 DEF System, Ends, Child, OsStep
<1>2. CASE StartCommand
  BY <1>2, TraceAssumption DEF StartCommand, OsStep
<1>3. CASE WaitForRoot
  BY <1>3, TraceAssumption DEF WaitForRoot, OsStep
<1>4. CASE Pass \/ StartFails \/ SeeCancelled \/ SeeResult \/ TakeSnapshot \/ SnapshotFails
  BY <1>4 DEF Pass, StartFails, SeeCancelled, SeeResult, TakeSnapshot, SnapshotFails,
              systemVars, osVars, OsStep
<1>5. CASE \E pid \in todo : ReadPid(pid) \/ SkipPid(pid)
  BY <1>5 DEF ReadPid, SkipPid, systemVars, osVars, OsStep
<1>6. CASE Select \/ Finish \/ \E pid \in Pids : Follow(pid) \/ Leave(pid)
  BY <1>6 DEF Select, Finish, Follow, Leave, systemVars, osVars, OsStep
<1>7. CASE WriteLine \/ WriteFails \/ ReapRoot
  BY <1>7 DEF WriteLine, WriteFails, ReapRoot, systemVars, osVars, OsStep
<1>8. CASE UNCHANGED vars
  BY <1>8 DEF vars, systemVars, OsStep
<1> QED BY <1>1, <1>2, <1>3, <1>4, <1>5, <1>6, <1>7, <1>8 DEF Next, Run

\* No step brings a process back: births only grow, and a PID that is free
\* is taken again by a younger process.
LEMMA Aging ==
    ASSUME OsTypeOK, Born, OsStep
    PROVE  /\ OsTypeOK' /\ Born'
           /\ \A pid \in Pids :
                 /\ os[pid].birth \in Nat /\ os'[pid].birth \in Nat
                 /\ os[pid].birth =< os'[pid].birth
                 /\ ~Listed(pid) =>
                       ~Listed(pid)' \/ os[pid].birth < os'[pid].birth
                 /\ Listed(pid) => os'[pid].birth = os[pid].birth
<1> USE OsAssumption DEF OsTypeOK, Born, Listed
<1>1. CASE \E pid \in Pids, image \in Images : Fork(pid, image)
  BY <1>1 DEF Fork
<1>2. CASE \E pid \in Pids, image \in Images : Execute(pid, image)
  BY <1>2 DEF Execute, Running
<1>3. CASE \E pid \in Pids : Exit(pid)
  BY <1>3 DEF Exit, Running
<1>4. CASE \E pid \in Pids : Reap(pid)
  BY <1>4 DEF Reap
<1>5. CASE Elapse \/ UNCHANGED osVars
  BY <1>5 DEF Elapse, osVars
<1> QED BY <1>1, <1>2, <1>3, <1>4, <1>5 DEF OsStep

-----------------------------------------------------------------------------
(***************************************************************************)
(* Processes, events and lines.                                            *)
(***************************************************************************)

LEMMA ReadType ==
    ASSUME OsTypeOK, Born, parent \in [Pids -> Pids \cup {Outside}],
           NEW pid \in Pids, Listed(pid), NEW started \in StartTimes(pid)
    PROVE  /\ ReadProcess(pid, started) \in Processes
           /\ ReadProcess(pid, started).id = Identity(pid)
           /\ ReadProcess(pid, started).started = started
           /\ Identity(pid).pid = pid /\ Identity(pid).source = "os"
           /\ Tokened => Identity(pid).token = os[pid].birth
<1>1. /\ os[pid].birth \in Nat \ {0} /\ os[pid].image \in Images \cup {Defunct}
      /\ clock \in Nat \ {0} /\ parent[pid] \in Pids \cup {Outside}
  BY OsAssumption DEF OsTypeOK, Born, Listed
<1>2. started \in Nat
  BY <1>1 DEF StartTimes
<1> QED BY <1>1, <1>2 DEF ReadProcess, Process, Processes, Identity, StableId, TraceIds

LEMMA EventType ==
    ASSUME NEW kind \in {"start", "exec", "stop"}, NEW proc \in Processes
    PROVE  /\ EventOf(kind, proc) \in Events
           /\ EventOf(kind, proc).kind = kind
           /\ EventOf(kind, proc).id = proc.id
           /\ FirstOf(EventOf(kind, proc)) = FirstOf(proc)
  BY DEF EventOf, Events, Processes, FirstOf

LEMMA FirstType ==
    ASSUME NEW event \in Events, event.kind # "gap"
    PROVE  /\ FirstOf(event) \in [started : Nat, captured : Nat \ {0}]
           /\ event.id.pid \in Pids
           /\ event.kind \in {"start", "exec", "stop"}
  BY DEF Events, GapEvent, FirstOf, TraceIds

LEMMA GapType == GapEvent \in Events /\ GapEvent.kind = "gap"
  BY DEF Events, GapEvent

\* What is known of a process has the identity that was read, and keeps its
\* first observation.
LEMMA KnownType ==
    ASSUME IsFollowed(next), IsFollowed(observed), NEW pid \in DOMAIN next
    PROVE  /\ Known(pid) \in Processes
           /\ Known(pid).id = next[pid].id
           /\ pid \in DOMAIN observed /\ SameGeneration(observed[pid], next[pid]) =>
                 Log!Agree(FirstOf(observed[pid]), FirstOf(Known(pid)))
<1>1. next[pid] \in Processes
  BY DEF IsFollowed
<1>2. CASE pid \in DOMAIN observed /\ SameGeneration(observed[pid], next[pid])
  <2>1. observed[pid] \in Processes
    BY <1>2 DEF IsFollowed
  <2>2. Known(pid) = Preserve(observed[pid], next[pid])
    BY <1>2 DEF Known
  <2> QED BY <1>1, <2>1, <2>2 DEF Preserve, Processes, FirstOf, Log!Agree
<1>3. CASE ~(pid \in DOMAIN observed /\ SameGeneration(observed[pid], next[pid]))
  BY <1>1, <1>3 DEF Known
<1> QED BY <1>2, <1>3

LEMMA Singles ==
    ASSUME NEW S, NEW e \in S
    PROVE  <<e>> \in Seq(S) /\ Len(<<e>>) = 1 /\ <<e>>[1] = e
  OBVIOUS

LEMMA Pairs ==
    ASSUME NEW S, NEW e \in S, NEW f \in S
    PROVE  /\ <<e, f>> \in Seq(S) /\ Len(<<e, f>>) = 2
           /\ <<e, f>>[1] = e /\ <<e, f>>[2] = f
  OBVIOUS

LEMMA LinesType ==
    ASSUME IsFollowed(next), IsFollowed(observed), NEW pid \in DOMAIN next
    PROVE  LinesOf(pid) \in Seq(Events) /\ Len(LinesOf(pid)) =< 2
<1>1. /\ EventOf("start", Known(pid)) \in Events
      /\ EventOf("exec", Known(pid)) \in Events
  BY KnownType, EventType
<1>2. pid \in DOMAIN observed => EventOf("stop", observed[pid]) \in Events
  BY EventType DEF IsFollowed
<1> QED BY <1>1, <1>2, Singles, Pairs DEF LinesOf

-----------------------------------------------------------------------------
(***************************************************************************)
(* Types.                                                                  *)
(***************************************************************************)

LEMMA SelectedIsKnown == Selected \subseteq DOMAIN next
  BY DEF Selected

LEMMA TypeInit == Init => TypeOK /\ Born
<1> SUFFICES ASSUME Init PROVE TypeOK /\ Born
  OBVIOUS
<1>1. OsTypeOK /\ Born
  <2>1. os \in [Pids -> [birth : 0..MaxClock, image : Images \cup {Defunct, Gone}]]
    BY OsAssumption DEF Init, OsInit
  <2> QED BY <2>1, OsAssumption DEF Init, OsInit, OsTypeOK, Born, Listed
<1>2. DOMAIN EmptyTable = {}
  BY DEF EmptyTable
<1>3. IsFollowed(next) /\ IsFollowed(observed)
  BY <1>2 DEF Init, IsFollowed
<1>4. pending \in Seq(Events) /\ Len(pending) =< 2
  BY DEF Init
<1>5. reported \in [DOMAIN reported -> [started : Nat, captured : Nat \ {0}]]
  BY <1>2 DEF Init, EmptyTable
<1>6. age \in 0..MaxAge
  BY TraceAssumption DEF Init, MaxAge
<1> QED BY <1>1, <1>2, <1>3, <1>4, <1>5, <1>6 DEF Init, TypeOK

LEMMA PutIsFollowed ==
    ASSUME NEW table, IsFollowed(table), NEW pid \in Pids,
           NEW proc \in Processes, proc.id.pid = pid
    PROVE  IsFollowed(Put(table, pid, proc))
  BY DEF IsFollowed, Put

LEMMA WithoutIsFollowed ==
    ASSUME NEW table, IsFollowed(table), NEW pids
    PROVE  IsFollowed(Without(table, pids))
  BY DEF IsFollowed, Without

LEMMA EmptyIsFollowed == IsFollowed(EmptyTable)
  BY DEF IsFollowed, EmptyTable

LEMMA TypeStep == TypeOK /\ Born /\ Control /\ [Next]_vars => TypeOK' /\ Born'
<1> SUFFICES ASSUME TypeOK, Born, Control, [Next]_vars PROVE TypeOK' /\ Born'
  OBVIOUS
<1>1. OsTypeOK' /\ Born'
  BY StepsOfSystem, Aging DEF TypeOK
<1> USE DEF TypeOK, systemVars, commandVars, scanVars, followVars, logVars
<1>2. CASE System
  <2>1. parent' \in [Pids -> Pids \cup {Outside}]
    BY <1>2 DEF System, Ends, Child
  <2> QED BY <1>1, <1>2, <2>1 DEF System
<1>3. CASE WaitForRoot
  BY <1>1, <1>3 DEF WaitForRoot
<1>4. CASE Pass
  BY <1>1, <1>4, TraceAssumption DEF Pass, MaxAge
<1>5. CASE StartFails
  BY <1>1, <1>5 DEF StartFails
<1>6. CASE StartCommand
  <2> DEFINE root == Process([source |-> "trace", pid |-> Root, token |-> clock],
                             Asked, clock, clock, Outside)
  <2>1. clock \in Nat \ {0}
    BY OsAssumption DEF OsTypeOK
  <2>2. root \in Processes /\ root.id.pid = Root
    BY <2>1, TraceAssumption DEF Process, Processes, TraceIds
  <2>3. observed' = Put(observed, Root, root) /\ pending' = <<EventOf("start", root)>>
    BY <1>6 DEF StartCommand
  <2> HIDE DEF root
  <2>4. IsFollowed(observed') /\ pending' \in Seq(Events) /\ Len(pending') =< 2
    BY <2>2, <2>3, PutIsFollowed, EventType, Singles, TraceAssumption
  <2>5. parent' \in [Pids -> Pids \cup {Outside}]
    BY <1>6 DEF StartCommand
  <2>6. tracked' = DOMAIN observed'
    BY <1>6, <2>3 DEF StartCommand, Control, Put, EmptyTable
  <2> QED BY <1>1, <1>6, <2>4, <2>5, <2>6 DEF StartCommand
<1>7. CASE SeeCancelled
  BY <1>1, <1>7, GapType, Singles DEF SeeCancelled
<1>8. CASE SeeResult
  <2>1. CASE Root \in DOMAIN observed
    <3>1. /\ pending' = <<EventOf("stop", observed[Root])>>
          /\ observed' = Without(observed, {Root})
          /\ tracked' = tracked \ {Root}
      BY <1>8, <2>1 DEF SeeResult
    <3>2. EventOf("stop", observed[Root]) \in Events
      BY <2>1, EventType DEF IsFollowed
    <3>3. pending' \in Seq(Events) /\ Len(pending') =< 2
      BY <3>1, <3>2, Singles
    <3>4. IsFollowed(observed') /\ tracked' = DOMAIN observed'
      BY <3>1, WithoutIsFollowed DEF Without
    <3> QED BY <1>1, <1>8, <3>3, <3>4 DEF SeeResult
  <2>2. CASE Root \notin DOMAIN observed
    BY <1>1, <1>8, <2>2 DEF SeeResult
  <2> QED BY <2>1, <2>2
<1>9. CASE TakeSnapshot
  BY <1>1, <1>9, EmptyIsFollowed DEF TakeSnapshot
<1>10. CASE SnapshotFails
  BY <1>1, <1>10, GapType, Singles DEF SnapshotFails
<1>11. ASSUME NEW pid \in todo, ReadPid(pid)
       PROVE  TypeOK' /\ Born'
  <2>1. PICK started \in StartTimes(pid) : next' = Put(next, pid, ReadProcess(pid, started))
    BY <1>11 DEF ReadPid
  <2>2. /\ ReadProcess(pid, started) \in Processes
        /\ ReadProcess(pid, started).id.pid = pid
    BY <1>11, ReadType DEF ReadPid
  <2>3. IsFollowed(next')
    BY <2>1, <2>2, PutIsFollowed
  <2> QED BY <1>1, <1>11, <2>3 DEF ReadPid
<1>12. ASSUME NEW pid \in todo, SkipPid(pid)
       PROVE  TypeOK' /\ Born'
  BY <1>1, <1>12 DEF SkipPid
<1>13. CASE Select
  <2>1. IsFollowed(next') /\ todo' \subseteq Pids
    BY <1>13, SelectedIsKnown DEF Select, IsFollowed
  <2> QED BY <1>1, <1>13, <2>1 DEF Select
<1>14. ASSUME NEW pid \in Pids, Follow(pid)
       PROVE  TypeOK' /\ Born'
  <2>1. pid \in DOMAIN next
    BY <1>14 DEF Follow, IsFirst, Control
  <2>2. Known(pid) \in Processes /\ Known(pid).id.pid = pid
    BY <2>1, KnownType DEF IsFollowed
  <2>3. IsFollowed(observed')
    BY <1>14, <2>2, PutIsFollowed DEF Follow
  <2>4. tracked' = DOMAIN observed'
    BY <1>14 DEF Follow, Put
  <2>5. pending' \in Seq(Events) /\ Len(pending') =< 2
    BY <1>14, <2>1, LinesType DEF Follow
  <2> QED BY <1>1, <1>14, <2>3, <2>4, <2>5 DEF Follow
<1>15. ASSUME NEW pid \in Pids, Leave(pid)
       PROVE  TypeOK' /\ Born'
  <2>1. pid \in DOMAIN observed
    BY <1>15 DEF Leave, IsFirst, Unselected
  <2>2. EventOf("stop", observed[pid]) \in Events
    BY <2>1, EventType DEF IsFollowed
  <2>3. pending' \in Seq(Events) /\ Len(pending') =< 2
    BY <1>15, <2>2, Singles DEF Leave
  <2>4. IsFollowed(observed') /\ tracked' = DOMAIN observed'
    BY <1>15, WithoutIsFollowed DEF Leave, Without
  <2> QED BY <1>1, <1>15, <2>3, <2>4 DEF Leave
<1>16. CASE Finish
  <2>1. pending' \in {<<GapEvent>>, <<>>}
    BY <1>16 DEF Finish, Updated
  <2>2. <<GapEvent>> \in Seq(Events) /\ Len(<<GapEvent>>) = 1
    BY GapType, Singles
  <2>3. <<>> \in Seq(Events) /\ Len(<<>>) = 0
    OBVIOUS
  <2>4. pending' \in Seq(Events) /\ Len(pending') =< 2
    <3>1. CASE pending' = <<GapEvent>>
      BY <2>2, <3>1
    <3>2. CASE pending' = <<>>
      BY <2>3, <3>2
    <3> QED BY <2>1, <3>1, <3>2
  <2>5. pc' \in {"reap", "loop"} /\ (result' = result \/ result' \in {"ok", "command"})
    BY <1>16 DEF Finish
  <2>6. /\ UNCHANGED <<parent, command, age, todo, observed, tracked, reported, line>>
        /\ next' = EmptyTable
    BY <1>16 DEF Finish
  <2> QED BY <1>1, <2>4, <2>5, <2>6, EmptyIsFollowed
<1>17. CASE WriteLine
  <2>1. /\ pending # <<>> /\ pending' = Tail(pending) /\ line' = Head(pending)
        /\ Record(line')
    BY <1>17 DEF WriteLine
  <2>2. /\ pending' \in Seq(Events) /\ Len(pending') =< 2
        /\ line' \in Events
    BY <2>1, Taking
  <2>3. /\ DOMAIN reported' \subseteq Pids
        /\ reported' \in [DOMAIN reported' -> [started : Nat, captured : Nat \ {0}]]
    <3>1. line'.kind = "start" => reported' = Put(reported, line'.id.pid, FirstOf(line'))
      BY <2>1 DEF Record
    <3>2. line'.kind # "start" => \/ reported' = Without(reported, {line'.id.pid})
                                 \/ reported' = reported
      BY <2>1 DEF Record
    <3> HIDE DEF TypeOK
    <3>3. /\ DOMAIN reported \subseteq Pids
          /\ reported \in [DOMAIN reported -> [started : Nat, captured : Nat \ {0}]]
      BY DEF TypeOK
    <3>4. CASE line'.kind = "start"
      BY <2>2, <3>1, <3>3, <3>4, FirstType DEF Put
    <3>5. CASE line'.kind # "start"
      BY <3>2, <3>3, <3>5 DEF Without
    <3> QED BY <3>4, <3>5
  <2> QED BY <1>1, <1>17, <2>2, <2>3 DEF WriteLine
<1>18. CASE WriteFails
  <2>1. pending' \in Seq(Events) /\ Len(pending') =< 2
    BY <1>18 DEF WriteFails
  <2> QED BY <1>1, <1>18, <2>1, EmptyIsFollowed DEF WriteFails
<1>19. CASE ReapRoot
  BY <1>1, <1>19 DEF ReapRoot
<1>20. CASE UNCHANGED vars
  BY <1>1, <1>20 DEF vars
<1> QED BY <1>2, <1>3, <1>4, <1>5, <1>6, <1>7, <1>8, <1>9, <1>10, <1>11, <1>12, <1>13,
           <1>14, <1>15, <1>16, <1>17, <1>18, <1>19, <1>20 DEF Next, Run

-----------------------------------------------------------------------------
(***************************************************************************)
(* Control, and the command is waited for.                                 *)
(***************************************************************************)

LEMMA ControlInit == Init => Control /\ WaitsForRoot
  BY DEF Init, Control, WaitsForRoot, EmptyTable

LEMMA ControlStep ==
    TypeOK /\ Control /\ WaitsForRoot /\ [Next]_vars => Control' /\ WaitsForRoot'
<1> SUFFICES ASSUME TypeOK, Control, WaitsForRoot, [Next]_vars
             PROVE  Control' /\ WaitsForRoot'
  OBVIOUS
<1> USE DEF Control, WaitsForRoot, systemVars, commandVars, scanVars, followVars, logVars
<1>1. CASE System \/ Pass \/ WaitForRoot
  BY <1>1 DEF System, Pass, WaitForRoot
<1>2. CASE StartFails
  BY <1>2 DEF StartFails
<1>3. CASE StartCommand
  BY <1>3 DEF StartCommand, TypeOK
<1>4. CASE SeeCancelled \/ SnapshotFails
  BY <1>4 DEF SeeCancelled, SnapshotFails, Idle
<1>5. CASE SeeResult
  BY <1>5 DEF SeeResult, Idle, TypeOK
<1>6. CASE TakeSnapshot
  BY <1>6 DEF TakeSnapshot, Idle
<1>7. CASE \E pid \in todo : ReadPid(pid) \/ SkipPid(pid)
  BY <1>7 DEF ReadPid, SkipPid
<1>8. CASE Select
  BY <1>8, SelectedIsKnown DEF Select
<1>9. CASE \E pid \in Pids : Follow(pid) \/ Leave(pid)
  BY <1>9 DEF Follow, Leave
<1>10. CASE Finish
  BY <1>10 DEF Finish, Updated
<1>11. CASE WriteLine \/ WriteFails
  BY <1>11 DEF WriteLine, WriteFails
<1>12. CASE ReapRoot
  BY <1>12 DEF ReapRoot, TypeOK
<1>13. CASE UNCHANGED vars
  BY <1>13 DEF vars
<1> QED BY <1>1, <1>2, <1>3, <1>4, <1>5, <1>6, <1>7, <1>8, <1>9, <1>10, <1>11, <1>12,
           <1>13 DEF Next, Run

LEMMA WaitInvariant == Spec => []WaitInv
<1>1. Init => WaitInv
  BY TypeInit, ControlInit DEF WaitInv
<1>2. WaitInv /\ [Next]_vars => WaitInv'
  BY TypeStep, ControlStep DEF WaitInv
<1> QED BY <1>1, <1>2, PTL DEF Spec

\* The variables keep their types.
THEOREM Typing == Spec => []TypeOK
<1>1. WaitInv => TypeOK
  BY DEF WaitInv
<1> QED BY <1>1, WaitInvariant, PTL

\* Whatever ends the trace, it has waited for its command when it returns
\* (runTrace's deferred reapTraceRoot).
THEOREM AlwaysWaited == Spec => []WaitsForRoot
<1>1. WaitInv => WaitsForRoot
  BY DEF WaitInv
<1> QED BY <1>1, WaitInvariant, PTL

-----------------------------------------------------------------------------
(***************************************************************************)
(* The log.                                                                *)
(***************************************************************************)

LEMMA LogInit == Init => LogInv
<1> SUFFICES ASSUME Init PROVE LogInv
  OBVIOUS
<1>1. pending = <<>> /\ Len(pending) = 0 /\ reported = EmptyTable /\ observed = EmptyTable
  BY DEF Init
<1>2. LogFollows
  BY <1>1 DEF LogFollows, Leads, Bound, EmptyTable
<1>3. Explained
  BY DEF Init, Explained
<1> QED BY <1>2, <1>3 DEF LogInv

\* A sequence of no, one or two lines leads where its lines do.
LEMMA NothingLeads ==
    ASSUME NEW log, NEW table, Bound(log, table)
    PROVE  Leads(log, <<>>, table)
<1>1. Len(<<>>) = 0
  OBVIOUS
<1> QED BY <1>1 DEF Leads

LEMMA OneLeads ==
    ASSUME NEW log, NEW table, NEW event \in Events,
           Fits(log, event), Bound(After(log, event), table)
    PROVE  Leads(log, <<event>>, table)
<1>1. Len(<<event>>) = 1 /\ <<event>>[1] = event /\ <<event>> # <<>>
  OBVIOUS
<1> QED BY <1>1 DEF Leads

LEMMA TwoLead ==
    ASSUME NEW log, NEW table, NEW first \in Events, NEW second \in Events,
           Fits(log, first), Fits(After(log, first), second),
           Bound(After(After(log, first), second), table)
    PROVE  Leads(log, <<first, second>>, table)
<1>1. /\ Len(<<first, second>>) = 2 /\ <<first, second>> # <<>>
      /\ <<first, second>>[1] = first /\ <<first, second>>[2] = second
  OBVIOUS
<1> QED BY <1>1 DEF Leads

\* Once the first line is written the others lead on.
LEMMA WritingLeads ==
    ASSUME NEW log, NEW table, NEW lines \in Seq(Events), lines # <<>>, Len(lines) =< 2,
           Leads(log, lines, table)
    PROVE  /\ Fits(log, Head(lines))
           /\ Leads(After(log, Head(lines)), Tail(lines), table)
<1>1. /\ Head(lines) = lines[1] /\ Tail(lines) \in Seq(Events)
      /\ Len(lines) \in Nat \ {0} /\ Len(Tail(lines)) = Len(lines) - 1
      /\ \A i \in 1..(Len(lines) - 1) : Tail(lines)[i] = lines[i + 1]
  BY Taking
<1>2. Len(lines) = 1 \/ Len(lines) = 2
  BY <1>1
<1>3. CASE Len(lines) = 1
  <2>1. Len(Tail(lines)) = 0
    BY <1>1, <1>3
  <2>2. Tail(lines) = <<>>
    BY <1>1, <2>1, NoElements
  <2>3. Fits(log, lines[1]) /\ Bound(After(log, lines[1]), table)
    BY <1>3 DEF Leads
  <2> QED BY <1>1, <2>2, <2>3, NothingLeads
<1>4. CASE Len(lines) = 2
  <2>1. Len(Tail(lines)) = 1 /\ Tail(lines)[1] = lines[2]
    BY <1>1, <1>4
  <2>2. Tail(lines) # <<>>
    BY <2>1
  <2>3. /\ Fits(log, lines[1]) /\ Fits(After(log, lines[1]), lines[2])
        /\ Bound(After(After(log, lines[1]), lines[2]), table)
    BY <1>4 DEF Leads
  <2>4. Leads(After(log, lines[1]), Tail(lines), table)
    BY <2>1, <2>2, <2>3 DEF Leads
  <2> QED BY <1>1, <2>3, <2>4
<1> QED BY <1>2, <1>3, <1>4

\* The log and the table, changed alike, stay bound.
LEMMA StartBinds ==
    ASSUME NEW log, NEW table, NEW pid, NEW proc, NEW event,
           \A q \in DOMAIN table \ {pid} :
              q \in DOMAIN log /\ Log!Agree(log[q], FirstOf(table[q])),
           DOMAIN log \ {pid} = DOMAIN table \ {pid},
           event.kind = "start", event.id.pid = pid, FirstOf(event) = FirstOf(proc)
    PROVE  Bound(After(log, event), Put(table, pid, proc))
<1>1. After(log, event) = Put(log, pid, FirstOf(proc))
  BY DEF After
<1> HIDE DEF FirstOf
<1>2. \A q \in DOMAIN table \cup {pid} :
        Log!Agree(Put(log, pid, FirstOf(proc))[q], FirstOf(Put(table, pid, proc)[q]))
  BY DEF Put, Log!Agree
<1> QED BY <1>1, <1>2 DEF Bound, Put

LEMMA StopBinds ==
    ASSUME NEW log, NEW table, NEW pid, NEW event, Bound(log, table),
           event.kind = "stop", event.id.pid = pid
    PROVE  Bound(After(log, event), Without(table, {pid}))
<1>1. After(log, event) = Without(log, {pid})
  BY DEF After
<1> QED BY <1>1 DEF Bound, Without

\* The lines of an update lead from what was observed under a PID to what is.
LEMMA LinesLead ==
    ASSUME IsFollowed(next), IsFollowed(observed), NEW pid \in DOMAIN next,
           NEW log, Bound(log, observed)
    PROVE  Leads(log, LinesOf(pid), Put(observed, pid, Known(pid)))
<1> DEFINE known == Known(pid)
           start == EventOf("start", known)
           exec == EventOf("exec", known)
           stop == EventOf("stop", observed[pid])
           same == pid \in DOMAIN observed /\ SameGeneration(observed[pid], next[pid])
<1>1. /\ known \in Processes /\ known.id.pid = pid
      /\ same => Log!Agree(FirstOf(observed[pid]), FirstOf(known))
  BY KnownType DEF IsFollowed
<1>2. pid \in DOMAIN observed => observed[pid] \in Processes /\ observed[pid].id.pid = pid
  BY DEF IsFollowed
<1>3. /\ start \in Events /\ start.kind = "start" /\ start.id.pid = pid
      /\ FirstOf(start) = FirstOf(known)
      /\ exec \in Events /\ exec.kind = "exec" /\ exec.id.pid = pid
      /\ FirstOf(exec) = FirstOf(known)
  BY <1>1, EventType
<1>4. pid \in DOMAIN observed =>
         /\ stop \in Events /\ stop.kind = "stop" /\ stop.id.pid = pid
         /\ FirstOf(stop) = FirstOf(observed[pid])
  BY <1>2, EventType
<1>5. \/ pid \notin DOMAIN observed /\ LinesOf(pid) = <<start>>
      \/ pid \in DOMAIN observed /\ LinesOf(pid) = <<stop, start>>
      \/ same /\ pid \in DOMAIN observed /\ LinesOf(pid) \in {<<exec>>, <<>>}
  BY DEF LinesOf
<1> HIDE DEF known, start, exec, stop, same
<1>6. /\ DOMAIN log = DOMAIN observed
      /\ \A q \in DOMAIN observed : Log!Agree(log[q], FirstOf(observed[q]))
  BY DEF Bound
<1>7. CASE pid \notin DOMAIN observed /\ LinesOf(pid) = <<start>>
  <2>1. Fits(log, start)
    BY <1>3, <1>6, <1>7 DEF Fits
  <2>2. Bound(After(log, start), Put(observed, pid, known))
    BY <1>3, <1>6, StartBinds
  <2> QED BY <1>3, <1>7, <2>1, <2>2, OneLeads DEF known
<1>8. CASE pid \in DOMAIN observed /\ LinesOf(pid) = <<stop, start>>
  <2>1. After(log, stop) = Without(log, {pid})
    BY <1>4, <1>8 DEF After
  <2>2. Fits(log, stop)
    BY <1>4, <1>6, <1>8 DEF Fits
  <2>3. Fits(After(log, stop), start)
    BY <1>3, <2>1 DEF Fits, Without
  <2>4. /\ DOMAIN After(log, stop) \ {pid} = DOMAIN observed \ {pid}
        /\ \A q \in DOMAIN observed \ {pid} :
              /\ q \in DOMAIN After(log, stop)
              /\ Log!Agree(After(log, stop)[q], FirstOf(observed[q]))
    BY <1>6, <2>1 DEF Without
  <2>5. Bound(After(After(log, stop), start), Put(observed, pid, known))
    BY <1>3, <2>4, StartBinds
  <2> QED BY <1>3, <1>4, <1>8, <2>2, <2>3, <2>5, TwoLead DEF known
<1>9. CASE same /\ pid \in DOMAIN observed /\ LinesOf(pid) \in {<<exec>>, <<>>}
  <2>0. Log!Agree(log[pid], FirstOf(known))
    BY <1>1, <1>6, <1>9 DEF Log!Agree
  <2>1. Bound(log, Put(observed, pid, known))
    <3>1. DOMAIN Put(observed, pid, known) = DOMAIN observed
      BY <1>9 DEF Put
    <3>2. \A q \in DOMAIN observed :
             Log!Agree(log[q], FirstOf(Put(observed, pid, known)[q]))
      BY <1>6, <2>0 DEF Put
    <3> QED BY <1>6, <3>1, <3>2 DEF Bound
  <2>2. CASE LinesOf(pid) = <<exec>>
    <3>1. After(log, exec) = log
      BY <1>3 DEF After
    <3>2. Fits(log, exec)
      BY <1>3, <1>6, <1>9, <2>0 DEF Fits
    <3> QED BY <1>3, <2>1, <2>2, <3>1, <3>2, OneLeads DEF known
  <2>3. CASE LinesOf(pid) = <<>>
    BY <2>1, <2>3, NothingLeads DEF known
  <2> QED BY <1>9, <2>2, <2>3
<1> QED BY <1>5, <1>7, <1>8, <1>9

LEMMA GapLeads ==
    ASSUME NEW log, NEW table, Bound(log, table)
    PROVE  Leads(log, <<GapEvent>>, table)
<1>1. GapEvent \in Events /\ GapEvent.kind = "gap"
  BY GapType
<1>2. Fits(log, GapEvent) /\ After(log, GapEvent) = log
  BY <1>1 DEF Fits, After
<1> QED BY <1>1, <1>2, OneLeads

LEMMA StopLeads ==
    ASSUME IsFollowed(observed), NEW pid \in DOMAIN observed,
           NEW log, Bound(log, observed)
    PROVE  Leads(log, <<EventOf("stop", observed[pid])>>, Without(observed, {pid}))
<1> DEFINE stop == EventOf("stop", observed[pid])
<1>1. observed[pid] \in Processes /\ observed[pid].id.pid = pid
  BY DEF IsFollowed
<1>2. /\ stop \in Events /\ stop.kind = "stop" /\ stop.id.pid = pid
      /\ FirstOf(stop) = FirstOf(observed[pid])
  BY <1>1, EventType
<1> HIDE DEF stop
<1>3. Fits(log, stop)
  BY <1>2 DEF Fits, Bound
<1>4. Bound(After(log, stop), Without(observed, {pid}))
  BY <1>2, StopBinds
<1> QED BY <1>2, <1>3, <1>4, OneLeads DEF stop

\* A line written takes the log where it leads.
LEMMA RecordFollows ==
    ASSUME NEW event \in Events, Record(event)
    PROVE  reported' = After(reported, event)
<1>1. event.kind \in {"gap", "start", "exec", "stop"}
  BY GapType DEF Events
<1>2. CASE event.kind = "start"
  BY <1>2 DEF Record, After
<1>3. CASE event.kind = "stop"
  BY <1>3 DEF Record, After
<1>4. CASE event.kind \in {"exec", "gap"}
  BY <1>4 DEF Record, After
<1> QED BY <1>1, <1>2, <1>3, <1>4

LEMMA FollowsStep == WaitInv /\ LogFollows /\ [Next]_vars => LogFollows'
<1> SUFFICES ASSUME TypeOK, Control, LogFollows, [Next]_vars, result' # "write"
             PROVE  Leads(reported', pending', observed')
  BY DEF WaitInv, LogFollows
<1>0. IsFollowed(observed) /\ IsFollowed(next)
  BY DEF TypeOK
<1>a. result # "write" => Leads(reported, pending, observed)
  BY DEF LogFollows
<1>b. result = "write" => pending = <<>> /\ pc \in {"reap", "returned"}
  BY DEF Control
<1>c. result # "write" /\ pending = <<>> => Bound(reported, observed)
  BY <1>a DEF Leads
<1> USE DEF systemVars, commandVars, scanVars, followVars, logVars
<1>1. CASE System \/ Pass \/ WaitForRoot \/ TakeSnapshot \/ Select \/ UNCHANGED vars
  BY <1>1, <1>a DEF System, Pass, WaitForRoot, TakeSnapshot, Select, vars
<1>2. CASE \E pid \in todo : ReadPid(pid) \/ SkipPid(pid)
  BY <1>2, <1>a DEF ReadPid, SkipPid
<1>3. CASE StartFails
  BY <1>3, <1>a, <1>b DEF StartFails
<1>4. CASE StartCommand
  <2> DEFINE root == Process([source |-> "trace", pid |-> Root, token |-> clock],
                             Asked, clock, clock, Outside)
             start == EventOf("start", root)
  <2>1. clock \in Nat \ {0}
    BY OsAssumption DEF OsTypeOK, TypeOK
  <2>2. root \in Processes /\ root.id.pid = Root
    BY <2>1, TraceAssumption DEF Process, Processes, TraceIds
  <2>3. /\ pc = "start" /\ UNCHANGED <<result, reported>>
        /\ observed' = Put(observed, Root, root) /\ pending' = <<start>>
    BY <1>4 DEF StartCommand
  <2> HIDE DEF root
  <2>4. /\ start \in Events /\ start.kind = "start" /\ start.id.pid = Root
        /\ FirstOf(start) = FirstOf(root)
    BY <2>2, EventType
  <2> HIDE DEF start
  <2>5. DOMAIN observed = {} /\ Bound(reported, observed)
    BY <1>c, <2>3 DEF Control, EmptyTable
  <2>6. DOMAIN reported = {}
    BY <2>5 DEF Bound
  <2>7. Fits(reported, start)
    BY <2>4, <2>6 DEF Fits
  <2>8. Bound(After(reported, start), Put(observed, Root, root))
    BY <2>4, <2>5, <2>6, StartBinds
  <2> QED BY <2>3, <2>4, <2>7, <2>8, OneLeads
<1>5. CASE SeeCancelled \/ SnapshotFails
  BY <1>5, <1>b, <1>c, GapLeads DEF SeeCancelled, SnapshotFails, Idle
<1>6. CASE SeeResult
  <2>1. /\ pc = "loop" /\ pending = <<>> /\ UNCHANGED <<result, reported>>
        /\ \/ /\ Root \in DOMAIN observed
              /\ pending' = <<EventOf("stop", observed[Root])>>
              /\ observed' = Without(observed, {Root})
           \/ UNCHANGED <<pending, observed>>
    BY <1>6 DEF SeeResult, Idle
  <2> QED BY <1>0, <1>a, <1>c, <2>1, StopLeads
<1>7. ASSUME NEW pid \in Pids, Follow(pid)
      PROVE  Leads(reported', pending', observed')
  <2>1. /\ pending = <<>> /\ pid \in DOMAIN next /\ UNCHANGED <<result, reported>>
        /\ pending' = LinesOf(pid) /\ observed' = Put(observed, pid, Known(pid))
    BY <1>7 DEF Follow, IsFirst, Control
  <2> QED BY <1>0, <1>c, <2>1, LinesLead
<1>8. ASSUME NEW pid \in Pids, Leave(pid)
      PROVE  Leads(reported', pending', observed')
  <2>1. /\ pending = <<>> /\ pid \in DOMAIN observed /\ UNCHANGED <<result, reported>>
        /\ pending' = <<EventOf("stop", observed[pid])>>
        /\ observed' = Without(observed, {pid})
    BY <1>8 DEF Leave, IsFirst, Unselected
  <2> QED BY <1>0, <1>c, <2>1, StopLeads
<1>9. CASE Finish
  <2>1. /\ pc = "update" /\ pending = <<>> /\ UNCHANGED <<reported, observed>>
        /\ pending' \in {<<GapEvent>>, <<>>}
    BY <1>9 DEF Finish, Updated
  <2>2. Bound(reported, observed)
    BY <1>b, <1>c, <2>1
  <2> QED BY <2>1, <2>2, GapLeads, NothingLeads
<1>10. CASE WriteLine
  <2>1. /\ pending # <<>> /\ pending' = Tail(pending) /\ Record(Head(pending))
        /\ UNCHANGED <<result, observed>>
    BY <1>10 DEF WriteLine
  <2>2. pending \in Seq(Events) /\ Len(pending) =< 2 /\ Head(pending) \in Events
    BY <2>1, Taking DEF TypeOK
  <2>3. reported' = After(reported, Head(pending))
    BY <2>1, <2>2, RecordFollows
  <2>4. Leads(After(reported, Head(pending)), Tail(pending), observed)
    BY <1>a, <1>b, <2>1, <2>2, WritingLeads
  <2> QED BY <2>1, <2>3, <2>4
<1>11. CASE WriteFails
  BY <1>11 DEF WriteFails
<1>12. CASE ReapRoot
  BY <1>12, <1>a DEF ReapRoot
<1> QED BY <1>1, <1>2, <1>3, <1>4, <1>5, <1>6, <1>7, <1>8, <1>9, <1>10, <1>11, <1>12
        DEF Next, Run

LEMMA ExplainedStep == WaitInv /\ Explained /\ [Next]_vars => Explained'
<1> SUFFICES ASSUME TypeOK, Control, Explained, [Next]_vars PROVE Explained'
  BY DEF WaitInv
<1> USE DEF Explained, systemVars, commandVars, scanVars, followVars, logVars
<1>1. CASE System \/ Pass \/ WaitForRoot \/ TakeSnapshot \/ Select \/ UNCHANGED vars
  BY <1>1 DEF System, Pass, WaitForRoot, TakeSnapshot, Select, Idle, vars
<1>2. CASE \E pid \in todo : ReadPid(pid) \/ SkipPid(pid)
  BY <1>2 DEF ReadPid, SkipPid
<1>3. CASE StartFails \/ StartCommand
  BY <1>3 DEF StartFails, StartCommand
<1>4. CASE SeeCancelled \/ SnapshotFails \/ SeeResult
  BY <1>4 DEF SeeCancelled, SnapshotFails, SeeResult, Idle
<1>5. CASE \E pid \in Pids : Follow(pid) \/ Leave(pid)
  BY <1>5 DEF Follow, Leave
<1>6. CASE Finish
  BY <1>6 DEF Finish, Updated
<1>7. CASE WriteLine
  <2>1. /\ pending # <<>> /\ pending' = Tail(pending) /\ line' = Head(pending)
        /\ UNCHANGED <<pc, result, observed>>
    BY <1>7 DEF WriteLine
  <2>2. CASE pending = <<GapEvent>>
    <3>1. pending' = <<>> /\ line' = GapEvent
      BY <2>1, <2>2
    <3> QED BY <3>1
  <2>3. CASE pending # <<GapEvent>>
    BY <2>1, <2>3
  <2> QED BY <2>2, <2>3
<1>8. CASE WriteFails
  BY <1>8 DEF WriteFails
<1>9. CASE ReapRoot
  BY <1>9 DEF ReapRoot
<1> QED BY <1>1, <1>2, <1>3, <1>4, <1>5, <1>6, <1>7, <1>8, <1>9 DEF Next, Run

LEMMA LogInvariant == Spec => [](WaitInv /\ LogInv)
<1>1. WaitInv /\ LogInv /\ [Next]_vars => LogInv'
  BY FollowsStep, ExplainedStep DEF LogInv
<1> QED BY <1>1, WaitInvariant, LogInit, PTL DEF Spec

\* A trace that returns without an error has told the end of every process it
\* followed, or its last line is a gap (runTrace's traceFinished and its
\* cancellation).
THEOREM EndExplained == Spec => []EndIsExplained
<1>1. WaitInv /\ LogInv => EndIsExplained
  <2> SUFFICES ASSUME WaitInv, LogInv, pc = "returned", result \in {"ok", "command"},
                      line # GapEvent
               PROVE  reported = EmptyTable
    BY DEF EndIsExplained
  <2>1. pending = <<>>
    BY DEF WaitInv, Control
  <2>2. pending # <<GapEvent>>
    BY <2>1
  <2>3. observed = EmptyTable
    BY <2>2 DEF LogInv, Explained
  <2>4. Bound(reported, observed)
    BY <2>1 DEF LogInv, LogFollows, Leads
  <2>5. DOMAIN reported = {}
    BY <2>3, <2>4 DEF Bound, EmptyTable
  <2>6. reported \in [{} -> [started : Nat, captured : Nat \ {0}]]
    BY <2>5 DEF WaitInv, TypeOK
  <2> QED BY <2>6 DEF EmptyTable
<1> QED BY <1>1, LogInvariant, PTL

-----------------------------------------------------------------------------
(***************************************************************************)
(* The trace implements LifecycleLog, by PID.                              *)
(***************************************************************************)

LEMMA ByPidType ==
    ASSUME NEW event \in Events
    PROVE  /\ ByPidOnly(event).kind = event.kind
           /\ event.kind # "gap" =>
                 /\ ByPidOnly(event).id = event.id.pid
                 /\ Log!FirstOf(ByPidOnly(event)) = FirstOf(event)
<1>1. CASE event.kind = "gap"
  BY <1>1 DEF ByPidOnly
<1>2. CASE event.kind # "gap"
  <2>1. event \in [kind : {"start", "exec", "stop"}, id : TraceIds,
                   image : Images \cup {Defunct, Asked},
                   started : Nat, captured : Nat \ {0}]
    BY <1>2 DEF Events, GapEvent
  <2>2. ByPidOnly(event) = [event EXCEPT !.id = event.id.pid]
    BY <2>1 DEF ByPidOnly
  <2> QED BY <2>1, <2>2 DEF Log!FirstOf, FirstOf
<1> QED BY <1>1, <1>2

\* A line written is a line the log may take.
LEMMA WriteIsPromised ==
    ASSUME TypeOK, Control, LogFollows, WriteLine
    PROVE  Log!StartLine \/ Log!ExecLine \/ Log!StopLine \/ Log!GapLine
<1> DEFINE event == Head(pending)
           shown == ByPidOnly(event)
           phase == IF pc = "start" THEN "closed" ELSE "open"
<1>1. /\ pending # <<>> /\ line' = event /\ Record(event) /\ pc' = pc
  BY DEF WriteLine
<1>2. event \in Events /\ Len(pending) =< 2
  BY <1>1, Taking DEF TypeOK
<1>3. Fits(reported, event)
  <2>1. Leads(reported, pending, observed)
    BY <1>1 DEF Control, LogFollows
  <2> QED BY <1>1, <2>1, WritingLeads DEF TypeOK
<1>4. pc # "start" /\ pc' # "start"
  BY <1>1 DEF Control
<1>5. reported' = After(reported, event)
  BY <1>1, <1>2, RecordFollows
<1>6. /\ shown.kind = event.kind
      /\ event.kind # "gap" => shown.id = event.id.pid
                               /\ Log!FirstOf(shown) = FirstOf(event)
  BY <1>2, ByPidType
<1>7. ByPidOnly(line)' = shown
  BY <1>1
<1>8. event.kind \in {"gap", "start", "exec", "stop"}
  BY <1>2, GapType DEF Events
<1> HIDE DEF event, shown
<1>9. CASE event.kind = "start"
  <2>1. reported' = Put(reported, shown.id, Log!FirstOf(shown))
    BY <1>5, <1>6, <1>9 DEF After
  <2>2. shown.id \notin DOMAIN reported
    BY <1>3, <1>6, <1>9 DEF Fits
  <2> QED BY <1>4, <1>6, <1>7, <1>9, <2>1, <2>2 DEF Log!StartLine, Put
<1>10. CASE event.kind = "exec"
  <2>1. reported' = reported
    BY <1>5, <1>10 DEF After
  <2>2. /\ shown.id \in DOMAIN reported
        /\ Log!Agree(reported[shown.id], Log!FirstOf(shown))
    BY <1>3, <1>6, <1>10 DEF Fits
  <2> QED BY <1>4, <1>6, <1>7, <1>10, <2>1, <2>2 DEF Log!ExecLine
<1>11. CASE event.kind = "stop"
  <2>1. reported' = Without(reported, {shown.id})
    BY <1>5, <1>6, <1>11 DEF After
  <2>2. /\ shown.id \in DOMAIN reported
        /\ Log!Agree(reported[shown.id], Log!FirstOf(shown))
    BY <1>3, <1>6, <1>11 DEF Fits
  <2> QED BY <1>4, <1>6, <1>7, <1>11, <2>1, <2>2
          DEF Log!StopLine, Without
<1>12. CASE event.kind = "gap"
  <2>1. reported' = reported
    BY <1>5, <1>12 DEF After
  <2> QED BY <1>4, <1>6, <1>7, <1>12, <2>1 DEF Log!GapLine
<1> QED BY <1>8, <1>9, <1>10, <1>11, <1>12

LEMMA OnlyWriteLogs ==
    [Next]_vars => \/ WriteLine
                   \/ UNCHANGED <<reported, line>> /\ (pc' = "start" => pc = "start")
<1> SUFFICES ASSUME [Next]_vars, ~WriteLine
             PROVE  UNCHANGED <<reported, line>> /\ (pc' = "start" => pc = "start")
  OBVIOUS
<1> USE DEF systemVars, commandVars, scanVars, followVars, logVars
<1>1. CASE System \/ Pass \/ WaitForRoot \/ TakeSnapshot \/ Select \/ UNCHANGED vars
  BY <1>1 DEF System, Pass, WaitForRoot, TakeSnapshot, Select, vars
<1>2. CASE \E pid \in todo : ReadPid(pid) \/ SkipPid(pid)
  BY <1>2 DEF ReadPid, SkipPid
<1>3. CASE StartFails \/ StartCommand \/ SeeCancelled \/ SnapshotFails \/ SeeResult
  BY <1>3 DEF StartFails, StartCommand, SeeCancelled, SnapshotFails, SeeResult
<1>4. CASE \E pid \in Pids : Follow(pid) \/ Leave(pid)
  BY <1>4 DEF Follow, Leave
<1>5. CASE Finish \/ WriteFails \/ ReapRoot
  BY <1>5 DEF Finish, WriteFails, ReapRoot
<1> QED BY <1>1, <1>2, <1>3, <1>4, <1>5 DEF Next, Run

\* Of every PID the log tells a start, replacements and a stop, in turn, all
\* bound to its first observation, across the reuse of the PID and the change
\* of the root's identity (updateTracedProcesses).
THEOREM Refinement == Spec => KeepsPromise
<1>1. Init => Log!LogInit
  BY DEF Init, EmptyTable, ByPidOnly, Log!LogInit, Log!NoLine
<1>2. WaitInv /\ LogInv /\ [Next]_vars => [Log!LogNext]_(Log!logVars)
  <2> SUFFICES ASSUME TypeOK, Control, LogFollows, [Next]_vars
               PROVE  [Log!LogNext]_(Log!logVars)
    BY DEF WaitInv, LogInv
  <2>1. CASE WriteLine
    BY <2>1, WriteIsPromised DEF Log!LogNext
  <2>2. CASE UNCHANGED <<reported, line>> /\ pc = "start" /\ pc' # "start"
    <3>1. ByPidOnly(line)' = ByPidOnly(line)
      BY <2>2
    <3> QED BY <2>2, <3>1 DEF Log!LogNext, Log!Open
  <2>3. CASE UNCHANGED <<reported, line>> /\ (pc' = "start" <=> pc = "start")
    <3>1. ByPidOnly(line)' = ByPidOnly(line)
      BY <2>3
    <3> QED BY <2>3, <3>1 DEF Log!logVars
  <2> QED BY <2>1, <2>2, <2>3, OnlyWriteLogs
<1> QED BY <1>1, <1>2, LogInvariant, PTL DEF Spec, KeepsPromise, Log!LogSpec

-----------------------------------------------------------------------------
(***************************************************************************)
(* Where the stops in the log come from.                                   *)
(***************************************************************************)

IsPending(event) == \E i \in 1..Len(pending) : event = pending[i]

\* A stop is the root's end, or a process the update replaces or leaves.
StopOf(pid) ==
    \/ pid = Root /\ command' = "taken"
    \/ /\ Follow(pid) /\ pid \in DOMAIN next
       /\ ~SameGeneration(observed[pid], next[pid])
    \/ Leave(pid)

NewStop(event) ==
    \E pid \in DOMAIN observed :
        event = EventOf("stop", observed[pid]) /\ StopOf(pid)

\* A line comes to be pending as a stop or is no stop.
LEMMA StopsCome ==
    ASSUME TypeOK, Control, [Next]_vars, NEW i \in 1..Len(pending')
    PROVE  LET event == pending'[i]
           IN  IsPending(event) \/ event.kind # "stop" \/ NewStop(event)
<1> DEFINE event == pending'[i]
<1> SUFFICES IsPending(event) \/ event.kind # "stop" \/ NewStop(event)
  OBVIOUS
<1>0. pending \in Seq(Events) /\ Len(pending) \in Nat
  BY DEF TypeOK
<1> USE DEF systemVars, commandVars, scanVars, followVars, logVars
<1>1. CASE pending' = pending
  BY <1>1 DEF IsPending
<1>2. CASE pending' = <<>>
  BY <1>2
<1>3. CASE pending' = <<GapEvent>>
  <2>1. event = GapEvent
    BY <1>3
  <2> QED BY <2>1, GapType
<1>4. CASE StartCommand
  <2>1. \E root : pending' = <<EventOf("start", root)>>
    BY <1>4 DEF StartCommand
  <2>2. \E root : event = EventOf("start", root)
    BY <2>1
  <2> QED BY <2>2 DEF EventOf
<1>5. CASE SeeResult
  <2>1. CASE Root \in DOMAIN observed
    <3>1. pending' = <<EventOf("stop", observed[Root])>> /\ command' = "taken"
      BY <1>5, <2>1 DEF SeeResult
    <3>2. event = EventOf("stop", observed[Root])
      BY <3>1
    <3> QED BY <2>1, <3>1, <3>2 DEF NewStop, StopOf
  <2>2. CASE Root \notin DOMAIN observed
    BY <1>1, <1>5, <2>2 DEF SeeResult
  <2> QED BY <2>1, <2>2
<1>6. ASSUME NEW pid \in Pids, Follow(pid)
      PROVE  event.kind # "stop" \/ NewStop(event)
  <2>1. pid \in DOMAIN next /\ pending' = LinesOf(pid)
    BY <1>6 DEF Follow, IsFirst, Control
  <2>2. CASE pid \in DOMAIN observed /\ ~SameGeneration(observed[pid], next[pid])
    <3>1. pending' = <<EventOf("stop", observed[pid]), EventOf("start", Known(pid))>>
      BY <2>1, <2>2 DEF LinesOf
    <3>2. event = EventOf("stop", observed[pid]) \/ event = EventOf("start", Known(pid))
      BY <3>1
    <3>3. EventOf("start", Known(pid)).kind = "start"
      BY DEF EventOf
    <3>4. StopOf(pid)
      BY <1>6, <2>1, <2>2 DEF StopOf
    <3> QED BY <2>2, <3>2, <3>3, <3>4 DEF NewStop
  <2>3. CASE ~(pid \in DOMAIN observed /\ ~SameGeneration(observed[pid], next[pid]))
    <3>1. \/ pending' = <<EventOf("start", Known(pid))>>
          \/ pending' = <<EventOf("exec", Known(pid))>>
          \/ pending' = <<>>
      BY <2>1, <2>3 DEF LinesOf
    <3>2. event = EventOf("start", Known(pid)) \/ event = EventOf("exec", Known(pid))
      <4>1. CASE pending' = <<EventOf("start", Known(pid))>>
        BY <4>1
      <4>2. CASE pending' = <<EventOf("exec", Known(pid))>>
        BY <4>2
      <4> QED BY <1>2, <3>1, <4>1, <4>2
    <3> QED BY <3>2 DEF EventOf
  <2> QED BY <2>2, <2>3
<1>7. ASSUME NEW pid \in Pids, Leave(pid)
      PROVE  NewStop(event)
  <2>1. pid \in DOMAIN observed /\ pending' = <<EventOf("stop", observed[pid])>>
    BY <1>7 DEF Leave, IsFirst, Unselected
  <2>2. event = EventOf("stop", observed[pid])
    BY <2>1
  <2> QED BY <1>7, <2>1, <2>2 DEF NewStop, StopOf
<1>8. CASE WriteLine
  <2>1. pending # <<>> /\ pending' = Tail(pending)
    BY <1>8 DEF WriteLine
  <2>2. /\ Len(pending') = Len(pending) - 1
        /\ \A j \in 1..(Len(pending) - 1) : pending'[j] = pending[j + 1]
    BY <1>0, <2>1, Taking
  <2>3. i + 1 \in 1..Len(pending) /\ event = pending[i + 1]
    BY <1>0, <2>2
  <2> QED BY <2>3 DEF IsPending
<1> HIDE DEF event
<1>9. CASE System \/ Pass \/ WaitForRoot \/ TakeSnapshot \/ Select \/ UNCHANGED vars
  BY <1>9, <1>1 DEF System, Pass, WaitForRoot, TakeSnapshot, Select, vars
<1>10. CASE \E pid \in todo : ReadPid(pid) \/ SkipPid(pid)
  BY <1>10, <1>1 DEF ReadPid, SkipPid
<1>11. CASE StartFails \/ SeeCancelled \/ SnapshotFails
  BY <1>11, <1>1, <1>3 DEF StartFails, SeeCancelled, SnapshotFails
<1>12. CASE Finish \/ WriteFails \/ ReapRoot
  BY <1>12, <1>1, <1>2, <1>3 DEF Finish, WriteFails, ReapRoot
<1> QED BY <1>4, <1>5, <1>6, <1>7, <1>8, <1>9, <1>10, <1>11, <1>12 DEF Next, Run

\* A line is written when it was pending.
LEMMA LineWasPending ==
    ASSUME TypeOK, [Next]_vars
    PROVE  line' = line \/ IsPending(line')
<1>1. CASE WriteLine
  <2>1. pending # <<>> /\ line' = Head(pending)
    BY <1>1 DEF WriteLine
  <2>2. line' = pending[1] /\ Len(pending) \in Nat \ {0}
    BY <2>1, Taking DEF TypeOK
  <2> QED BY <2>2 DEF IsPending
<1> QED BY <1>1, OnlyWriteLogs

-----------------------------------------------------------------------------
(***************************************************************************)
(* The root.                                                               *)
(***************************************************************************)

LEMMA RootInit == Init => RootInv
  BY DEF Init, RootInv, RootStays, RootNotStopped, RootStopIsItsEnd

\* The command is started once, and listed until it is waited for.
LEMMA CommandSteps ==
    ASSUME TypeOK, Control, [Next]_vars, command' = "running"
    PROVE  \/ StartCommand
           \/ /\ command = "running" /\ ~SeeResult
              /\ Listed(Root) => Listed(Root)'
<1> USE DEF systemVars, commandVars, scanVars, followVars, logVars
<1>1. CASE System
  <2>1. command = "running" /\ ~SeeResult
    BY <1>1 DEF System, SeeResult
  <2>2. ASSUME Listed(Root) PROVE Listed(Root)'
    <3>1. \/ Elapse
          \/ \E pid \in Pids, image \in Images : Execute(pid, image)
          \/ \E pid \in Pids, image \in Images : Fork(pid, image)
          \/ \E pid \in Pids : ~Traced(pid) /\ Reap(pid)
          \/ \E pid \in Pids : Exit(pid) /\ (Traced(pid) => os'[pid].image = Defunct)
      BY <1>1 DEF System, Ends, Child
    <3> USE <2>1, <2>2, OsAssumption, TraceAssumption DEF Listed, TypeOK, OsTypeOK, Traced
    <3>2. CASE Elapse
      BY <3>2 DEF Elapse
    <3>3. CASE \E pid \in Pids, image \in Images : Execute(pid, image)
      BY <3>3 DEF Execute
    <3>6. CASE \E pid \in Pids, image \in Images : Fork(pid, image)
      BY <3>6 DEF Fork
    <3>4. CASE \E pid \in Pids : ~Traced(pid) /\ Reap(pid)
      BY <3>4 DEF Reap
    <3>5. CASE \E pid \in Pids : Exit(pid) /\ (Traced(pid) => os'[pid].image = Defunct)
      BY <3>5 DEF Exit
    <3> QED BY <3>1, <3>2, <3>3, <3>4, <3>5, <3>6
  <2> QED BY <2>1, <2>2
<1>2. CASE StartFails \/ SeeCancelled \/ TakeSnapshot \/ SnapshotFails \/ Pass
           \/ UNCHANGED vars
  BY <1>2 DEF StartFails, SeeCancelled, TakeSnapshot, SnapshotFails, Pass, vars, osVars,
              Listed, SeeResult
<1>3. CASE \E pid \in todo : ReadPid(pid) \/ SkipPid(pid)
  BY <1>3 DEF ReadPid, SkipPid, osVars, Listed, SeeResult
<1>4. CASE Select \/ Finish \/ \E pid \in Pids : Follow(pid) \/ Leave(pid)
  BY <1>4 DEF Select, Finish, Follow, Leave, osVars, Listed, SeeResult
<1>5. CASE WriteLine \/ WriteFails
  BY <1>5 DEF WriteLine, WriteFails, osVars, Listed, SeeResult
<1>6. CASE SeeResult \/ WaitForRoot \/ ReapRoot
  BY <1>6 DEF SeeResult, WaitForRoot, ReapRoot
<1> QED BY <1>1, <1>2, <1>3, <1>4, <1>5, <1>6 DEF Next, Run

\* The tables change under the root by a read or by the update only.
LEMMA RootReads ==
    ASSUME TypeOK, Control, [Next]_vars, command = "running", command' = "running"
    PROVE  /\ \/ Root \in DOMAIN observed => Root \in DOMAIN observed' /\
                     observed'[Root] = observed[Root]
              \/ Root \in DOMAIN next /\ Root \in DOMAIN observed' /\
                     observed'[Root] = Known(Root)
           /\ Root \in DOMAIN next' =>
                 \/ Root \in DOMAIN next /\ next'[Root] = next[Root]
                 \/ /\ Listed(Root) /\ UNCHANGED osVars
                    /\ \E started \in StartTimes(Root) :
                          next'[Root] = ReadProcess(Root, started)
<1> USE DEF systemVars, commandVars, scanVars, followVars, logVars
<1>1. CASE System \/ Pass \/ WaitForRoot \/ UNCHANGED vars
  BY <1>1 DEF System, Pass, WaitForRoot, vars
<1>2. CASE StartFails \/ SeeCancelled \/ SnapshotFails
  BY <1>2 DEF StartFails, SeeCancelled, SnapshotFails
<1>3. CASE StartCommand
  BY <1>3 DEF StartCommand, Control
<1>4. CASE TakeSnapshot
  BY <1>4 DEF TakeSnapshot, EmptyTable
<1>5. CASE \E pid \in todo : ReadPid(pid)
  BY <1>5 DEF ReadPid, Put
<1>6. CASE \E pid \in todo : SkipPid(pid)
  BY <1>6 DEF SkipPid
<1>7. CASE Select
  BY <1>7, SelectedIsKnown DEF Select
<1>8. CASE \E pid \in Pids : Follow(pid)
  BY <1>8 DEF Follow, IsFirst, Control, Put
<1>9. CASE \E pid \in Pids : Leave(pid)
  BY <1>9 DEF Leave, IsFirst, Unselected, RootActive, Without
<1>10. CASE Finish
  BY <1>10 DEF Finish, EmptyTable
<1>11. CASE WriteLine
  BY <1>11 DEF WriteLine
<1>12. CASE WriteFails
  BY <1>12 DEF WriteFails, EmptyTable
<1>13. CASE SeeResult \/ ReapRoot
  BY <1>13 DEF SeeResult, ReapRoot
<1> QED BY <1>1, <1>2, <1>3, <1>4, <1>5, <1>6, <1>7, <1>8, <1>9, <1>10, <1>11, <1>12,
           <1>13 DEF Next, Run

\* While the command runs the root that was followed is the one that is read,
\* but for a provisional root that is read without a start time.
LEMMA RootIsTheSame ==
    ASSUME TypeOK, Born, RootStays, command = "running", Root \in DOMAIN next
    PROVE  /\ next[Root].id = Identity(Root)
           /\ \/ SameGeneration(observed[Root], next[Root])
              \/ /\ ~Dated /\ observed[Root].id.source = "trace"
                 /\ next[Root].started = 0
<1>1. /\ observed[Root] \in Processes /\ observed[Root].id.pid = Root
      /\ next[Root] \in Processes /\ next[Root].id.pid = Root
  BY DEF TypeOK, IsFollowed, RootStays
<1>2. next[Root].id = Identity(Root) /\ next[Root].started \in StartTimes(Root)
  BY DEF RootStays
<1>3. observed[Root].id \in TraceIds
  BY <1>1 DEF Processes
<1>4. os[Root].birth \in Nat \ {0}
  BY TraceAssumption, OsAssumption DEF RootStays, Born, TypeOK, OsTypeOK
<1>5. CASE observed[Root].id.source = "os"
  <2>1. observed[Root].id = next[Root].id
    BY <1>2, <1>5 DEF RootStays
  <2> QED BY <1>1, <1>2, <2>1 DEF SameGeneration
<1>6. CASE observed[Root].id.source # "os"
  <2>1. observed[Root].id.source = "trace"
    BY <1>3, <1>6 DEF TraceIds
  <2>2. observed[Root].started = os[Root].birth
    BY <1>6 DEF RootStays
  <2>3. CASE next[Root].started = os[Root].birth
    <3>1. Provisional(observed[Root].id)
      BY <2>1 DEF Provisional, Provisionals
    <3>2. Distance(observed[Root].started, next[Root].started) =< Tolerance
      BY <1>4, <2>2, <2>3 DEF Distance, Tolerance
    <3> QED BY <1>1, <1>2, <1>4, <2>2, <2>3, <3>1, <3>2 DEF SameGeneration
  <2>4. CASE next[Root].started # os[Root].birth
    BY <1>2, <2>1, <2>4 DEF StartTimes
  <2> QED BY <2>3, <2>4
<1> QED BY <1>2, <1>5, <1>6

\* The root, when the command is started.
LEMMA RootIsFollowed ==
    ASSUME TypeOK, Control, StartCommand
    PROVE  RootStays'
<1> DEFINE root == Process([source |-> "trace", pid |-> Root, token |-> clock],
                           Asked, clock, clock, Outside)
<1>1. /\ observed' = Put(observed, Root, root) /\ next' = next
      /\ \E image \in Images : Fork(Root, image)
      /\ DOMAIN next = {}
  BY DEF StartCommand, Control, scanVars
<1>2. root.started = clock /\ root.id.source = "trace"
  BY DEF Process
<1> HIDE DEF root
<1>3. os'[Root].birth = clock /\ os'[Root].image \in Images
  BY <1>1, TraceAssumption DEF Fork, TypeOK, OsTypeOK
<1>4. Listed(Root)'
  BY <1>3, OsAssumption DEF Listed
<1>5. Root \in DOMAIN observed' /\ observed'[Root] = root
  BY <1>1 DEF Put
<1> QED BY <1>1, <1>2, <1>3, <1>4, <1>5 DEF RootStays

\* While the command runs the root keeps its identity.
LEMMA RootKeepsIdentity ==
    ASSUME TypeOK, Born, Control, RootStays, [Next]_vars,
           command = "running", command' = "running"
    PROVE  /\ Listed(Root) /\ Listed(Root)' /\ ~StartCommand /\ ~SeeResult
           /\ os'[Root].birth = os[Root].birth
           /\ Identity(Root)' = Identity(Root)
           /\ StartTimes(Root)' = StartTimes(Root)
<1>1. ~StartCommand
  BY DEF StartCommand, Control
<1>2. Listed(Root) /\ Listed(Root)' /\ ~SeeResult
  BY <1>1, CommandSteps DEF RootStays
<1>3. os'[Root].birth = os[Root].birth
  BY <1>2, StepsOfSystem, Aging, TraceAssumption DEF TypeOK
<1> QED BY <1>1, <1>2, <1>3 DEF Identity, StartTimes

LEMMA StaysStep == WaitInv /\ RootStays /\ [Next]_vars => RootStays'
<1> SUFFICES ASSUME TypeOK, Born, Control, RootStays, [Next]_vars, command' = "running"
             PROVE  RootStays'
  BY DEF WaitInv, RootStays
<1>1. CASE StartCommand
  BY <1>1, RootIsFollowed
<1>2. CASE command = "running"
  <2>1. /\ Listed(Root) /\ Listed(Root)'
        /\ os'[Root].birth = os[Root].birth
        /\ Identity(Root)' = Identity(Root) /\ StartTimes(Root)' = StartTimes(Root)
    BY <1>2, RootKeepsIdentity
  <2>2. Root \in DOMAIN observed
    BY <1>2 DEF RootStays
  <2>3. Root \in DOMAIN next' => next'[Root].id = Identity(Root)
                                 /\ next'[Root].started \in StartTimes(Root)
    <3>1. ASSUME NEW started \in StartTimes(Root)
          PROVE  /\ ReadProcess(Root, started).id = Identity(Root)
                 /\ ReadProcess(Root, started).started = started
      BY <2>1, ReadType, TraceAssumption DEF TypeOK
    <3> QED BY <1>2, <3>1, RootReads DEF RootStays
  <2>4. /\ Root \in DOMAIN observed'
        /\ IF observed'[Root].id.source = "os" THEN observed'[Root].id = Identity(Root)
           ELSE observed'[Root].started = os[Root].birth
    <3>1. CASE Root \in DOMAIN observed' /\ observed'[Root] = observed[Root]
      BY <1>2, <3>1 DEF RootStays
    <3>2. CASE Root \in DOMAIN next /\ Root \in DOMAIN observed' /\ observed'[Root] = Known(Root)
      <4>1. Known(Root).id = next[Root].id /\ next[Root].id = Identity(Root)
        BY <1>2, <3>2, KnownType DEF RootStays, TypeOK
      <4>2. Identity(Root).source = "os"
        BY DEF Identity, StableId
      <4> QED BY <3>2, <4>1, <4>2
    <3> QED BY <1>2, <2>2, <3>1, <3>2, RootReads
  <2> QED BY <2>1, <2>3, <2>4 DEF RootStays
<1> QED BY <1>1, <1>2, CommandSteps

\* The lines of an update stop the root that runs to start it anew, or leave it.
LEMMA RootLines ==
    ASSUME TypeOK, Born, Control, RootStays, command = "running",
           NEW pid \in DOMAIN next, NEW i \in 1..Len(LinesOf(pid)),
           StopsRoot(LinesOf(pid)[i])
    PROVE  i = 1 /\ Restart(LinesOf(pid))
<1> DEFINE stop == EventOf("stop", observed[pid])
           start == EventOf("start", Known(pid))
           exec == EventOf("exec", Known(pid))
<1>1. start.kind = "start" /\ exec.kind = "exec" /\ start.id = Known(pid).id
      /\ stop.id = observed[pid].id /\ start.started = Known(pid).started
  BY DEF EventOf
<1>2. \/ LinesOf(pid) \in {<<start>>, <<exec>>, <<>>}
      \/ /\ pid \in DOMAIN observed /\ ~SameGeneration(observed[pid], next[pid])
         /\ LinesOf(pid) = <<stop, start>>
  BY DEF LinesOf
<1> HIDE DEF stop, start, exec
<1>3. CASE LinesOf(pid) \in {<<start>>, <<exec>>, <<>>}
  <2>1. LinesOf(pid) = <<start>> \/ LinesOf(pid) = <<exec>> \/ LinesOf(pid) = <<>>
    BY <1>3
  <2>2. LinesOf(pid)[i].kind \in {"start", "exec"}
    <3>1. CASE LinesOf(pid) = <<start>>
      BY <1>1, <3>1
    <3>2. CASE LinesOf(pid) = <<exec>>
      BY <1>1, <3>2
    <3>3. CASE LinesOf(pid) = <<>>
      BY <3>3
    <3> QED BY <2>1, <3>1, <3>2, <3>3
  <2> QED BY <2>2 DEF StopsRoot
<1>4. CASE /\ pid \in DOMAIN observed /\ ~SameGeneration(observed[pid], next[pid])
           /\ LinesOf(pid) = <<stop, start>>
  <2>1. /\ Len(LinesOf(pid)) = 2 /\ LinesOf(pid)[1] = stop /\ LinesOf(pid)[2] = start
        /\ i \in 1..2
    BY <1>4
  <2>2. i = 1
    BY <1>1, <2>1 DEF StopsRoot
  <2>3. pid = Root
    BY <1>1, <1>4, <2>1, <2>2 DEF StopsRoot, TypeOK, IsFollowed
  <2>4. Known(pid) = next[pid]
    BY <1>4 DEF Known
  <2>5. /\ next[Root].id = Identity(Root) /\ next[Root].started = 0
        /\ ~Dated /\ observed[Root].id.source = "trace"
    BY <1>4, <2>3, RootIsTheSame
  <2> QED BY <1>1, <2>1, <2>2, <2>3, <2>4, <2>5 DEF Restart
<1> QED BY <1>2, <1>3, <1>4

LEMMA NotStoppedStep ==
    WaitInv /\ RootInv /\ [Next]_vars => RootNotStopped'
<1> SUFFICES ASSUME TypeOK, Born, Control, WaitsForRoot, RootStays, RootNotStopped,
                    [Next]_vars, command' = "running"
             PROVE  RootNotStopped'
  BY DEF WaitInv, RootInv, RootNotStopped, RootStopIsItsEnd
<1> DEFINE NoStop(lines) == \A i \in 1..Len(lines) : ~StopsRoot(lines[i])
<1> USE DEF systemVars, commandVars, scanVars, followVars, logVars
<1>1. CASE StartCommand
  <2>1. line'.kind = "none"
    BY <1>1 DEF StartCommand, Control
  <2>2. PICK start : pending' = <<start>> /\ start.kind = "start"
    BY <1>1 DEF StartCommand, EventOf
  <2>3. \A i \in 1..Len(pending') : pending'[i] = start
    BY <2>2
  <2> QED BY <2>1, <2>2, <2>3 DEF RootNotStopped, RootStopIsItsEnd, StopsRoot
<1>2. CASE command = "running"
  <2>1. Identity(Root)' = Identity(Root) /\ ~StartCommand /\ ~SeeResult
    BY <1>2, RootKeepsIdentity
  <2>2. /\ StopsRoot(line) => ~Dated /\ line.id.source = "trace"
        /\ StopsRoot(line) => RestartDue \/ pc = "reap"
        /\ \A i \in 1..Len(pending) : StopsRoot(pending[i]) => i = 1 /\ Restart(pending)
    BY <1>2 DEF RootNotStopped, RootStopIsItsEnd, StopsRoot
  <2>3. ASSUME pending = <<>>, pc # "reap"
        PROVE  ~StopsRoot(line)
    BY <2>2, <2>3 DEF RestartDue
  <2> HIDE DEF NoStop
  <2>4. ASSUME line' = line, NoStop(pending'), ~StopsRoot(line) \/ pc' = "reap"
        PROVE  RootNotStopped'
    <3>1. \A i \in 1..Len(pending') : ~StopsRoot(pending'[i])
      BY <2>4 DEF NoStop
    <3>2. (\A i \in 1..Len(pending) : StopsRoot(pending[i]) => i = 1 /\ Restart(pending))'
      BY <3>1 DEF StopsRoot
    <3>3. RootStopIsItsEnd'
      BY <2>2, <2>4 DEF RootStopIsItsEnd, StopsRoot
    <3> QED BY <3>2, <3>3 DEF RootNotStopped
  <2>5. NoStop(<<>>) /\ NoStop(<<GapEvent>>)
    <3>1. \A i \in 1..Len(<<GapEvent>>) : <<GapEvent>>[i] = GapEvent
      OBVIOUS
    <3>2. ~StopsRoot(GapEvent)
      BY GapType DEF StopsRoot
    <3> QED BY <3>1, <3>2 DEF NoStop
  <2>6. CASE UNCHANGED <<pc, pending, line>>
    <3>1. RestartDue' <=> RestartDue
      BY <2>1, <2>6 DEF Restart, RestartDue
    <3>2. Restart(pending)' = Restart(pending)
      BY <2>1, <2>6 DEF Restart
    <3>3. (\A i \in 1..Len(pending) : StopsRoot(pending[i]) => i = 1 /\ Restart(pending))'
      BY <2>2, <2>6, <3>2 DEF StopsRoot
    <3>4. RootStopIsItsEnd'
      BY <2>2, <2>6, <3>1 DEF RootStopIsItsEnd, StopsRoot
    <3> QED BY <3>3, <3>4 DEF RootNotStopped
  <2>7. CASE TakeSnapshot \/ SnapshotFails \/ SeeCancelled \/ Finish
    <3>1. /\ pending = <<>> /\ pc # "reap" /\ line' = line
          /\ pending' \in {<<>>, <<GapEvent>>}
      BY <2>7 DEF TakeSnapshot, SnapshotFails, SeeCancelled, Finish, Idle, Updated
    <3>2. NoStop(pending')
      BY <2>5, <3>1
    <3> QED BY <2>3, <2>4, <3>1, <3>2
  <2>8. ASSUME NEW pid \in Pids, Leave(pid)
        PROVE  RootNotStopped'
    <3>1. /\ pending = <<>> /\ pc # "reap" /\ line' = line
          /\ pid \in DOMAIN observed /\ pid # Root
          /\ pending' = <<EventOf("stop", observed[pid])>>
      BY <1>2, <2>8 DEF Leave, IsFirst, Unselected, RootActive
    <3>2. EventOf("stop", observed[pid]).id.pid = pid
      BY <3>1 DEF EventOf, TypeOK, IsFollowed
    <3>3. \A i \in 1..Len(pending') : pending'[i] = EventOf("stop", observed[pid])
      BY <3>1
    <3>4. NoStop(pending')
      BY <3>1, <3>2, <3>3 DEF NoStop, StopsRoot
    <3> QED BY <2>3, <2>4, <3>1, <3>4
  <2>9. ASSUME NEW pid \in Pids, Follow(pid)
        PROVE  RootNotStopped'
    <3>1. /\ pending = <<>> /\ pc # "reap" /\ line' = line
          /\ pid \in DOMAIN next /\ pending' = LinesOf(pid)
      BY <2>9 DEF Follow, IsFirst, Control
    <3>2. \A i \in 1..Len(pending') : StopsRoot(pending'[i]) => i = 1 /\ Restart(pending')
      BY <1>2, <3>1, RootLines
    <3>3. Restart(pending)' = Restart(pending')
      BY <2>1 DEF Restart
    <3>4. ~StopsRoot(line')
      BY <2>3, <3>1
    <3> QED BY <3>2, <3>3, <3>4 DEF RootNotStopped, RootStopIsItsEnd, StopsRoot
  <2>10. CASE WriteLine
    <3>1. pending # <<>> /\ pending' = Tail(pending) /\ line' = Head(pending)
      BY <2>10 DEF WriteLine
    <3>2. /\ pending \in Seq(Events) /\ Len(pending) \in Nat \ {0} /\ line' = pending[1]
          /\ Len(pending') = Len(pending) - 1
          /\ \A j \in 1..(Len(pending) - 1) : pending'[j] = pending[j + 1]
      BY <3>1, Taking DEF TypeOK
    <3>3. ASSUME NEW i \in 1..Len(pending'), StopsRoot(pending'[i])
          PROVE  FALSE
      <4>1. i + 1 \in 1..Len(pending) /\ pending'[i] = pending[i + 1] /\ i + 1 # 1
        BY <3>2, <3>3
      <4> QED BY <2>2, <3>3, <4>1
    <3>4. ASSUME StopsRoot(line')
          PROVE  ~Dated /\ line'.id.source = "trace" /\ RestartDue'
      <4>1. Restart(pending)
        BY <2>2, <3>2, <3>4
      <4>2. Len(pending') = 1 /\ pending'[1] = pending[2]
        BY <3>2, <4>1 DEF Restart
      <4> QED BY <2>1, <3>2, <4>1, <4>2 DEF Restart, RestartDue
    <3> QED BY <3>3, <3>4 DEF RootNotStopped, RootStopIsItsEnd, StopsRoot
  <2>11. CASE WriteFails
    BY <2>4, <2>5, <2>11 DEF WriteFails
  <2>12. CASE System \/ Pass \/ WaitForRoot \/ Select \/ UNCHANGED vars
    <3>1. CASE Select
      <4>1. /\ pc = "scan" /\ pc' = "update" /\ UNCHANGED <<pending, line>>
        BY <3>1 DEF Select
      <4>2. Restart(pending)' = Restart(pending) /\ (RestartDue' <=> RestartDue)
        BY <2>1, <4>1 DEF Restart, RestartDue
      <4> QED BY <2>2, <4>1, <4>2 DEF RootNotStopped, RootStopIsItsEnd, StopsRoot
    <3> QED BY <1>2, <2>6, <2>12, <3>1 DEF System, Pass, WaitForRoot, vars
  <2>13. CASE \E pid \in todo : ReadPid(pid) \/ SkipPid(pid)
    BY <2>6, <2>13 DEF ReadPid, SkipPid
  <2>14. CASE StartFails \/ ReapRoot
    BY <1>2, <2>14 DEF StartFails, ReapRoot, Control
  <2> QED BY <2>1, <2>7, <2>8, <2>9, <2>10, <2>11, <2>12, <2>13, <2>14 DEF Next, Run
<1> QED BY <1>1, <1>2, CommandSteps

LEMMA RootInvariant == Spec => []RootInv
<1>1. WaitInv /\ RootInv /\ [Next]_vars => RootInv'
  BY StaysStep, NotStoppedStep DEF RootInv
<1> QED BY <1>1, WaitInvariant, RootInit, PTL DEF Spec

\* While the command runs the log does not stop the root, whatever the
\* snapshots miss (updateTracedProcesses passes the active root over); without
\* a start time it is stopped under its provisional name to be started at once
\* under the one it keeps (sameProcessGeneration).
THEOREM RootStopped == Spec => []RootStopIsItsEnd
<1>1. RootInv => RootStopIsItsEnd
  BY DEF RootInv, RootNotStopped
<1> QED BY <1>1, RootInvariant, PTL

-----------------------------------------------------------------------------
(***************************************************************************)
(* The descendants.                                                        *)
(***************************************************************************)

LEMMA GoneInit == Init => GoneInv
<1> SUFFICES ASSUME Init PROVE GoneInv
  OBVIOUS
<1>1. NoYounger /\ MissedHasLeft
  BY DEF Init, NoYounger, MissedHasLeft, EmptyTable
<1>2. StopsHaveLeft
  BY DEF Init, StopsHaveLeft
<1> QED BY <1>1, <1>2 DEF GoneInv

\* What has left stays away.
LEMMA LeftStays ==
    ASSUME OsTypeOK, Born, [Next]_vars, NEW id \in TraceIds, Left(os, id)
    PROVE  Left(os', id)
<1>1. id.pid \in Pids /\ id.token \in Nat
  BY DEF TraceIds
<1>2. /\ os[id.pid].birth \in Nat /\ os'[id.pid].birth \in Nat
      /\ os[id.pid].birth =< os'[id.pid].birth
      /\ ~Listed(id.pid) => ~Listed(id.pid)' \/ os[id.pid].birth < os'[id.pid].birth
  BY <1>1, StepsOfSystem, Aging
<1> QED BY <1>1, <1>2 DEF Left, Listed

LEMMA LeftIsGone ==
    ASSUME OsTypeOK, NEW id \in TraceIds, Left(os, id)
    PROVE  ~OnSystem(id)
<1>1. id.pid \in Pids /\ id.token \in Nat
  BY DEF TraceIds
<1>2. os[id.pid].birth \in Nat
  BY <1>1, OsAssumption DEF OsTypeOK
<1>3. CASE os[id.pid].birth > id.token
  BY <1>1, <1>2, <1>3 DEF OnSystem
<1>4. CASE os[id.pid].image = Gone
  BY <1>4 DEF OnSystem, Listed
<1> QED BY <1>3, <1>4 DEF Left

\* The identities in the tables, and when the PIDs were last handed out.
LEMMA Tokens ==
    ASSUME TypeOK, Born, [Next]_vars
    PROVE  /\ \A pid \in DOMAIN observed :
                 observed[pid].id \in TraceIds /\ observed[pid].id.pid = pid
                 /\ observed[pid].id.token \in Nat
           /\ \A pid \in DOMAIN next :
                 next[pid].id \in TraceIds /\ next[pid].id.pid = pid
                 /\ next[pid].id.token \in Nat
           /\ \A pid \in Pids : /\ os[pid].birth \in Nat /\ os'[pid].birth \in Nat
                                /\ os[pid].birth =< os'[pid].birth
<1>1. \A pid \in Pids : /\ os[pid].birth \in Nat /\ os'[pid].birth \in Nat
                        /\ os[pid].birth =< os'[pid].birth
  BY StepsOfSystem, Aging DEF TypeOK
<1> QED BY <1>1 DEF TypeOK, IsFollowed, Processes, TraceIds

\* Which entries a step leaves, and which it makes of what was read.
LEMMA TablesStep ==
    ASSUME TypeOK, Control, [Next]_vars
    PROVE  /\ \A pid \in DOMAIN observed' \ {Root} :
                 \/ pid \in DOMAIN observed /\ observed'[pid] = observed[pid]
                 \/ /\ pid \in DOMAIN next /\ observed'[pid] = Known(pid)
                    /\ next' = next
           /\ \A pid \in DOMAIN next' :
                 \/ pid \in DOMAIN next /\ next'[pid] = next[pid]
                 \/ /\ pid \in Pids /\ Listed(pid)
                    /\ \E started \in StartTimes(pid) :
                          next'[pid] = ReadProcess(pid, started)
                    /\ UNCHANGED <<osVars, observed>>
<1> USE DEF systemVars, commandVars, scanVars, followVars, logVars
<1>1. CASE System \/ Pass \/ WaitForRoot \/ UNCHANGED vars
  BY <1>1 DEF System, Pass, WaitForRoot, vars
<1>2. CASE StartFails \/ SeeCancelled \/ SnapshotFails \/ ReapRoot \/ WriteLine
  BY <1>2 DEF StartFails, SeeCancelled, SnapshotFails, ReapRoot, WriteLine
<1>3. CASE StartCommand
  BY <1>3 DEF StartCommand, Control, Put, EmptyTable
<1>4. CASE TakeSnapshot
  BY <1>4 DEF TakeSnapshot, EmptyTable
<1>5. CASE \E pid \in todo : ReadPid(pid)
  BY <1>5 DEF ReadPid, Put, TypeOK
<1>6. CASE \E pid \in todo : SkipPid(pid)
  BY <1>6 DEF SkipPid
<1>7. CASE Select
  BY <1>7, SelectedIsKnown DEF Select
<1>8. CASE \E pid \in Pids : Follow(pid)
  BY <1>8 DEF Follow, IsFirst, Control, Put
<1>9. CASE \E pid \in Pids : Leave(pid)
  BY <1>9 DEF Leave, Without
<1>10. CASE Finish
  BY <1>10 DEF Finish, EmptyTable
<1>11. CASE WriteFails
  BY <1>11 DEF WriteFails, EmptyTable
<1>12. CASE SeeResult
  BY <1>12 DEF SeeResult, Without
<1> QED BY <1>1, <1>2, <1>3, <1>4, <1>5, <1>6, <1>7, <1>8, <1>9, <1>10, <1>11, <1>12
        DEF Next, Run

LEMMA YoungerStep == WaitInv /\ NoYounger /\ [Next]_vars => NoYounger'
<1> SUFFICES ASSUME TypeOK, Born, Control, NoYounger, [Next]_vars PROVE NoYounger'
  BY DEF WaitInv
<1>1. DOMAIN observed' \subseteq Pids /\ DOMAIN next' \subseteq Pids
  <2>1. TypeOK'
    BY TypeStep
  <2> QED BY <2>1 DEF TypeOK, IsFollowed
<1>2. ASSUME NEW pid \in DOMAIN observed' \cap Sure
      PROVE  /\ observed'[pid].id.source = "os"
             /\ observed'[pid].id.token =< os'[pid].birth
  <2>1. CASE pid \in DOMAIN observed /\ observed'[pid] = observed[pid]
    BY <1>1, <2>1, Tokens DEF NoYounger
  <2>2. CASE pid \in DOMAIN next /\ observed'[pid] = Known(pid)
    <3>1. Known(pid).id = next[pid].id
      BY <2>2, KnownType DEF TypeOK
    <3> QED BY <1>1, <2>2, <3>1, Tokens DEF NoYounger
  <2> QED BY <2>1, <2>2, TablesStep DEF Sure
<1>3. ASSUME NEW pid \in DOMAIN next' \cap Sure
      PROVE  /\ next'[pid].id.source = "os"
             /\ next'[pid].id.token =< os'[pid].birth
             /\ pid \in DOMAIN observed' => observed'[pid].id.token =< next'[pid].id.token
  <2>0. Tokened /\ pid # Root
    BY DEF Sure
  <2>1. CASE pid \in DOMAIN next /\ next'[pid] = next[pid]
    <3>1. next'[pid].id.source = "os" /\ next'[pid].id.token =< os'[pid].birth
      BY <1>1, <2>1, Tokens DEF NoYounger
    <3>2. ASSUME pid \in DOMAIN observed'
          PROVE  observed'[pid].id.token =< next'[pid].id.token
      <4>1. CASE pid \in DOMAIN observed /\ observed'[pid] = observed[pid]
        BY <2>1, <3>2, <4>1 DEF NoYounger
      <4>2. CASE observed'[pid] = Known(pid)
        <5>1. Known(pid).id = next[pid].id
          BY <2>1, KnownType DEF TypeOK
        <5> QED BY <2>1, <4>2, <5>1, Tokens
      <4> QED BY <2>0, <3>2, <4>1, <4>2, TablesStep
    <3> QED BY <3>1, <3>2
  <2>2. CASE /\ pid \in Pids /\ Listed(pid)
             /\ \E started \in StartTimes(pid) : next'[pid] = ReadProcess(pid, started)
             /\ UNCHANGED <<osVars, observed>>
    <3>1. /\ next'[pid].id.source = "os" /\ next'[pid].id.token = os[pid].birth
      BY <2>0, <2>2, ReadType DEF TypeOK
    <3>2. os' = os /\ observed' = observed
      BY <2>2 DEF osVars
    <3> QED BY <2>2, <3>1, <3>2, Tokens DEF NoYounger
  <2> QED BY <2>1, <2>2, TablesStep
<1> QED BY <1>2, <1>3 DEF NoYounger

\* Whatever is tracked and was read is selected.
LEMMA KeptIsSelected == Kept \subseteq Selected
  BY DEF Selected, Kept

LEMMA MissedStep ==
    WaitInv /\ NoYounger /\ MissedHasLeft /\ [Next]_vars => MissedHasLeft'
<1> SUFFICES ASSUME TypeOK, Born, Control, NoYounger, MissedHasLeft, [Next]_vars
             PROVE  /\ pc' = "scan" => \A pid \in DOMAIN observed' \cap Sure :
                          \/ pid \in todo' \/ pid \in DOMAIN next'
                          \/ Left(os', observed'[pid].id)
                    /\ pc' = "update" => \A pid \in DOMAIN observed' \cap Sure :
                          pid \in DOMAIN next' \/ Left(os', observed'[pid].id)
  BY DEF WaitInv, MissedHasLeft
<1>0. ASSUME NEW pid \in DOMAIN observed, observed'[pid] = observed[pid],
             Left(os, observed[pid].id)
      PROVE  Left(os', observed'[pid].id)
  BY <1>0, Tokens, LeftStays DEF TypeOK
<1> USE DEF systemVars, commandVars, scanVars, followVars, logVars
<1>1. CASE UNCHANGED <<pc, observed, next, todo>>
  BY <1>0, <1>1 DEF MissedHasLeft
<1>2. CASE pc' \notin {"scan", "update"}
  BY <1>2
<1>3. CASE TakeSnapshot
  <2>1. ASSUME NEW pid \in DOMAIN observed \cap Sure, ~Listed(pid)
        PROVE  Left(os, observed[pid].id)
    BY <2>1, Tokens DEF NoYounger, Left, Listed, TypeOK, IsFollowed
  <2>2. /\ pc' = "scan" /\ observed' = observed
        /\ todo' = {pid \in Pids : Listed(pid)}
    BY <1>3 DEF TakeSnapshot
  <2> QED BY <1>0, <2>1, <2>2 DEF TypeOK, IsFollowed
<1>4. ASSUME NEW pid \in todo, ReadPid(pid)
      PROVE  pc' = "scan" /\ \A q \in DOMAIN observed' \cap Sure :
                q \in todo' \/ q \in DOMAIN next' \/ Left(os', observed'[q].id)
  <2>1. /\ pc = "scan" /\ pc' = "scan" /\ observed' = observed /\ todo' = todo \ {pid}
        /\ DOMAIN next' = DOMAIN next \cup {pid}
    BY <1>4 DEF ReadPid, Put
  <2> QED BY <1>0, <2>1 DEF MissedHasLeft
<1>5. ASSUME NEW pid \in todo, SkipPid(pid)
      PROVE  pc' = "scan" /\ \A q \in DOMAIN observed' \cap Sure :
                q \in todo' \/ q \in DOMAIN next' \/ Left(os', observed'[q].id)
  <2>1. /\ pc = "scan" /\ pc' = "scan" /\ observed' = observed /\ todo' = todo \ {pid}
        /\ next' = next /\ (pid \in Sure => ~Listed(pid))
    BY <1>5 DEF SkipPid, Sure
  <2>2. pid \in DOMAIN observed \cap Sure => Left(os, observed[pid].id)
    BY <2>1, Tokens DEF NoYounger, Left, Listed, TypeOK, IsFollowed
  <2> QED BY <1>0, <2>1, <2>2 DEF MissedHasLeft
<1>6. CASE Select
  <2>1. /\ pc = "scan" /\ todo = {} /\ pc' = "update" /\ observed' = observed
        /\ DOMAIN next' = Selected
    BY <1>6 DEF Select
  <2>2. DOMAIN observed \cap DOMAIN next \subseteq Selected
    BY KeptIsSelected DEF Kept, TypeOK
  <2> QED BY <1>0, <2>1, <2>2 DEF MissedHasLeft
<1>7. ASSUME NEW pid \in Pids, Follow(pid) \/ Leave(pid)
      PROVE  pc' = "update" /\ \A q \in DOMAIN observed' \cap Sure :
                q \in DOMAIN next' \/ Left(os', observed'[q].id)
  <2>1. /\ pc = "update" /\ pc' = "update" /\ next' = next
        /\ \A q \in DOMAIN observed' :
              \/ q \in DOMAIN observed /\ observed'[q] = observed[q]
              \/ q \in DOMAIN next
    BY <1>7 DEF Follow, Leave, IsFirst, Control, Put, Without
  <2> QED BY <1>0, <2>1 DEF MissedHasLeft
<1>8. CASE System \/ Pass \/ WaitForRoot \/ UNCHANGED vars
  BY <1>1, <1>8 DEF System, Pass, WaitForRoot, vars
<1>9. CASE StartFails \/ StartCommand \/ SeeCancelled \/ SnapshotFails \/ SeeResult
  BY <1>2, <1>9 DEF StartFails, StartCommand, SeeCancelled, SnapshotFails, SeeResult, Idle
<1>10. CASE WriteLine
  BY <1>1, <1>10 DEF WriteLine
<1>11. CASE Finish \/ WriteFails \/ ReapRoot
  BY <1>2, <1>11 DEF Finish, WriteFails, ReapRoot
<1> QED BY <1>3, <1>4, <1>5, <1>6, <1>7, <1>8, <1>9, <1>10, <1>11 DEF Next, Run

\* A process the update stops has left: another one was read in its place, or
\* none.
LEMMA StopIsLeft ==
    ASSUME TypeOK, Born, Control, NoYounger, MissedHasLeft, [Next]_vars,
           NEW pid \in DOMAIN observed \cap Sure, StopOf(pid)
    PROVE  Left(os, observed[pid].id)
<1>1. CASE Follow(pid) /\ pid \in DOMAIN next /\ ~SameGeneration(observed[pid], next[pid])
  <2>1. /\ observed[pid].id \in TraceIds /\ observed[pid].id.pid = pid
        /\ observed[pid].id.token \in Nat /\ observed[pid].id.source = "os"
        /\ next[pid].id \in TraceIds /\ next[pid].id.pid = pid
        /\ next[pid].id.token \in Nat /\ next[pid].id.source = "os"
        /\ os[pid].birth \in Nat
        /\ observed[pid].id.token =< next[pid].id.token
        /\ next[pid].id.token =< os[pid].birth
    BY <1>1, Tokens DEF NoYounger, TypeOK, IsFollowed
  <2>2. observed[pid].id # next[pid].id
    BY <1>1, <2>1 DEF SameGeneration
  <2>3. observed[pid].id.token # next[pid].id.token
    BY <2>1, <2>2 DEF TraceIds
  <2>4. observed[pid].id.token < os[pid].birth
    BY <2>1, <2>3
  <2> QED BY <2>1, <2>4 DEF Left
<1>2. CASE Leave(pid)
  BY <1>2 DEF Leave, IsFirst, Unselected, MissedHasLeft
<1> QED BY <1>1, <1>2 DEF StopOf, Sure

LEMMA StopsStep == WaitInv /\ GoneInv /\ [Next]_vars => StopsHaveLeft'
<1> SUFFICES ASSUME TypeOK, Born, Control, NoYounger, MissedHasLeft, StopsHaveLeft,
                    [Next]_vars
             PROVE  /\ \A i \in 1..Len(pending') :
                          pending'[i].kind = "stop" /\ pending'[i].id.pid \in Sure =>
                             Left(os', pending'[i].id)
                    /\ line'.kind = "stop" /\ line'.id.pid \in Sure => Left(os', line'.id)
  BY DEF WaitInv, GoneInv, StopsHaveLeft
<1>1. ASSUME NEW event \in Events, event.kind = "stop", Left(os, event.id)
      PROVE  Left(os', event.id)
  <2>1. event.id \in TraceIds
    BY <1>1 DEF Events, GapEvent
  <2> QED BY <1>1, <2>1, LeftStays DEF TypeOK
<1>2. ASSUME NEW event, IsPending(event)
      PROVE  /\ event \in Events
             /\ event.kind = "stop" /\ event.id.pid \in Sure => Left(os, event.id)
  BY <1>2 DEF IsPending, StopsHaveLeft, TypeOK
<1>3. ASSUME NEW event, NewStop(event), event.id.pid \in Sure
      PROVE  event \in Events /\ event.kind = "stop" /\ Left(os, event.id)
  <2>1. PICK pid \in DOMAIN observed :
           event = EventOf("stop", observed[pid]) /\ StopOf(pid)
    BY <1>3 DEF NewStop
  <2>2. observed[pid] \in Processes /\ observed[pid].id.pid = pid
    BY DEF TypeOK, IsFollowed
  <2>3. event \in Events /\ event.kind = "stop" /\ event.id = observed[pid].id
    BY <2>1, <2>2, EventType
  <2>4. pid \in Sure
    BY <1>3, <2>2, <2>3
  <2>5. Left(os, observed[pid].id)
    BY <2>1, <2>4, StopIsLeft
  <2> QED BY <2>3, <2>5
<1>4. ASSUME NEW i \in 1..Len(pending'),
             pending'[i].kind = "stop", pending'[i].id.pid \in Sure
      PROVE  Left(os', pending'[i].id)
  <2>1. IsPending(pending'[i]) \/ NewStop(pending'[i])
    BY <1>4, StopsCome
  <2> DEFINE event == pending'[i]
  <2>2. event \in Events /\ Left(os, event.id)
    BY <1>2, <1>3, <1>4, <2>1
  <2> QED BY <1>1, <1>4, <2>2
<1>5. ASSUME line'.kind = "stop", line'.id.pid \in Sure
      PROVE  Left(os', line'.id)
  <2>1. CASE line' = line
    <3>1. line \in Events /\ Left(os, line.id)
      BY <1>5, <2>1 DEF StopsHaveLeft, TypeOK
    <3> QED BY <1>1, <1>5, <2>1, <3>1
  <2>2. CASE IsPending(line')
    BY <1>1, <1>2, <1>5, <2>2
  <2> QED BY <2>1, <2>2, LineWasPending
<1> QED BY <1>4, <1>5

LEMMA GoneInvariant == Spec => [](WaitInv /\ GoneInv)
<1>1. WaitInv /\ GoneInv /\ [Next]_vars => GoneInv'
  BY YoungerStep, MissedStep, StopsStep DEF GoneInv
<1> QED BY <1>1, WaitInvariant, GoneInit, PTL DEF Spec

\* A descendant that is stopped in the log has gone from the system, whatever
\* happened to its parents (selectTracedProcesses starts from all that is
\* tracked) and whatever else could not be read, if its own reads do not fail
\* and identities have start tokens.
THEOREM StopsAreEnds == Spec => []StopMeansGone
<1>1. WaitInv /\ GoneInv => StopMeansGone
  <2> SUFFICES ASSUME WaitInv, GoneInv, Tokened, line.kind = "stop",
                      line.id.pid \notin Unreadable \cup {Root}
               PROVE  ~OnSystem(line.id)
    BY DEF StopMeansGone
  <2>1. line.id \in TraceIds
    BY DEF WaitInv, TypeOK, Events, GapEvent
  <2>2. line.id.pid \in Sure
    BY <2>1 DEF Sure, TraceIds
  <2> QED BY <2>1, <2>2, LeftIsGone DEF WaitInv, TypeOK, GoneInv, StopsHaveLeft
<1> QED BY <1>1, GoneInvariant, PTL
=============================================================================
