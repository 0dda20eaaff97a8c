------------------------- MODULE ConnectorWatchProofs -------------------------
(***************************************************************************)
(* The connector's state is well typed, its table holds each PID once and  *)
(* is right when the notices about a PID are used up, and the gaps in its  *)
(* sequence numbers are the losses, for every set of PIDs, images and      *)
(* CPUs, every capacity of the socket and width of the sequence numbers.   *)
(***************************************************************************)
EXTENDS ConnectorWatch, Tables, Queues, TLAPS

-----------------------------------------------------------------------------
\* Each PID once.

Scanning == pc \in {"first", "scan"}

\* No PID is both in the snapshot and still to be read.
NextApart == Scanning => \A id \in DOMAIN next : id.pid \notin todo

TablesInv == FiledOnce(next) /\ NextApart /\ FiledOnce(processes)

LEMMA ReadHasId ==
    ASSUME NEW pid
    PROVE  HasId(ReadProcess(pid)) /\ ReadProcess(pid).id = Identity(pid)
           /\ Identity(pid).pid = pid
  BY CapturedHasId DEF ReadProcess, Identity, StableId

LEMMA FromNoticeHasId ==
    ASSUME NEW notice
    PROVE  HasId(FromNotice(notice)) /\ FromNotice(notice).id.pid = notice.pid
  BY CapturedHasId DEF FromNotice, ConnectorId

\* findProcessByPID answers with an entry of the PID.
LEMMA FindHasId ==
    ASSUME FiledOnce(processes), NEW pid, NEW old \in Find(pid), old # NoProcess
    PROVE  HasId(old) /\ old.id.pid = pid
  BY DEF Find, AtPid, FiledOnce, Filed

\* A notice leaves one entry of its PID, or none, and no other entry touched.
LEMMA AppliedIsFiled ==
    ASSUME FiledOnce(processes), NEW notice, Apply(notice)
    PROVE  FiledOnce(processes')
<1> DEFINE pid == notice.pid
<1>1. ASSUME NEW proc, HasId(proc), proc.id.pid = pid, processes' = Replace(pid, proc)
      PROVE  FiledOnce(processes')
  BY <1>1, ReplaceIsFiled DEF Replace
<1>2. ASSUME NEW old \in Find(pid), NEW read \in Readings(pid), ForkNotice(notice, old, read)
      PROVE  FiledOnce(processes')
  <2>1. read # NoProcess => HasId(read) /\ read.id.pid = pid
    BY ReadHasId DEF Readings
  <2>2. read # NoProcess => HasId(Preserve(old, read)) /\ Preserve(old, read).id.pid = pid
    BY <2>1, PreserveHasId
  <2>3. \/ processes' = Replace(pid, FromNotice(notice))
        \/ read # NoProcess /\ processes' = Replace(pid, read)
        \/ old # NoProcess /\ processes' = Replace(pid, old)
        \/ read # NoProcess /\ processes' = Replace(pid, Preserve(old, read))
    BY <1>2 DEF ForkNotice
  <2> QED BY <1>1, <2>1, <2>2, <2>3, FromNoticeHasId, FindHasId
<1>3. ASSUME NEW old \in Find(pid), NEW read \in Readings(pid), ExecNotice(notice, old, read)
      PROVE  FiledOnce(processes')
  <2>1. read # NoProcess => HasId(read) /\ read.id.pid = pid
    BY ReadHasId DEF Readings
  <2>2. read # NoProcess => HasId(Preserve(old, read)) /\ Preserve(old, read).id.pid = pid
    BY <2>1, PreserveHasId
  <2>3. \/ processes' = Replace(pid, FromNotice(notice))
        \/ read # NoProcess /\ processes' = Replace(pid, read)
        \/ old # NoProcess /\ processes' = Replace(pid, old)
        \/ read # NoProcess /\ processes' = Replace(pid, Preserve(old, read))
    BY <1>3 DEF ExecNotice
  <2> QED BY <1>1, <2>1, <2>2, <2>3, FromNoticeHasId, FindHasId
<1>4. ASSUME NEW old, ExitNotice(notice, old)
      PROVE  FiledOnce(processes')
  BY <1>4, RemoveIsFiled DEF ExitNotice
<1> QED BY <1>2, <1>3, <1>4 DEF Apply

LEMMA TablesInit == Init => TablesInv
  BY EmptyIsFiled DEF Init, TablesInv, NextApart, Scanning

\* All other steps leave the tables alone, and do not begin a scan.
LEMMA TablesStay ==
    ASSUME TablesInv, UNCHANGED <<scanVars, processes>>, Scanning' => Scanning
    PROVE  TablesInv'
  BY DEF TablesInv, NextApart, scanVars

LEMMA TablesStep == TablesInv /\ [Next]_vars => TablesInv'
<1> SUFFICES ASSUME TablesInv, [Next]_vars PROVE TablesInv'
  OBVIOUS
<1>1. CASE UNCHANGED vars
  BY <1>1, TablesStay DEF vars, watchVars, Scanning
<1>2. CASE Subscribe
  BY <1>2, TablesStay DEF Subscribe, Scanning
<1>3. CASE TakeSnapshot
  BY <1>3, EmptyIsFiled DEF TakeSnapshot, TablesInv, NextApart, EmptyTable
<1>4. CASE SnapshotFails
  BY <1>4, TablesStay DEF SnapshotFails, Scanning, Idle
<1>5. ASSUME NEW pid \in todo, ReadPid(pid) PROVE TablesInv'
  <2>1. /\ Scanning /\ UNCHANGED <<pc, processes>>
        /\ todo' = todo \ {pid} /\ next' = Put(next, Identity(pid), ReadProcess(pid))
    BY <1>5 DEF ReadPid, Scanning
  <2>2. \A id \in DOMAIN next : id.pid # pid
    BY <2>1 DEF TablesInv, NextApart
  <2>3. FiledOnce(next') /\ DOMAIN next' = DOMAIN next \cup {Identity(pid)}
    <3> DEFINE read == ReadProcess(pid)
    <3>1. HasId(read) /\ read.id = Identity(pid) /\ read.id.pid = pid
      BY ReadHasId
    <3> HIDE DEF read
    <3>2. next' = Put(next, read.id, read)
      BY <2>1, <3>1 DEF read
    <3> QED BY <2>2, <3>1, <3>2, PutIsFiled DEF TablesInv
  <2>4. NextApart'
    BY <2>1, <2>3, ReadHasId DEF TablesInv, NextApart
  <2> QED BY <2>1, <2>3, <2>4 DEF TablesInv
<1>6. ASSUME NEW pid \in todo, SkipPid(pid) PROVE TablesInv'
  BY <1>6 DEF SkipPid, TablesInv, NextApart, Scanning
<1>7. CASE Adopt
  <2>1. \/ processes' = next
        \/ processes' = PreserveAll(Aligned(processes, next), next)
    BY <1>7 DEF Adopt
  <2>2. FiledOnce(processes')
    BY <2>1, PreserveAllIsFiled DEF TablesInv
  <2> QED BY <1>7, <2>2, EmptyIsFiled DEF Adopt, TablesInv, NextApart, EmptyTable
<1>8. CASE Receive
  BY <1>8, TablesStay DEF Receive, Scanning
<1>9. CASE ReceiveOverrun
  BY <1>9, TablesStay DEF ReceiveOverrun, Scanning
<1>10. CASE ReceiveFails
  BY <1>10, TablesStay DEF ReceiveFails, Scanning
<1>11. CASE ApplyNotice
  <2>1. FiledOnce(processes')
    BY <1>11, AppliedIsFiled DEF ApplyNotice, TablesInv
  <2> QED BY <1>11, <2>1 DEF ApplyNotice, TablesInv, NextApart, Scanning, scanVars
<1>12. ASSUME NEW event, Send(event) \/ Drop(event) PROVE TablesInv'
  BY <1>12, TablesStay DEF Send, Drop, Dequeue, Scanning
<1>13. CASE Cancel
  BY <1>13, TablesStay DEF Cancel, Scanning
<1>14. CASE Return
  BY <1>14, TablesStay DEF Return, Scanning
<1>15. CASE System
  BY <1>15, TablesStay DEF System, watchVars, Scanning
<1> QED BY <1>1, <1>2, <1>3, <1>4, <1>5, <1>6, <1>7, <1>8, <1>9, <1>10, <1>11, <1>12,
          <1>13, <1>14, <1>15 DEF Next, Watch

\* findProcessByPID finds the one entry of a PID, whatever notices and resyncs
\* of whatever age were applied (applyConnectorNotice, resync).
THEOREM AlwaysSound == Spec => []TableSound
<1>1. Spec => []TablesInv
  BY TablesInit, TablesStep, PTL DEF Spec
<1>2. TablesInv => TableSound
  BY FiledOnceIsSound DEF TablesInv, TableSound
<1> QED BY <1>1, <1>2, PTL

-----------------------------------------------------------------------------
\* Types.

Processes == [id : Ids, image : Images \cup {Defunct, Blank},
              started : Nat, captured : Nat]

LEMMA TableType ==
    ASSUME NEW table
    PROVE  IsTable(table) <=> /\ table = [id \in DOMAIN table |-> table[id]]
                              /\ DOMAIN table \subseteq Ids
                              /\ \A id \in DOMAIN table : table[id] \in Processes
  BY DEF IsTable, Processes

LEMMA EmptyIsTable == IsTable(EmptyTable)
  BY DEF IsTable, EmptyTable

LEMMA PutIsTable ==
    ASSUME NEW table, IsTable(table), NEW id \in Ids, NEW proc \in Processes
    PROVE  IsTable(Put(table, id, proc))
<1>1. \A k \in DOMAIN table : table[k] \in Processes
  BY TableType
<1>2. DOMAIN table \subseteq Ids
  BY TableType
<1>3. /\ DOMAIN Put(table, id, proc) = DOMAIN table \cup {id}
      /\ Put(table, id, proc) = [k \in DOMAIN Put(table, id, proc) |-> Put(table, id, proc)[k]]
      /\ \A k \in DOMAIN table \cup {id} : Put(table, id, proc)[k] = IF k = id THEN proc ELSE table[k]
  BY DEF Put
<1> QED BY <1>1, <1>2, <1>3, TableType

LEMMA WithoutIsTable ==
    ASSUME NEW table, IsTable(table), NEW ids
    PROVE  IsTable(Without(table, ids))
  BY TableType DEF Without

LEMMA PreserveType ==
    ASSUME NEW old \in Processes, NEW new \in Processes
    PROVE  Preserve(old, new) \in Processes
  BY DEF Preserve, Processes

LEMMA PreserveAllIsTable ==
    ASSUME NEW previous, IsTable(previous), NEW next1, IsTable(next1)
    PROVE  IsTable(PreserveAll(previous, next1))
<1>1. \A id \in DOMAIN next1 :
          PreserveAll(previous, next1)[id] =
              IF id \in DOMAIN previous THEN Preserve(previous[id], next1[id]) ELSE next1[id]
  BY DEF PreserveAll
<1>2. \A id \in DOMAIN next1 : PreserveAll(previous, next1)[id] \in Processes
  BY <1>1, TableType, PreserveType
<1>3. /\ DOMAIN PreserveAll(previous, next1) = DOMAIN next1
      /\ PreserveAll(previous, next1) = [id \in DOMAIN next1 |-> PreserveAll(previous, next1)[id]]
  BY DEF PreserveAll
<1> QED BY <1>2, <1>3, TableType

\* Entries that take the name of the snapshot stay processes.
LEMMA AlignedIsTable ==
    ASSUME NEW table, IsTable(table), NEW snapshot, IsTable(snapshot)
    PROVE  IsTable(Aligned(table, snapshot))
<1> DEFINE renamed == {id \in DOMAIN snapshot \ DOMAIN table :
                          \E old \in AtPid(table, id.pid) :
                             Provisional(old) /\ SameGeneration(table[old], snapshot[id])}
           former == {old \in DOMAIN table : \E id \in renamed : id.pid = old.pid}
           origin(id) == CHOOSE old \in former : old.pid = id.pid
<1>1. Aligned(table, snapshot) =
          [id \in (DOMAIN table \ former) \cup renamed |->
              IF id \in renamed THEN [table[origin(id)] EXCEPT !.id = id] ELSE table[id]]
  BY DEF Aligned
<1>2. renamed \subseteq Ids /\ DOMAIN table \subseteq Ids
  BY TableType
<1>3. ASSUME NEW id \in renamed
      PROVE  origin(id) \in DOMAIN table
  <2>1. \E old \in former : old.pid = id.pid
    BY DEF AtPid
  <2> QED BY <2>1
<1>4. ASSUME NEW id \in renamed
      PROVE  [table[origin(id)] EXCEPT !.id = id] \in Processes
  <2>1. table[origin(id)] \in Processes /\ id \in Ids
    BY <1>2, <1>3, TableType
  <2> HIDE DEF origin, renamed
  <2> QED BY <2>1 DEF Processes
<1>5. \A id \in DOMAIN table : table[id] \in Processes
  BY TableType
<1> HIDE DEF renamed, former, origin
<1>6. /\ DOMAIN Aligned(table, snapshot) = (DOMAIN table \ former) \cup renamed
      /\ Aligned(table, snapshot) = [id \in DOMAIN Aligned(table, snapshot) |-> Aligned(table, snapshot)[id]]
      /\ \A id \in DOMAIN Aligned(table, snapshot) :
            Aligned(table, snapshot)[id] =
              IF id \in renamed THEN [table[origin(id)] EXCEPT !.id = id] ELSE table[id]
  BY <1>1
<1> QED BY <1>2, <1>4, <1>5, <1>6, TableType

LEMMA ReadType ==
    ASSUME OsTypeOK, NEW pid \in Pids, Listed(pid)
    PROVE  Identity(pid) \in Ids /\ ReadProcess(pid) \in Processes
<1>1. os[pid].birth \in Nat /\ os[pid].image \in Images \cup {Defunct} /\ clock \in Nat
  BY OsAssumption DEF OsTypeOK, Listed
<1>2. Identity(pid) \in Ids
  BY <1>1 DEF Identity, StableId, Ids, Sources, Provisionals
<1> QED BY <1>1, <1>2 DEF ReadProcess, Captured, Processes

LEMMA FromNoticeType ==
    ASSUME OsTypeOK, NEW notice \in Notices
    PROVE  FromNotice(notice) \in Processes
<1>1. notice.pid \in Pids /\ notice.stamp \in Nat /\ clock \in Nat
  BY OsAssumption DEF Notices, OsTypeOK
<1>2. ConnectorId(notice.pid, notice.stamp) \in Ids
  BY <1>1 DEF ConnectorId, Ids, Sources, Provisionals
<1> QED BY <1>1, <1>2 DEF FromNotice, Captured, Processes

LEMMA FindType ==
    ASSUME IsTable(processes), NEW pid, NEW old \in Find(pid), old # NoProcess
    PROVE  old \in Processes
  BY TableType DEF Find, AtPid

LEMMA AppliedIsTable ==
    ASSUME OsTypeOK, IsTable(processes), NEW notice \in Notices, Apply(notice)
    PROVE  IsTable(processes')
<1> DEFINE pid == notice.pid
<1>1. pid \in Pids
  BY DEF Notices
<1>2. ASSUME NEW proc \in Processes, processes' = Replace(pid, proc)
      PROVE  IsTable(processes')
  <2>1. IsTable(RemoveByPid(processes, pid))
    BY WithoutIsTable DEF RemoveByPid
  <2>2. proc.id \in Ids
    BY DEF Processes
  <2> QED BY <1>2, <2>1, <2>2, PutIsTable DEF Replace
<1>3. ASSUME NEW old \in Find(pid), NEW read \in Readings(pid),
             ForkNotice(notice, old, read) \/ ExecNotice(notice, old, read)
      PROVE  IsTable(processes')
  <2>1. read # NoProcess => read \in Processes
    BY <1>1, ReadType DEF Readings
  <2>2. \/ processes' = Replace(pid, FromNotice(notice))
        \/ read # NoProcess /\ processes' = Replace(pid, read)
        \/ old # NoProcess /\ processes' = Replace(pid, old)
        \/ read # NoProcess /\ old # NoProcess /\ processes' = Replace(pid, Preserve(old, read))
    BY <1>3 DEF ForkNotice, ExecNotice
  <2>3. old # NoProcess => old \in Processes
    BY FindType
  <2> QED BY <1>2, <2>1, <2>2, <2>3, FromNoticeType, PreserveType
<1>4. ASSUME NEW old, ExitNotice(notice, old)
      PROVE  IsTable(processes')
  BY <1>4, WithoutIsTable DEF ExitNotice, RemoveByPid
<1> QED BY <1>3, <1>4 DEF Apply

LEMMA TypeInit == Init => TypeOK
<1> SUFFICES ASSUME Init PROVE TypeOK
  OBVIOUS
<1>1. OsTypeOK
  <2>1. os \in [Pids -> [birth : 0..MaxClock, image : Images \cup {Defunct, Gone}]]
    BY OsAssumption DEF Init, OsInit
  <2> QED BY <2>1, OsAssumption DEF Init, OsInit, OsTypeOK
<1>2. socket \in Seq(Notices) /\ batch \in Seq(Notices) /\ Len(socket) = 0 /\ Len(batch) = 0
  BY DEF Init
<1>3. Len(socket) =< Capacity /\ Len(batch) =< 1
  BY <1>2, ConnectorAssumption
<1>4. raised \in [Cpus -> Nat] /\ lost \in [Cpus -> Nat]
  BY DEF Init
<1>5. IsTable(next) /\ IsTable(processes)
  BY EmptyIsTable DEF Init
<1>6. /\ overrun \in BOOLEAN /\ cancelled \in BOOLEAN /\ needsResync \in BOOLEAN
      /\ pc \in {"setup", "baseline", "first", "loop", "scan", "returned"}
      /\ todo \subseteq Pids /\ missed \subseteq Pids /\ missing \subseteq Pids
  BY DEF Init
<1> QED BY <1>1, <1>2, <1>3, <1>4, <1>5, <1>6 DEF TypeOK

LEMMA SystemTypes ==
    ASSUME TypeOK, System
    PROVE  TypeOK'
<1>1. OsTypeOK'
  <2>1. \/ \E pid \in Pids :
              \/ \E image \in Images : Fork(pid, image) \/ Execute(pid, image)
              \/ Exit(pid) \/ Reap(pid)
        \/ Elapse
        \/ UNCHANGED osVars
    BY DEF System
  <2>2. OsTypeOK
    BY DEF TypeOK
  <2> QED BY <2>1, <2>2, OsAssumption
          DEF Fork, Execute, Exit, Reap, Elapse, osVars, OsTypeOK
<1>2. UNCHANGED watchVars
  BY DEF System
<1>3. \/ UNCHANGED <<socket, overrun, raised, historyVars>>
      \/ \E pid \in Pids, kind \in {"fork", "exec", "exit", "thread"} : Raise(kind, pid)
  BY DEF System
<1>4. CASE UNCHANGED <<socket, overrun, raised, historyVars>>
  BY <1>1, <1>2, <1>4 DEF TypeOK, historyVars, watchVars, scanVars, noticeVars
<1>5. ASSUME NEW pid \in Pids, NEW kind \in {"fork", "exec", "exit", "thread"}, Raise(kind, pid)
      PROVE  TypeOK'
  <2>1. PICK cpu \in Cpus :
            /\ raised' = [raised EXCEPT ![cpu] = @ + 1]
            /\ IF Subscribed THEN Queue(kind, pid, cpu) \/ Lose(pid, cpu)
                             ELSE UNCHANGED <<socket, overrun, historyVars>>
    BY <1>5 DEF Raise
  <2>2. raised' \in [Cpus -> Nat]
    BY <2>1 DEF TypeOK
  <2>3. CASE Queue(kind, pid, cpu)
    <3> DEFINE notice == [kind |-> kind, pid |-> pid, stamp |-> clock, cpu |-> cpu,
                          sequence |-> raised[cpu] % SeqWidth, after |-> lost[cpu]]
    <3>1. clock \in Nat /\ lost[cpu] \in Nat
      BY OsAssumption DEF TypeOK, OsTypeOK
    <3>2. raised[cpu] % SeqWidth \in Nat
      BY ConnectorAssumption DEF TypeOK
    <3>3. notice \in Notices
      BY <3>1, <3>2 DEF Notices
    <3>4. socket' = Append(socket, notice) /\ Len(socket) < Capacity
      BY <2>3 DEF Queue
    <3> HIDE DEF notice
    <3>5. socket' \in Seq(Notices) /\ Len(socket') = Len(socket) + 1 /\ Len(socket) \in Nat
      BY <3>3, <3>4, Appending DEF TypeOK
    <3>6. lost' \in [Cpus -> Nat]
      BY <2>3 DEF Queue, TypeOK
    <3> QED BY <1>1, <1>2, <2>2, <2>3, <3>4, <3>5, <3>6, ConnectorAssumption
            DEF Queue, TypeOK, watchVars, scanVars, noticeVars
  <2>4. CASE Lose(pid, cpu)
    <3>1. lost[cpu] + 1 \in Nat
      BY DEF TypeOK
    <3>2. (lost[cpu] + 1) % SeqWidth \in Nat
      BY <3>1, ConnectorAssumption
    <3>3. lost' \in [Cpus -> Nat]
      BY <2>4, <3>2 DEF Lose, TypeOK
    <3>4. overrun' \in BOOLEAN
      BY <2>4 DEF Lose, TypeOK
    <3> QED BY <1>1, <1>2, <2>2, <2>4, <3>3, <3>4
            DEF Lose, TypeOK, watchVars, scanVars, noticeVars
  <2>5. CASE UNCHANGED <<socket, overrun, historyVars>>
    BY <1>1, <1>2, <2>2, <2>5 DEF TypeOK, historyVars, watchVars, scanVars, noticeVars
  <2> QED BY <2>1, <2>3, <2>4, <2>5
<1> QED BY <1>3, <1>4, <1>5

\* A received notice is taken from the socket and nothing else is in hand.
LEMMA ReceiveTypes ==
    ASSUME TypeOK, Receive
    PROVE  TypeOK'
<1>1. socket # <<>> /\ socket' = Tail(socket) /\ batch' = <<Head(socket)>>
  BY DEF Receive
<1>2. /\ socket' \in Seq(Notices) /\ Head(socket) \in Notices
      /\ Len(socket) \in Nat \ {0} /\ Len(socket') = Len(socket) - 1
  BY <1>1, Taking DEF TypeOK
<1>3. batch' \in Seq(Notices) /\ Len(batch') = 1
  BY <1>1, <1>2
<1>4. Len(socket') =< Capacity
  BY <1>2, ConnectorAssumption DEF TypeOK
<1>5. needsResync' \in BOOLEAN
  BY DEF Receive, SequenceGap
<1> QED BY <1>2, <1>3, <1>4, <1>5
        DEF Receive, TypeOK, OsTypeOK, osVars, scanVars, historyVars

LEMMA TypeStep == TypeOK /\ [Next]_vars => TypeOK'
<1> SUFFICES ASSUME TypeOK, [Next]_vars PROVE TypeOK'
  OBVIOUS
<1> USE DEF kernelVars, scanVars, noticeVars, historyVars
<1>1. CASE UNCHANGED vars
  BY <1>1 DEF vars, watchVars, osVars, TypeOK, OsTypeOK
<1>2. CASE Subscribe
  BY <1>2 DEF Subscribe, osVars, TypeOK, OsTypeOK
<1>3. CASE TakeSnapshot
  BY <1>3, EmptyIsTable DEF TakeSnapshot, osVars, TypeOK, OsTypeOK
<1>4. CASE SnapshotFails
  BY <1>4 DEF SnapshotFails, osVars, TypeOK, OsTypeOK
<1>5. ASSUME NEW pid \in todo, ReadPid(pid) PROVE TypeOK'
  <2>1. IsTable(next')
    BY <1>5, ReadType, PutIsTable DEF ReadPid, TypeOK
  <2> QED BY <1>5, <2>1 DEF ReadPid, osVars, TypeOK, OsTypeOK
<1>6. ASSUME NEW pid \in todo, SkipPid(pid) PROVE TypeOK'
  BY <1>6 DEF SkipPid, osVars, TypeOK, OsTypeOK
<1>7. CASE Adopt
  <2>1. \/ processes' = next
        \/ processes' = PreserveAll(Aligned(processes, next), next)
    BY <1>7 DEF Adopt
  <2>2. IsTable(processes')
    BY <2>1, AlignedIsTable, PreserveAllIsTable DEF TypeOK
  <2> QED BY <1>7, <2>2, EmptyIsTable DEF Adopt, osVars, TypeOK, OsTypeOK
<1>8. CASE Receive
  BY <1>8, ReceiveTypes
<1>9. CASE ReceiveOverrun
  BY <1>9 DEF ReceiveOverrun, osVars, TypeOK, OsTypeOK
<1>10. CASE ReceiveFails
  BY <1>10 DEF ReceiveFails, osVars, TypeOK, OsTypeOK
<1>11. CASE ApplyNotice
  <2>1. Head(batch) \in Notices
    BY <1>11, Taking DEF ApplyNotice, TypeOK
  <2>2. IsTable(processes')
    BY <1>11, <2>1, AppliedIsTable DEF ApplyNotice, TypeOK
  <2>3. batch' \in Seq(Notices) /\ Len(batch') =< 1
    BY <1>11 DEF ApplyNotice
  <2> QED BY <1>11, <2>2, <2>3 DEF ApplyNotice, osVars, TypeOK, OsTypeOK
<1>12. ASSUME NEW event, Send(event) \/ Drop(event) PROVE TypeOK'
  BY <1>12 DEF Send, Drop, Dequeue, osVars, TypeOK, OsTypeOK
<1>13. CASE Cancel
  BY <1>13 DEF Cancel, osVars, TypeOK, OsTypeOK
<1>14. CASE Return
  BY <1>14 DEF Return, osVars, TypeOK, OsTypeOK
<1>15. CASE System
  BY <1>15, SystemTypes
<1> QED BY <1>1, <1>2, <1>3, <1>4, <1>5, <1>6, <1>7, <1>8, <1>9, <1>10, <1>11, <1>12,
          <1>13, <1>14, <1>15 DEF Next, Watch

\* The connector's state is well typed: the socket never holds more than its
\* capacity, and the tables hold processes under identities only.
THEOREM Typing == Spec => []TypeOK
  BY TypeInit, TypeStep, PTL DEF Spec

-----------------------------------------------------------------------------
(***************************************************************************)
(* The table is exact.  The last notice about a process that lost none     *)
(* tells how things are, and applying it reads them; when none is left the *)
(* table is right.  A snapshot makes up for the notices lost before it.    *)
(***************************************************************************)

\* There are no zombies where the system has none.
NoZombies == ~Zombies => \A pid \in Pids : os[pid].image # Defunct

\* A notice is in hand in the loop only, and none is queued before the watcher
\* subscribes.
Phases == /\ batch # <<>> => pc = "loop"
          /\ pc = "setup" => socket = <<>>

\* A notice that tells of a change of the process itself.
About(pid) == {notice \in Notices : notice.pid = pid /\ notice.kind # "thread"}

Told(notices, pid) == Held(notices, About(pid))

Tells(notice, pid) == notice.kind = "exit" <=> ~Running(pid)

LastTells ==
    Subscribed => \A pid \in Pids \ missed :
        /\ \A i \in 1..Len(socket) : LastOf(socket, About(pid), i) => Tells(socket[i], pid)
        /\ ~Told(socket, pid) =>
              \A i \in 1..Len(batch) : batch[i] \in About(pid) => Tells(batch[i], pid)

\* The table in use is right about a PID when no notice about it is left.
TableRight ==
    ~Skips /\ pc \in {"loop", "scan"} => \A pid \in Pids \ missed :
        ~Told(socket, pid) /\ ~Told(batch, pid) => Right(processes, pid)

\* So is the part of a snapshot that was read.
ScanRight ==
    ~Skips /\ Scanning => \A pid \in Pids \ missing :
        ~Told(socket, pid) => (Running(pid) /\ pid \in todo) \/ Right(next, pid)

RightInv == NoZombies /\ Phases /\ LastTells /\ TableRight /\ ScanRight

-----------------------------------------------------------------------------
\* The system.

\* No change that a table could be wrong about: a zombie may be reaped, and is
\* under the name it had.
Still(pid) ==
    \/ os'[pid] = os[pid]
    \/ /\ os[pid].image = Defunct /\ os'[pid].image = Gone
       /\ os'[pid].birth = os[pid].birth

LEMMA StillRight ==
    ASSUME NEW pid \in Pids, Still(pid)
    PROVE  /\ Running(pid)' <=> Running(pid)
           /\ UNCHANGED processes /\ Right(processes, pid) => Right(processes, pid)'
           /\ UNCHANGED next /\ Right(next, pid) => Right(next, pid)'
<1>1. CASE os'[pid] = os[pid]
  <2>1. /\ Running(pid)' <=> Running(pid)
        /\ Listed(pid)' <=> Listed(pid)
        /\ Identity(pid)' = Identity(pid) /\ os'[pid].image = os[pid].image
    BY <1>1 DEF Running, Listed, Identity
  <2>2. UNCHANGED processes /\ Right(processes, pid) => Right(processes, pid)'
    BY <2>1 DEF Right, AtPid
  <2>3. UNCHANGED next /\ Right(next, pid) => Right(next, pid)'
    BY <2>1 DEF Right, AtPid
  <2> QED BY <2>1, <2>2, <2>3
<1>2. CASE /\ os[pid].image = Defunct /\ os'[pid].image = Gone
           /\ os'[pid].birth = os[pid].birth
  <2>1. ~Running(pid) /\ ~Running(pid)' /\ Identity(pid)' = Identity(pid)
    BY <1>2, OsAssumption DEF Running, Identity
  <2> QED BY <2>1 DEF Right, AtPid
<1> QED BY <1>1, <1>2 DEF Still

\* Every other change raises a notice.
LEMMA SystemChanges ==
    ASSUME OsTypeOK, NoZombies, System
    PROVE  /\ NoZombies'
           /\ UNCHANGED watchVars
           /\ \/ /\ UNCHANGED <<socket, historyVars>>
                 /\ \A q \in Pids : Still(q)
              \/ \E pid \in Pids, kind \in {"fork", "exec", "exit", "thread"} :
                    /\ Raise(kind, pid)
                    /\ \A q \in Pids \ {pid} : Still(q)
                    /\ IF kind = "thread" THEN Still(pid)
                       ELSE kind = "exit" <=> ~Running(pid)'
<1> USE OsAssumption DEF OsTypeOK, NoZombies, Still
<1>1. UNCHANGED watchVars
  BY DEF System
<1>2. ASSUME NEW pid \in Pids, NEW image \in Images, Fork(pid, image)
      PROVE  NoZombies' /\ Running(pid)' /\ \A q \in Pids \ {pid} : Still(q)
  BY <1>2 DEF Fork, Running
<1>3. ASSUME NEW pid \in Pids, NEW image \in Images, Execute(pid, image)
      PROVE  NoZombies' /\ Running(pid)' /\ \A q \in Pids \ {pid} : Still(q)
  BY <1>3 DEF Execute, Running
<1>4. ASSUME NEW pid \in Pids, Exit(pid)
      PROVE  NoZombies' /\ ~Running(pid)' /\ \A q \in Pids \ {pid} : Still(q)
  <2>1. PICK left \in IF Zombies THEN {Defunct, Gone} ELSE {Gone} :
           os' = [os EXCEPT ![pid].image = left]
    BY <1>4 DEF Exit
  <2> QED BY <2>1 DEF Running
<1>5. ASSUME NEW pid \in Pids, Reap(pid)
      PROVE  NoZombies' /\ \A q \in Pids : Still(q)
  BY <1>5 DEF Reap
<1>6. ASSUME UNCHANGED os
      PROVE  NoZombies' /\ \A q \in Pids : Still(q)
  BY <1>6
<1> QED BY <1>1, <1>2, <1>3, <1>4, <1>5, <1>6 DEF System, Elapse, osVars, historyVars

LEMMA SystemRight ==
    ASSUME TypeOK, RightInv, System
    PROVE  RightInv'
<1> USE DEF watchVars, scanVars, noticeVars, historyVars
<1>1. NoZombies' /\ UNCHANGED watchVars
  BY SystemChanges DEF TypeOK, RightInv
<1>2. Subscribed' <=> Subscribed
  BY <1>1 DEF Subscribed
<1>3. CASE UNCHANGED <<socket, historyVars>> /\ \A q \in Pids : Still(q)
  <2>1. \A q \in Pids : Running(q)' <=> Running(q)
    BY <1>3, StillRight
  <2>2. LastTells'
    BY <1>1, <1>2, <1>3, <2>1 DEF RightInv, LastTells, Told, Held, Tells, LastOf
  <2>3. TableRight'
    BY <1>1, <1>3, StillRight DEF RightInv, TableRight, Told, Held
  <2>4. ScanRight'
    BY <1>1, <1>3, <2>1, StillRight DEF RightInv, ScanRight, Scanning, Told, Held
  <2> QED BY <1>1, <1>3, <2>2, <2>3, <2>4 DEF RightInv, Phases
<1>4. ASSUME NEW pid \in Pids, NEW kind \in {"fork", "exec", "exit", "thread"},
             Raise(kind, pid), \A q \in Pids \ {pid} : Still(q),
             IF kind = "thread" THEN Still(pid) ELSE kind = "exit" <=> ~Running(pid)'
      PROVE  RightInv'
  <2>1. PICK cpu \in Cpus : IF Subscribed THEN Queue(kind, pid, cpu) \/ Lose(pid, cpu)
                                          ELSE UNCHANGED <<socket, overrun, historyVars>>
    BY <1>4 DEF Raise
  <2>2. CASE ~Subscribed
    <3>1. UNCHANGED <<socket, historyVars>> /\ pc \in {"setup", "returned"}
      BY <2>1, <2>2, <1>1 DEF Subscribed
    <3> QED BY <1>1, <1>2, <2>2, <3>1
            DEF RightInv, Phases, LastTells, TableRight, ScanRight, Scanning
  <2>3. CASE Subscribed /\ Lose(pid, cpu)
    <3>1. /\ socket' = socket /\ missed' = missed \cup {pid}
          /\ missing' = missing \cup {pid}
      BY <2>3 DEF Lose
    <3>2. \A q \in Pids \ {pid} : Running(q)' <=> Running(q)
      BY <1>4, StillRight
    <3>3. LastTells'
      BY <1>1, <1>2, <3>1, <3>2 DEF RightInv, LastTells, Told, Held, Tells, LastOf
    <3>4. TableRight'
      BY <1>1, <1>4, <3>1, StillRight DEF RightInv, TableRight, Told, Held
    <3>5. ScanRight'
      BY <1>1, <1>4, <3>1, <3>2, StillRight DEF RightInv, ScanRight, Scanning, Told, Held
    <3> QED BY <1>1, <2>3, <3>1, <3>3, <3>4, <3>5 DEF RightInv, Phases, Subscribed
  <2>4. CASE Subscribed /\ Queue(kind, pid, cpu)
    <3> DEFINE notice == [kind |-> kind, pid |-> pid, stamp |-> clock, cpu |-> cpu,
                          sequence |-> raised[cpu] % SeqWidth, after |-> lost[cpu]]
    <3>1. notice \in Notices
      <4>1. clock \in Nat /\ lost[cpu] \in Nat
        BY OsAssumption DEF TypeOK, OsTypeOK
      <4>2. raised[cpu] % SeqWidth \in Nat
        BY ConnectorAssumption DEF TypeOK
      <4> QED BY <4>1, <4>2 DEF Notices
    <3>2. socket' = Append(socket, notice) /\ UNCHANGED <<missed, missing>>
      BY <2>4 DEF Queue
    <3>3. \A q : notice \in About(q) <=> q = pid /\ kind # "thread"
      BY <3>1 DEF About
    <3>4. notice.kind = kind
      OBVIOUS
    <3> HIDE DEF notice
    <3>5. \A q : Told(socket', q) <=> Told(socket, q) \/ (q = pid /\ kind # "thread")
      <4>1. socket \in Seq(Notices)
        BY DEF TypeOK
      <4> HIDE DEF TypeOK
      <4> QED BY <3>1, <3>2, <3>3, <4>1, LastSent DEF Told
    <3>6. \A q \in Pids : q # pid \/ kind = "thread" => Still(q)
      BY <1>4
    <3>7. ASSUME NEW q \in Pids \ missed
          PROVE  \A i \in 1..Len(socket') : LastOf(socket', About(q), i) =>
                    (socket'[i].kind = "exit" <=> ~Running(q)')
      <4> SUFFICES ASSUME NEW i \in 1..Len(socket'), LastOf(socket', About(q), i)
                   PROVE  socket'[i].kind = "exit" <=> ~Running(q)'
        OBVIOUS
      <4>1. CASE notice \in About(q) /\ socket'[i] = notice
        BY <1>4, <3>3, <3>4, <4>1
      <4>2. CASE /\ notice \notin About(q) /\ socket'[i] = socket[i]
                 /\ i \in 1..Len(socket) /\ LastOf(socket, About(q), i)
        <5>1. Tells(socket[i], q)
          BY <2>4, <4>2 DEF RightInv, LastTells
        <5>2. Running(q)' <=> Running(q)
          BY <3>3, <3>6, <4>2, StillRight
        <5> QED BY <4>2, <5>1, <5>2 DEF Tells
      <4>3. socket \in Seq(Notices)
        BY DEF TypeOK
      <4>4. \/ notice \in About(q) /\ socket'[i] = notice
            \/ /\ notice \notin About(q) /\ socket'[i] = socket[i]
               /\ i \in 1..Len(socket) /\ LastOf(socket, About(q), i)
        <5> HIDE DEF TypeOK
        <5> QED BY <3>1, <3>2, <4>3, LastSent
      <4> QED BY <4>1, <4>2, <4>4
    <3>8. LastTells'
      <4>1. ASSUME NEW q \in Pids \ missed, ~Told(socket', q),
                   NEW i \in 1..Len(batch), batch[i] \in About(q)
            PROVE  batch[i].kind = "exit" <=> ~Running(q)'
        <5>1. Tells(batch[i], q)
          BY <2>4, <3>5, <4>1 DEF RightInv, LastTells
        <5>2. Running(q)' <=> Running(q)
          BY <3>5, <3>6, <4>1, StillRight
        <5> QED BY <5>1, <5>2 DEF Tells
      <4>2. batch' = batch /\ missed' = missed
        BY <1>1, <3>2
      <4> HIDE DEF watchVars, scanVars, noticeVars, historyVars
      <4> QED BY <3>7, <4>1, <4>2 DEF LastTells, Tells
    <3>9. TableRight'
      BY <1>1, <3>2, <3>5, <3>6, StillRight DEF RightInv, TableRight
    <3>10. ScanRight'
      BY <1>1, <3>2, <3>5, <3>6, StillRight DEF RightInv, ScanRight, Scanning
    <3> QED BY <1>1, <2>4, <3>8, <3>9, <3>10 DEF RightInv, Phases, Subscribed
  <2> QED BY <2>1, <2>2, <2>3, <2>4
<1> QED BY <1>3, <1>4, SystemChanges DEF TypeOK, RightInv

-----------------------------------------------------------------------------
\* The watcher.

LEMMA RightInit == Init => RightInv
<1> SUFFICES ASSUME Init PROVE RightInv
  OBVIOUS
<1>1. NoZombies
  <2>1. \A pid \in Pids : os[pid].image \in Images \cup {Gone}
    BY DEF Init, OsInit
  <2> QED BY <2>1, OsAssumption DEF NoZombies
<1>2. pc = "setup" /\ batch = <<>> /\ socket = <<>>
  BY DEF Init
<1> QED BY <1>1, <1>2
        DEF RightInv, Phases, LastTells, TableRight, ScanRight, Subscribed, Scanning

\* Of a PID that is replaced the new process is left, of others what there was.
LEMMA ReplaceRight ==
    ASSUME NEW pid, NEW proc, proc.id.pid = pid, processes' = Replace(pid, proc)
    PROVE  /\ AtPid(processes', pid) = {proc.id}
           /\ processes'[proc.id] = proc
           /\ \A q : q # pid =>
                 /\ AtPid(processes', q) = AtPid(processes, q)
                 /\ \A id \in AtPid(processes, q) : processes'[id] = processes[id]
<1>1. /\ DOMAIN processes' = {id \in DOMAIN processes : id.pid # pid} \cup {proc.id}
      /\ processes'[proc.id] = proc
      /\ \A id \in DOMAIN processes : id.pid # pid => processes'[id] = processes[id]
  BY DEF Replace, Put, RemoveByPid, Without, AtPid
<1>2. AtPid(processes', pid) = {proc.id}
  BY <1>1 DEF AtPid
<1>3. ASSUME NEW q, q # pid
      PROVE  /\ AtPid(processes', q) = AtPid(processes, q)
             /\ \A id \in AtPid(processes, q) : processes'[id] = processes[id]
  BY <1>1, <1>3 DEF AtPid
<1> QED BY <1>1, <1>2, <1>3

\* A watcher that applies a notice looks at the process as it is.
LEMMA AppliedRight ==
    ASSUME OsTypeOK, FiledOnce(processes), ~Skips, NEW notice \in Notices, Apply(notice),
           UNCHANGED os
    PROVE  /\ \A q : q # notice.pid =>
                 /\ AtPid(processes', q) = AtPid(processes, q)
                 /\ \A id \in AtPid(processes, q) : processes'[id] = processes[id]
           /\ notice.kind = "thread" => processes' = processes
           /\ notice.kind # "thread" /\ Tells(notice, notice.pid) =>
                 Right(processes, notice.pid)'
<1> DEFINE pid == notice.pid
           Others == \A q : q # pid =>
                        /\ AtPid(processes', q) = AtPid(processes, q)
                        /\ \A id \in AtPid(processes, q) : processes'[id] = processes[id]
<1>0. pid \in Pids
  BY DEF Notices
<1>1. /\ Running(pid)' <=> Running(pid)
      /\ Listed(pid)' <=> Listed(pid)
      /\ Identity(pid)' = Identity(pid) /\ os'[pid].image = os[pid].image
  BY DEF Running, Listed, Identity
<1>2. ASSUME NEW proc, HasId(proc), proc.id.pid = pid, processes' = Replace(pid, proc)
      PROVE  AtPid(processes', pid) = {proc.id} /\ processes'[proc.id] = proc /\ Others
  BY <1>2, ReplaceRight
<1>3. Running(pid) => Listed(pid)
  BY OsAssumption DEF Running, Listed
<1>4. ASSUME NEW old \in Find(pid), NEW read \in Readings(pid),
             notice.kind \in {"fork", "exec"},
             ForkNotice(notice, old, read) \/ ExecNotice(notice, old, read)
      PROVE  /\ Others
             /\ Running(pid) => /\ AtPid(processes', pid) = {Identity(pid)}
                                /\ processes'[Identity(pid)].image = os[pid].image
  <2>1. read # NoProcess => read = ReadProcess(pid)
    BY DEF Readings
  <2>2. Listed(pid) => read # NoProcess
    <3> SUFFICES ASSUME Listed(pid) PROVE read # NoProcess
      OBVIOUS
    <3>1. read = ReadProcess(pid)
      BY DEF Readings
    <3>2. "image" \in DOMAIN read
      BY <3>1 DEF ReadProcess, Captured
    <3>3. DOMAIN NoProcess = {"id"}
      BY DEF NoProcess
    <3> QED BY <3>2, <3>3
  <2>3. read # NoProcess => /\ HasId(read) /\ read.id = Identity(pid) /\ read.id.pid = pid
                            /\ read.image = os[pid].image
    BY <2>1, ReadHasId DEF ReadProcess, Captured
  <2>4. read # NoProcess => /\ HasId(Preserve(old, read)) /\ Preserve(old, read).id = Identity(pid)
                            /\ Preserve(old, read).image = os[pid].image
    BY <2>1, <2>3, PreserveHasId, PreserveImage, CapturedHasImage DEF ReadProcess
  <2>5. \/ read = NoProcess /\ processes' = Replace(pid, FromNotice(notice))
        \/ read # NoProcess /\ processes' = Replace(pid, read)
        \/ read = NoProcess /\ old # NoProcess /\ processes' = Replace(pid, old)
        \/ read # NoProcess /\ processes' = Replace(pid, Preserve(old, read))
    BY <1>4 DEF ForkNotice, ExecNotice
  <2>6. CASE read = NoProcess
    <3>1. Others
      BY <1>2, <2>5, <2>6, FromNoticeHasId, FindHasId
    <3> QED BY <1>3, <2>2, <2>6, <3>1
  <2>7. CASE read # NoProcess
    <3>1. Identity(pid).pid = pid
      BY <2>3, <2>7
    <3>2. PICK proc : /\ HasId(proc) /\ proc.id = Identity(pid) /\ proc.image = os[pid].image
                      /\ processes' = Replace(pid, proc)
      BY <2>3, <2>4, <2>5, <2>7
    <3>3. AtPid(processes', pid) = {proc.id} /\ processes'[proc.id] = proc /\ Others
      BY <1>2, <3>1, <3>2
    <3> QED BY <3>2, <3>3
  <2> QED BY <2>6, <2>7
<1>5. ASSUME NEW old, ExitNotice(notice, old)
      PROVE  AtPid(processes', pid) = {} /\ Others
  BY <1>5, RemoveAtPid DEF ExitNotice
<1>6. CASE notice.kind \in {"fork", "exec"}
  <2>1. \E old \in Find(pid), read \in Readings(pid) :
           ForkNotice(notice, old, read) \/ ExecNotice(notice, old, read)
    BY <1>6 DEF Apply
  <2>2. /\ Others
        /\ Running(pid) => /\ AtPid(processes', pid) = {Identity(pid)}
                           /\ processes'[Identity(pid)].image = os[pid].image
    BY <1>4, <1>6, <2>1
  <2> HIDE DEF Others
  <2>3. Tells(notice, pid) => Running(pid)
    BY <1>6 DEF Tells
  <2>4. Tells(notice, pid) => Right(processes, pid)'
    BY <1>1, <1>3, <2>2, <2>3 DEF Right, AtPid
  <2> QED BY <1>6, <2>2, <2>4 DEF Others
<1>7. CASE notice.kind = "exit"
  <2>1. AtPid(processes', pid) = {} /\ Others
    BY <1>5, <1>7 DEF Apply
  <2>2. Tells(notice, pid) => ~Running(pid)
    BY <1>7 DEF Tells
  <2>3. Tells(notice, pid) => Right(processes, pid)'
    BY <1>1, <2>1, <2>2 DEF Right, AtPid
  <2> QED BY <1>7, <2>1, <2>3
<1>8. CASE notice.kind = "thread"
  BY <1>8 DEF Apply
<1> QED BY <1>6, <1>7, <1>8 DEF Notices

\* A notice in hand is the last of its process when none is queued.
LEMMA ApplyRight ==
    ASSUME TypeOK, TablesInv, RightInv, ApplyNotice
    PROVE  RightInv'
<1> DEFINE notice == Head(batch)
<1>1. /\ batch # <<>> /\ batch' = <<>> /\ Apply(notice)
      /\ UNCHANGED <<os, socket, pc, missed, missing, todo, next>>
  BY DEF ApplyNotice, kernelVars, osVars, scanVars, historyVars
<1>2. notice \in Notices /\ notice = batch[1] /\ 1 \in 1..Len(batch)
  <2>1. batch \in Seq(Notices)
    BY DEF TypeOK
  <2>2. notice \in Notices /\ notice = batch[1] /\ Len(batch) \in Nat \ {0}
    BY <1>1, <2>1, Taking
  <2> QED BY <2>2
<1> HIDE DEF notice
<1>3. pc = "loop"
  BY <1>1 DEF RightInv, Phases
<1>4. \A q : Running(q)' <=> Running(q)
  BY <1>1 DEF Running
<1>5. LastTells'
  <2>1. \A q : ~Told(batch', q)
    BY <1>1, NoneHeld DEF Told
  <2>2. \A q, i : i \in 1..Len(batch') => batch'[i] \notin About(q)
    BY <2>1 DEF Told, Held
  <2> QED BY <1>1, <1>4, <2>2 DEF RightInv, LastTells, Tells, Subscribed
<1>6. TableRight'
  <2> SUFFICES ASSUME ~Skips, NEW pid \in Pids \ missed, ~Told(socket, pid)
               PROVE  Right(processes, pid)'
    BY <1>1 DEF TableRight
  <2>1. CASE notice \in About(pid)
    <3>1. Tells(notice, pid)
      BY <1>2, <1>3, <2>1 DEF RightInv, LastTells, Subscribed
    <3> QED BY <1>1, <1>2, <2>1, <3>1, AppliedRight DEF About, TypeOK, TablesInv
  <2>2. CASE notice \notin About(pid)
    <3>1. ~Told(batch, pid)
      <4>1. \A i \in 1..Len(batch) : i = 1
        BY DEF TypeOK
      <4> QED BY <1>2, <2>2, <4>1 DEF Told, Held
    <3>2. Right(processes, pid)
      BY <1>3, <3>1 DEF RightInv, TableRight
    <3>3. /\ AtPid(processes', pid) = AtPid(processes, pid)
          /\ \A id \in AtPid(processes, pid) : processes'[id] = processes[id]
      BY <1>1, <1>2, <2>2, AppliedRight DEF About, TypeOK, TablesInv
    <3>4. /\ Listed(pid)' <=> Listed(pid)
          /\ Identity(pid)' = Identity(pid) /\ os'[pid].image = os[pid].image
      BY <1>1 DEF Listed, Identity
    <3>5. AtPid(processes, pid)' = AtPid(processes, pid)
      BY <3>3 DEF AtPid
    <3> QED BY <1>4, <3>2, <3>3, <3>4, <3>5 DEF Right
  <2> QED BY <2>1, <2>2
<1>7. ScanRight'
  BY <1>1, <1>3 DEF ScanRight, Scanning
<1> QED BY <1>1, <1>5, <1>6, <1>7 DEF RightInv, NoZombies, Phases

\* Nothing that the invariant is about changes.
Kept == UNCHANGED <<os, socket, batch, todo, next, processes, missed, missing>>

\* A step of the watcher that keeps all that, and begins no scan.
LEMMA RightStays ==
    ASSUME RightInv, Kept,
           \/ pc' = pc \/ pc' = "returned"
           \/ pc = "setup" /\ pc' = "baseline",
           pc' # "returned" \/ batch = <<>>
    PROVE  RightInv'
<1>1. /\ \A pid \in Pids : Running(pid)' <=> Running(pid)
      /\ \A pid \in Pids : Right(processes, pid) => Right(processes, pid)'
      /\ \A pid \in Pids : Right(next, pid) => Right(next, pid)'
  BY DEF Kept, Running, Right, Listed, Identity, AtPid
<1>2. NoZombies' /\ Phases'
  BY DEF RightInv, NoZombies, Phases, Kept
<1>3. LastTells'
  <2>1. CASE Subscribed
    BY <1>1, <2>1 DEF RightInv, Kept, LastTells, Told, Held, Tells, LastOf
  <2>2. CASE ~Subscribed /\ pc' # "baseline"
    BY <2>2 DEF LastTells, Subscribed
  <2>3. CASE pc = "setup" /\ pc' = "baseline"
    <3>1. socket = <<>> /\ batch = <<>>
      BY <2>3 DEF RightInv, Phases
    <3> QED BY <3>1 DEF Kept, LastTells
  <2> QED BY <2>1, <2>2, <2>3 DEF Subscribed
<1>4. TableRight'
  BY <1>1 DEF RightInv, Kept, TableRight, Told, Held
<1>5. ScanRight'
  BY <1>1 DEF RightInv, Kept, ScanRight, Scanning, Told, Held
<1> QED BY <1>2, <1>3, <1>4, <1>5 DEF RightInv

\* A scan begins: every running process is still to be read.
LEMMA ScanBegins ==
    ASSUME TypeOK, RightInv, TakeSnapshot
    PROVE  RightInv'
<1>1. /\ UNCHANGED <<os, socket, batch, processes, missed>>
      /\ todo' = {pid \in Pids : Listed(pid)} /\ next' = EmptyTable
      /\ \/ pc = "baseline" /\ pc' = "first"
         \/ pc = "loop" /\ pc' = "scan" /\ batch = <<>>
  BY DEF TakeSnapshot, kernelVars, osVars, noticeVars, Idle
<1>2. batch = <<>>
  BY <1>1 DEF RightInv, Phases
<1>3. /\ \A pid \in Pids : Running(pid)' <=> Running(pid)
      /\ \A pid \in Pids : Right(processes, pid) => Right(processes, pid)'
  BY <1>1 DEF Running, Right, Listed, Identity, AtPid
<1>4. NoZombies' /\ Phases'
  BY <1>1, <1>2 DEF RightInv, NoZombies, Phases
<1>5. LastTells'
  BY <1>1, <1>3 DEF RightInv, LastTells, Subscribed, Told, Held, Tells, LastOf
<1>6. TableRight'
  BY <1>1, <1>3 DEF RightInv, TableRight, Told, Held
<1>7. ScanRight'
  <2>1. ASSUME NEW pid \in Pids, ~(Running(pid)' /\ pid \in todo')
        PROVE  Right(next, pid)'
    <3>1. ~Running(pid)
      BY <1>1, <1>3, <2>1, OsAssumption DEF Running, Listed
    <3>2. AtPid(next, pid)' = {}
      BY <1>1 DEF AtPid, EmptyTable
    <3> QED BY <1>3, <3>1, <3>2 DEF Right
  <2> QED BY <2>1 DEF ScanRight
<1> QED BY <1>4, <1>5, <1>6, <1>7 DEF RightInv

\* What is read of a process is right, and the only entry of its PID.
LEMMA ReadingRight ==
    ASSUME TypeOK, TablesInv, RightInv, NEW pid \in todo, ReadPid(pid)
    PROVE  RightInv'
<1>1. /\ UNCHANGED <<os, pc, socket, batch, processes, missed, missing>>
      /\ Scanning /\ Listed(pid)
      /\ todo' = todo \ {pid} /\ next' = Put(next, Identity(pid), ReadProcess(pid))
  BY DEF ReadPid, kernelVars, osVars, noticeVars, historyVars, Scanning
<1>2. /\ \A q \in Pids : Running(q)' <=> Running(q)
      /\ \A q \in Pids : Right(processes, q) => Right(processes, q)'
  BY <1>1 DEF Running, Right, Listed, Identity, AtPid
<1>3. NoZombies' /\ Phases'
  BY <1>1 DEF RightInv, NoZombies, Phases
<1>4. LastTells'
  BY <1>1, <1>2 DEF RightInv, LastTells, Subscribed, Told, Held, Tells, LastOf
<1>5. TableRight'
  BY <1>1, <1>2 DEF RightInv, TableRight, Told, Held
<1>6. ScanRight'
  <2>1. \A id \in DOMAIN next : id.pid # pid
    BY <1>1 DEF TablesInv, NextApart
  <2>2. Identity(pid).pid = pid /\ ReadProcess(pid).image = os[pid].image
    BY DEF Identity, StableId, ReadProcess, Captured
  <2>3. /\ AtPid(next', pid) = {Identity(pid)}
        /\ next'[Identity(pid)] = ReadProcess(pid)
        /\ \A q : q # pid =>
              /\ AtPid(next', q) = AtPid(next, q)
              /\ \A id \in AtPid(next, q) : next'[id] = next[id]
    BY <1>1, <2>1, <2>2, PutAtPid
  <2>4. \A q : AtPid(next, q)' = AtPid(next', q)
    BY DEF AtPid
  <2>5. \A q \in Pids : Identity(q)' = Identity(q) /\ (Listed(q)' <=> Listed(q))
    BY <1>1 DEF Identity, Listed
  <2>6. Right(next, pid)'
    <3>0. pid \in Pids
      BY DEF TypeOK
    <3>1. os' = os /\ next'[Identity(pid)].image = os[pid].image
      BY <1>1, <2>2, <2>3
    <3>2. ~Running(pid) => Zombies /\ os[pid].image = Defunct
      BY <1>1, <3>0 DEF TypeOK, OsTypeOK, RightInv, NoZombies, Running, Listed
    <3>3. AtPid(next, pid)' = {Identity(pid)} /\ (Running(pid)' <=> Running(pid))
      BY <1>2, <2>3, <2>4, <3>0
    <3>4. /\ Running(pid)' => /\ AtPid(next, pid)' = {Identity(pid)'}
                              /\ next'[Identity(pid)'].image = os'[pid].image
          /\ ~Running(pid)' => \A id \in AtPid(next, pid)' :
                /\ Zombies /\ id = Identity(pid)'
                /\ next'[id].image = Defunct
      BY <2>5, <3>0, <3>1, <3>2, <3>3
    <3> QED BY <3>4 DEF Right
  <2>7. ASSUME NEW q \in Pids, q # pid, Right(next, q)
        PROVE  Right(next, q)'
    BY <1>1, <1>2, <2>3, <2>4, <2>5, <2>7 DEF Right
  <2> QED BY <1>1, <1>2, <2>6, <2>7 DEF RightInv, ScanRight, Scanning, Told, Held
<1> QED BY <1>3, <1>4, <1>5, <1>6 DEF RightInv

\* Where reads do not fail, only a PID that is free by now is skipped.
LEMMA SkippingRight ==
    ASSUME TypeOK, TablesInv, RightInv, NEW pid \in todo, SkipPid(pid)
    PROVE  RightInv'
<1>1. /\ UNCHANGED <<os, pc, socket, batch, processes, next, missed, missing>>
      /\ Scanning /\ (Skips \/ ~Listed(pid)) /\ todo' = todo \ {pid}
  BY DEF SkipPid, kernelVars, osVars, noticeVars, historyVars, Scanning
<1>2. /\ \A q \in Pids : Running(q)' <=> Running(q)
      /\ \A q \in Pids : Right(processes, q) => Right(processes, q)'
      /\ \A q \in Pids : Right(next, q) => Right(next, q)'
  BY <1>1 DEF Running, Right, Listed, Identity, AtPid
<1>3. NoZombies' /\ Phases'
  BY <1>1 DEF RightInv, NoZombies, Phases
<1>4. LastTells'
  BY <1>1, <1>2 DEF RightInv, LastTells, Subscribed, Told, Held, Tells, LastOf
<1>5. TableRight'
  BY <1>1, <1>2 DEF RightInv, TableRight, Told, Held
<1>6. ~Skips => Right(next, pid)
  <2>1. AtPid(next, pid) = {}
    BY <1>1 DEF TablesInv, NextApart, AtPid
  <2> QED BY <1>1, <2>1, OsAssumption DEF Right, Running, Listed
<1>7. ScanRight'
  BY <1>1, <1>2, <1>6 DEF RightInv, ScanRight, Scanning, Told, Held, TypeOK
<1> QED BY <1>3, <1>4, <1>5, <1>7 DEF RightInv

\* The snapshot makes up for the notices lost before it was begun, unless
\* notices that are older than a lost one are still to come.
LEMMA AdoptingRight ==
    ASSUME TypeOK, RightInv, Adopt
    PROVE  RightInv'
<1>1. /\ UNCHANGED <<os, socket, batch, missing>>
      /\ todo = {} /\ Scanning /\ pc' = "loop"
      /\ missed' = missing \cup {pid \in missed : Queued(pid)}
      /\ \/ processes' = next
         \/ processes' = PreserveAll(Aligned(processes, next), next)
  BY DEF Adopt, kernelVars, osVars, Scanning
<1>2. batch = <<>>
  BY <1>1 DEF RightInv, Phases, Scanning
<1>3. /\ \A q \in Pids : Running(q)' <=> Running(q)
      /\ \A q \in Pids : Identity(q)' = Identity(q) /\ (Listed(q)' <=> Listed(q))
  BY <1>1 DEF Running, Listed, Identity
<1>4. NoZombies' /\ Phases'
  BY <1>1, <1>2 DEF RightInv, NoZombies, Phases
<1>5. Subscribed
  BY <1>1 DEF Scanning, Subscribed
<1>6. LastTells'
  <2>1. ASSUME NEW pid \in Pids \ missed', NEW i \in 1..Len(socket),
               LastOf(socket, About(pid), i)
        PROVE  Tells(socket[i], pid)'
    <3>1. Queued(pid)
      BY <2>1 DEF LastOf, About, Queued
    <3>2. pid \notin missed
      BY <1>1, <3>1
    <3>3. Tells(socket[i], pid)
      BY <1>5, <2>1, <3>2 DEF RightInv, LastTells
    <3> QED BY <1>1, <1>3, <3>3 DEF Tells
  <2>2. batch' = <<>> /\ Len(<<>>) = 0
    BY <1>1, <1>2
  <2> QED BY <1>1, <2>1, <2>2 DEF LastTells, LastOf, Tells
<1>7. /\ DOMAIN processes' = DOMAIN next
      /\ \A id \in DOMAIN next : processes'[id].image = next[id].image
  <2>1. CASE processes' = next
    BY <2>1
  <2>2. CASE processes' = PreserveAll(Aligned(processes, next), next)
    <3> DEFINE previous == Aligned(processes, next)
    <3> HIDE DEF previous
    <3>1. \A id \in DOMAIN next : next[id] \in Processes
      BY TableType DEF TypeOK
    <3>2. DOMAIN processes' = DOMAIN next
      BY <2>2 DEF PreserveAll, previous
    <3>3. ASSUME NEW id \in DOMAIN next
          PROVE  processes'[id].image = next[id].image
      <4>1. processes'[id] \in {next[id], Preserve(previous[id], next[id])}
        BY <2>2 DEF PreserveAll, previous
      <4>2. next[id] \in Processes
        BY <3>1
      <4>3. Preserve(previous[id], next[id]).image = next[id].image
        BY <4>2 DEF Preserve, Processes
      <4> QED BY <4>1, <4>3
    <3> QED BY <3>2, <3>3
  <2> QED BY <1>1, <2>1, <2>2
<1>8. TableRight'
  <2> SUFFICES ASSUME ~Skips, NEW pid \in Pids \ missed', ~Told(socket, pid)
               PROVE  Right(processes, pid)'
    BY <1>1 DEF TableRight
  <2>1. Right(next, pid)
    BY <1>1 DEF RightInv, ScanRight
  <2>2. AtPid(processes, pid)' = AtPid(next, pid)
    BY <1>7 DEF AtPid
  <2>3. \A id \in AtPid(next, pid) : processes'[id].image = next[id].image
    BY <1>7 DEF AtPid
  <2> QED BY <1>1, <1>3, <2>1, <2>2, <2>3 DEF Right
<1>9. ScanRight'
  BY <1>1 DEF ScanRight, Scanning
<1> QED BY <1>4, <1>6, <1>8, <1>9 DEF RightInv

\* A notice taken from the socket tells what it told there.
LEMMA ReceivingRight ==
    ASSUME TypeOK, RightInv, Receive
    PROVE  RightInv'
<1> DEFINE notice == Head(socket)
           rest == Tail(socket)
<1>1. /\ UNCHANGED <<os, pc, processes, missed, missing>>
      /\ pc = "loop" /\ batch = <<>> /\ socket # <<>>
      /\ socket' = rest /\ batch' = <<notice>>
  BY DEF Receive, Idle, osVars, historyVars
<1>2. notice \in Notices /\ Len(<<notice>>) = 1 /\ <<notice>>[1] = notice
  BY <1>1, Taking DEF TypeOK
<1>3. /\ \A pid : Told(socket, pid) <=> notice \in About(pid) \/ Told(rest, pid)
      /\ \A pid : \A i \in 1..Len(rest) : LastOf(rest, About(pid), i) =>
            /\ rest[i] = socket[i + 1] /\ i + 1 \in 1..Len(socket)
            /\ LastOf(socket, About(pid), i + 1)
      /\ \A pid : notice \in About(pid) /\ ~Told(rest, pid) =>
            /\ notice = socket[1] /\ 1 \in 1..Len(socket)
            /\ LastOf(socket, About(pid), 1)
  <2>1. socket \in Seq(Notices)
    BY DEF TypeOK
  <2> QED BY <1>1, <2>1, LastReceived DEF Told
<1>4. \A pid : Told(<<notice>>, pid) <=> notice \in About(pid)
  BY <1>2, OneHeld DEF Told
<1> HIDE DEF notice, rest
<1>5. \A q \in Pids : Running(q)' <=> Running(q)
  BY <1>1 DEF Running
<1>6. NoZombies' /\ Phases'
  BY <1>1 DEF RightInv, NoZombies, Phases
<1>7. Subscribed
  BY <1>1 DEF Subscribed
<1>8. LastTells'
  <2>1. ASSUME NEW pid \in Pids \ missed, NEW i \in 1..Len(rest),
               LastOf(rest, About(pid), i)
        PROVE  rest[i].kind = "exit" <=> ~Running(pid)'
    <3>1. Tells(socket[i + 1], pid)
      BY <1>3, <1>7, <2>1 DEF RightInv, LastTells
    <3> QED BY <1>3, <1>5, <2>1, <3>1 DEF Tells
  <2>2. ASSUME NEW pid \in Pids \ missed, ~Told(rest, pid), notice \in About(pid)
        PROVE  notice.kind = "exit" <=> ~Running(pid)'
    <3>1. Tells(socket[1], pid)
      BY <1>3, <1>7, <2>2 DEF RightInv, LastTells
    <3> QED BY <1>3, <1>5, <2>2, <3>1 DEF Tells
  <2>3. \A i \in 1..Len(batch') : batch'[i] = notice
    BY <1>1, <1>2
  <2> QED BY <1>1, <2>1, <2>2, <2>3 DEF LastTells, Tells
<1>9. TableRight'
  <2> SUFFICES ASSUME ~Skips, NEW pid \in Pids \ missed,
                      ~Told(rest, pid), ~Told(<<notice>>, pid)
               PROVE  Right(processes, pid)'
    BY <1>1 DEF TableRight
  <2>1. Right(processes, pid)
    BY <1>1, <1>3, <1>4, NoneHeld DEF RightInv, TableRight, Told
  <2> QED BY <1>1, <2>1 DEF Right, Running, Listed, Identity, AtPid
<1>10. ScanRight'
  BY <1>1 DEF ScanRight, Scanning
<1> QED BY <1>6, <1>8, <1>9, <1>10 DEF RightInv

LEMMA RightStep == TypeOK /\ TablesInv /\ RightInv /\ [Next]_vars => RightInv'
<1> SUFFICES ASSUME TypeOK, TablesInv, RightInv, [Next]_vars PROVE RightInv'
  OBVIOUS
<1> USE DEF kernelVars, osVars, scanVars, noticeVars, historyVars
<1>0. pc # "loop" => batch = <<>>
  BY DEF RightInv, Phases
<1>1. CASE UNCHANGED vars
  BY <1>0, <1>1, RightStays DEF vars, watchVars, Kept, TypeOK, RightInv, Phases
<1>2. CASE Subscribe
  BY <1>0, <1>2, RightStays DEF Subscribe, Kept
<1>3. CASE TakeSnapshot
  BY <1>3, ScanBegins
<1>4. CASE SnapshotFails
  BY <1>0, <1>4, RightStays DEF SnapshotFails, Kept, Idle
<1>5. ASSUME NEW pid \in todo, ReadPid(pid) PROVE RightInv'
  BY <1>5, ReadingRight
<1>6. ASSUME NEW pid \in todo, SkipPid(pid) PROVE RightInv'
  BY <1>6, SkippingRight
<1>7. CASE Adopt
  BY <1>7, AdoptingRight
<1>8. CASE Receive
  BY <1>8, ReceivingRight
<1>9. CASE ReceiveOverrun
  BY <1>9, RightStays DEF ReceiveOverrun, Kept, Idle
<1>10. CASE ReceiveFails
  BY <1>10, RightStays DEF ReceiveFails, Kept, Idle
<1>11. CASE ApplyNotice
  BY <1>11, ApplyRight
<1>12. ASSUME NEW event, Send(event) \/ Drop(event) PROVE RightInv'
  BY <1>0, <1>12, RightStays DEF Send, Drop, Dequeue, Kept
<1>13. CASE Cancel
  BY <1>0, <1>13, RightStays DEF Cancel, Kept
<1>14. CASE Return
  BY <1>14, RightStays DEF Return, Kept, Idle
<1>15. CASE System
  BY <1>15, SystemRight
<1> QED BY <1>1, <1>2, <1>3, <1>4, <1>5, <1>6, <1>7, <1>8, <1>9, <1>10, <1>11, <1>12,
          <1>13, <1>14, <1>15 DEF Next, Watch

LEMMA RightIsExact == TypeOK /\ RightInv => TableExact
<1> SUFFICES ASSUME TypeOK, RightInv, pc \in {"loop", "scan"}, ~Skips,
                    NEW pid \in Pids, Untold(pid)
             PROVE  Right(processes, pid)
  BY DEF TableExact, Right
<1>1. pid \notin missed /\ ~Told(socket, pid) /\ ~Told(batch, pid)
  BY DEF Untold, Queued, Told, Held, About
<1> QED BY <1>1 DEF RightInv, TableRight

\* When nothing is on its way about a PID the table is right about it, however
\* notices, losses, resyncs and the system were interleaved: Watch subscribes
\* before it takes its first snapshot, and applyConnectorNotice reads /proc.
THEOREM ExactWhenTold == Spec => []TableExact
<1>1. Spec => []TypeOK
  BY Typing
<1>2. Spec => []TablesInv
  BY TablesInit, TablesStep, PTL DEF Spec
<1>3. Spec => []RightInv
  BY RightInit, RightStep, <1>1, <1>2, PTL DEF Spec
<1> QED BY <1>1, <1>3, RightIsExact, PTL

-----------------------------------------------------------------------------
(***************************************************************************)
(* Numbers that wrap around.                                               *)
(***************************************************************************)
LEMMA Division ==
    ASSUME NEW W \in Nat \ {0}, NEW n \in Nat
    PROVE  /\ n = W * (n \div W) + (n % W)
           /\ n % W \in 0..(W - 1) /\ n \div W \in Nat
  OBVIOUS

LEMMA Wrapped ==
    ASSUME NEW W \in Nat \ {0}, NEW n \in Nat
    PROVE  n % W \in 0..(W - 1) /\ n % W \in Nat
<1>1. n % W \in 0..(W - 1)
  BY Division
<1> QED BY <1>1

LEMMA Remainder ==
    ASSUME NEW W \in Nat \ {0}, NEW p \in Int, NEW q \in Int,
           NEW r \in 0..(W - 1), NEW s \in 0..(W - 1), W * p + r = W * q + s
    PROVE  r = s
  OBVIOUS

LEMMA Distributes ==
    ASSUME NEW W \in Int, NEW p \in Int, NEW q \in Int
    PROVE  W * (p + q) = W * p + W * q
  OBVIOUS

\* Whole cycles do not count.
LEMMA Cycles ==
    ASSUME NEW W \in Nat \ {0}, NEW q \in Nat, NEW m \in Nat
    PROVE  W * q + m \in Nat /\ (W * q + m) % W = m % W
<1>1. W * q \in Nat
  OBVIOUS
<1> DEFINE n == W * q + m
<1>2. n \in Nat
  BY <1>1
<1>3. /\ n = W * (n \div W) + (n % W) /\ n % W \in 0..(W - 1) /\ n \div W \in Nat
      /\ m = W * (m \div W) + (m % W) /\ m % W \in 0..(W - 1) /\ m \div W \in Nat
  <2> HIDE DEF n
  <2> QED BY <1>2, Division
<1>4. n = W * (q + (m \div W)) + (m % W)
  BY <1>3, Distributes
<1> DEFINE p == n \div W
           s == q + (m \div W)
<1>5. /\ p \in Int /\ s \in Int /\ W * p + (n % W) = W * s + (m % W)
  BY <1>3, <1>4
<1> HIDE DEF n, p, s
<1>6. n % W = m % W
  BY <1>3, <1>5, Remainder
<1> QED BY <1>2, <1>6 DEF n

\* It does not matter when a sum is wrapped.
LEMMA Plus ==
    ASSUME NEW W \in Nat \ {0}, NEW x \in Nat, NEW y \in Nat
    PROVE  (x + (y % W)) % W = (x + y) % W
<1>1. y = W * (y \div W) + (y % W) /\ y % W \in 0..(W - 1) /\ y \div W \in Nat
  BY Division
<1>2. x + y = W * (y \div W) + (x + (y % W)) /\ x + (y % W) \in Nat
  BY <1>1
<1> DEFINE q == y \div W
           m == x + (y % W)
<1>3. q \in Nat /\ m \in Nat /\ x + y = W * q + m
  BY <1>1, <1>2
<1> HIDE DEF q, m
<1>4. (x + y) % W = m % W
  BY <1>3, Cycles
<1> QED BY <1>4 DEF m

\* Less than a whole cycle does.
LEMMA Nothing ==
    ASSUME NEW W \in Nat \ {0}, NEW x \in Nat, NEW k \in 0..(W - 1)
    PROVE  (x + k) % W = x % W <=> k = 0
<1>1. ASSUME (x + k) % W = x % W
      PROVE  k = 0
  <2> DEFINE n == x + k
             r == x % W
             p == n \div W
             q == x \div W
  <2>1. n \in Nat
    OBVIOUS
  <2>2. n = W * p + (n % W) /\ p \in Nat
    <3> HIDE DEF n
    <3> QED BY <2>1, Division
  <2>3. x = W * q + r /\ q \in Nat /\ r \in 0..(W - 1)
    BY Division
  <2>4. n % W = r
    BY <1>1
  <2>5. n = x + k
    OBVIOUS
  <2> HIDE DEF n, r, p, q
  <2>6. W * p + 0 = W * q + k /\ W * p \in Nat /\ W * q \in Nat
    BY <2>2, <2>3, <2>4, <2>5
  <2>7. 0 \in 0..(W - 1) /\ p \in Int /\ q \in Int
    BY <2>2, <2>3
  <2> QED BY <2>6, <2>7, Remainder
<1>2. ASSUME k = 0
      PROVE  (x + k) % W = x % W
  BY <1>2
<1> QED BY <1>1, <1>2

-----------------------------------------------------------------------------
(***************************************************************************)
(* Gaps.  What the kernel numbers, what it loses and what the watcher has  *)
(* received last add up, for every CPU.                                    *)
(***************************************************************************)
OfCpu(cpu) == {notice \in Notices : notice.cpu = cpu}

\* The notice was raised when `after' others were lost after the number `last'.
Follows(last, notice) == notice.sequence = (last + 1 + notice.after) % SeqWidth

\* Nothing but what was lost was raised after the number `last'.
UpToDate(cpu, last) == raised[cpu] % SeqWidth = (last + 1 + lost[cpu]) % SeqWidth

Numbers == 0..(SeqWidth - 1)

InRange ==
    /\ \A i \in 1..Len(socket) : socket[i].sequence \in Numbers /\ socket[i].after \in Numbers
    /\ DOMAIN sequences \subseteq Cpus
    /\ \A cpu \in DOMAIN sequences : sequences[cpu] \in Numbers
    /\ \A cpu \in Cpus : lost[cpu] \in Numbers

Counted(cpu) ==
    /\ \A i, j : Adjacent(socket, OfCpu(cpu), i, j) => Follows(socket[i].sequence, socket[j])
    /\ \A i : LastOf(socket, OfCpu(cpu), i) => UpToDate(cpu, socket[i].sequence)
    /\ cpu \in DOMAIN sequences =>
          /\ \A i : FirstIn(socket, OfCpu(cpu), i) => Follows(sequences[cpu], socket[i])
          /\ ~Held(socket, OfCpu(cpu)) => UpToDate(cpu, sequences[cpu])

CountInv ==
    /\ InRange
    /\ pc = "setup" => socket = <<>> /\ DOMAIN sequences = {}
    /\ pc # "returned" => \A cpu \in Cpus : Counted(cpu)

LEMMA CountInit == Init => CountInv
<1> SUFFICES ASSUME Init PROVE CountInv
  OBVIOUS
<1>1. socket = <<>> /\ DOMAIN sequences = {} /\ \A cpu \in Cpus : lost[cpu] = 0
  BY DEF Init
<1>2. Len(<<>>) = 0
  OBVIOUS
<1>3. InRange
  BY <1>1, <1>2, ConnectorAssumption DEF InRange, Numbers
<1>4. \A cpu : Counted(cpu)
  BY <1>1, <1>2 DEF Counted, Adjacent, LastOf
<1> QED BY <1>1, <1>3, <1>4 DEF CountInv

\* A notice that is queued follows the last one of its CPU.
LEMMA QueueCounts ==
    ASSUME TypeOK, CountInv, NEW kind, NEW pid \in Pids, NEW cpu \in Cpus,
           kind \in {"fork", "exec", "exit", "thread"},
           Subscribed, Queue(kind, pid, cpu),
           raised' = [raised EXCEPT ![cpu] = @ + 1], UNCHANGED <<pc, sequences>>
    PROVE  CountInv'
<1> DEFINE notice == [kind |-> kind, pid |-> pid, stamp |-> clock, cpu |-> cpu,
                      sequence |-> raised[cpu] % SeqWidth, after |-> lost[cpu]]
<1>1. /\ socket' = Append(socket, notice)
      /\ lost' = [lost EXCEPT ![cpu] = 0]
  BY DEF Queue
<1>2. SeqWidth \in Nat \ {0} /\ SeqWidth # 1 /\ raised[cpu] \in Nat
  BY ConnectorAssumption DEF TypeOK
<1>3. raised[cpu] % SeqWidth \in Numbers /\ raised[cpu] % SeqWidth \in Nat
  BY <1>2, Wrapped DEF Numbers
<1>4. notice \in Notices
  <2>1. clock \in Nat /\ lost[cpu] \in Nat
    BY OsAssumption DEF TypeOK, OsTypeOK
  <2> QED BY <1>3, <2>1 DEF Notices
<1>5. /\ notice.cpu = cpu /\ notice.sequence = raised[cpu] % SeqWidth
      /\ notice.after = lost[cpu] /\ notice.after \in Numbers /\ notice.sequence \in Numbers
  BY <1>3 DEF CountInv, InRange
<1> HIDE DEF notice
<1>6. socket \in Seq(Notices)
  BY DEF TypeOK
<1>7. /\ Len(socket') = Len(socket) + 1 /\ Len(socket) \in Nat
      /\ \A i \in 1..Len(socket) : socket'[i] = socket[i]
      /\ socket'[Len(socket) + 1] = notice
  BY <1>1, <1>4, <1>6, Appending
<1>8. /\ lost'[cpu] = 0 /\ raised'[cpu] = raised[cpu] + 1
      /\ \A c \in Cpus : c # cpu => lost'[c] = lost[c] /\ raised'[c] = raised[c]
  BY <1>1 DEF TypeOK
<1>9. InRange'
  <2>1. ASSUME NEW i \in 1..Len(socket')
        PROVE  socket'[i].sequence \in Numbers /\ socket'[i].after \in Numbers
    <3>1. i \in 1..Len(socket) \/ i = Len(socket) + 1
      BY <1>7
    <3> QED BY <1>5, <1>7, <3>1 DEF CountInv, InRange
  <2>2. \A c \in Cpus : lost'[c] \in Numbers
    BY <1>2, <1>8 DEF CountInv, InRange, Numbers
  <2> QED BY <2>1, <2>2 DEF CountInv, InRange, Numbers
<1>10. pc # "setup" /\ pc # "returned"
  BY DEF Subscribed
<1>11. \A c \in Cpus : Counted(c)
  BY <1>10 DEF CountInv
<1>12. \A c \in Cpus : notice \in OfCpu(c) <=> c = cpu
  BY <1>4, <1>5 DEF OfCpu
<1>13. ASSUME NEW c \in Cpus
       PROVE  /\ Held(socket', OfCpu(c)) <=> Held(socket, OfCpu(c)) \/ c = cpu
              /\ \A i : LastOf(socket', OfCpu(c), i) =>
                    \/ c = cpu /\ socket'[i] = notice
                    \/ c # cpu /\ socket'[i] = socket[i] /\ LastOf(socket, OfCpu(c), i)
              /\ \A i : FirstIn(socket', OfCpu(c), i) =>
                    \/ FirstIn(socket, OfCpu(c), i) /\ socket'[i] = socket[i]
                    \/ c = cpu /\ socket'[i] = notice /\ ~Held(socket, OfCpu(c))
              /\ \A i, j : Adjacent(socket', OfCpu(c), i, j) =>
                    \/ /\ Adjacent(socket, OfCpu(c), i, j)
                       /\ socket'[i] = socket[i] /\ socket'[j] = socket[j]
                    \/ /\ c = cpu /\ socket'[j] = notice
                       /\ LastOf(socket, OfCpu(c), i) /\ socket'[i] = socket[i]
  <2> DEFINE A == OfCpu(c)
  <2>1. notice \in A <=> c = cpu
    BY <1>12
  <2> HIDE DEF A
  <2>2. /\ Held(socket', A) <=> Held(socket, A) \/ notice \in A
        /\ \A i \in 1..Len(socket') : LastOf(socket', A, i) =>
              \/ notice \in A /\ socket'[i] = notice
              \/ notice \notin A /\ socket'[i] = socket[i] /\ LastOf(socket, A, i)
    BY <1>1, <1>4, <1>6, LastSent
  <2>3. ASSUME NEW i, FirstIn(socket', A, i)
        PROVE  \/ FirstIn(socket, A, i) /\ socket'[i] = socket[i]
               \/ notice \in A /\ socket'[i] = notice /\ ~Held(socket, A)
    <3>1. FirstIn(Append(socket, notice), A, i)
      BY <1>1, <2>3
    <3>2. \/ FirstIn(socket, A, i) /\ Append(socket, notice)[i] = socket[i]
          \/ notice \in A /\ Append(socket, notice)[i] = notice /\ ~Held(socket, A)
      BY <1>4, <1>6, <3>1, FirstSent
    <3> QED BY <1>1, <3>2
  <2>4. ASSUME NEW i, NEW j, Adjacent(socket', A, i, j)
        PROVE  \/ Adjacent(socket, A, i, j) /\ socket'[i] = socket[i] /\ socket'[j] = socket[j]
               \/ /\ notice \in A /\ socket'[j] = notice
                  /\ LastOf(socket, A, i) /\ socket'[i] = socket[i]
    <3>1. Adjacent(socket, A, i, j) \/ (notice \in A /\ j = Len(socket) + 1 /\ LastOf(socket, A, i))
      BY <1>1, <1>4, <1>6, <2>4, AdjacentSent
    <3> QED BY <1>7, <3>1 DEF Adjacent, LastOf
  <2>5. \A i : LastOf(socket', A, i) => i \in 1..Len(socket')
    BY DEF LastOf
  <2> QED BY <2>1, <2>2, <2>3, <2>4, <2>5 DEF A
<1>14. ASSUME NEW last, UpToDate(cpu, last)
       PROVE  Follows(last, notice)
  BY <1>5, <1>14 DEF UpToDate, Follows
<1>15. raised'[cpu] % SeqWidth = (notice.sequence + 1 + lost'[cpu]) % SeqWidth
  <2>1. (1 + (raised[cpu] % SeqWidth)) % SeqWidth = (1 + raised[cpu]) % SeqWidth
    BY <1>2, Plus
  <2> QED BY <1>2, <1>3, <1>5, <1>8, <2>1
<1>16. ASSUME NEW c \in Cpus
       PROVE  Counted(c)'
  <2>1. \A i, j : Adjacent(socket', OfCpu(c), i, j) => Follows(socket'[i].sequence, socket'[j])
    BY <1>11, <1>13, <1>14 DEF Counted
  <2>2. \A i : LastOf(socket', OfCpu(c), i) =>
           raised'[c] % SeqWidth = (socket'[i].sequence + 1 + lost'[c]) % SeqWidth
    BY <1>8, <1>11, <1>13, <1>15 DEF Counted, UpToDate
  <2>3. c \in DOMAIN sequences =>
           \A i : FirstIn(socket', OfCpu(c), i) => Follows(sequences[c], socket'[i])
    BY <1>11, <1>13, <1>14 DEF Counted
  <2>4. c \in DOMAIN sequences /\ ~Held(socket', OfCpu(c)) =>
           raised'[c] % SeqWidth = (sequences[c] + 1 + lost'[c]) % SeqWidth
    BY <1>8, <1>11, <1>13 DEF Counted, UpToDate
  <2> QED BY <2>1, <2>2, <2>3, <2>4
          DEF Counted, UpToDate, Follows, OfCpu, Adjacent, LastOf, FirstIn, Held
<1> QED BY <1>9, <1>10, <1>16 DEF CountInv

\* One more notice lost is one more to add.
LEMMA OneMore ==
    ASSUME NEW W \in Nat \ {0}, NEW r \in Nat, NEW x \in Nat, NEW k \in Nat,
           r % W = (x + k) % W
    PROVE  (r + 1) % W = (x + ((k + 1) % W)) % W
<1>1. (x + ((k + 1) % W)) % W = (x + (k + 1)) % W
  <2> DEFINE z == k + 1
  <2>1. z \in Nat
    OBVIOUS
  <2>2. (x + (z % W)) % W = (x + z) % W
    <3> HIDE DEF z
    <3> QED BY <2>1, Plus
  <2> QED BY <2>2
<1>2. (1 + (r % W)) % W = (1 + r) % W
  BY Plus
<1> DEFINE y == x + k
<1>3. y \in Nat /\ r % W = y % W
  OBVIOUS
<1>4. (1 + (y % W)) % W = (1 + y) % W
  <2> HIDE DEF y
  <2> QED BY <1>3, Plus
<1>5. 1 + r = r + 1 /\ 1 + y = x + (k + 1)
  OBVIOUS
<1> HIDE DEF y
<1> QED BY <1>1, <1>2, <1>3, <1>4, <1>5

\* A notice that is lost is one more to account for.
LEMMA LoseCounts ==
    ASSUME TypeOK, CountInv, NEW pid, NEW cpu \in Cpus, Subscribed, Lose(pid, cpu),
           raised' = [raised EXCEPT ![cpu] = @ + 1], UNCHANGED <<pc, sequences>>
    PROVE  CountInv'
<1>1. socket' = socket /\ lost' = [lost EXCEPT ![cpu] = (@ + 1) % SeqWidth]
  BY DEF Lose
<1>2. SeqWidth \in Nat \ {0} /\ \A c \in Cpus : raised[c] \in Nat /\ lost[c] \in Nat
  BY ConnectorAssumption DEF TypeOK
<1>3. /\ lost'[cpu] = (lost[cpu] + 1) % SeqWidth /\ raised'[cpu] = raised[cpu] + 1
      /\ \A c \in Cpus : c # cpu => lost'[c] = lost[c] /\ raised'[c] = raised[c]
  BY <1>1 DEF TypeOK
<1>4. lost'[cpu] \in Numbers
  <2>1. lost[cpu] + 1 \in Nat
    BY <1>2
  <2> QED BY <1>2, <1>3, <2>1, Wrapped DEF Numbers
<1>5. InRange'
  BY <1>1, <1>3, <1>4 DEF CountInv, InRange, Numbers
<1>6. ASSUME NEW c \in Cpus, NEW last \in Numbers, UpToDate(c, last)
      PROVE  raised'[c] % SeqWidth = (last + 1 + lost'[c]) % SeqWidth
  <2>1. CASE c # cpu
    BY <1>3, <1>6, <2>1 DEF UpToDate
  <2>2. CASE c = cpu
    <3> DEFINE x == last + 1
    <3>1. x \in Nat /\ raised[cpu] % SeqWidth = (x + lost[cpu]) % SeqWidth
      BY <1>2, <1>6, <2>2 DEF UpToDate, Numbers
    <3> HIDE DEF x
    <3>2. (raised[cpu] + 1) % SeqWidth = (x + ((lost[cpu] + 1) % SeqWidth)) % SeqWidth
      BY <1>2, <3>1, OneMore
    <3> QED BY <1>3, <2>2, <3>2 DEF x
  <2> QED BY <2>1, <2>2
<1>7. pc # "setup" /\ pc # "returned"
  BY DEF Subscribed
<1>8. ASSUME NEW c \in Cpus
      PROVE  Counted(c)'
  <2>1. Counted(c)
    BY <1>7 DEF CountInv
  <2>2. \A i : LastOf(socket, OfCpu(c), i) => socket[i].sequence \in Numbers
    BY DEF CountInv, InRange, LastOf
  <2>3. c \in DOMAIN sequences => sequences[c] \in Numbers
    BY DEF CountInv, InRange
  <2>4. \A i : LastOf(socket, OfCpu(c), i) =>
           raised'[c] % SeqWidth = (socket[i].sequence + 1 + lost'[c]) % SeqWidth
    BY <1>6, <2>1, <2>2 DEF Counted
  <2>5. c \in DOMAIN sequences /\ ~Held(socket, OfCpu(c)) =>
           raised'[c] % SeqWidth = (sequences[c] + 1 + lost'[c]) % SeqWidth
    BY <1>6, <2>1, <2>3 DEF Counted
  <2> QED BY <1>1, <2>1, <2>4, <2>5
          DEF Counted, UpToDate, Follows, OfCpu, Adjacent, LastOf, FirstIn, Held
<1> QED BY <1>5, <1>7, <1>8 DEF CountInv

\* Where nothing is numbered, lost or received the accounts stay as they are.
LEMMA CountStays ==
    ASSUME CountInv, UNCHANGED <<socket, raised, lost, sequences>>,
           pc' = "setup" => pc = "setup", pc = "returned" => pc' = "returned"
    PROVE  CountInv'
<1>1. InRange'
  BY DEF CountInv, InRange
<1>2. \A c : Counted(c) => Counted(c)'
  BY DEF Counted, UpToDate, Follows, OfCpu, Adjacent, LastOf, FirstIn, Held
<1> QED BY <1>1, <1>2 DEF CountInv

\* Neither are they kept before the watcher subscribes, or after it returned.
LEMMA RaiseCounts ==
    ASSUME TypeOK, CountInv, NEW kind, NEW pid \in Pids, Raise(kind, pid),
           kind \in {"fork", "exec", "exit", "thread"}, UNCHANGED <<pc, sequences>>
    PROVE  CountInv'
<1>1. PICK cpu \in Cpus :
         /\ raised' = [raised EXCEPT ![cpu] = @ + 1]
         /\ IF Subscribed THEN Queue(kind, pid, cpu) \/ Lose(pid, cpu)
                          ELSE UNCHANGED <<socket, overrun, historyVars>>
  BY DEF Raise
<1>2. CASE Subscribed
  BY <1>1, <1>2, QueueCounts, LoseCounts
<1>3. CASE ~Subscribed
  <2>1. UNCHANGED <<socket, lost>>
    BY <1>1, <1>3 DEF historyVars
  <2>2. InRange'
    BY <2>1 DEF CountInv, InRange
  <2>3. pc = "setup" => \A c : Counted(c)'
    <3>1. Len(<<>>) = 0
      OBVIOUS
    <3> QED BY <2>1, <3>1 DEF CountInv, Counted, Adjacent, LastOf
  <2> QED BY <1>3, <2>1, <2>2, <2>3 DEF CountInv, Subscribed
<1> QED BY <1>2, <1>3

\* A notice that is received becomes the last one of its CPU: the next one
\* in the queue follows it, or nothing but losses came after it.
LEMMA ReceiveCounts ==
    ASSUME TypeOK, CountInv, Receive
    PROVE  CountInv'
<1> DEFINE first == Head(socket)
           rest == Tail(socket)
<1>1. /\ pc = "loop" /\ socket # <<>> /\ socket' = rest
      /\ UNCHANGED <<pc, raised, lost>>
      /\ sequences' = Put(sequences, first.cpu, first.sequence)
  BY DEF Receive, Idle, historyVars
<1>2. socket \in Seq(Notices)
  BY DEF TypeOK
<1>3. first \in Notices
  BY <1>1, <1>2, Taking
<1>4. /\ first = socket[1] /\ 1 \in 1..Len(socket)
      /\ \A i \in 1..Len(rest) : i + 1 \in 1..Len(socket) /\ rest[i] = socket[i + 1]
  BY <1>1, <1>2, Rest
<1>5. ASSUME NEW A, NEW i, NEW j, Adjacent(rest, A, i, j)
      PROVE  /\ rest[i] = socket[i + 1] /\ rest[j] = socket[j + 1]
             /\ Adjacent(socket, A, i + 1, j + 1)
  BY <1>1, <1>2, <1>5, AdjacentReceived
<1>6. ASSUME NEW A, NEW i, FirstIn(rest, A, i)
      PROVE  /\ rest[i] = socket[i + 1]
             /\ first \notin A => FirstIn(socket, A, i + 1)
             /\ first \in A => Adjacent(socket, A, 1, i + 1)
  BY <1>1, <1>2, <1>6, FirstReceived
<1>7. /\ \A A : Held(socket, A) <=> first \in A \/ Held(rest, A)
      /\ \A A : \A i \in 1..Len(rest) : LastOf(rest, A, i) =>
            rest[i] = socket[i + 1] /\ LastOf(socket, A, i + 1)
      /\ \A A : first \in A /\ ~Held(rest, A) => LastOf(socket, A, 1)
  BY <1>1, <1>2, LastReceived
<1> HIDE DEF first, rest
<1>8. /\ first.cpu \in Cpus /\ \A c : first \in OfCpu(c) <=> first.cpu = c
      /\ first.sequence \in Numbers
  BY <1>3, <1>4 DEF Notices, OfCpu, CountInv, InRange
<1>9. /\ DOMAIN sequences' = DOMAIN sequences \cup {first.cpu}
      /\ sequences'[first.cpu] = first.sequence
      /\ \A c \in DOMAIN sequences : c # first.cpu => sequences'[c] = sequences[c]
  BY <1>1 DEF Put
<1>10. InRange'
  BY <1>1, <1>4, <1>8, <1>9 DEF CountInv, InRange, Numbers
<1>11. ASSUME NEW c \in Cpus
       PROVE  Counted(c)'
  <2>1. Counted(c)
    BY <1>1, <1>11 DEF CountInv
  <2>2. \A i, j : Adjacent(rest, OfCpu(c), i, j) => Follows(rest[i].sequence, rest[j])
    BY <1>5, <2>1 DEF Counted
  <2>3. \A i : LastOf(rest, OfCpu(c), i) => UpToDate(c, rest[i].sequence)
    <3> TAKE i
    <3> HAVE LastOf(rest, OfCpu(c), i)
    <3>1. i \in 1..Len(rest)
      BY DEF LastOf
    <3> QED BY <1>7, <2>1, <3>1 DEF Counted
  <2>4. ASSUME c \in DOMAIN sequences', NEW i, FirstIn(rest, OfCpu(c), i)
        PROVE  Follows(sequences'[c], rest[i])
    <3>1. CASE c = first.cpu
      BY <1>4, <1>6, <1>8, <1>9, <2>1, <2>4, <3>1 DEF Counted
    <3>2. CASE c # first.cpu
      BY <1>6, <1>8, <1>9, <2>1, <2>4, <3>2 DEF Counted
    <3> QED BY <3>1, <3>2
  <2>5. ASSUME c \in DOMAIN sequences', ~Held(rest, OfCpu(c))
        PROVE  UpToDate(c, sequences'[c])
    <3>1. CASE c = first.cpu
      BY <1>4, <1>7, <1>8, <1>9, <2>1, <2>5, <3>1 DEF Counted
    <3>2. CASE c # first.cpu
      BY <1>7, <1>8, <1>9, <2>1, <2>5, <3>2 DEF Counted
    <3> QED BY <3>1, <3>2
  <2>6. /\ c \in DOMAIN sequences' =>
              /\ \A i : FirstIn(rest, OfCpu(c), i) => Follows(sequences'[c], rest[i])
              /\ ~Held(rest, OfCpu(c)) => UpToDate(c, sequences'[c])
    BY <2>4, <2>5
  <2> QED BY <1>1, <2>2, <2>3, <2>6
          DEF Counted, UpToDate, Follows, OfCpu, Adjacent, LastOf, FirstIn, Held
<1> QED BY <1>1, <1>10, <1>11 DEF CountInv

LEMMA CountStep == TypeOK /\ CountInv /\ [Next]_vars => CountInv'
<1> SUFFICES ASSUME TypeOK, CountInv, [Next]_vars PROVE CountInv'
  OBVIOUS
<1> USE DEF kernelVars, scanVars, noticeVars, historyVars
<1>1. CASE UNCHANGED vars
  BY <1>1, CountStays DEF vars, watchVars
<1>2. CASE Subscribe
  BY <1>2, CountStays DEF Subscribe
<1>3. CASE TakeSnapshot
  BY <1>3, CountStays DEF TakeSnapshot, Idle
<1>4. CASE SnapshotFails
  BY <1>4, CountStays DEF SnapshotFails, Idle
<1>5. ASSUME NEW pid \in todo, ReadPid(pid) \/ SkipPid(pid) PROVE CountInv'
  BY <1>5, CountStays DEF ReadPid, SkipPid
<1>6. CASE Adopt
  BY <1>6, CountStays DEF Adopt
<1>7. CASE Receive
  BY <1>7, ReceiveCounts
<1>8. CASE ReceiveOverrun \/ ReceiveFails
  BY <1>8, CountStays DEF ReceiveOverrun, ReceiveFails, Idle
<1>9. CASE ApplyNotice
  BY <1>9, CountStays DEF ApplyNotice
<1>10. ASSUME NEW event, Send(event) \/ Drop(event) PROVE CountInv'
  BY <1>10, CountStays DEF Send, Drop, Dequeue
<1>11. CASE Cancel \/ Return
  BY <1>11, CountStays DEF Cancel, Return, Idle
<1>12. CASE System
  <2>1. UNCHANGED <<pc, sequences>>
    BY <1>12 DEF System, watchVars
  <2>2. \/ \E pid \in Pids : \E kind \in {"fork", "exec", "exit", "thread"} : Raise(kind, pid)
        \/ UNCHANGED <<socket, raised, historyVars>>
    BY <1>12 DEF System
  <2>3. ASSUME NEW pid \in Pids, NEW kind \in {"fork", "exec", "exit", "thread"},
               Raise(kind, pid)
        PROVE  CountInv'
    BY <2>1, <2>3, RaiseCounts
  <2>4. CASE UNCHANGED <<socket, raised, historyVars>>
    BY <2>1, <2>4, CountStays
  <2> QED BY <2>2, <2>3, <2>4
<1> QED BY <1>1, <1>2, <1>3, <1>4, <1>5, <1>6, <1>7, <1>8, <1>9, <1>10, <1>11, <1>12
        DEF Next, Watch

\* What the watcher compares with is the number of the CPU's last notice.
LEMMA GapIsLoss ==
    ASSUME TypeOK, CountInv, Receive
    PROVE  needsResync' <=> /\ batch'[1].cpu \in DOMAIN sequences
                            /\ batch'[1].after # 0
<1> DEFINE first == Head(socket)
<1>1. /\ pc = "loop" /\ socket # <<>> /\ batch' = <<first>>
      /\ needsResync' = SequenceGap(first)
  BY DEF Receive, Idle
<1>2. first \in Notices /\ first = socket[1] /\ 1 \in 1..Len(socket)
  <2>1. socket \in Seq(Notices)
    BY DEF TypeOK
  <2> QED BY <1>1, <2>1, Taking, Rest
<1>3. FirstIn(socket, OfCpu(first.cpu), 1)
  <2>1. socket \in Seq(Notices) /\ first \in OfCpu(first.cpu)
    BY <1>2 DEF TypeOK, OfCpu
  <2> QED BY <1>1, <2>1, ReceivedIsFirst
<1>4. <<first>>[1] = first
  OBVIOUS
<1> HIDE DEF first
<1>5. first.cpu \in Cpus /\ first.after \in Numbers
  BY <1>2 DEF Notices, CountInv, InRange
<1>6. ASSUME first.cpu \in DOMAIN sequences
      PROVE  SequenceGap(first) <=> first.after # 0
  <2> DEFINE x == sequences[first.cpu] + 1
  <2>1. x \in Nat
    BY <1>6 DEF CountInv, InRange, Numbers
  <2>2. first.sequence = (x + first.after) % SeqWidth
    BY <1>1, <1>2, <1>3, <1>5, <1>6 DEF CountInv, Counted, Follows
  <2>3. SequenceGap(first) <=> first.sequence # x % SeqWidth
    BY <1>6 DEF SequenceGap
  <2> HIDE DEF x
  <2>4. SeqWidth \in Nat \ {0} /\ first.after \in 0..(SeqWidth - 1)
    BY <1>5, ConnectorAssumption DEF Numbers
  <2> QED BY <2>1, <2>2, <2>3, <2>4, Nothing
<1>7. SequenceGap(first) => first.cpu \in DOMAIN sequences
  BY DEF SequenceGap
<1>8. SequenceGap(first) \in BOOLEAN
  BY DEF SequenceGap
<1> QED BY <1>1, <1>4, <1>6, <1>7, <1>8

\* A gap in the numbers of a CPU is a loss and a loss is a gap, however far the
\* numbers run: connectorSequenceGap compares modulo 2^32 with the number of the
\* last notice of the CPU, which every notice that is received replaces.
THEOREM GapsAreLosses == Spec => GapsTellLosses
<1>1. ASSUME TypeOK, CountInv, [Next]_vars, batch = <<>>, batch' # <<>>
      PROVE  needsResync' <=> /\ batch'[1].cpu \in DOMAIN sequences
                              /\ batch'[1].after # 0
  <2>1. Receive
    BY <1>1 DEF Next, Watch, vars, watchVars, noticeVars, kernelVars, scanVars, historyVars,
       Subscribe, TakeSnapshot, SnapshotFails, ReadPid, SkipPid, Adopt, ReceiveOverrun,
       ReceiveFails, ApplyNotice, Send, Drop, Dequeue, Cancel, Return, System, Idle
  <2> QED BY <1>1, <2>1, GapIsLoss
<1>2. TypeOK /\ CountInv /\ [Next]_vars =>
         [batch = <<>> /\ batch' # <<>> =>
            (needsResync' <=> /\ batch'[1].cpu \in DOMAIN sequences
                              /\ batch'[1].after # 0)]_vars
  BY <1>1
<1>3. Spec => []TypeOK
  BY Typing
<1>4. Spec => []CountInv
  BY CountInit, CountStep, <1>3, PTL DEF Spec
<1> QED BY <1>2, <1>3, <1>4, PTL DEF Spec, GapsTellLosses
=============================================================================
