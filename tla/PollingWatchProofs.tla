-------------------------- MODULE PollingWatchProofs --------------------------
(***************************************************************************)
(* The log of PollingWatch agrees with its table, and keeps the promise of *)
(* LifecycleLog, for every set of PIDs and images and whatever the clocks  *)
(* and the reads do.                                                       *)
(***************************************************************************)
EXTENDS PollingWatch, TLAPS

\* The events of a comparison, seen from the tables it leaves behind.
PendingSound ==
    /\ \A e, f \in pending : e.kind = f.kind /\ e.kind # "gap" /\ e.id = f.id => e = f
    /\ \A e \in pending :
          \/ e = GapEvent
          \/ /\ e.kind \in {"start", "exec"}
             /\ e.id \in DOMAIN previous
             /\ FirstOf(e) = FirstOf(previous[e.id])
          \/ /\ e.kind = "stop"
             /\ e.id \notin DOMAIN previous
    /\ \A e, f \in pending : e.kind = "start" /\ f.kind = "exec" => e.id # f.id
    /\ pc # "idle" => pending = {}
    /\ ~begun => pending = {} /\ reported = EmptyTable /\ ended = {}

\* The Stops still to be sent count the lifetime the log announced.
StopsAgree ==
    ~cancelled =>
        \A e \in pending :
            e.kind = "stop" => /\ e.id \in DOMAIN reported
                               /\ Log!Agree(reported[e.id], FirstOf(e))

TablesSound ==
    /\ Sound(next) /\ Sound(previous)
    /\ pc = "scan" => \A id \in DOMAIN next : id.pid \notin todo

\* With start tokens and no failing reads an identity that left the system
\* never comes back, and one that is missed by a scan has left.
Left(id) ==
    \/ id.token < os[id.pid].birth
    \/ id.token = os[id.pid].birth /\ ~Listed(id.pid)

Born(id) == id.token =< os[id.pid].birth

NeverTwice ==
    Tokened /\ ~Skips =>
        /\ \A id \in DOMAIN previous \cup DOMAIN next :
              id.source = "os" /\ Born(id)
        /\ \A id \in ended : Left(id)
        /\ \A e \in pending : e.kind = "stop" => Left(e.id)
        /\ ended \cap DOMAIN previous = {}
        /\ pc = "scan" => ended \cap DOMAIN next = {}
        /\ pc = "scan" =>
              \A id \in DOMAIN previous \ DOMAIN next :
                  id.pid \notin todo => Left(id)

IInv ==
    /\ TypeOK
    /\ TablesSound
    /\ PendingSound
    /\ LogMatchesTable
    /\ StopsAgree
    /\ NeverTwice

-----------------------------------------------------------------------------
\* Lemmas about the operators on tables.

\* Assigning an entry to a table keeps it a table.
LEMMA PutIsTable ==
    ASSUME NEW table, IsTable(table), NEW id \in Ids, NEW proc, IsProcess(proc)
    PROVE  IsTable(Put(table, id, proc))
BY DEF IsTable, Put

\* Carrying old observations over keeps every entry a process.
LEMMA PreserveIsProcess ==
    ASSUME NEW old, IsProcess(old), NEW new, IsProcess(new)
    PROVE  /\ IsProcess(Preserve(old, new))
           /\ Preserve(old, new).id = new.id
           /\ Preserve(old, new).image = new.image
           /\ Preserve(old, new).captured =
                 IF old.captured # 0 THEN old.captured ELSE new.captured
           /\ Preserve(old, new).started =
                 IF old.started # 0 THEN old.started ELSE new.started
BY DEF IsProcess, Preserve

\* The carried-over table has the entries of the new one.
LEMMA PreserveIsTable ==
    ASSUME NEW previous1, IsTable(previous1), NEW next1, IsTable(next1)
    PROVE  /\ IsTable(PreserveAll(previous1, next1))
           /\ DOMAIN PreserveAll(previous1, next1) = DOMAIN next1
<1>1. DOMAIN PreserveAll(previous1, next1) = DOMAIN next1
  BY DEF PreserveAll
<1>2. ASSUME NEW id \in DOMAIN next1
      PROVE  IsProcess(PreserveAll(previous1, next1)[id])
  BY <1>2, PreserveIsProcess DEF IsTable, PreserveAll
<1> QED  BY <1>1, <1>2 DEF IsTable, PreserveAll

\* Every event of a comparison is well formed.
LEMMA DiffIsEvents ==
    ASSUME NEW previous1, IsTable(previous1), NEW next1, IsTable(next1)
    PROVE  \A e \in DiffEvents(previous1, next1) : IsEvent(e)
<1>1. ASSUME NEW proc, IsProcess(proc), NEW kind \in {"start", "exec", "stop"}
      PROVE  IsEvent(EventOf(kind, proc))
  BY <1>1 DEF IsProcess, IsEvent, EventOf
<1> QED
  BY <1>1 DEF DiffEvents, Started, Stopped, Replaced, IsTable

\* A process is read as a process.
LEMMA ReadIsProcess ==
    ASSUME TypeOK, NEW pid \in Pids, Listed(pid)
    PROVE  Identity(pid) \in Ids /\ IsProcess(ReadProcess(pid))
<1>1. os[pid].birth \in Nat /\ os[pid].image \in Images \cup {Defunct}
  BY OsAssumption DEF TypeOK, OsTypeOK, Listed
<1>2. clock \in Nat \ {0}
  BY OsAssumption DEF TypeOK, OsTypeOK
<1>3. Identity(pid) \in Ids
  BY <1>1 DEF Identity, StableId, Ids, Sources, Provisionals
<1>4. offset \in Nat \/ offset = NoClock
  BY PollingAssumption DEF TypeOK
<1>5. StartedAt(os[pid].birth) \in Nat
  BY <1>1, <1>4 DEF StartedAt
<1> QED  BY <1>1, <1>2, <1>3, <1>5 DEF IsProcess, ReadProcess, Captured

-----------------------------------------------------------------------------
LEMMA TypeInit == Init => TypeOK
<1> SUFFICES ASSUME Init PROVE TypeOK
  OBVIOUS
<1>1. OsTypeOK
  <2>1. os \in [Pids -> [birth : 0..MaxClock, image : Images \cup {Defunct, Gone}]]
    BY OsAssumption DEF Init, OsInit
  <2> QED  BY <2>1, OsAssumption DEF Init, OsInit, OsTypeOK
<1>2. IsTable(EmptyTable) /\ IsLog(EmptyTable)
  BY DEF IsTable, IsLog, EmptyTable
<1> QED  BY <1>1, <1>2 DEF Init, TypeOK

LEMMA TypeStep == TypeOK /\ [Next]_vars => TypeOK'
<1> SUFFICES ASSUME TypeOK, [Next]_vars PROVE TypeOK'
  OBVIOUS
<1> USE DEF TypeOK
<1>1. CASE TakeSnapshot
  <2>1. IsTable(EmptyTable)
    BY DEF IsTable, EmptyTable
  <2> QED  BY <1>1, <2>1 DEF TakeSnapshot, osVars, OsTypeOK, logVars
<1>2. CASE SnapshotFails
  <2>1. IsEvent(GapEvent)
    BY DEF IsEvent
  <2> QED  BY <1>2, <2>1 DEF SnapshotFails, osVars, OsTypeOK, logVars
<1>3. ASSUME NEW pid \in todo, ReadPid(pid)
      PROVE  TypeOK'
  <2>1. IsTable(next')
    BY <1>3, ReadIsProcess, PutIsTable DEF ReadPid
  <2> QED  BY <1>3, <2>1 DEF ReadPid, osVars, OsTypeOK, logVars
<1>4. ASSUME NEW pid \in todo, SkipPid(pid)
      PROVE  TypeOK'
  BY <1>4 DEF SkipPid, osVars, OsTypeOK, logVars
<1>5. CASE Baseline
  <2>1. IsLog(reported')
    BY <1>5 DEF Baseline, IsLog, IsTable, IsProcess, FirstOf
  <2> QED  BY <1>5, <2>1 DEF Baseline, osVars, OsTypeOK
<1>6. CASE Compare
  <2>1. IsTable(previous') /\ \A e \in pending' : IsEvent(e)
    BY <1>6, PreserveIsTable, DiffIsEvents DEF Compare
  <2> QED  BY <1>6, <2>1 DEF Compare, osVars, OsTypeOK, logVars
<1>7. ASSUME NEW event \in pending, Send(event)
      PROVE  TypeOK'
  <2>1. IsEvent(event)
    OBVIOUS
  <2>2. event.kind \in {"start", "stop"} =>
           event.id \in Ids /\ FirstOf(event) \in [started : Nat, captured : Nat]
    BY <2>1 DEF IsEvent, GapEvent, FirstOf
  <2>3. IsLog(reported') /\ ended' \subseteq Ids
    BY <1>7, <2>2 DEF Send, Write, IsLog, Put, Without
  <2> QED  BY <1>7, <2>1, <2>3 DEF Send, Write, osVars, OsTypeOK
<1>8. ASSUME NEW event \in pending, Drop(event)
      PROVE  TypeOK'
  BY <1>8 DEF Drop, osVars, OsTypeOK, logVars
<1>9. CASE Cancel \/ Return
  BY <1>9 DEF Cancel, Return, osVars, OsTypeOK, logVars
<1>10. CASE System
  <2>1. OsTypeOK'
    BY <1>10, OsAssumption
       DEF System, Elapse, Exit, Reap, Fork, Execute, OsTypeOK, Listed
  <2> QED  BY <1>10, <2>1 DEF System, watchVars, logVars
<1>11. CASE UNCHANGED vars
  BY <1>11 DEF vars, osVars, watchVars, logVars, OsTypeOK
<1> QED
  BY <1>1, <1>2, <1>3, <1>4, <1>5, <1>6, <1>7, <1>8, <1>9, <1>10, <1>11
  DEF Next, Watch

\* The variables keep their types.
THEOREM Typing == Spec => []TypeOK
BY TypeInit, TypeStep, PTL DEF Spec

-----------------------------------------------------------------------------
LEMMA InvInit == Init => TablesSound /\ PendingSound /\ LogMatchesTable
                         /\ StopsAgree /\ NeverTwice
<1> SUFFICES ASSUME Init
             PROVE  TablesSound /\ PendingSound /\ LogMatchesTable
                    /\ StopsAgree /\ NeverTwice
  OBVIOUS
<1> USE DEF Init, EmptyTable
<1>1. TablesSound
  BY DEF TablesSound, Sound, KeyedById, OnePerPid
<1>2. PendingSound
  BY DEF PendingSound
<1>3. LogMatchesTable /\ StopsAgree /\ NeverTwice
  BY DEF LogMatchesTable, StopsAgree, NeverTwice
<1> QED  BY <1>1, <1>2, <1>3

\* Both tables stay sound: every PID of a scan is read at most once.
LEMMA TablesStep == TypeOK /\ TablesSound /\ [Next]_vars => TablesSound'
<1> SUFFICES ASSUME TypeOK, TablesSound, [Next]_vars PROVE TablesSound'
  OBVIOUS
<1> USE DEF TablesSound, Sound, KeyedById, OnePerPid
<1>1. CASE TakeSnapshot
  BY <1>1 DEF TakeSnapshot, EmptyTable
<1>2. ASSUME NEW pid \in todo, ReadPid(pid)
      PROVE  TablesSound'
  <2>1. Identity(pid).pid = pid /\ ReadProcess(pid).id = Identity(pid)
    BY DEF Identity, ReadProcess, StableId, Captured
  <2> QED  BY <1>2, <2>1 DEF ReadPid, Put
<1>3. ASSUME NEW pid \in todo, SkipPid(pid)
      PROVE  TablesSound'
  BY <1>3 DEF SkipPid
<1>4. CASE Baseline
  BY <1>4 DEF Baseline
<1>5. CASE Compare
  <2>1. DOMAIN previous' = DOMAIN next
    BY <1>5, PreserveIsTable DEF Compare, TypeOK
  <2>2. \A id \in DOMAIN next : previous'[id].id = next[id].id
    BY <1>5, PreserveIsProcess DEF Compare, TypeOK, IsTable, PreserveAll
  <2> QED  BY <1>5, <2>1, <2>2 DEF Compare
<1>6. ASSUME NEW event \in pending, Send(event) \/ Drop(event)
      PROVE  TablesSound'
  BY <1>6 DEF Send, Drop
<1>7. CASE SnapshotFails \/ Cancel \/ Return \/ System \/ UNCHANGED vars
  BY <1>7 DEF SnapshotFails, Cancel, Return, System, vars, watchVars
<1> QED  BY <1>1, <1>2, <1>3, <1>4, <1>5, <1>6, <1>7 DEF Next, Watch

\* What a comparison leaves to be sent.
LEMMA DiffSound ==
    ASSUME NEW old, IsTable(old), KeyedById(old), NEW new, IsTable(new), KeyedById(new)
    PROVE  /\ \A e, f \in DiffEvents(old, new) :
                 e.kind = f.kind /\ e.id = f.id => e = f
           /\ \A e \in DiffEvents(old, new) :
                 \/ /\ e.kind = "start"
                    /\ e.id \in DOMAIN new \ DOMAIN old
                    /\ FirstOf(e) = FirstOf(new[e.id])
                 \/ /\ e.kind = "exec"
                    /\ e.id \in DOMAIN new \cap DOMAIN old
                    /\ FirstOf(e) = FirstOf(new[e.id])
                 \/ /\ e.kind = "stop"
                    /\ e.id \in DOMAIN old \ DOMAIN new
                    /\ FirstOf(e) = FirstOf(old[e.id])
           /\ \A id \in DOMAIN new \ DOMAIN old :
                 \E e \in DiffEvents(old, new) : e.kind = "start" /\ e.id = id
           /\ \A id \in DOMAIN old \ DOMAIN new :
                 \E e \in DiffEvents(old, new) : e.kind = "stop" /\ e.id = id
<1> USE DEF DiffEvents, Started, Stopped, Replaced, KeyedById
<1>1. \A e \in DiffEvents(old, new) :
         \/ \E id \in DOMAIN new \ DOMAIN old : e = EventOf("start", new[id])
         \/ \E id \in DOMAIN new \cap DOMAIN old : e = EventOf("exec", new[id])
         \/ \E id \in DOMAIN old \ DOMAIN new : e = EventOf("stop", old[id])
  OBVIOUS
<1>2. \A kind, proc :
         /\ EventOf(kind, proc).kind = kind
         /\ EventOf(kind, proc).id = proc.id
         /\ FirstOf(EventOf(kind, proc)) = FirstOf(proc)
  BY DEF EventOf, FirstOf
<1>3. \A id \in DOMAIN new \ DOMAIN old :
         EventOf("start", new[id]) \in DiffEvents(old, new)
  OBVIOUS
<1>4. \A id \in DOMAIN old \ DOMAIN new :
         EventOf("stop", old[id]) \in DiffEvents(old, new)
  OBVIOUS
<1> HIDE DEF DiffEvents, Started, Stopped, Replaced
<1>5. \A e, f \in DiffEvents(old, new) : e.kind = f.kind /\ e.id = f.id => e = f
  BY <1>1, <1>2
<1> QED  BY <1>1, <1>2, <1>3, <1>4, <1>5

\* What is pending fits the table that was just adopted.
LEMMA PendingStep ==
    TypeOK /\ TablesSound /\ PendingSound /\ [Next]_vars => PendingSound'
<1> SUFFICES ASSUME TypeOK, TablesSound, PendingSound, [Next]_vars
             PROVE  PendingSound'
  OBVIOUS
<1> USE DEF PendingSound
<1>1. CASE TakeSnapshot
  BY <1>1 DEF TakeSnapshot, logVars
<1>2. CASE SnapshotFails
  BY <1>2 DEF SnapshotFails, logVars, GapEvent
<1>3. ASSUME NEW pid \in todo, ReadPid(pid) \/ SkipPid(pid)
      PROVE  PendingSound'
  BY <1>3 DEF ReadPid, SkipPid, logVars
<1>4. CASE Baseline
  BY <1>4 DEF Baseline
<1>5. CASE Compare
  <2> DEFINE new == PreserveAll(previous, next)
  <2>1. /\ IsTable(previous) /\ KeyedById(previous)
        /\ IsTable(new) /\ KeyedById(new)
    <3>1. KeyedById(new)
      BY PreserveIsProcess DEF TypeOK, IsTable, TablesSound, Sound, KeyedById, PreserveAll
    <3> QED  BY <3>1, PreserveIsTable DEF TypeOK, TablesSound, Sound
  <2>2. pending' = DiffEvents(previous, new) /\ previous' = new /\ begun'
        /\ pc' = "idle"
    BY <1>5 DEF Compare
  <2> HIDE DEF new
  <2> QED  BY <2>1, <2>2, DiffSound
<1>6. ASSUME NEW event \in pending, Send(event)
      PROVE  PendingSound'
  <2>1. begun
    OBVIOUS
  <2> QED  BY <1>6, <2>1 DEF Send
<1>7. ASSUME NEW event \in pending, Drop(event)
      PROVE  PendingSound'
  BY <1>7 DEF Drop, logVars
<1>8. CASE Cancel \/ Return \/ System \/ UNCHANGED vars
  BY <1>8 DEF Cancel, Return, System, vars, watchVars, logVars
<1> QED  BY <1>1, <1>2, <1>3, <1>4, <1>5, <1>6, <1>7, <1>8 DEF Next, Watch

-----------------------------------------------------------------------------
\* PendingSound, by the kind of an event.
LEMMA PendingKinds ==
    ASSUME PendingSound, NEW event \in pending
    PROVE  /\ event.kind \in {"start", "exec"} =>
                 /\ event.id \in DOMAIN previous
                 /\ FirstOf(event) = FirstOf(previous[event.id])
           /\ event.kind = "stop" => event.id \notin DOMAIN previous
<1>1. GapEvent.kind = "gap"
  BY DEF GapEvent
<1> HIDE DEF FirstOf
<1> QED  BY <1>1 DEF PendingSound

\* The log and the table agree after every step.
LEMMA MatchStep ==
    /\ TypeOK /\ TablesSound /\ PendingSound /\ LogMatchesTable /\ StopsAgree
    /\ [Next]_vars
    => LogMatchesTable' /\ StopsAgree'
<1> SUFFICES ASSUME TypeOK, TablesSound, PendingSound, LogMatchesTable,
                    StopsAgree, [Next]_vars
             PROVE  LogMatchesTable' /\ StopsAgree'
  OBVIOUS
<1>a. CASE cancelled'
  BY <1>a DEF LogMatchesTable, StopsAgree
<1>b. CASE ~begun'
  <2>1. PendingSound'
    BY PendingStep
  <2> QED  BY <1>b, <2>1 DEF PendingSound, LogMatchesTable, StopsAgree
<1>c. SUFFICES ASSUME begun', ~cancelled'
               PROVE  LogMatchesTable' /\ StopsAgree'
  BY <1>a, <1>b
<1> USE DEF Log!Agree, FirstOf, Due
<1>1. CASE TakeSnapshot \/ Return \/ System \/ UNCHANGED vars
         \/ \E pid \in todo : ReadPid(pid) \/ SkipPid(pid)
  BY <1>c, <1>1 DEF TakeSnapshot, Return, System, ReadPid, SkipPid, vars, watchVars,
              logVars, LogMatchesTable, StopsAgree
<1>2. CASE SnapshotFails
  <2>1. /\ UNCHANGED <<begun, cancelled, previous, reported>>
        /\ pending = {} /\ (pending' = {} \/ pending' = {GapEvent})
    BY <1>c, <1>2 DEF SnapshotFails, logVars
  <2> QED  BY <2>1 DEF LogMatchesTable, StopsAgree, GapEvent
<1>3. CASE Baseline
  <2>1. pending' = {}
    BY <1>3 DEF Baseline, PendingSound
  <2> QED  BY <1>3, <2>1 DEF Baseline, LogMatchesTable, StopsAgree
<1>4. CASE Compare
  <2> DEFINE new == PreserveAll(previous, next)
  <2>1. begun /\ ~cancelled /\ pending = {} /\ pending' = DiffEvents(previous, new)
        /\ previous' = new /\ reported' = reported
    BY <1>c, <1>4 DEF Compare, PendingSound, logVars
  <2>3. DOMAIN reported = DOMAIN previous
    BY <2>1 DEF LogMatchesTable
  <2>4. /\ IsTable(previous) /\ KeyedById(previous)
        /\ IsTable(new) /\ KeyedById(new)
    <3>1. KeyedById(new)
      BY PreserveIsProcess DEF TypeOK, IsTable, TablesSound, Sound, KeyedById, PreserveAll
    <3> QED  BY <3>1, PreserveIsTable DEF TypeOK, TablesSound, Sound
  <2>5. ASSUME NEW id \in DOMAIN previous \cap DOMAIN new
        PROVE  Log!Agree(FirstOf(previous[id]), FirstOf(new[id]))
    BY <2>5, PreserveIsTable, PreserveIsProcess DEF TypeOK, IsTable, IsProcess, PreserveAll
  <2> HIDE DEF new, FirstOf, Due, Log!Agree
  <2>6. \A id \in DOMAIN reported \cap DOMAIN previous :
           Log!Agree(reported[id], FirstOf(previous[id]))
    BY <2>1 DEF LogMatchesTable, FirstOf, Due, Log!Agree
  <2>7. ASSUME NEW e \in DiffEvents(previous, new), e.kind = "stop"
        PROVE  e.id \in DOMAIN previous \ DOMAIN new
               /\ FirstOf(e) = FirstOf(previous[e.id])
    BY <2>4, <2>7, DiffSound
  <2>8. StopsAgree'
    BY <1>c, <2>1, <2>3, <2>6, <2>7 DEF StopsAgree, FirstOf, Log!Agree
  <2>9. ASSUME NEW id \in DOMAIN previous \cup DOMAIN new
        PROVE  /\ id \in DOMAIN new \ DOMAIN previous <=>
                    \E e \in DiffEvents(previous, new) : e.kind = "start" /\ e.id = id
               /\ id \in DOMAIN previous \ DOMAIN new <=>
                    \E e \in DiffEvents(previous, new) : e.kind = "stop" /\ e.id = id
    BY <2>4, DiffSound
  <2>10. LogMatchesTable'
    BY <1>c, <2>1, <2>3, <2>5, <2>6, <2>9
    DEF LogMatchesTable, FirstOf, Due, Log!Agree
  <2> QED  BY <2>8, <2>10
<1>5. ASSUME NEW event \in pending, Send(event)
      PROVE  LogMatchesTable' /\ StopsAgree'
  <2>1. begun /\ ~cancelled /\ previous' = previous /\ pending' = pending \ {event}
    BY <1>c, <1>5 DEF Send
  <2>3. CASE event.kind = "start"
    <3>1. reported' = Put(reported, event.id, FirstOf(event))
      BY <1>5, <2>3 DEF Send, Write
    <3>2. event.id \in DOMAIN previous /\ FirstOf(event) = FirstOf(previous[event.id])
      BY <2>3, PendingKinds
    <3>3. LogMatchesTable'
      BY <2>1, <2>3, <3>1, <3>2 DEF LogMatchesTable, Put, PendingSound
    <3>4. StopsAgree'
      BY <2>1, <2>3, <3>1, <3>2, PendingKinds DEF StopsAgree, Put
    <3> QED  BY <3>3, <3>4
  <2>4. CASE event.kind = "stop"
    <3>1. reported' = Without(reported, {event.id})
      BY <1>5, <2>4 DEF Send, Write
    <3>2. event.id \notin DOMAIN previous
      BY <2>4, PendingKinds
    <3>3. LogMatchesTable'
      BY <2>1, <2>4, <3>1, <3>2 DEF LogMatchesTable, Without, PendingSound
    <3>4. StopsAgree'
      BY <2>1, <2>4, <3>1 DEF StopsAgree, Without, PendingSound
    <3> QED  BY <3>3, <3>4
  <2>5. CASE event.kind \in {"exec", "gap"}
    <3>1. reported' = reported
      BY <1>5, <2>5 DEF Send, Write
    <3> QED  BY <2>1, <2>5, <3>1 DEF LogMatchesTable, StopsAgree
  <2> QED  BY <1>5, <2>3, <2>4, <2>5 DEF Send, Write
<1>6. ASSUME NEW event \in pending, Drop(event)
      PROVE  FALSE
  BY <1>6, <1>c DEF Drop
<1>7. CASE Cancel
  BY <1>7, <1>c DEF Cancel
<1> QED
  BY <1>1, <1>2, <1>3, <1>4, <1>5, <1>6, <1>7 DEF Next, Watch

\* A birth is never in the future, and never goes back under one PID: what
\* has left stays away, what was born stays born.
LEMMA LeftStep ==
    ASSUME TypeOK, [Next]_vars, NEW id \in Ids
    PROVE  /\ Left(id) => Left(id)'
           /\ Born(id) => Born(id)'
<1> USE DEF Left, Born, Listed
<1>1. id.pid \in Pids /\ id.token \in Nat
  BY DEF Ids
<1>2. os[id.pid].birth \in Nat /\ clock \in Nat
  BY <1>1, OsAssumption DEF TypeOK, OsTypeOK
<1>3. CASE os' = os
  BY <1>3
<1>4. ASSUME NEW pid \in Pids, NEW image \in Images, Fork(pid, image)
      PROVE  (Left(id) => Left(id)') /\ (Born(id) => Born(id)')
  BY <1>1, <1>2, <1>4 DEF Fork, TypeOK, OsTypeOK
<1>5. ASSUME NEW pid \in Pids, NEW image \in Images, Execute(pid, image)
      PROVE  (Left(id) => Left(id)') /\ (Born(id) => Born(id)')
  BY <1>1, <1>2, <1>5, OsAssumption DEF Execute, Running, TypeOK, OsTypeOK
<1>6. ASSUME NEW pid \in Pids, Exit(pid) \/ Reap(pid)
      PROVE  (Left(id) => Left(id)') /\ (Born(id) => Born(id)')
  <2>1. PICK left : os' = [os EXCEPT ![pid].image = left] /\ os[pid].image # Gone
    BY <1>6, OsAssumption DEF Exit, Reap, Running
  <2> QED  BY <1>1, <1>2, <2>1 DEF TypeOK, OsTypeOK
<1>7. os' = os \/ System
  BY DEF Next, Watch, TakeSnapshot, SnapshotFails, ReadPid, SkipPid, Baseline,
         Compare, Send, Drop, Cancel, Return, vars, osVars
<1> QED  BY <1>3, <1>4, <1>5, <1>6, <1>7 DEF System, Elapse

\* With start tokens and reads that do not fail, an identity is used once.
LEMMA NeverTwiceStep ==
    TypeOK /\ TablesSound /\ PendingSound /\ NeverTwice /\ [Next]_vars => NeverTwice'
<1> SUFFICES ASSUME TypeOK, TablesSound, PendingSound, NeverTwice, [Next]_vars,
                    Tokened, ~Skips
             PROVE  NeverTwice'
  BY DEF NeverTwice
<1>a. /\ DOMAIN previous \subseteq Ids /\ DOMAIN next \subseteq Ids /\ ended \subseteq Ids
      /\ \A e \in pending : e.kind = "stop" => e.id \in Ids
  BY DEF TypeOK, IsTable, IsEvent, GapEvent
<1>b. /\ \A id \in Ids : Left(id) => Left(id)'
      /\ \A id \in Ids : Born(id) => Born(id)'
  BY LeftStep
<1>1. CASE UNCHANGED <<ended, pending, previous, next, pc, todo>>
  BY <1>1, <1>a, <1>b DEF NeverTwice
<1>2. CASE TakeSnapshot
  <2>1. \A id \in DOMAIN previous : id.pid \notin todo' => Left(id)'
    <3> SUFFICES ASSUME NEW id \in DOMAIN previous, id.pid \notin todo'
                 PROVE  Left(id)'
      OBVIOUS
    <3>1. id \in Ids /\ Born(id) /\ id.pid \in Pids
      BY <1>a DEF NeverTwice, Ids
    <3>2. ~Listed(id.pid)
      BY <1>2, <3>1 DEF TakeSnapshot
    <3>3. Left(id)
      BY <3>1, <3>2 DEF Left, Born, TypeOK, OsTypeOK, Ids
    <3> QED  BY <1>b, <3>1, <3>3
  <2> QED  BY <1>2, <1>a, <1>b, <2>1 DEF TakeSnapshot, NeverTwice, EmptyTable, logVars
<1>3. CASE SnapshotFails
  <2>1. \A e \in pending' : e.kind # "stop"
    BY <1>3 DEF SnapshotFails, GapEvent
  <2>2. pc' # "scan" /\ UNCHANGED <<ended, previous, next>>
    BY <1>3 DEF SnapshotFails, logVars
  <2> QED  BY <1>a, <1>b, <2>1, <2>2 DEF NeverTwice
<1>4. ASSUME NEW pid \in todo, ReadPid(pid)
      PROVE  NeverTwice'
  <2> DEFINE new == Identity(pid)
  <2>0. pid \in Pids /\ os[pid].birth \in Nat
    BY OsAssumption DEF TypeOK, OsTypeOK
  <2>1. /\ new.source = "os" /\ new.pid = pid /\ new.token = os[pid].birth
        /\ new \in Ids
    BY <2>0 DEF Identity, StableId, Ids, Sources, Provisionals
  <2>2. Born(new) /\ ~Left(new)
    BY <1>4, <2>0, <2>1 DEF Born, Left, ReadPid
  <2>3. new \notin ended
    BY <2>2 DEF NeverTwice
  <2>4. /\ DOMAIN next' = DOMAIN next \cup {new} /\ todo' = todo \ {pid}
        /\ UNCHANGED <<os, pc, ended, pending, previous>> /\ pc = "scan"
    BY <1>4 DEF ReadPid, Put, logVars, osVars
  <2>5. \A id \in DOMAIN previous : id # new /\ id.pid = pid => Left(id)
    <3> SUFFICES ASSUME NEW id \in DOMAIN previous, id # new, id.pid = pid
                 PROVE  Left(id)
      OBVIOUS
    <3>1. id \in Ids /\ Born(id)
      BY <1>a DEF NeverTwice
    <3>2. id.source = "os"
      BY DEF NeverTwice
    <3>3. id.token # os[pid].birth
      BY <2>0, <3>1, <3>2 DEF Identity, StableId, Ids
    <3> QED  BY <2>0, <3>1, <3>3 DEF Left, Born, Ids
  <2>6. \A id \in DOMAIN previous \ (DOMAIN next \cup {new}) :
           id.pid \notin todo \ {pid} => Left(id)
    BY <2>4, <2>5 DEF NeverTwice
  <2> HIDE DEF new
  <2> QED  BY <1>a, <1>b, <2>1, <2>2, <2>3, <2>4, <2>6 DEF NeverTwice
<1>5. ASSUME NEW pid \in todo, SkipPid(pid)
      PROVE  NeverTwice'
  <2>1. pid \in Pids /\ ~Listed(pid) /\ todo' = todo \ {pid} /\ pc = "scan"
        /\ UNCHANGED <<os, pc, ended, pending, previous, next>>
    BY <1>5 DEF SkipPid, TypeOK, logVars, osVars
  <2>2. \A id \in DOMAIN previous : id.pid = pid => Left(id)
    <3> SUFFICES ASSUME NEW id \in DOMAIN previous, id.pid = pid PROVE Left(id)
      OBVIOUS
    <3>1. id \in Ids /\ Born(id)
      BY <1>a DEF NeverTwice
    <3> QED  BY <2>1, <3>1 DEF Left, Born, Ids, TypeOK, OsTypeOK
  <2> QED  BY <1>a, <1>b, <2>1, <2>2 DEF NeverTwice
<1>6. CASE Baseline
  BY <1>6, <1>a, <1>b DEF Baseline, NeverTwice, PendingSound
<1>7. CASE Compare
  <2> DEFINE new == PreserveAll(previous, next)
  <2>1. /\ previous' = new /\ pending' = DiffEvents(previous, new) /\ DOMAIN new = DOMAIN next
        /\ UNCHANGED <<next, ended>> /\ pc = "scan" /\ pc' = "idle" /\ todo = {}
    BY <1>7, PreserveIsTable DEF Compare, TypeOK, logVars
  <2>2. /\ IsTable(previous) /\ KeyedById(previous)
        /\ IsTable(new) /\ KeyedById(new)
    <3>1. KeyedById(new)
      BY PreserveIsProcess DEF TypeOK, IsTable, TablesSound, Sound, KeyedById, PreserveAll
    <3> QED  BY <3>1, PreserveIsTable DEF TypeOK, TablesSound, Sound
  <2> HIDE DEF new
  <2>3. \A e \in pending' : e.kind = "stop" => e.id \in DOMAIN previous \ DOMAIN next
    BY <2>1, <2>2, DiffSound
  <2>4. \A e \in pending' : e.kind = "stop" => Left(e.id)'
    BY <1>a, <1>b, <2>1, <2>3 DEF NeverTwice
  <2> QED  BY <1>a, <1>b, <2>1, <2>4 DEF NeverTwice
<1>8. ASSUME NEW event \in pending, Send(event)
      PROVE  NeverTwice'
  <2>1. /\ UNCHANGED <<os, pc, previous, next>> /\ pending' \subseteq pending
        /\ pc = "idle"
        /\ \/ ended' = ended
           \/ event.kind = "stop" /\ ended' = ended \cup {event.id}
    BY <1>8 DEF Send, Write, osVars, PendingSound, TypeOK
  <2>2. event.kind = "stop" => event.id \notin DOMAIN previous /\ Left(event.id)
    BY PendingKinds DEF NeverTwice
  <2> QED  BY <1>a, <1>b, <2>1, <2>2 DEF NeverTwice
<1>9. ASSUME NEW event \in pending, Drop(event)
      PROVE  NeverTwice'
  BY <1>9, <1>a, <1>b DEF Drop, NeverTwice, logVars
<1>10. CASE Cancel \/ System \/ UNCHANGED vars
  BY <1>1, <1>10 DEF Cancel, System, vars, watchVars, logVars
<1>11. CASE Return
  BY <1>11, <1>a, <1>b DEF Return, NeverTwice, logVars
<1> QED
  BY <1>2, <1>3, <1>4, <1>5, <1>6, <1>7, <1>8, <1>9, <1>10, <1>11 DEF Next, Watch

-----------------------------------------------------------------------------
\* The inductive invariant: the log, the tables, the events between them
\* and what the system may still do.
THEOREM Invariant == Spec => []IInv
<1>1. Init => IInv
  BY TypeInit, InvInit DEF IInv
<1>2. IInv /\ [Next]_vars => IInv'
  BY TypeStep, TablesStep, PendingStep, MatchStep, NeverTwiceStep DEF IInv
<1> QED  BY <1>1, <1>2, PTL DEF Spec

\* The log always agrees with the table, as far as it was sent.
THEOREM LogMatches == Spec => []LogMatchesTable
<1>1. IInv => LogMatchesTable
  BY DEF IInv
<1> QED  BY <1>1, Invariant, PTL

\* Two live identities of one PID: the Stop of one is on its way.
THEOREM PidShared == Spec => []PidSharedOnlyWhileStopping
<1>1. IInv => PidSharedOnlyWhileStopping
  <2> SUFFICES ASSUME IInv, ~cancelled,
                      NEW a \in DOMAIN reported, NEW b \in DOMAIN reported,
                      a # b, a.pid = b.pid
               PROVE  Due("stop", a) \/ Due("stop", b)
    BY DEF PidSharedOnlyWhileStopping
  <2>1. begun
    BY DEF IInv, PendingSound, EmptyTable
  <2>2. ~(a \in DOMAIN previous /\ b \in DOMAIN previous)
    BY DEF IInv, TablesSound, Sound, OnePerPid
  <2> QED  BY <2>1, <2>2 DEF IInv, LogMatchesTable
<1> QED  BY <1>1, Invariant, PTL

-----------------------------------------------------------------------------
\* The polling watch keeps the abstract promise: every line it writes is one
\* LifecycleLog allows.
THEOREM Refinement == Spec => KeepsPromise
<1>1. Init => Log!LogInit
  BY DEF Init, Log!LogInit, Log!NoLine, EmptyTable
<1>2. IInv /\ [Next]_vars => [Log!LogNext]_(Log!logVars)
  <2> SUFFICES ASSUME IInv, [Next]_vars
               PROVE  [Log!LogNext]_(Log!logVars)
    OBVIOUS
  <2>1. CASE UNCHANGED <<logVars, begun, cancelled>>
    BY <2>1 DEF Log!logVars, logVars
  <2>2. CASE Baseline
    BY <2>2 DEF Baseline, Log!LogNext, Log!Open, Log!AfterCut
  <2>3. CASE Cancel
    BY <2>3 DEF Cancel, Log!LogNext, Log!Cut, logVars
  <2>4. ASSUME NEW event \in pending, Send(event)
        PROVE  Log!LogNext
    <3>1. begun /\ UNCHANGED <<begun, cancelled>> /\ line' = event /\ Write(event)
      BY <2>4 DEF Send, Write, IInv, PendingSound
    <3>2. CASE cancelled
      BY <3>1, <3>2 DEF Log!LogNext, Log!AfterCut
    <3>3. CASE ~cancelled /\ event.kind = "start"
      <4>1. event.id \in DOMAIN previous /\ Due("start", event.id)
        BY <3>3, PendingKinds DEF IInv, Due
      <4>2. ~Due("stop", event.id)
        BY <4>1, PendingKinds DEF IInv, Due
      <4>3. event.id \notin DOMAIN reported
        BY <3>1, <3>3, <4>1, <4>2 DEF IInv, LogMatchesTable
      <4>4. Tokened /\ ~Skips => event.id \notin ended
        BY <4>1 DEF IInv, NeverTwice
      <4>5. reported' = Put(reported, event.id, FirstOf(event)) /\ ended' = ended
        BY <3>1, <3>3 DEF Write
      <4> QED
        BY <3>1, <3>3, <4>3, <4>4, <4>5
        DEF Log!LogNext, Log!StartLine, Log!FirstOf, FirstOf, Put
    <3>4. CASE ~cancelled /\ event.kind = "stop"
      <4>1. event.id \in DOMAIN reported /\ Log!Agree(reported[event.id], FirstOf(event))
        BY <3>4 DEF IInv, StopsAgree
      <4>2. reported' = Without(reported, {event.id}) /\ ended' = ended \cup {event.id}
        BY <3>1, <3>4 DEF Write
      <4> QED
        BY <3>1, <3>4, <4>1, <4>2
        DEF Log!LogNext, Log!StopLine, Log!FirstOf, FirstOf, Without
    <3>5. CASE ~cancelled /\ event.kind = "exec"
      <4>1. /\ event.id \in DOMAIN previous
            /\ FirstOf(event) = FirstOf(previous[event.id])
            /\ ~Due("start", event.id)
        BY <3>5, PendingKinds DEF IInv, PendingSound, Due
      <4>2. event.id \in DOMAIN reported
        BY <3>1, <3>5, <4>1 DEF IInv, LogMatchesTable
      <4>3. Log!Agree(reported[event.id], FirstOf(event))
        BY <3>1, <3>5, <4>1, <4>2 DEF IInv, LogMatchesTable, Log!Agree, FirstOf
      <4>4. UNCHANGED <<reported, ended>>
        BY <3>1, <3>5 DEF Write
      <4> QED
        BY <3>1, <3>5, <4>2, <4>3, <4>4
        DEF Log!LogNext, Log!ExecLine, Log!FirstOf, FirstOf
    <3>6. CASE event.kind = "gap"
      BY <3>1, <3>6 DEF Write, Log!LogNext, Log!GapLine
    <3> QED  BY <3>1, <3>2, <3>3, <3>4, <3>5, <3>6 DEF Write
  <2>5. \/ UNCHANGED <<logVars, begun, cancelled>> \/ Baseline \/ Cancel
        \/ \E event \in pending : Send(event)
    BY DEF Next, Watch, System, TakeSnapshot, SnapshotFails, ReadPid, SkipPid,
           Compare, Drop, Return, vars, watchVars
  <2> QED  BY <2>1, <2>2, <2>3, <2>4, <2>5
<1> QED  BY <1>1, <1>2, Invariant, PTL DEF Spec, KeepsPromise, Log!LogSpec
=============================================================================
