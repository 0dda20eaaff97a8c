------------------------- MODULE CallbackWatchProofs -------------------------
(***************************************************************************)
(* The table of a watcher that is called back holds each PID once and is   *)
(* right when the notices about a PID are used up, and the session it      *)
(* opened is closed when it returns, for every set of PIDs and images,     *)
(* every version, every size of the queues and however the system, the     *)
(* callback and Watch take turns.                                          *)
(***************************************************************************)
EXTENDS CallbackWatch, Tables, Queues, TLAPS

\* What a scan has still to read is listed under its PID.
TodoFiled == \A pid \in DOMAIN todo : HasId(todo[pid]) /\ todo[pid].id.pid = pid

\* No PID is both in the snapshot and still to be read.
NextApart ==
    IF Scanning THEN \A id \in DOMAIN next : id.pid \notin DOMAIN todo
                ELSE next = EmptyTable

TablesInv == TodoFiled /\ FiledOnce(next) /\ NextApart /\ FiledOnce(processes)

tableVars == <<todo, next, processes>>

-----------------------------------------------------------------------------
LEMMA TablesInit == Init => TablesInv
<1> SUFFICES ASSUME Init PROVE TablesInv
  OBVIOUS
<1>1. TodoFiled
  BY DEF Init, TodoFiled, EmptyTable
<1> QED BY <1>1, EmptyIsFiled DEF Init, TablesInv, NextApart, Scanning

\* Whatever is read of a PID is filed under the PID.
LEMMA ReadingIsFiled ==
    ASSUME NEW pid, NEW listing, HasId(listing), listing.id.pid = pid,
           NEW proc \in Reading(pid, listing)
    PROVE  HasId(proc) /\ proc.id.pid = pid
<1>1. CASE proc = listing
  BY <1>1
<1>2. CASE proc = Captured(Identity(pid), os[pid].image, os[pid].birth, 0)
  BY <1>2, CapturedHasId DEF Identity, StableId
<1>3. CASE proc = [listing EXCEPT !.image = os[pid].image]
  BY <1>3 DEF HasId
<1> QED BY <1>1, <1>2, <1>3 DEF Reading

\* So is whatever a notice says of its process, or makes be read.
LEMMA DescribedIsFiled ==
    ASSUME NEW notice, NEW proc \in Described(notice)
    PROVE  HasId(proc) /\ proc.id.pid = notice.pid
<1> DEFINE unread == Captured(StableId(notice.pid, EventTime(notice)), Blank,
                              EventTime(notice), 0)
<1>1. HasId(unread) /\ unread.id.pid = notice.pid
  BY CapturedHasId DEF StableId
<1>2. CASE version = 2
  BY <1>2, CapturedHasId DEF Described, NoticeId
<1>3. CASE version # 2 /\ version # Etw
  BY <1>3, CapturedHasId DEF Described, StableId
<1>4. CASE version # 2 /\ version = Etw
  <2>1. proc \in Reading(notice.pid, unread)
    BY <1>4 DEF Described
  <2> HIDE DEF unread
  <2> QED BY <1>1, <2>1, ReadingIsFiled
<1> QED BY <1>2, <1>3, <1>4

\* A notice leaves one entry of its PID, or none, and no other entry touched.
LEMMA AppliedIsFiled ==
    ASSUME FiledOnce(processes), NEW notice, Apply(notice)
    PROVE  FiledOnce(processes')
<1>1. ASSUME NEW proc, HasId(proc), proc.id.pid = notice.pid,
             processes' = Replace(notice.pid, proc)
      PROVE  FiledOnce(processes')
  BY <1>1, ReplaceIsFiled DEF Replace
<1>2. ASSUME NEW old, NEW new \in Described(notice), StartNotice(notice, old, new)
      PROVE  FiledOnce(processes')
  <2>1. HasId(new) /\ new.id.pid = notice.pid
    BY DescribedIsFiled
  <2>2. HasId(Preserve(old, new)) /\ Preserve(old, new).id.pid = notice.pid
    BY <2>1, PreserveHasId
  <2>3. processes' = Replace(notice.pid, new) \/ processes' = Replace(notice.pid, Preserve(old, new))
    BY <1>2 DEF StartNotice
  <2> QED BY <1>1, <2>1, <2>2, <2>3
<1>3. ASSUME NEW old, NEW new \in Described(notice), ExecNotice(notice, old, new)
      PROVE  FiledOnce(processes')
  <2>1. HasId(new) /\ new.id.pid = notice.pid
    BY DescribedIsFiled
  <2>2. HasId(Preserve(old, new)) /\ Preserve(old, new).id.pid = notice.pid
    BY <2>1, PreserveHasId
  <2>3. processes' = Replace(notice.pid, new) \/ processes' = Replace(notice.pid, Preserve(old, new))
    BY <1>3 DEF ExecNotice
  <2> QED BY <1>1, <2>1, <2>2, <2>3
<1>4. ASSUME NEW old, StopNotice(notice, old)
      PROVE  FiledOnce(processes')
  BY <1>4, RemoveIsFiled DEF StopNotice
<1> QED BY <1>2, <1>3, <1>4 DEF Apply

LEMMA TodoTaken ==
    ASSUME TablesInv, TakeSnapshot
    PROVE  TablesInv'
<1>1. /\ pc \in {"baseline", "list"} /\ pc' \in {"first", "scan"}
      /\ todo' = [pid \in {p \in Pids : Listed(p)} |-> Listing(pid)]
      /\ UNCHANGED <<next, processes>>
  BY DEF TakeSnapshot
<1>2. next = EmptyTable
  BY <1>1 DEF TablesInv, NextApart, Scanning
<1>3. \A pid : HasId(Listing(pid)) /\ Listing(pid).id.pid = pid
  BY CapturedHasId DEF Listing, Identity, StableId
<1>4. TodoFiled'
  BY <1>1, <1>3 DEF TodoFiled
<1>5. NextApart'
  BY <1>1, <1>2 DEF NextApart, Scanning, EmptyTable
<1> QED BY <1>1, <1>4, <1>5 DEF TablesInv

LEMMA ReadStep ==
    ASSUME TablesInv, NEW pid \in DOMAIN todo, ReadPid(pid)
    PROVE  TablesInv'
<1>1. PICK proc \in Reading(pid, todo[pid]) : next' = Put(next, proc.id, proc)
  BY DEF ReadPid
<1>2. Scanning /\ Scanning' /\ todo' = Without(todo, {pid}) /\ UNCHANGED processes
  BY DEF ReadPid, Scanning
<1>3. HasId(proc) /\ proc.id.pid = pid
  BY ReadingIsFiled DEF TablesInv, TodoFiled
<1>4. \A id \in DOMAIN next : id.pid # pid
  BY <1>2 DEF TablesInv, NextApart
<1>5. FiledOnce(next') /\ DOMAIN next' = DOMAIN next \cup {proc.id}
  BY <1>1, <1>3, <1>4, PutIsFiled DEF TablesInv
<1>6. /\ DOMAIN todo' = DOMAIN todo \ {pid}
      /\ \A p \in DOMAIN todo' : todo'[p] = todo[p]
  BY <1>2 DEF Without
<1>7. TodoFiled'
  BY <1>6 DEF TablesInv, TodoFiled
<1>8. NextApart'
  BY <1>2, <1>3, <1>5, <1>6 DEF TablesInv, NextApart
<1> QED BY <1>2, <1>5, <1>7, <1>8 DEF TablesInv

LEMMA AdoptStep ==
    ASSUME TablesInv, Adopt
    PROVE  TablesInv'
<1>1. /\ pc' \in {"loop", "apply"} /\ next' = EmptyTable /\ UNCHANGED todo
      /\ processes' = next \/ processes' = PreserveAll(processes, next)
  BY DEF Adopt
<1>2. FiledOnce(processes')
  BY <1>1, PreserveAllIsFiled DEF TablesInv
<1> QED BY <1>1, <1>2, EmptyIsFiled DEF TablesInv, TodoFiled, NextApart, Scanning

\* All other steps leave the tables alone, and do not begin or end a scan.
LEMMA TablesStay ==
    ASSUME TablesInv, UNCHANGED tableVars, Scanning' <=> Scanning
    PROVE  TablesInv'
  BY DEF TablesInv, TodoFiled, NextApart, tableVars

LEMMA TablesStep == TablesInv /\ [Next]_vars => TablesInv'
<1> SUFFICES ASSUME TablesInv, [Next]_vars PROVE TablesInv'
  OBVIOUS
<1> USE DEF scanVars, tableVars
<1>1. CASE UNCHANGED vars
  BY <1>1, TablesStay DEF vars, Scanning
<1>2. CASE Open
  BY <1>2, TablesStay DEF Open, Scanning
<1>3. CASE TakeSnapshot
  BY <1>3, TodoTaken
<1>4. CASE SnapshotFails
  BY <1>4, TablesStay DEF SnapshotFails, BaselineFails, Scanning
<1>5. CASE Adopt
  BY <1>5, AdoptStep
<1>6. ASSUME NEW pid \in DOMAIN todo, ReadPid(pid) PROVE TablesInv'
  BY <1>6, ReadStep
<1>7. CASE Receive
  BY <1>7, TablesStay DEF Receive, Selecting, Scanning
<1>8. CASE ApplyNotice
  <2>1. FiledOnce(processes')
    BY <1>8, AppliedIsFiled DEF ApplyNotice, TablesInv
  <2> QED BY <1>8, <2>1 DEF ApplyNotice, TablesInv, TodoFiled, NextApart, Scanning
<1>9. CASE CheckLost
  BY <1>9, TablesStay DEF CheckLost, Scanning
<1>10. CASE Tick
  BY <1>10, TablesStay DEF Tick, Selecting, Scanning
<1>11. CASE SendSome
  BY <1>11, TablesStay DEF SendSome, Send, Scanning
<1>12. CASE Cancel
  BY <1>12, TablesStay DEF Cancel, Scanning
<1>13. CASE Return
  BY <1>13, EmptyIsFiled DEF Return, Selecting, TablesInv, TodoFiled, NextApart, Scanning
<1>14. CASE Callback
  BY <1>14, TablesStay DEF Callback, Scanning
<1>15. CASE CountLost
  BY <1>15, TablesStay DEF CountLost, Scanning
<1>16. CASE TraceEnds
  BY <1>16, TablesStay DEF TraceEnds, Scanning
<1>17. CASE System
  BY <1>17, TablesStay DEF System, Scanning
<1> QED BY <1>1, <1>2, <1>3, <1>4, <1>5, <1>6, <1>7, <1>8, <1>9, <1>10, <1>11, <1>12,
          <1>13, <1>14, <1>15, <1>16, <1>17 DEF Next, Watch

\* The inductive invariant of the tables.
THEOREM Tabled == Spec => []TablesInv
  BY TablesInit, TablesStep, PTL DEF Spec

\* findProcessByPID finds the one entry of a PID, after any notices and
\* snapshots, of whatever age and order (applyWindowsETWNotice,
\* applyMacOSEndpointNotice and the resyncs).
THEOREM AlwaysSound == Spec => []TableSound
<1>1. TablesInv => TableSound
  BY FiledOnceIsSound DEF TablesInv, TableSound
<1> QED BY <1>1, Tabled, PTL

-----------------------------------------------------------------------------
LEMMA ReleasedInit == Init => Released
  BY DEF Init, Released

LEMMA ReleasedStep == Released /\ [Next]_vars => Released'
<1> SUFFICES ASSUME Released, [Next]_vars PROVE Released'
  OBVIOUS
<1> USE DEF Released, sessionVars
<1>1. CASE UNCHANGED vars
  BY <1>1 DEF vars
<1>2. CASE Open
  BY <1>2 DEF Open
<1>3. CASE TakeSnapshot
  BY <1>3 DEF TakeSnapshot
<1>4. CASE SnapshotFails
  BY <1>4 DEF SnapshotFails, BaselineFails
<1>5. CASE Adopt
  BY <1>5 DEF Adopt
<1>6. ASSUME NEW pid \in DOMAIN todo, ReadPid(pid) PROVE Released'
  BY <1>6 DEF ReadPid
<1>7. CASE Receive
  BY <1>7 DEF Receive
<1>8. CASE ApplyNotice
  BY <1>8 DEF ApplyNotice
<1>9. CASE CheckLost
  BY <1>9 DEF CheckLost
<1>10. CASE Tick
  BY <1>10 DEF Tick
<1>11. CASE SendSome
  BY <1>11 DEF SendSome, Send
<1>12. CASE Cancel
  BY <1>12 DEF Cancel
<1>13. CASE Return
  BY <1>13 DEF Return
<1>14. CASE Callback
  BY <1>14 DEF Callback
<1>15. CASE CountLost
  BY <1>15 DEF CountLost
<1>16. CASE TraceEnds
  BY <1>16 DEF TraceEnds
<1>17. CASE System
  BY <1>17 DEF System
<1> QED BY <1>1, <1>2, <1>3, <1>4, <1>5, <1>6, <1>7, <1>8, <1>9, <1>10, <1>11, <1>12,
          <1>13, <1>14, <1>15, <1>16, <1>17 DEF Next, Watch

\* However Watch ends, its session or client is closed, and only a cancelled
\* watch ends without an error (windowsETWBackend.Watch, macOSEndpointBackend.Watch).
THEOREM AlwaysReleased == Spec => []Released
  BY ReleasedInit, ReleasedStep, PTL DEF Spec

-----------------------------------------------------------------------------
(***************************************************************************)
(* The table is exact, by the argument of ConnectorWatchProofs: the last   *)
(* notice about a process that lost none tells how things are.  Here it    *)
(* may be held back by the system, queued in the channel, or in hand while *)
(* a snapshot is taken, and what is known of the process may come from the *)
(* notice itself.                                                          *)
(***************************************************************************)
Notices == [kind : Kinds, pid : Pids, stamp : Nat, birth : Nat, image : Images,
            sequence : Nat]

Imaged(table) == \A id \in DOMAIN table : HasImage(table[id])

Typed ==
    /\ OsTypeOK
    /\ raised \in [Kinds \cup {"all"} -> Nat]
    /\ buffered \in Seq(Notices) /\ notices \in Seq(Notices)
    /\ batch \in Seq(Notices) /\ Len(batch) =< 1
    /\ DOMAIN todo \subseteq Pids
    /\ Imaged(todo) /\ Imaged(next)

LEMMA TypedInit == Init => Typed
<1> SUFFICES ASSUME Init PROVE Typed
  OBVIOUS
<1>1. OsTypeOK
  BY OsAssumption DEF Init, OsInit, OsTypeOK
<1>2. <<>> \in Seq(Notices) /\ Len(<<>>) =< 1
  OBVIOUS
<1> QED BY <1>1, <1>2 DEF Init, Typed, Imaged, EmptyTable

LEMMA SystemTyped ==
    ASSUME Typed, System
    PROVE  Typed'
<1> USE OsAssumption DEF Typed, OsTypeOK
<1>1. UNCHANGED <<callbackVars, scanVars, batch>>
  BY DEF System
<1>2. ASSUME NEW kind \in Kinds, NEW pid \in Pids, NEW birth \in Nat, NEW image \in Images,
             Raise(kind, pid, birth, image)
      PROVE  raised' \in [Kinds \cup {"all"} -> Nat] /\ buffered' \in Seq(Notices)
  <2>1. Numbering(kind) \in Kinds \cup {"all"}
    BY DEF Numbering
  <2>2. raised' \in [Kinds \cup {"all"} -> Nat]
    <3>1. \/ raised' = raised
          \/ raised' = [k \in DOMAIN raised |->
                IF k \in {"all", kind} THEN raised[k] + 1 ELSE raised[k]]
      BY <1>2 DEF Raise
    <3> QED BY <3>1
  <2>3. First + raised[Numbering(kind)] \in Nat
    BY <2>1, CallbackAssumption
  <2>4. CASE UNCHANGED buffered
    BY <2>2, <2>4
  <2>5. CASE buffered' = Append(buffered,
                  [kind |-> kind, pid |-> pid, stamp |-> clock, birth |-> birth,
                   image |-> image,
                   sequence |-> IF version = Etw THEN 0
                                ELSE First + raised[Numbering(kind)]])
    <3>1. [kind |-> kind, pid |-> pid, stamp |-> clock, birth |-> birth, image |-> image,
           sequence |-> IF version = Etw THEN 0 ELSE First + raised[Numbering(kind)]]
             \in Notices
      BY <2>3 DEF Notices
    <3> QED BY <2>2, <2>5, <3>1, Appending
  <2> QED BY <1>2, <2>4, <2>5 DEF Raise, historyVars
<1>3. ASSUME NEW pid \in Pids, NEW image \in Images,
             Fork(pid, image), Raise("fork", pid, clock, image)
      PROVE  Typed'
  <2>1. OsTypeOK'
    BY <1>3 DEF Fork
  <2>2. clock \in Nat
    OBVIOUS
  <2> QED BY <1>1, <1>2, <1>3, <2>1, <2>2 DEF Kinds, callbackVars, scanVars, Imaged
<1>4. ASSUME NEW pid \in Pids, NEW image \in Images,
             Execute(pid, image), Raise("exec", pid, os[pid].birth, image)
      PROVE  Typed'
  <2>1. OsTypeOK'
    BY <1>4 DEF Execute
  <2>2. os[pid].birth \in Nat
    OBVIOUS
  <2> QED BY <1>1, <1>2, <1>4, <2>1, <2>2 DEF Kinds, callbackVars, scanVars, Imaged
<1>5. ASSUME NEW pid \in Pids, Exit(pid), Raise("exit", pid, os[pid].birth, os[pid].image)
      PROVE  Typed'
  <2>1. PICK left \in IF Zombies THEN {Defunct, Gone} ELSE {Gone} :
           os' = [os EXCEPT ![pid].image = left] /\ UNCHANGED clock
    BY <1>5 DEF Exit
  <2>2. OsTypeOK'
    BY <2>1
  <2>3. os[pid].birth \in Nat /\ os[pid].image \in Images
    BY <1>5 DEF Exit, Running
  <2> QED BY <1>1, <1>2, <1>5, <2>2, <2>3 DEF Kinds, callbackVars, scanVars, Imaged
<1>6. ASSUME NEW pid \in Pids, Reap(pid), UNCHANGED <<raised, buffered>>
      PROVE  Typed'
  BY <1>1, <1>6 DEF Reap, callbackVars, scanVars, Imaged
<1>7. CASE Elapse /\ UNCHANGED <<raised, buffered>>
  BY <1>1, <1>7 DEF Elapse, callbackVars, scanVars, Imaged
<1> QED BY <1>3, <1>4, <1>5, <1>6, <1>7 DEF System

\* Whatever is read of a PID has an image.
LEMMA ReadingHasImage ==
    ASSUME NEW pid, NEW listing, HasImage(listing), NEW proc \in Reading(pid, listing)
    PROVE  HasImage(proc)
<1>1. CASE proc = listing
  BY <1>1
<1>2. CASE proc = Captured(Identity(pid), os[pid].image, os[pid].birth, 0)
  BY <1>2, CapturedHasImage
<1>3. CASE proc = [listing EXCEPT !.image = os[pid].image]
  BY <1>3 DEF HasImage
<1> QED BY <1>1, <1>2, <1>3 DEF Reading

LEMMA TypedStep == Typed /\ [Next]_vars => Typed'
<1> SUFFICES ASSUME Typed, [Next]_vars PROVE Typed'
  OBVIOUS
<1> USE DEF Typed, OsTypeOK, Imaged, sourceVars, osVars, callbackVars, scanVars
<1>1. CASE UNCHANGED vars
  BY <1>1 DEF vars
<1>2. CASE Open
  BY <1>2 DEF Open
<1>3. CASE TakeSnapshot
  <2>1. \A pid : HasImage(Listing(pid))
    BY CapturedHasImage DEF Listing
  <2> QED BY <1>3, <2>1 DEF TakeSnapshot
<1>4. CASE SnapshotFails
  BY <1>4 DEF SnapshotFails
<1>5. CASE Adopt
  BY <1>5 DEF Adopt, EmptyTable
<1>6. ASSUME NEW pid \in DOMAIN todo, ReadPid(pid) PROVE Typed'
  <2>1. PICK proc \in Reading(pid, todo[pid]) : next' = Put(next, proc.id, proc)
    BY <1>6 DEF ReadPid
  <2>2. HasImage(proc)
    BY ReadingHasImage
  <2>3. Imaged(next')
    BY <2>1, <2>2 DEF Put
  <2>4. DOMAIN todo' \subseteq DOMAIN todo /\ \A p \in DOMAIN todo' : todo'[p] = todo[p]
    BY <1>6 DEF ReadPid, Without
  <2> QED BY <1>6, <2>3, <2>4 DEF ReadPid
<1>7. CASE Receive
  <2>1. notices' \in Seq(Notices) /\ Head(notices) \in Notices
    BY <1>7, Taking DEF Receive
  <2>2. batch' \in Seq(Notices) /\ Len(batch') =< 1
    BY <1>7, <2>1 DEF Receive
  <2> QED BY <1>7, <2>1, <2>2 DEF Receive
<1>8. CASE ApplyNotice
  <2>1. batch' \in Seq(Notices) /\ Len(batch') =< 1
    BY <1>8 DEF ApplyNotice
  <2> QED BY <1>8, <2>1 DEF ApplyNotice
<1>9. CASE CheckLost
  BY <1>9 DEF CheckLost
<1>10. CASE Tick
  BY <1>10 DEF Tick
<1>11. CASE SendSome
  BY <1>11 DEF SendSome, Send
<1>12. CASE Cancel
  BY <1>12 DEF Cancel
<1>13. CASE Return
  <2>1. <<>> \in Seq(Notices)
    OBVIOUS
  <2> QED BY <1>13, <2>1 DEF Return
<1>14. CASE Callback
  <2>1. buffered' \in Seq(Notices) /\ Head(buffered) \in Notices
    BY <1>14, Taking DEF Callback
  <2>2. notices' = notices \/ notices' = Append(notices, Head(buffered))
    BY <1>14 DEF Callback
  <2>3. notices' \in Seq(Notices)
    <3>1. Append(notices, Head(buffered)) \in Seq(Notices)
      BY <2>1, Appending
    <3> QED BY <2>2, <3>1
  <2> QED BY <1>14, <2>1, <2>3 DEF Callback
<1>15. CASE CountLost
  BY <1>15 DEF CountLost
<1>16. CASE TraceEnds
  BY <1>16 DEF TraceEnds
<1>17. CASE System
  <2> HIDE DEF Typed
  <2> QED BY <1>17, SystemTyped
<1> QED BY <1>1, <1>2, <1>3, <1>4, <1>5, <1>6, <1>7, <1>8, <1>9, <1>10, <1>11, <1>12,
          <1>13, <1>14, <1>15, <1>16, <1>17 DEF Next, Watch

-----------------------------------------------------------------------------
\* There are no zombies where the system has none, nor on Windows.
NoZombies == ~Zombies \/ version = Etw => \A pid \in Pids : os[pid].image # Defunct

\* The session is open while Watch runs, nothing is queued before that, and a
\* notice is in hand from its receipt on until it is applied.
Phases ==
    /\ pc = "open" => session = "none" /\ buffered = <<>> /\ notices = <<>>
    /\ pc \notin {"open", "returned"} => session = "open"
    /\ pc \in {"open", "baseline", "first", "loop", "check"} => batch = <<>>
    /\ pc = "apply" => batch # <<>>

About(pid) == {notice \in Notices : notice.pid = pid}

Told(queue, pid) == Held(queue, About(pid))

LastAbout(queue, pid, i) == LastOf(queue, About(pid), i)

\* A notice tells how things are with its process.
Tells(notice) ==
    IF notice.kind = "exit" THEN ~Running(notice.pid)
    ELSE os[notice.pid] = [birth |-> notice.birth, image |-> notice.image]

LastTells ==
    Subscribed => \A pid \in Pids \ missed :
        /\ \A i \in 1..Len(buffered) : LastAbout(buffered, pid, i) => Tells(buffered[i])
        /\ ~Told(buffered, pid) =>
              /\ \A i \in 1..Len(notices) : LastAbout(notices, pid, i) => Tells(notices[i])
              /\ ~Told(notices, pid) =>
                    \A i \in 1..Len(batch) : LastAbout(batch, pid, i) => Tells(batch[i])

\* The table in use is right about a PID when no notice about it is left.
TableRight ==
    Looping /\ ~Skips => \A pid \in Pids \ missed :
        ~Told(buffered, pid) /\ ~Told(notices, pid) /\ ~Told(batch, pid) =>
            Right(processes, pid)

\* What is still to be read was listed under the name it has, and what has
\* ended by now had ended before it was listed.
Expected(pid) ==
    /\ version # Etw => todo[pid].id = Identity(pid)
    /\ ~Running(pid) => Zombies /\ version # Etw /\ todo[pid].image = Blank

\* The scan is right about what it has read, and about what it has not.
ScanRight ==
    Scanning /\ ~Skips => \A pid \in Pids \ missing :
        ~Told(buffered, pid) /\ ~Told(notices, pid) =>
            IF pid \in DOMAIN todo THEN Expected(pid) ELSE Right(next, pid)

RightInv == NoZombies /\ Phases /\ LastTells /\ TableRight /\ ScanRight

\* No change that a table could be wrong about: a zombie may be reaped, and is
\* under the name it had.
Still(pid) ==
    \/ os'[pid] = os[pid]
    \/ /\ os[pid].image = Defunct /\ os'[pid].image = Gone
       /\ os'[pid].birth = os[pid].birth

LEMMA StillRight ==
    ASSUME NEW pid \in Pids, Still(pid), UNCHANGED version
    PROVE  /\ UNCHANGED processes /\ Right(processes, pid) => Right(processes, pid)'
           /\ UNCHANGED next /\ Right(next, pid) => Right(next, pid)'
           /\ UNCHANGED todo /\ Expected(pid) => Expected(pid)'
<1>1. CASE os'[pid] = os[pid]
  <2>1. /\ Running(pid)' <=> Running(pid)
        /\ Listed(pid)' <=> Listed(pid)
        /\ Identity(pid)' = Identity(pid) /\ os'[pid].image = os[pid].image
    BY <1>1 DEF Running, Listed, Identity
  <2>2. UNCHANGED processes /\ Right(processes, pid) => Right(processes, pid)'
    BY <2>1 DEF Right, Versed, AtPid
  <2>3. UNCHANGED next /\ Right(next, pid) => Right(next, pid)'
    BY <2>1 DEF Right, Versed, AtPid
  <2>4. UNCHANGED todo /\ Expected(pid) => Expected(pid)'
    BY <2>1 DEF Expected
  <2> QED BY <2>2, <2>3, <2>4
<1>2. CASE /\ os[pid].image = Defunct /\ os'[pid].image = Gone
           /\ os'[pid].birth = os[pid].birth
  <2>1. ~Running(pid) /\ ~Running(pid)' /\ Identity(pid)' = Identity(pid)
    BY <1>2, OsAssumption DEF Running, Identity
  <2> QED BY <2>1 DEF Right, Versed, Expected, AtPid
<1> QED BY <1>1, <1>2 DEF Still

\* Every other change raises a notice, which tells of it.
LEMMA SystemChanges ==
    ASSUME Typed, NoZombies, System
    PROVE  /\ NoZombies'
           /\ UNCHANGED <<callbackVars, sessionVars, pc, scanVars, processes, batch>>
           /\ \/ /\ UNCHANGED <<buffered, historyVars>>
                 /\ \A q \in Pids : Still(q)
              \/ \E pid \in Pids, kind \in Kinds, birth \in Nat, image \in Images :
                    /\ Raise(kind, pid, birth, image)
                    /\ \A q \in Pids \ {pid} : Still(q)
                    /\ IF kind = "exit" THEN ~Running(pid)'
                       ELSE os'[pid] = [birth |-> birth, image |-> image]
<1> USE OsAssumption DEF Typed, OsTypeOK, NoZombies, Still, Kinds
<1>1. UNCHANGED <<callbackVars, sessionVars, pc, scanVars, processes, batch>>
  BY DEF System
<1>12. version' = version
  BY <1>1 DEF sessionVars
<1>0. \A pid \in Pids : os[pid].birth \in Nat
  <2> TAKE pid \in Pids
  <2>1. os[pid].birth \in 0..MaxClock
    OBVIOUS
  <2> QED BY <2>1
<1>2. ASSUME NEW pid \in Pids, NEW image \in Images, Fork(pid, image)
      PROVE  /\ NoZombies' /\ \A q \in Pids \ {pid} : Still(q)
             /\ os'[pid] = [birth |-> clock, image |-> image]
  BY <1>2, <1>12 DEF Fork
<1>3. ASSUME NEW pid \in Pids, NEW image \in Images, Execute(pid, image)
      PROVE  /\ NoZombies' /\ \A q \in Pids \ {pid} : Still(q)
             /\ os'[pid] = [birth |-> os[pid].birth, image |-> image]
  BY <1>3, <1>12 DEF Execute
<1>4. ASSUME NEW pid \in Pids, Exit(pid), version = Etw => os'[pid].image = Gone
      PROVE  /\ NoZombies' /\ ~Running(pid)' /\ \A q \in Pids \ {pid} : Still(q)
             /\ os[pid].image \in Images
  <2>1. PICK left \in IF Zombies THEN {Defunct, Gone} ELSE {Gone} :
           os' = [os EXCEPT ![pid].image = left]
    BY <1>4 DEF Exit
  <2>2. os[pid].image \in Images
    BY <1>4 DEF Exit, Running
  <2> QED BY <1>4, <1>12, <2>1, <2>2 DEF Running
<1>5. ASSUME NEW pid \in Pids, Reap(pid)
      PROVE  NoZombies' /\ \A q \in Pids : Still(q)
  BY <1>5, <1>12 DEF Reap
<1>6. ASSUME UNCHANGED os
      PROVE  NoZombies' /\ \A q \in Pids : Still(q)
  BY <1>6, <1>12
<1>7. ASSUME NEW pid \in Pids, NEW kind \in Kinds, NEW birth \in Nat, NEW image \in Images,
             Raise(kind, pid, birth, image), \A q \in Pids \ {pid} : Still(q),
             IF kind = "exit" THEN ~Running(pid)'
             ELSE os'[pid] = [birth |-> birth, image |-> image]
      PROVE  \E p \in Pids, k \in Kinds, b \in Nat, i \in Images :
                /\ Raise(k, p, b, i)
                /\ \A q \in Pids \ {p} : Still(q)
                /\ IF k = "exit" THEN ~Running(p)'
                   ELSE os'[p] = [birth |-> b, image |-> i]
  <2> HIDE DEF Kinds, Still
  <2> QED BY <1>7
<1>8. CASE \E pid \in Pids, image \in Images : Fork(pid, image) /\ Raise("fork", pid, clock, image)
  <2>1. clock \in Nat
    OBVIOUS
  <2> HIDE DEF Still
  <2> QED BY <1>1, <1>2, <1>7, <1>8, <2>1
<1>9. CASE \E pid \in Pids, image \in Images :
              Execute(pid, image) /\ Raise("exec", pid, os[pid].birth, image)
  <2> HIDE DEF Still
  <2> QED BY <1>0, <1>1, <1>3, <1>7, <1>9
<1>10. CASE \E pid \in Pids : /\ Exit(pid) /\ (version = Etw => os'[pid].image = Gone)
                               /\ Raise("exit", pid, os[pid].birth, os[pid].image)
  <2> HIDE DEF Still
  <2> QED BY <1>0, <1>1, <1>4, <1>7, <1>10
<1>11. CASE /\ (\E pid \in Pids : Reap(pid)) \/ Elapse
            /\ UNCHANGED <<raised, buffered, historyVars>>
  BY <1>1, <1>5, <1>6, <1>11 DEF Elapse
<1> QED BY <1>8, <1>9, <1>10, <1>11 DEF System

\* Tells in the next state.
WillTell(notice) ==
    IF notice.kind = "exit" THEN os'[notice.pid].image \notin Images
    ELSE os'[notice.pid] = [birth |-> notice.birth, image |-> notice.image]

LEMMA StillWillTell ==
    ASSUME NEW notice \in Notices, Still(notice.pid), Tells(notice)
    PROVE  WillTell(notice)
  BY OsAssumption DEF Still, Tells, WillTell, Running, Notices

\* The system raises a notice, or loses one, or is still.
LEMMA SystemMoves ==
    ASSUME RightInv, Subscribed, NoZombies',
           UNCHANGED <<notices, version, session, pc, todo, next, processes, batch>>,
           \A q \in Pids : q \notin missed' /\ ~Told(buffered', q) =>
              q \notin missed /\ ~Told(buffered, q) /\ Still(q),
           Scanning => \A q \in Pids : q \notin missing' /\ ~Told(buffered', q) =>
              q \notin missing /\ ~Told(buffered, q) /\ Still(q),
           \A q \in Pids \ missed' : \A i \in 1..Len(buffered') :
              LastAbout(buffered', q, i) => WillTell(buffered'[i])
    PROVE  RightInv'
<1>1. Phases'
  BY DEF RightInv, Phases, Subscribed
<1>2. LastTells'
  <2>1. ASSUME NEW q \in Pids \ missed', ~Told(buffered', q),
               NEW i \in 1..Len(notices), LastAbout(notices, q, i)
        PROVE  WillTell(notices[i])
    <3>1. Tells(notices[i])
      BY <2>1 DEF RightInv, LastTells
    <3>2. notices[i] \in Notices /\ notices[i].pid = q
      BY <2>1 DEF LastAbout, LastOf, About
    <3> QED BY <2>1, <3>1, <3>2, StillWillTell
  <2>2. ASSUME NEW q \in Pids \ missed', ~Told(buffered', q), ~Told(notices, q),
               NEW i \in 1..Len(batch), LastAbout(batch, q, i)
        PROVE  WillTell(batch[i])
    <3>1. Tells(batch[i])
      BY <2>2 DEF RightInv, LastTells
    <3>2. batch[i] \in Notices /\ batch[i].pid = q
      BY <2>2 DEF LastAbout, LastOf, About
    <3> QED BY <2>2, <3>1, <3>2, StillWillTell
  <2> QED BY <2>1, <2>2 DEF LastTells, Tells, WillTell, Running, Told, LastAbout
<1>3. TableRight'
  BY StillRight DEF RightInv, TableRight, Looping
<1>4. ScanRight'
  BY StillRight DEF RightInv, ScanRight, Scanning
<1> QED BY <1>1, <1>2, <1>3, <1>4 DEF RightInv

LEMMA SystemRight ==
    ASSUME Typed, RightInv, System
    PROVE  RightInv'
<1> USE DEF callbackVars, sessionVars, scanVars, historyVars
<1>1. /\ NoZombies'
      /\ UNCHANGED <<notices, version, session, pc, todo, next, processes, batch>>
  BY SystemChanges DEF RightInv
<1>2. ASSUME ~Subscribed, UNCHANGED buffered
      PROVE  RightInv'
  <2>1. pc \in {"open", "returned"}
    BY <1>2 DEF RightInv, Phases, Subscribed
  <2> QED BY <1>1, <1>2, <2>1 DEF RightInv, Phases, LastTells, TableRight, ScanRight,
             Subscribed, Looping, Scanning
<1>3. ASSUME UNCHANGED <<buffered, historyVars>>, \A q \in Pids : Still(q)
      PROVE  RightInv'
  <2>1. CASE Subscribed
    <3>1. ASSUME NEW q \in Pids \ missed, NEW i \in 1..Len(buffered),
                 LastAbout(buffered, q, i)
          PROVE  WillTell(buffered[i])
      <4>1. Tells(buffered[i])
        BY <2>1, <3>1 DEF RightInv, LastTells
      <4>2. buffered[i] \in Notices /\ buffered[i].pid = q
        BY <3>1 DEF LastAbout, LastOf, About
      <4> QED BY <1>3, <4>1, <4>2, StillWillTell
    <3> QED BY <1>1, <1>3, <2>1, <3>1, SystemMoves
  <2> QED BY <1>2, <1>3, <2>1
<1>4. ASSUME NEW pid \in Pids, NEW kind \in Kinds, NEW birth \in Nat, NEW image \in Images,
             Raise(kind, pid, birth, image), \A q \in Pids \ {pid} : Still(q),
             IF kind = "exit" THEN ~Running(pid)'
             ELSE os'[pid] = [birth |-> birth, image |-> image]
      PROVE  RightInv'
  <2>1. CASE ~Subscribed
    BY <1>2, <1>4, <2>1 DEF Raise
  <2>2. CASE Subscribed /\ Miss(pid) /\ UNCHANGED buffered
    <3>1. missed' = missed \cup {pid} /\ (Scanning => missing' = missing \cup {pid})
      BY <2>2 DEF Miss
    <3>2. ASSUME NEW q \in Pids \ missed', NEW i \in 1..Len(buffered),
                 LastAbout(buffered, q, i)
          PROVE  WillTell(buffered[i])
      <4>1. Tells(buffered[i])
        BY <2>2, <3>1, <3>2 DEF RightInv, LastTells
      <4>2. buffered[i] \in Notices /\ buffered[i].pid = q
        BY <3>2 DEF LastAbout, LastOf, About
      <4> QED BY <1>4, <3>1, <4>1, <4>2, StillWillTell
    <3> QED BY <1>1, <1>4, <2>2, <3>1, <3>2, SystemMoves
  <2>3. CASE /\ Subscribed /\ Len(buffered) < Buffers /\ UNCHANGED historyVars
    <3> DEFINE notice == [kind |-> kind, pid |-> pid, stamp |-> clock, birth |-> birth,
                          image |-> image,
                          sequence |-> IF version = Etw THEN 0
                                       ELSE First + raised[Numbering(kind)]]
    <3>1. buffered' = Append(buffered, notice)
      BY <1>4, <2>3 DEF Raise
    <3>2. notice \in Notices
      <4>1. clock \in Nat
        BY OsAssumption DEF Typed, OsTypeOK
      <4>2. First + raised[Numbering(kind)] \in Nat
        BY CallbackAssumption DEF Typed, Numbering
      <4> QED BY <4>1, <4>2 DEF Notices
    <3>3. /\ notice.kind = kind /\ notice.pid = pid
          /\ notice.birth = birth /\ notice.image = image
      OBVIOUS
    <3> HIDE DEF notice
    <3>4. buffered \in Seq(Notices)
      BY DEF Typed
    <3>5. \A q : notice \in About(q) <=> q = pid
      BY <3>2, <3>3 DEF About
    <3>6. \A q : Told(buffered', q) <=> Told(buffered, q) \/ q = pid
      BY <3>1, <3>2, <3>4, <3>5, LastSent DEF Told
    <3>7. ASSUME NEW q \in Pids \ missed', NEW i \in 1..Len(buffered'),
                 LastAbout(buffered', q, i)
          PROVE  WillTell(buffered'[i])
      <4>1. CASE notice \in About(q) /\ buffered'[i] = notice
        <5>1. WillTell(notice)
          BY <1>4, <3>3 DEF WillTell, Running
        <5> QED BY <4>1, <5>1
      <4>2. CASE /\ notice \notin About(q) /\ buffered'[i] = buffered[i]
                 /\ i \in 1..Len(buffered) /\ LastAbout(buffered, q, i)
        <5>1. Tells(buffered[i])
          BY <2>3, <3>7, <4>2 DEF RightInv, LastTells
        <5>2. buffered[i] \in Notices /\ buffered[i].pid = q /\ q # pid
          BY <3>5, <4>2 DEF LastAbout, LastOf, About
        <5> QED BY <1>4, <4>2, <5>1, <5>2, StillWillTell
      <4> QED BY <3>1, <3>2, <3>4, <3>7, <4>1, <4>2, LastSent DEF LastAbout
    <3> QED BY <1>1, <1>4, <2>3, <3>6, <3>7, SystemMoves
  <2> QED BY <1>4, <2>1, <2>2, <2>3 DEF Raise
<1> QED BY <1>3, <1>4, SystemChanges DEF RightInv

\* Nothing that the invariant is about changes but where Watch is.
Kept ==
    UNCHANGED <<os, version, session, buffered, notices, batch, todo, next, processes,
                missed, missing>>

LEMMA RightStays ==
    ASSUME RightInv, Kept, Looping' => Looping, Scanning' => Scanning, Phases'
    PROVE  RightInv'
<1>1. LastTells'
  BY DEF RightInv, Kept, LastTells, Subscribed, Told, LastAbout, Tells, Running
<1>2. TableRight'
  BY DEF RightInv, Kept, TableRight, Told, Right, Versed, Running, Listed, AtPid, Identity
<1>3. ScanRight'
  BY DEF RightInv, Kept, ScanRight, Told, Right, Versed, Expected, Running, Listed, AtPid, Identity
<1> QED BY <1>1, <1>2, <1>3 DEF RightInv, Kept, NoZombies

\* Where the session is closed nothing is promised.
LEMMA RightEnds ==
    ASSUME RightInv, UNCHANGED <<os, version>>, pc' = "returned", session' # "open"
    PROVE  RightInv'
  BY DEF RightInv, NoZombies, Phases, LastTells, TableRight, ScanRight, Subscribed,
         Looping, Scanning

\* Watch opens the session before anything is queued.
LEMMA RightOpens ==
    ASSUME RightInv, UNCHANGED <<os, version, buffered, notices, batch>>,
           pc = "open", pc' = "baseline", session' = "open"
    PROVE  RightInv'
<1>1. buffered = <<>> /\ notices = <<>> /\ batch = <<>>
  BY DEF RightInv, Phases
<1>2. Phases' /\ NoZombies'
  BY <1>1 DEF RightInv, Phases, NoZombies
<1>3. LastTells'
  <2>1. \A pid, i : ~LastAbout(<<>>, pid, i)
    BY NoneHeld DEF LastAbout, LastOf, Held
  <2> QED BY <1>1, <2>1 DEF LastTells
<1> QED BY <1>2, <1>3 DEF RightInv, TableRight, ScanRight, Looping, Scanning

\* The callback moves the oldest notice into the channel, or drops it.
LEMMA CallbackRight ==
    ASSUME Typed, RightInv, Callback
    PROVE  RightInv'
<1> DEFINE notice == Head(buffered)
           rest == Tail(buffered)
<1>1. /\ UNCHANGED <<os, version, session, pc, todo, next, processes, batch>>
      /\ buffered # <<>> /\ buffered' = rest /\ Subscribed
      /\ \/ notices' = Append(notices, notice) /\ UNCHANGED <<missed, missing>>
         \/ notices' = notices /\ Miss(notice.pid)
  BY DEF Callback, osVars, sessionVars, scanVars, historyVars, CallsBack, Subscribed
<1>2. buffered \in Seq(Notices) /\ notices \in Seq(Notices) /\ notice \in Notices
  BY <1>1, Taking DEF Typed
<1>3. /\ \A q : Told(buffered, q) <=> notice \in About(q) \/ Told(rest, q)
      /\ \A q : \A i \in 1..Len(rest) : LastAbout(rest, q, i) =>
            /\ rest[i] = buffered[i + 1] /\ i + 1 \in 1..Len(buffered)
            /\ LastAbout(buffered, q, i + 1)
      /\ \A q : notice \in About(q) /\ ~Told(rest, q) =>
            /\ notice = buffered[1] /\ 1 \in 1..Len(buffered)
            /\ LastAbout(buffered, q, 1)
  BY <1>1, <1>2, LastReceived DEF Told, LastAbout
<1> HIDE DEF notice, rest
<1>4. \A q : notice \in About(q) <=> q = notice.pid
  BY <1>2 DEF About
<1>5. ASSUME NEW q \in Pids \ missed'
      PROVE  /\ q \notin missed
             /\ \/ notices' = Append(notices, notice)
                \/ notices' = notices /\ notice \notin About(q)
  <2>1. CASE notices' = Append(notices, notice) /\ UNCHANGED <<missed, missing>>
    BY <2>1
  <2>2. CASE notices' = notices /\ Miss(notice.pid)
    <3>1. q # notice.pid /\ q \notin missed
      BY <1>5, <2>2 DEF Miss
    <3> QED BY <1>4, <2>2, <3>1
  <2> QED BY <1>1, <2>1, <2>2
<1>6. \A q \in Pids \ missed' : Told(notices', q) <=> Told(notices, q) \/ notice \in About(q)
  <2> TAKE q \in Pids \ missed'
  <2>1. CASE notices' = Append(notices, notice)
    BY <1>2, <2>1, LastSent DEF Told
  <2>2. CASE notices' = notices /\ notice \notin About(q)
    BY <2>2
  <2> QED BY <1>5, <2>1, <2>2
<1>7. Scanning => \A q \in Pids \ missing' :
         q \notin missing /\ (Told(notices', q) <=> Told(notices, q) \/ notice \in About(q))
  <2>1. ASSUME Scanning, NEW q \in Pids \ missing'
        PROVE  /\ q \notin missing
               /\ \/ notices' = Append(notices, notice)
                  \/ notices' = notices /\ notice \notin About(q)
    <3>1. CASE notices' = Append(notices, notice) /\ UNCHANGED <<missed, missing>>
      BY <2>1, <3>1
    <3>2. CASE notices' = notices /\ Miss(notice.pid)
      <4>1. q # notice.pid /\ q \notin missing
        BY <2>1, <3>2 DEF Miss
      <4> QED BY <1>4, <3>2, <4>1
    <3> QED BY <1>1, <3>1, <3>2
  <2>2. ASSUME NEW q \in Pids, notices' = Append(notices, notice)
        PROVE  Told(notices', q) <=> Told(notices, q) \/ notice \in About(q)
    BY <1>2, <2>2, LastSent DEF Told
  <2> QED BY <2>1, <2>2
<1>8. Phases' /\ NoZombies'
  BY <1>1 DEF RightInv, Phases, NoZombies, Subscribed
<1>9. LastTells'
  <2>1. ASSUME NEW q \in Pids \ missed', NEW i \in 1..Len(rest), LastAbout(rest, q, i)
        PROVE  Tells(rest[i])
    BY <1>1, <1>3, <1>5, <2>1 DEF RightInv, LastTells
  <2>2. ASSUME NEW q \in Pids \ missed', ~Told(rest, q),
               NEW i \in 1..Len(notices'), LastAbout(notices', q, i)
        PROVE  Tells(notices'[i])
    <3>1. CASE notice \in About(q)
      <4>1. Tells(notice)
        BY <1>1, <1>3, <1>5, <2>2, <3>1 DEF RightInv, LastTells
      <4>2. notices' = Append(notices, notice)
        BY <1>5, <3>1
      <4>3. notices'[i] = notice
        BY <1>2, <2>2, <3>1, <4>2, LastSent DEF LastAbout
      <4> QED BY <4>1, <4>3
    <3>2. CASE notice \notin About(q)
      <4>1. ~Told(buffered, q)
        BY <1>3, <2>2, <3>2
      <4>2. i \in 1..Len(notices) /\ notices'[i] = notices[i] /\ LastAbout(notices, q, i)
        <5>1. CASE notices' = notices
          BY <2>2, <5>1
        <5>2. CASE notices' = Append(notices, notice)
          BY <1>2, <2>2, <3>2, <5>2, LastSent DEF LastAbout
        <5> QED BY <1>5, <5>1, <5>2
      <4> QED BY <1>1, <1>5, <4>1, <4>2 DEF RightInv, LastTells
    <3> QED BY <3>1, <3>2
  <2>3. ASSUME NEW q \in Pids \ missed', ~Told(rest, q), ~Told(notices', q),
               NEW i \in 1..Len(batch), LastAbout(batch, q, i)
        PROVE  Tells(batch[i])
    <3>1. ~Told(buffered, q) /\ ~Told(notices, q) /\ q \notin missed
      BY <1>3, <1>5, <1>6, <2>3
    <3> QED BY <1>1, <2>3, <3>1 DEF RightInv, LastTells
  <2> QED BY <1>1, <2>1, <2>2, <2>3 DEF LastTells, Tells, Running, Told, LastAbout
<1>10. TableRight'
  <2> SUFFICES ASSUME Looping, ~Skips, NEW q \in Pids \ missed',
                      ~Told(rest, q), ~Told(notices', q), ~Told(batch, q)
               PROVE  Right(processes, q)'
    BY <1>1 DEF TableRight, Looping, Told
  <2>1. Right(processes, q)
    BY <1>3, <1>5, <1>6 DEF RightInv, TableRight
  <2> QED BY <1>1, <2>1 DEF Right, Versed, Running, Listed, AtPid, Identity
<1>11. ScanRight'
  <2> SUFFICES ASSUME Scanning, ~Skips, NEW q \in Pids \ missing',
                      ~Told(rest, q), ~Told(notices', q)
               PROVE  IF q \in DOMAIN todo THEN Expected(q)' ELSE Right(next, q)'
    BY <1>1 DEF ScanRight, Scanning, Told
  <2>1. IF q \in DOMAIN todo THEN Expected(q) ELSE Right(next, q)
    BY <1>3, <1>7 DEF RightInv, ScanRight
  <2> QED BY <1>1, <2>1 DEF Right, Versed, Expected, Running, Listed, AtPid, Identity
<1> QED BY <1>8, <1>9, <1>10, <1>11 DEF RightInv

\* A notice taken from the channel tells what it told there.
LEMMA ReceivingRight ==
    ASSUME Typed, RightInv, Receive
    PROVE  RightInv'
<1> DEFINE notice == Head(notices)
           rest == Tail(notices)
<1>1. /\ UNCHANGED <<os, version, session, buffered, processes, missed, missing>>
      /\ pc = "loop" /\ pc' \in {"list", "apply"}
      /\ notices # <<>> /\ notices' = rest /\ batch' = <<notice>>
  BY DEF Receive, Selecting, sourceVars, osVars, sessionVars, historyVars
<1>2. notices \in Seq(Notices) /\ notice \in Notices
  BY <1>1, Taking DEF Typed
<1>3. /\ \A q : Told(notices, q) <=> notice \in About(q) \/ Told(rest, q)
      /\ \A q : \A i \in 1..Len(rest) : LastAbout(rest, q, i) =>
            /\ rest[i] = notices[i + 1] /\ i + 1 \in 1..Len(notices)
            /\ LastAbout(notices, q, i + 1)
      /\ \A q : notice \in About(q) /\ ~Told(rest, q) =>
            /\ notice = notices[1] /\ 1 \in 1..Len(notices)
            /\ LastAbout(notices, q, 1)
  BY <1>1, <1>2, LastReceived DEF Told, LastAbout
<1>4. /\ \A q : Told(<<notice>>, q) <=> notice \in About(q)
      /\ Len(<<notice>>) = 1 /\ <<notice>>[1] = notice /\ <<notice>> # <<>>
  BY <1>2, OneHeld DEF Told
<1> HIDE DEF notice, rest
<1>5. Subscribed /\ batch = <<>>
  BY <1>1 DEF RightInv, Phases, Subscribed
<1>6. Phases' /\ NoZombies'
  BY <1>1, <1>4, <1>5 DEF RightInv, Phases, NoZombies, Subscribed
<1>7. LastTells'
  <2>1. ASSUME NEW q \in Pids \ missed, ~Told(buffered, q),
               NEW i \in 1..Len(rest), LastAbout(rest, q, i)
        PROVE  Tells(rest[i])
    BY <1>3, <1>5, <2>1 DEF RightInv, LastTells
  <2>2. ASSUME NEW q \in Pids \ missed, ~Told(buffered, q), ~Told(rest, q),
               NEW i \in 1..Len(<<notice>>), LastAbout(<<notice>>, q, i)
        PROVE  Tells(<<notice>>[i])
    <3>1. <<notice>>[i] = notice /\ notice \in About(q)
      BY <1>4, <2>2 DEF LastAbout, LastOf
    <3>2. Tells(notice)
      BY <1>3, <1>5, <2>2, <3>1 DEF RightInv, LastTells
    <3> QED BY <3>1, <3>2
  <2>3. \A q \in Pids \ missed : \A i \in 1..Len(buffered) :
           LastAbout(buffered, q, i) => Tells(buffered[i])
    BY <1>5 DEF RightInv, LastTells
  <2> QED BY <1>1, <2>1, <2>2, <2>3 DEF LastTells, Tells, Running, Told, LastAbout
<1>8. TableRight'
  <2> SUFFICES ASSUME ~Skips, NEW q \in Pids \ missed,
                      ~Told(buffered, q), ~Told(rest, q), ~Told(<<notice>>, q)
               PROVE  Right(processes, q)'
    BY <1>1 DEF TableRight, Told
  <2>1. ~Told(batch, q) /\ ~Told(notices, q) /\ Looping
    BY <1>1, <1>3, <1>4, <1>5, NoneHeld DEF Told, Looping
  <2>2. Right(processes, q)
    BY <2>1 DEF RightInv, TableRight
  <2> QED BY <1>1, <2>2 DEF Right, Versed, Running, Listed, AtPid, Identity
<1>9. ScanRight'
  BY <1>1 DEF ScanRight, Scanning
<1> QED BY <1>6, <1>7, <1>8, <1>9 DEF RightInv

-----------------------------------------------------------------------------
\* What is read of a process that runs, of a listing under its name, is right.
LEMMA ReadingIsRight ==
    ASSUME ~Skips, NEW pid, Running(pid), NEW listing, HasId(listing), HasImage(listing),
           version # Etw => listing.id = Identity(pid), NEW proc \in Reading(pid, listing)
    PROVE  proc.id = Identity(pid) /\ proc.image = os[pid].image
<1>1. CASE version = Etw
  <2>1. proc = Captured(Identity(pid), os[pid].image, os[pid].birth, 0)
    BY <1>1 DEF Reading
  <2> QED BY <2>1, CapturedHasId, CapturedHasImage
<1>2. CASE version # Etw
  <2>1. proc = [listing EXCEPT !.image = os[pid].image]
    BY <1>2 DEF Reading
  <2>2. proc.id = listing.id /\ proc.image = os[pid].image
    BY <2>1 DEF HasId, HasImage
  <2> QED BY <1>2, <2>2
<1> QED BY <1>1, <1>2

\* So is what a notice describes that tells of a process.
LEMMA DescribedIsRight ==
    ASSUME ~Skips, NEW notice \in Notices, notice.kind # "exit", Tells(notice),
           NEW proc \in Described(notice)
    PROVE  /\ HasImage(proc) /\ proc.image \in Versed(os[notice.pid].image)
           /\ version # 2 => proc.id = Identity(notice.pid)
<1>1. /\ os[notice.pid].birth = notice.birth /\ os[notice.pid].image = notice.image
      /\ Running(notice.pid)
  BY DEF Tells, Running, Notices
<1>2. version # Etw => Said(notice) \in Versed(os[notice.pid].image)
  BY <1>1 DEF Said, Versed
<1>3. CASE version = 2
  BY <1>2, <1>3, CapturedHasImage DEF Described, Etw
<1>4. CASE version # 2 /\ version # Etw
  BY <1>1, <1>2, <1>4, CapturedHasId, CapturedHasImage DEF Described, Identity
<1>5. CASE version # 2 /\ version = Etw
  <2> DEFINE unread == Captured(StableId(notice.pid, EventTime(notice)), Blank,
                                EventTime(notice), 0)
  <2>1. HasId(unread) /\ HasImage(unread) /\ proc \in Reading(notice.pid, unread)
    BY <1>5, CapturedHasId, CapturedHasImage DEF Described
  <2> HIDE DEF unread
  <2>2. proc.id = Identity(notice.pid) /\ proc.image = os[notice.pid].image /\ HasImage(proc)
    BY <1>1, <1>5, <2>1, ReadingIsRight, ReadingHasImage
  <2> QED BY <1>5, <2>2 DEF Versed
<1> QED BY <1>3, <1>4, <1>5

\* Of a PID that is replaced the new process is left, of others what there was.
LEMMA ReplaceRight ==
    ASSUME NEW pid, NEW proc, proc.id.pid = pid, processes' = Replace(pid, proc)
    PROVE  /\ AtPid(processes', pid) = {proc.id}
           /\ processes'[proc.id] = proc
           /\ \A q : q # pid =>
                 /\ AtPid(processes', q) = AtPid(processes, q)
                 /\ \A id \in AtPid(processes, q) : processes'[id] = processes[id]
<1>1. /\ DOMAIN processes' = {id \in DOMAIN processes : id.pid # pid} \cup {proc.id}
      /\ processes'[proc.id] = proc
      /\ \A id \in DOMAIN processes : id.pid # pid => processes'[id] = processes[id]
  BY DEF Replace, Put, RemoveByPid, Without, AtPid
<1>2. AtPid(processes', pid) = {proc.id}
  BY <1>1 DEF AtPid
<1>3. ASSUME NEW q, q # pid
      PROVE  /\ AtPid(processes', q) = AtPid(processes, q)
             /\ \A id \in AtPid(processes, q) : processes'[id] = processes[id]
  BY <1>1, <1>3 DEF AtPid
<1> QED BY <1>1, <1>2, <1>3

\* Applying a notice that tells of its process leaves the table right about it.
LEMMA AppliedRight ==
    ASSUME ~Skips, NEW notice \in Notices, Apply(notice), UNCHANGED <<os, version>>
    PROVE  /\ \A q : q # notice.pid =>
                 /\ AtPid(processes', q) = AtPid(processes, q)
                 /\ \A id \in AtPid(processes, q) : processes'[id] = processes[id]
           /\ Tells(notice) => Right(processes, notice.pid)'
<1> DEFINE pid == notice.pid
           Others == \A q : q # pid =>
                        /\ AtPid(processes', q) = AtPid(processes, q)
                        /\ \A id \in AtPid(processes, q) : processes'[id] = processes[id]
<1>1. /\ Running(pid)' <=> Running(pid)
      /\ Listed(pid)' <=> Listed(pid)
      /\ Identity(pid)' = Identity(pid)
  BY DEF Running, Listed, Identity
<1>2. CASE notice.kind # "exit"
  <2>1. PICK old \in Find(pid), new \in Described(notice) :
           StartNotice(notice, old, new) \/ ExecNotice(notice, old, new)
    BY <1>2 DEF Apply
  <2>2. HasId(new) /\ new.id.pid = pid
    BY DescribedIsFiled
  <2>3. \/ processes' = Replace(pid, new)
        \/ processes' = Replace(pid, Preserve(old, new))
    BY <2>1 DEF StartNotice, ExecNotice
  <2>4. PICK proc \in {new, Preserve(old, new)} : processes' = Replace(pid, proc)
    BY <2>3
  <2>5. proc.id = new.id
    BY <2>2, <2>4, PreserveHasId
  <2>6. AtPid(processes', pid) = {new.id} /\ processes'[new.id] = proc /\ Others
    <3>1. proc.id.pid = pid
      BY <2>2, <2>5
    <3>2. AtPid(processes', pid) = {proc.id} /\ processes'[proc.id] = proc /\ Others
      BY <2>4, <3>1, ReplaceRight
    <3> QED BY <2>5, <3>2
  <2>7. ASSUME Tells(notice)
        PROVE  Right(processes, pid)'
    <3>1. /\ HasImage(new) /\ new.image \in Versed(os[pid].image)
          /\ version # 2 => new.id = Identity(pid)
      BY <1>2, <2>7, DescribedIsRight
    <3>2. proc.image \in Versed(os[pid].image)
      BY <2>4, <3>1, PreserveImage
    <3>3. Running(pid)
      BY <1>2, <2>7 DEF Tells, Running, Notices
    <3>4. AtPid(processes, pid)' = {new.id} /\ processes'[new.id].image \in Versed(os[pid].image)
      BY <2>6, <3>2 DEF AtPid
    <3>5. Versed(os[pid].image)' = Versed(os[pid].image)
      BY DEF Versed
    <3> QED BY <1>1, <3>1, <3>3, <3>4, <3>5 DEF Right, Versed
  <2> HIDE DEF Others
  <2> QED BY <2>6, <2>7 DEF Others
<1>3. CASE notice.kind = "exit"
  <2>1. processes' = RemoveByPid(processes, pid)
    BY <1>3 DEF Apply, StopNotice
  <2>2. AtPid(processes', pid) = {} /\ Others
    BY <2>1, RemoveAtPid
  <2>3. Tells(notice) => ~Running(pid)
    BY <1>3 DEF Tells
  <2>4. Tells(notice) => Right(processes, pid)'
    BY <1>1, <2>2, <2>3 DEF Right, Versed, AtPid
  <2> QED BY <2>2, <2>4
<1> QED BY <1>2, <1>3

LEMMA ApplyRight ==
    ASSUME Typed, RightInv, ApplyNotice
    PROVE  RightInv'
<1> DEFINE notice == Head(batch)
<1>1. /\ UNCHANGED <<os, version, session, buffered, notices, missed>>
      /\ pc = "apply" /\ pc' = "check" /\ batch' = <<>> /\ Apply(notice)
  BY DEF ApplyNotice, sourceVars, osVars, callbackVars, sessionVars, historyVars
<1>2. batch # <<>> /\ Subscribed
  BY <1>1 DEF RightInv, Phases, Subscribed
<1>3. notice \in Notices /\ notice = batch[1] /\ Len(batch) = 1
  <2>1. notice \in Notices /\ notice = batch[1] /\ Len(batch) \in Nat \ {0}
    BY <1>2, Taking DEF Typed
  <2>2. Len(batch) =< 1
    BY DEF Typed
  <2>3. \A n \in Nat \ {0} : n =< 1 => n = 1
    OBVIOUS
  <2> HIDE DEF notice
  <2> QED BY <2>1, <2>2, <2>3
<1> HIDE DEF notice
<1>4. Phases' /\ NoZombies'
  BY <1>1, <1>2 DEF RightInv, Phases, NoZombies, Subscribed
<1>5. LastTells'
  <2>1. \A q, i : ~LastAbout(<<>>, q, i)
    BY NoneHeld DEF LastAbout, LastOf, Held
  <2> QED BY <1>1, <1>2, <2>1
          DEF RightInv, LastTells, Tells, Running, Told, LastAbout
<1>6. TableRight'
  <2> SUFFICES ASSUME ~Skips, NEW q \in Pids \ missed,
                      ~Told(buffered, q), ~Told(notices, q)
               PROVE  Right(processes, q)'
    BY <1>1 DEF TableRight, Told
  <2>1. CASE q = notice.pid
    <3>1. LastAbout(batch, q, 1)
      BY <1>3, <2>1 DEF LastAbout, LastOf, About
    <3>2. Tells(notice)
      BY <1>2, <1>3, <3>1 DEF RightInv, LastTells
    <3> QED BY <1>1, <1>3, <2>1, <3>2, AppliedRight
  <2>2. CASE q # notice.pid
    <3>1. ~Told(batch, q)
      BY <1>3, <2>2 DEF Told, Held, About
    <3>2. Right(processes, q)
      BY <1>1, <3>1 DEF RightInv, TableRight, Looping
    <3>3. /\ AtPid(processes', q) = AtPid(processes, q)
          /\ \A id \in AtPid(processes, q) : processes'[id] = processes[id]
      BY <1>1, <1>3, <2>2, AppliedRight
    <3>4. AtPid(processes, q)' = AtPid(processes, q)
      BY <3>3 DEF AtPid
    <3>5. /\ Running(q)' <=> Running(q)
          /\ Listed(q)' <=> Listed(q)
          /\ Identity(q)' = Identity(q)
      BY <1>1 DEF Running, Listed, Identity
    <3> QED BY <1>1, <3>2, <3>3, <3>4, <3>5 DEF Right, Versed
  <2> QED BY <2>1, <2>2
<1>7. ScanRight'
  BY <1>1 DEF ScanRight, Scanning
<1> QED BY <1>4, <1>5, <1>6, <1>7 DEF RightInv

\* A step of a scan leaves the notices, and what is promised of the table.
LEMMA ScanStep ==
    ASSUME RightInv, UNCHANGED <<os, version, session, buffered, notices, batch,
                                 processes, missed, missing>>,
           Subscribed, Phases', Looping' => Looping, ScanRight'
    PROVE  RightInv'
<1>1. LastTells'
  BY DEF RightInv, LastTells, Subscribed, Told, LastAbout, Tells, Running
<1>2. TableRight'
  <2>1. \A pid : Right(processes, pid) => Right(processes, pid)'
    BY DEF Right, Versed, Running, AtPid, Identity
  <2> QED BY <2>1 DEF RightInv, TableRight, Told
<1> QED BY <1>1, <1>2 DEF RightInv, NoZombies

\* What is listed is expected to be read, and nothing else is in the snapshot.
LEMMA ScanBegins ==
    ASSUME Typed, TablesInv, RightInv, TakeSnapshot
    PROVE  RightInv'
<1>1. /\ UNCHANGED <<os, version, session, buffered, notices, batch, processes,
                     missed, missing, next>>
      /\ \/ pc = "baseline" /\ pc' = "first"
         \/ pc = "list" /\ pc' = "scan"
      /\ todo' = [pid \in {p \in Pids : Listed(p)} |-> Listing(pid)]
  BY DEF TakeSnapshot, sourceVars, osVars, callbackVars, sessionVars, historyVars
<1>2. next = EmptyTable
  BY <1>1 DEF TablesInv, NextApart, Scanning
<1>3. Subscribed /\ Phases' /\ (Looping' => Looping)
  BY <1>1 DEF RightInv, Phases, Subscribed, Looping
<1>4. ScanRight'
  <2>1. ASSUME NEW pid \in Pids, pid \in DOMAIN todo'
        PROVE  Expected(pid)'
    <3>1. Listed(pid) /\ todo'[pid] = Listing(pid)
      BY <1>1, <2>1
    <3>2. version # Etw => Listing(pid).id = Identity(pid)
      BY CapturedHasId DEF Listing
    <3>3. Running(pid) \/ (Zombies /\ version # Etw)
      <4>1. os[pid].image \in Images \cup {Defunct}
        BY <3>1 DEF Listed, Typed, OsTypeOK
      <4>2. os[pid].image = Defunct => Zombies /\ version # Etw
        BY DEF RightInv, NoZombies
      <4> QED BY <4>1, <4>2 DEF Running
    <3>4. version # Etw => Listing(pid).image = Blank
      BY CapturedHasImage DEF Listing
    <3>5. /\ Running(pid)' <=> Running(pid)
          /\ Identity(pid)' = Identity(pid)
      BY <1>1 DEF Running, Identity
    <3> QED BY <1>1, <3>1, <3>2, <3>3, <3>4, <3>5 DEF Expected
  <2>2. ASSUME NEW pid \in Pids, pid \notin DOMAIN todo'
        PROVE  Right(next, pid)'
    <3>1. ~Listed(pid) /\ ~Running(pid)
      BY <1>1, <2>2, OsAssumption DEF Running, Listed
    <3>2. AtPid(next', pid) = {}
      BY <1>1, <1>2 DEF AtPid, EmptyTable
    <3> QED BY <1>1, <3>1, <3>2 DEF Right, Versed, Running, Listed, AtPid
  <2> QED BY <2>1, <2>2 DEF ScanRight
<1> QED BY <1>1, <1>3, <1>4, ScanStep

\* What is read of a process is right, and the only entry of its PID.
LEMMA ReadingRight ==
    ASSUME Typed, TablesInv, RightInv, NEW pid \in DOMAIN todo, ReadPid(pid)
    PROVE  RightInv'
<1>1. /\ UNCHANGED <<os, version, session, buffered, notices, batch, processes,
                     missed, missing, pc>>
      /\ Scanning /\ todo' = Without(todo, {pid})
  BY DEF ReadPid, sourceVars, osVars, callbackVars, sessionVars, historyVars
<1>2. Subscribed /\ Phases' /\ (Looping' => Looping)
  BY <1>1 DEF RightInv, Phases, Subscribed, Looping, Scanning
<1>3. PICK proc \in Reading(pid, todo[pid]) : next' = Put(next, proc.id, proc)
  BY DEF ReadPid
<1>4. HasId(todo[pid]) /\ HasImage(todo[pid]) /\ HasId(proc) /\ proc.id.pid = pid
  BY ReadingIsFiled DEF TablesInv, TodoFiled, Typed, Imaged
<1>5. \A id \in DOMAIN next : id.pid # pid
  BY <1>1 DEF TablesInv, NextApart
<1>6. /\ AtPid(next', pid) = {proc.id} /\ next'[proc.id] = proc
      /\ \A q : q # pid =>
            /\ AtPid(next', q) = AtPid(next, q)
            /\ \A id \in AtPid(next, q) : next'[id] = next[id]
  <2>1. \A id \in DOMAIN next : id.pid # proc.id.pid
    BY <1>4, <1>5
  <2>2. /\ AtPid(next', proc.id.pid) = {proc.id} /\ next'[proc.id] = proc
        /\ \A q : q # proc.id.pid =>
              /\ AtPid(next', q) = AtPid(next, q)
              /\ \A id \in AtPid(next, q) : next'[id] = next[id]
    BY <1>3, <2>1, PutAtPid
  <2> QED BY <1>4, <2>2
<1>7. \A q \in Pids : /\ Running(q)' <=> Running(q)
                      /\ Listed(q)' <=> Listed(q)
                      /\ Identity(q)' = Identity(q)
                      /\ AtPid(next, q)' = AtPid(next', q)
  BY <1>1 DEF Running, Listed, Identity, AtPid
<1>8. /\ DOMAIN todo' = DOMAIN todo \ {pid}
      /\ \A q \in DOMAIN todo' : todo'[q] = todo[q]
  BY <1>1 DEF Without
<1>9. ScanRight'
  <2>1. ASSUME ~Skips, Expected(pid)
        PROVE  Right(next, pid)'
    <3>0. pid \in Pids
      BY DEF Typed
    <3>1. CASE Running(pid)
      <4>1. version # Etw => todo[pid].id = Identity(pid)
        BY <2>1, <3>1 DEF Expected
      <4>2. proc.id = Identity(pid) /\ proc.image = os[pid].image
        BY <1>4, <2>1, <3>1, <4>1, ReadingIsRight
      <4>3. next'[Identity(pid)].image \in Versed(os[pid].image)' /\ (Running(pid)' <=> TRUE)
        BY <1>1, <1>6, <1>7, <3>0, <3>1, <4>2 DEF Versed
      <4> QED BY <1>6, <1>7, <3>0, <4>2, <4>3 DEF Right, Versed
    <3>2. CASE ~Running(pid)
      <4>1. proc = todo[pid]
        BY <3>2, <1>3 DEF Reading
      <4>2. Zombies /\ version # Etw /\ proc.id = Identity(pid) /\ proc.image = Blank
        BY <2>1, <3>2, <4>1 DEF Expected
      <4> QED BY <1>1, <1>6, <1>7, <3>0, <3>2, <4>2 DEF Right, Versed
    <3> QED BY <3>1, <3>2
  <2>2. ASSUME NEW q \in Pids, q # pid, Right(next, q)
        PROVE  Right(next, q)'
    BY <1>1, <1>6, <1>7, <2>2 DEF Right, Versed
  <2>3. ASSUME NEW q \in Pids, q \in DOMAIN todo', Expected(q)
        PROVE  Expected(q)'
    BY <1>1, <1>7, <1>8, <2>3 DEF Expected
  <2>4. SUFFICES ASSUME ~Skips, NEW q \in Pids \ missing,
                        ~Told(buffered, q), ~Told(notices, q)
                 PROVE  IF q \in DOMAIN todo' THEN Expected(q)' ELSE Right(next, q)'
    BY <1>1 DEF ScanRight, Told
  <2>5. IF q \in DOMAIN todo THEN Expected(q) ELSE Right(next, q)
    BY <1>1, <2>4 DEF RightInv, ScanRight
  <2> QED BY <1>8, <2>1, <2>2, <2>3, <2>4, <2>5
<1> QED BY <1>1, <1>2, <1>9, ScanStep

\* The snapshot makes up for the notices lost before it was begun, unless
\* notices that are older than a lost one are still to come.
LEMMA AdoptingRight ==
    ASSUME Typed, RightInv, Adopt
    PROVE  RightInv'
<1>1. /\ UNCHANGED <<os, version, session, buffered, notices, batch>>
      /\ DOMAIN todo = {} /\ Scanning
      /\ \/ pc = "first" /\ pc' = "loop"
         \/ pc = "scan" /\ pc' = IF batch = <<>> THEN "loop" ELSE "apply"
      /\ missed' = missing \cup {pid \in missed : Waiting(pid)}
      /\ processes' = next \/ processes' = PreserveAll(processes, next)
  BY DEF Adopt, sourceVars, osVars, callbackVars, sessionVars, Scanning
<1>2. Phases' /\ NoZombies' /\ Subscribed
  BY <1>1 DEF RightInv, Phases, NoZombies, Subscribed
<1>3. ASSUME NEW q \in Pids \ missed'
      PROVE  /\ q \notin missing
             /\ q \in missed => ~Told(buffered, q) /\ ~Told(notices, q) /\ ~Told(batch, q)
  BY <1>1, <1>3 DEF Waiting, Told, Held, About
<1>4. LastTells'
  <2>1. ASSUME NEW q \in Pids \ missed', NEW i \in 1..Len(buffered),
               LastAbout(buffered, q, i)
        PROVE  Tells(buffered[i])
    <3>1. q \notin missed
      BY <1>3, <2>1 DEF Told, Held, LastAbout, LastOf
    <3> QED BY <1>2, <2>1, <3>1 DEF RightInv, LastTells
  <2>2. ASSUME NEW q \in Pids \ missed', ~Told(buffered, q),
               NEW i \in 1..Len(notices), LastAbout(notices, q, i)
        PROVE  Tells(notices[i])
    <3>1. q \notin missed
      BY <1>3, <2>2 DEF Told, Held, LastAbout, LastOf
    <3> QED BY <1>2, <2>2, <3>1 DEF RightInv, LastTells
  <2>3. ASSUME NEW q \in Pids \ missed', ~Told(buffered, q), ~Told(notices, q),
               NEW i \in 1..Len(batch), LastAbout(batch, q, i)
        PROVE  Tells(batch[i])
    <3>1. q \notin missed
      BY <1>3, <2>3 DEF Told, Held, LastAbout, LastOf
    <3> QED BY <1>2, <2>3, <3>1 DEF RightInv, LastTells
  <2> QED BY <1>1, <2>1, <2>2, <2>3 DEF LastTells, Tells, Running, Told, LastAbout
<1>5. /\ DOMAIN processes' = DOMAIN next
      /\ \A id \in DOMAIN next : processes'[id].image = next[id].image
  <2>1. CASE processes' = next
    BY <2>1
  <2>2. CASE processes' = PreserveAll(processes, next)
    <3>1. DOMAIN processes' = DOMAIN next
      BY <2>2 DEF PreserveAll
    <3>2. ASSUME NEW id \in DOMAIN next
          PROVE  processes'[id].image = next[id].image
      <4>1. processes'[id] \in {next[id], Preserve(processes[id], next[id])}
        BY <2>2 DEF PreserveAll
      <4>2. HasImage(next[id])
        BY DEF Typed, Imaged
      <4> QED BY <4>1, <4>2, PreserveImage
    <3> QED BY <3>1, <3>2
  <2> QED BY <1>1, <2>1, <2>2
<1>6. TableRight'
  <2> SUFFICES ASSUME ~Skips, NEW q \in Pids \ missed', ~Told(buffered, q), ~Told(notices, q)
               PROVE  Right(processes, q)'
    BY <1>1 DEF TableRight, Told
  <2>1. Right(next, q)
    BY <1>1, <1>3 DEF RightInv, ScanRight
  <2>2. AtPid(processes, q)' = AtPid(next, q)
    BY <1>5 DEF AtPid
  <2>3. \A id \in AtPid(next, q) : processes'[id].image = next[id].image
    BY <1>5 DEF AtPid
  <2>4. /\ Running(q)' <=> Running(q)
        /\ Listed(q)' <=> Listed(q)
        /\ Identity(q)' = Identity(q)
    BY <1>1 DEF Running, Listed, Identity
  <2> QED BY <1>1, <2>1, <2>2, <2>3, <2>4 DEF Right, Versed
<1>7. ScanRight'
  BY <1>1 DEF ScanRight, Scanning
<1> QED BY <1>2, <1>4, <1>6, <1>7 DEF RightInv

LEMMA RightInit == Init => RightInv
<1> SUFFICES ASSUME Init PROVE RightInv
  OBVIOUS
<1>1. NoZombies
  <2>1. \A pid \in Pids : os[pid].image \in Images \cup {Gone}
    BY DEF Init, OsInit
  <2> QED BY <2>1, OsAssumption DEF NoZombies
<1>2. pc = "open" /\ session = "none"
  BY DEF Init
<1>3. Phases
  BY DEF Init, Phases
<1> QED BY <1>1, <1>2, <1>3
        DEF RightInv, LastTells, TableRight, ScanRight, Subscribed, Looping, Scanning

LEMMA RightStep == Typed /\ TablesInv /\ RightInv /\ [Next]_vars => RightInv'
<1> SUFFICES ASSUME Typed, TablesInv, RightInv, [Next]_vars PROVE RightInv'
  OBVIOUS
<1> USE DEF sourceVars, osVars, callbackVars, sessionVars, scanVars, historyVars
<1>1. CASE UNCHANGED vars
  <2>1. Phases'
    BY <1>1 DEF vars, RightInv, Phases
  <2> QED BY <1>1, <2>1, RightStays DEF vars, Kept, Looping, Scanning
<1>2. CASE Open
  <2>1. CASE session' = "open"
    BY <1>2, <2>1, RightOpens DEF Open
  <2>2. CASE session' # "open"
    BY <1>2, <2>2, RightEnds DEF Open
  <2> QED BY <2>1, <2>2
<1>3. CASE TakeSnapshot
  BY <1>3, ScanBegins
<1>4. CASE SnapshotFails
  <2>1. CASE pc = "baseline"
    BY <1>4, <2>1, RightEnds DEF SnapshotFails, BaselineFails
  <2>2. CASE pc # "baseline"
    <3>1. Phases'
      BY <1>4, <2>2 DEF SnapshotFails, BaselineFails, RightInv, Phases
    <3> QED BY <1>4, <2>2, <3>1, RightStays
            DEF SnapshotFails, BaselineFails, Kept, Looping, Scanning
  <2> QED BY <2>1, <2>2
<1>5. CASE Adopt
  BY <1>5, AdoptingRight
<1>6. ASSUME NEW pid \in DOMAIN todo, ReadPid(pid) PROVE RightInv'
  BY <1>6, ReadingRight
<1>7. CASE Receive
  BY <1>7, ReceivingRight
<1>8. CASE ApplyNotice
  BY <1>8, ApplyRight
<1>9. CASE CheckLost
  <2>1. Phases'
    BY <1>9 DEF CheckLost, RightInv, Phases
  <2> QED BY <1>9, <2>1, RightStays DEF CheckLost, Kept, Looping, Scanning
<1>10. CASE Tick
  <2>1. Phases'
    BY <1>10 DEF Tick, Selecting, RightInv, Phases
  <2> QED BY <1>10, <2>1, RightStays DEF Tick, Selecting, Kept, Looping, Scanning
<1>11. CASE SendSome
  <2>1. Phases'
    BY <1>11 DEF SendSome, Send, RightInv, Phases
  <2> QED BY <1>11, <2>1, RightStays DEF SendSome, Send, Kept, Looping, Scanning
<1>12. CASE Cancel
  <2>1. Phases'
    BY <1>12 DEF Cancel, RightInv, Phases
  <2> QED BY <1>12, <2>1, RightStays DEF Cancel, Kept, Looping, Scanning
<1>13. CASE Return
  BY <1>13, RightEnds DEF Return
<1>14. CASE Callback
  BY <1>14, CallbackRight
<1>15. CASE CountLost
  <2>1. Phases'
    BY <1>15 DEF CountLost, RightInv, Phases
  <2> QED BY <1>15, <2>1, RightStays DEF CountLost, Kept, Looping, Scanning
<1>16. CASE TraceEnds
  <2>1. Phases'
    BY <1>16 DEF TraceEnds, RightInv, Phases
  <2> QED BY <1>16, <2>1, RightStays DEF TraceEnds, Kept, Looping, Scanning
<1>17. CASE System
  BY <1>17, SystemRight
<1> QED BY <1>1, <1>2, <1>3, <1>4, <1>5, <1>6, <1>7, <1>8, <1>9, <1>10, <1>11, <1>12,
          <1>13, <1>14, <1>15, <1>16, <1>17 DEF Next, Watch

LEMMA RightIsExact == RightInv => TableExact
<1> SUFFICES ASSUME RightInv, Looping, ~Skips, NEW pid \in Pids, Untold(pid)
             PROVE  Right(processes, pid)
  BY DEF TableExact, Right, Versed
<1>1. pid \notin missed /\ ~Told(buffered, pid) /\ ~Told(notices, pid) /\ ~Told(batch, pid)
  BY DEF Untold, Waiting, Told, Held, About
<1> QED BY <1>1 DEF RightInv, TableRight

\* When nothing is on its way about a PID the table is right about it, however
\* the system, the callback, losses and snapshots were interleaved: Watch opens
\* its session before its first snapshot (windowsETWBackend.Watch,
\* macOSEndpointBackend.Watch), and a lost notice is made up for by a scan.
THEOREM ExactWhenTold == Spec => []TableExact
<1>1. Spec => []Typed
  BY TypedInit, TypedStep, PTL DEF Spec
<1>2. Spec => []RightInv
  BY RightInit, RightStep, <1>1, Tabled, PTL DEF Spec
<1> QED BY <1>2, RightIsExact, PTL
=============================================================================
