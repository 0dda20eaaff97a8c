---------------------------- MODULE ProcessTable ----------------------------
(***************************************************************************)
(* The process tables the watchers keep (ProcessSnapshot in types.go) and  *)
(* the pure functions on them (snapshot.go, backend_poll.go,               *)
(* lifecycle_helpers.go).  A table is a function from identities to the    *)
(* processes known under them.  Times are seconds, 0 is Go's zero time.    *)
(* `image' stands for the pair (Command, Exe); the other fields of a       *)
(* Process (parent, user, terminal ...) only decorate events.              *)
(***************************************************************************)
EXTENDS Integers

\* The 2 seconds within which two start times count as the same.
Tolerance == 2

\* "pid:starttoken"; the platforms that read ps have no token (token 0).
StableId(pid, token) == [source |-> "os", pid |-> pid, token |-> token]

\* "connector:pid:timestamp": a name made from a notice when the process
\* could not be read, until a snapshot supplies the stable one.
ConnectorId(pid, stamp) == [source |-> "connector", pid |-> pid, token |-> stamp]

\* The names made from notices or for the command of a trace, by prefix.
Provisionals == {"connector", "es", "etw", "trace"}

Sources == {"os"} \cup Provisionals

Provisional(id) == id.source \in Provisionals

Captured(id, image, started, captured) ==
    [id |-> id, image |-> image, started |-> started, captured |-> captured]

-----------------------------------------------------------------------------
\* Tables as Go maps: no entry, assignment, delete.

EmptyTable == [id \in {} |-> 0]

Put(table, id, proc) ==
    [k \in DOMAIN table \cup {id} |-> IF k = id THEN proc ELSE table[k]]

Without(table, ids) == [k \in DOMAIN table \ ids |-> table[k]]

\* The entries findProcessByPID may return: it takes the first one of an
\* iteration in map order.
AtPid(table, pid) == {id \in DOMAIN table : id.pid = pid}

RemoveByPid(table, pid) == Without(table, AtPid(table, pid))

-----------------------------------------------------------------------------
Distance(a, b) == IF a < b THEN b - a ELSE a - b

\* Slip: a provisional identity is never the stable one.
SameIdentity(first, second) == first.id = second.id

\* Both records describe one run of one process, whatever their identities.
SameGeneration(first, second) ==
    /\ first.id.pid = second.id.pid
    /\ \/ first.id = second.id
       \/ /\ Provisional(first.id) \/ Provisional(second.id)
          /\ first.started # 0
          /\ second.started # 0
          /\ Distance(first.started, second.started) =< Tolerance

\* Slip: what is read now wins.
Latest(old, new) == new

\* What is known of a process from before wins over what is read of it now.
Preserve(old, new) ==
    [new EXCEPT !.captured = IF old.captured # 0 THEN old.captured ELSE @,
                !.started  = IF old.started # 0 THEN old.started ELSE @]

\* Slip: the new table is only added to the old one.
KeepAll(previous, next) ==
    [id \in DOMAIN previous \cup DOMAIN next |->
        IF id \in DOMAIN next THEN next[id] ELSE previous[id]]

PreserveAll(previous, next) ==
    [id \in DOMAIN next |->
        IF id \in DOMAIN previous THEN Preserve(previous[id], next[id])
                                  ELSE next[id]]

-----------------------------------------------------------------------------
\* An event carries the identity, the image, and the two times its Time and
\* DurationMillis are computed from.
EventOf(kind, proc) ==
    [kind |-> kind, id |-> proc.id, image |-> proc.image,
     started |-> proc.started, captured |-> proc.captured]

\* Slips: processes are told apart by their PIDs alone.
StartedByPid(previous, next) == {id \in DOMAIN next : AtPid(previous, id.pid) = {}}
StoppedByPid(previous, next) == {id \in DOMAIN previous : AtPid(next, id.pid) = {}}

Started(previous, next) == DOMAIN next \ DOMAIN previous
Stopped(previous, next) == DOMAIN previous \ DOMAIN next
Replaced(previous, next) ==
    {id \in DOMAIN next \cap DOMAIN previous :
        previous[id].image # next[id].image}

\* The events emitSnapshotDiff sends for two tables, once the observations
\* of `previous' have been carried into `next'.
DiffEvents(previous, next) ==
    {EventOf("start", next[id]) : id \in Started(previous, next)}
    \cup {EventOf("exec", next[id]) : id \in Replaced(previous, next)}
    \cup {EventOf("stop", previous[id]) : id \in Stopped(previous, next)}

-----------------------------------------------------------------------------
\* Every entry is filed under its own identity, and no PID is held twice.
KeyedById(table) == \A id \in DOMAIN table : table[id].id = id

OnePerPid(table) ==
    \A a, b \in DOMAIN table : a.pid = b.pid => a = b

Sound(table) == KeyedById(table) /\ OnePerPid(table)
=============================================================================
