----------------------------- MODULE OsProcesses -----------------------------
(***************************************************************************)
(* The operating system as the watchers see it: the processes a snapshot   *)
(* finds.  Not part of the program; modelled from what snapshot_linux.go   *)
(* reads of it.  A process is born under a PID at a time, replaces its     *)
(* image, ends, and, where its parent is slow to wait for it, stays listed *)
(* as a zombie whose command line and executable link are gone.            *)
(***************************************************************************)
EXTENDS Integers

CONSTANTS Pids,      \* the PIDs the system hands out
          Images,    \* what a running process may execute
          Defunct,   \* what is read of a zombie: no command line, no exe
          Gone,      \* nothing is listed under the PID
          Zombies,   \* may a process that ended stay listed?
          MaxClock   \* bound on the clock, in seconds

ASSUME OsAssumption ==
    /\ Defunct \notin Images
    /\ Gone \notin Images
    /\ Defunct # Gone
    /\ Zombies \in BOOLEAN
    /\ MaxClock \in Nat \ {0}

VARIABLES os,    \* per PID: its current image and when it was last born
          clock  \* time since boot
osVars == <<os, clock>>

OsTypeOK ==
    /\ os \in [Pids -> [birth : 0..MaxClock, image : Images \cup {Defunct, Gone}]]
    /\ clock \in 1..MaxClock

\* The system has run for a while when the watcher starts: a PID is free or
\* held by a process born at time 1.
OsInit ==
    /\ clock = 1
    /\ os \in [Pids -> [birth : {1}, image : Images]
                       \cup {[birth |-> 0, image |-> Gone]}]

Listed(pid) == os[pid].image # Gone
Running(pid) == os[pid].image \in Images

\* PIDs are handed out in turn: none is reused within one tick of the clock
\* that makes the start token.
Fork(pid, image) ==
    /\ ~Listed(pid)
    /\ os[pid].birth < clock
    /\ os' = [os EXCEPT ![pid] = [birth |-> clock, image |-> image]]
    /\ UNCHANGED clock

Execute(pid, image) ==
    /\ Running(pid)
    /\ os[pid].image # image
    /\ os' = [os EXCEPT ![pid].image = image]
    /\ UNCHANGED clock

Exit(pid) ==
    /\ Running(pid)
    /\ \E left \in IF Zombies THEN {Defunct, Gone} ELSE {Gone} :
          os' = [os EXCEPT ![pid].image = left]
    /\ UNCHANGED clock

Reap(pid) ==
    /\ os[pid].image = Defunct
    /\ os' = [os EXCEPT ![pid].image = Gone]
    /\ UNCHANGED clock

Elapse ==
    /\ clock < MaxClock
    /\ clock' = clock + 1
    /\ UNCHANGED os
=============================================================================
