----------------------------- MODULE LifecycleLog -----------------------------
(***************************************************************************)
(* What Bottom promises of its log, whatever the source of the events      *)
(* (SPEC.md "Event data" and "Process capture").  The processes found when *)
(* watching begins are adopted silently.  From then on a process is        *)
(* started only when it is not already live, and replaced or stopped only  *)
(* while it is live; the first observation of a process decides the        *)
(* lifetime its Stop reports.  After cancellation lines may be missing.    *)
(***************************************************************************)
EXTENDS Integers

CONSTANT OneShot   \* can a stopped identity never be started again?

VARIABLES phase,  \* "closed" before the first snapshot, "open", then "cut"
          live,   \* identity -> the first observation the log is bound to
          ended,  \* the identities that were stopped, where that is for good
          line    \* the last line written
logVars == <<phase, live, ended, line>>

\* A start time that was known is kept; the first observation is always kept.
Agree(first, now) ==
    /\ first.started # 0 => now.started = first.started
    /\ now.captured = first.captured

FirstOf(event) == [started |-> event.started, captured |-> event.captured]

NoLine == [kind |-> "none"]

LogInit ==
    /\ phase = "closed"
    /\ live = [id \in {} |-> 0]
    /\ ended = {}
    /\ line = NoLine

Open ==
    /\ phase = "closed"
    /\ phase' = "open"
    /\ UNCHANGED <<ended, line>>

StartLine ==
    /\ phase = "open"
    /\ line'.kind = "start"
    /\ line'.id \notin DOMAIN live
    /\ OneShot => line'.id \notin ended
    /\ live' = [id \in DOMAIN live \cup {line'.id} |->
                   IF id = line'.id THEN FirstOf(line') ELSE live[id]]
    /\ UNCHANGED <<phase, ended>>

ExecLine ==
    /\ phase = "open"
    /\ line'.kind = "exec"
    /\ line'.id \in DOMAIN live
    /\ Agree(live[line'.id], FirstOf(line'))
    /\ UNCHANGED <<phase, live, ended>>

StopLine ==
    /\ phase = "open"
    /\ line'.kind = "stop"
    /\ line'.id \in DOMAIN live
    /\ Agree(live[line'.id], FirstOf(line'))
    /\ live' = [id \in DOMAIN live \ {line'.id} |-> live[id]]
    /\ ended' = ended \cup IF OneShot THEN {line'.id} ELSE {}
    /\ UNCHANGED phase

GapLine ==
    /\ line'.kind = "gap"
    /\ UNCHANGED <<phase, live, ended>>

Cut == phase' = "cut" /\ UNCHANGED <<live, ended, line>>

AfterCut == phase = "cut" /\ phase' = "cut"

LogNext == \/ Open \/ StartLine \/ ExecLine \/ StopLine
           \/ GapLine \/ Cut \/ AfterCut

LogSpec == LogInit /\ [][LogNext]_logVars
=============================================================================
