------------------------------- MODULE UidNames -------------------------------
(***************************************************************************)
(* The cache of user names (uidNameResolver in identity.go).  A watcher    *)
(* that builds a process asks for the name of its uid and never waits: if  *)
(* the name is not there it gets the uid, and the name is requested from a *)
(* goroutine, unless it is being requested or the queue is full.  Names    *)
(* are looked at under a read lock, requested under the write lock: what   *)
(* was looked at may have changed in between.                              *)
(***************************************************************************)
EXTENDS Naturals, Sequences

CONSTANTS Uids,
          Callers,        \* goroutines that build processes
          NoUid,          \* a caller or the resolver has none in hand
          QueueCapacity   \* requests the channel holds (256)

ASSUME UidAssumption ==
    /\ NoUid \notin Uids
    /\ QueueCapacity \in Nat \ {0}

VARIABLES names,     \* uids whose name is known, or known not to be found
          pending,   \* uids that are being requested
          requests,  \* the channel
          lookingUp, \* the uid the resolver has taken from it
          asking     \* per caller: the uid it found no name for
uidVars == <<names, pending, requests, lookingUp, asking>>

UidInit ==
    /\ names = {} /\ pending = {}
    /\ requests = <<>> /\ lookingUp = NoUid
    /\ asking = [caller \in Callers |-> NoUid]

\* A uid that has a name is answered at once, which changes nothing.
Ask(caller, uid) ==
    /\ asking[caller] = NoUid
    /\ uid \notin names
    /\ asking' = [asking EXCEPT ![caller] = uid]
    /\ UNCHANGED <<names, pending, requests, lookingUp>>

\* Slip: the channel alone tells what is requested.
RequestUnlessQueued(uid) ==
    IF Len(requests) < QueueCapacity /\ \A i \in 1..Len(requests) : requests[i] # uid
    THEN /\ requests' = Append(requests, uid)
         /\ pending' = pending \cup {uid}
    ELSE UNCHANGED <<requests, pending>>

\* Slip: a request that is dropped is remembered as pending.
RequestOrForget(uid) ==
    IF uid \in pending THEN UNCHANGED <<requests, pending>>
    ELSE /\ requests' = IF Len(requests) < QueueCapacity THEN Append(requests, uid)
                                                         ELSE requests
         /\ pending' = pending \cup {uid}

\* A request that finds the channel full is dropped.
Request(uid) ==
    IF uid \notin pending /\ Len(requests) < QueueCapacity
    THEN /\ requests' = Append(requests, uid)
         /\ pending' = pending \cup {uid}
    ELSE UNCHANGED <<requests, pending>>

\* It is not looked again whether the name has come in the meantime.
Queue(caller) ==
    /\ asking[caller] # NoUid
    /\ Request(asking[caller])
    /\ asking' = [asking EXCEPT ![caller] = NoUid]
    /\ UNCHANGED <<names, lookingUp>>

Take ==
    /\ lookingUp = NoUid /\ requests # <<>>
    /\ lookingUp' = Head(requests)
    /\ requests' = Tail(requests)
    /\ UNCHANGED <<names, pending, asking>>

\* A lookup that fails makes the uid its own name, for good.
Resolve ==
    /\ lookingUp # NoUid
    /\ names' = names \cup {lookingUp}
    /\ pending' = pending \ {lookingUp}
    /\ lookingUp' = NoUid
    /\ UNCHANGED <<requests, asking>>

UidNext ==
    \/ \E caller \in Callers :
          Queue(caller) \/ \E uid \in Uids : Ask(caller, uid)
    \/ Take \/ Resolve

UidSpec == UidInit /\ [][UidNext]_uidVars

\* Every snapshot asks for the uid of every process again, and lookups end.
UidFairness ==
    /\ \A caller \in Callers :
          /\ WF_uidVars(Queue(caller))
          /\ \A uid \in Uids : SF_uidVars(Ask(caller, uid))
    /\ WF_uidVars(Take) /\ WF_uidVars(Resolve)

UidFairSpec == UidSpec /\ UidFairness

-----------------------------------------------------------------------------
UidTypeOK ==
    /\ names \subseteq Uids /\ pending \subseteq Uids
    /\ requests \in Seq(Uids) /\ Len(requests) =< QueueCapacity
    /\ lookingUp \in Uids \cup {NoUid}
    /\ asking \in [Callers -> Uids \cup {NoUid}]

\* A uid is requested once at a time, and remembered as pending exactly while
\* it is in the queue or being looked up: no uid is shut out from being
\* requested, and none fills the queue with copies.
RequestedOnce ==
    /\ \A i, j \in 1..Len(requests) : requests[i] = requests[j] => i = j
    /\ \A i \in 1..Len(requests) : requests[i] # lookingUp
    /\ pending = {requests[i] : i \in 1..Len(requests)} \cup ({lookingUp} \ {NoUid})

\* Every uid that is asked for again and again gets its name, though requests
\* are dropped when the queue is full and others come in between.
AllAreNamed == \A uid \in Uids : <>(uid \in names)
=============================================================================
