------------------------------ MODULE MCDisplay ------------------------------
(***************************************************************************)
(* The display and the cache of user names on small instances.  They share *)
(* no state, so that each is checked while the other has nothing to do any *)
(* more: the display is closed, or every uid has its name.                 *)
(***************************************************************************)
EXTENDS TuiView, UidNames

DisplayAtRest ==
    /\ events = <<>> /\ input = "none"
    /\ view = [paused |-> FALSE, scroll |-> 0, search |-> NoSearch,
               searching |-> FALSE, draft |-> NoSearch, sort |-> 0, detail |-> FALSE]
    /\ terminal \in Heights /\ height = terminal
    /\ raw = FALSE /\ reading = FALSE /\ resizing = FALSE /\ entered = FALSE
    /\ alternate = FALSE /\ current = TRUE
    /\ closed = TRUE /\ broken = TRUE /\ running = FALSE /\ stopped = FALSE
    /\ trimmed = FALSE /\ lateError = FALSE

NamesAtRest ==
    /\ names = Uids /\ pending = {}
    /\ requests = <<>> /\ lookingUp = NoUid
    /\ asking = [caller \in Callers |-> NoUid]

MCInit ==
    \/ Init /\ NamesAtRest
    \/ UidInit /\ DisplayAtRest

MCNext ==
    \/ Next /\ UNCHANGED uidVars
    \/ UidNext /\ UNCHANGED vars

MCSpec == MCInit /\ [][MCNext]_<<vars, uidVars>> /\ UidFairness
=============================================================================
