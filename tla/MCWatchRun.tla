------------------------------ MODULE MCWatchRun ------------------------------
(* WatchRun on small instances. *)
EXTENDS WatchRun
=============================================================================
