---------------------------- MODULE MCPollingWatch ----------------------------
(* PollingWatch on small instances. *)
EXTENDS PollingWatch, TLC

ExactClock == {0}
=============================================================================
