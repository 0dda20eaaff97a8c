------------------------------ MODULE MCTraceRun ------------------------------
(* TraceRun on small instances. *)
EXTENDS TraceRun
=============================================================================
