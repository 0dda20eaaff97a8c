--------------------------- MODULE MCConnectorWatch ---------------------------
(* ConnectorWatch on small instances. *)
EXTENDS ConnectorWatch, TLC

=============================================================================
