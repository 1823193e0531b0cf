--------------------------- MODULE MCWQBrainClient ---------------------------
(* WQBrainClient, with the decisions on its answers, for TLC. *)
EXTENDS WQCheckDecision

\* The calls that share the session, and the one that must not.
AllOperations == {"authenticate", "simulate", "check", "submit"}
=============================================================================
