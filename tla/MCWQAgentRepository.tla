------------------------- MODULE MCWQAgentRepository -------------------------
(* An instance of WQAgentRepository for TLC: the first candidate fails a check, is *)
(* ready, submitted and ACTIVE, and fails again; the second is just created.       *)
EXTENDS WQAgentRepository, TLC

MCCandidates == {"c1", "c2"}
MCCandidateOf == <<"c1", "c1", "c1", "c1", "c2">>
MCTypeOf == <<"check_blocked", "ready", "active_confirmed", "check_blocked", "candidate_created">>
MCFailureKinds == {"self_correlation_fail"}
MCFailureKindOf == [e \in Events |-> "self_correlation_fail"]

Symmetry == Permutations(Workers)
=============================================================================
