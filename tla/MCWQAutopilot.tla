---------------------------- MODULE MCWQAutopilot ----------------------------
(* An instance of WQAutopilot for TLC. *)
EXTENDS WQAutopilot, TLC

CONSTANTS breadth, decorrelate, fresh, exploit

FallbackBranches == <<breadth, decorrelate, fresh>>

\* The accumulated submissions are emptied before the next session reads them.
WithoutOldSubmissions ==
    <<pc, mode, plan, child, dirs, IF pc = "off" THEN {} ELSE accumulator, state, sessions, truth>>

Symmetry == Permutations(Candidates)
=============================================================================
