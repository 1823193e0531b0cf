--------------------------- MODULE MCWQAgentEngine ---------------------------
(* Instances of WQAgentEngine for TLC, and the mutants of its definitions. *)
EXTENDS WQAgentEngine, TLC

\* Answers of the check: a pass, reviews still pending, a self correlation that
\* failed, an unreadable answer, and a platform check that failed.
Review(sc, scValue, prod, platformFail) ==
    CHOOSE r \in ReviewReplies :
        /\ r.sc = sc /\ r.scValue = scValue /\ r.platformFail = platformFail
        /\ r.prod = prod /\ r.prodValue = "none"

Passing     == Review("PASS", "low", "PASS", FALSE)
PendingProd == Review("PASS", "low", "PENDING", FALSE)
SelfFailed  == Review("FAIL", "high", "PASS", FALSE)
FailedAndPending == Review("PENDING", "none", "MISSING", TRUE)

AllChecks  == {Passing, PendingProd, SelfFailed, FailedAndPending}
OnlyPassing == {Passing}

Symmetry == Permutations(Workers)

\* No action reads result, so runs whose properties do not either may ignore it.
WithoutResult == <<log, pc, seen, enabled, sim, platform, history, crashes>>
=============================================================================
