------------------------------ MODULE WQReview ------------------------------
(***************************************************************************)
(* How the workflow judges a simulated candidate: the status of its        *)
(* simulation, the check it asks for, and the bucket of its review.        *)
(* Metrics are abstracted to whether they pass the submit thresholds.      *)
(***************************************************************************)

\* A correlation check's result; "none" is no such check.
Results == {"PASS", "FAIL", "PENDING", "WARNING", "MISSING", "none"}

\* What a simulation returned.  Its checks name a platform check that failed,
\* or none.
Simulations ==
    [outcome : {"ok", "timeout", "error"}, eligible : BOOLEAN,
     platformFail : BOOLEAN, sc : Results, prod : Results]

\* What run_check_submissions says of an alpha: it was not asked for, could not
\* be read, or was.
CheckAnswers ==
    [kind : {"missing", "unread", "read"}, active : BOOLEAN,
     failure : {"none", "self_correlation", "prod_correlation", "correlation_pending"},
     sc : Results, prod : Results]

Unchecked == [kind |-> "missing", active |-> FALSE, failure |-> "none", sc |-> "none", prod |-> "none"]
Unread    == [Unchecked EXCEPT !.kind = "unread"]

\* classify_simulation_result
SimulationStatus(sim) ==
    IF sim.outcome = "timeout" THEN "simulation_timeout"
    ELSE IF sim.outcome = "error" THEN "failed"
    ELSE IF sim.eligible /\ sim.platformFail THEN "failed_platform_check"
    ELSE IF "FAIL" \in {sim.sc, sim.prod} THEN "failed_correlation_check"
    ELSE IF sim.eligible /\ "PENDING" \in {sim.sc, sim.prod} THEN "pending_correlation_check"
    ELSE IF sim.eligible THEN "eligible"
    ELSE "simulated"

NeedsCheck(sim) == SimulationStatus(sim) \in {"eligible", "pending_correlation_check"}

\* The check's result, or else the simulation's.
Latest(checked, simulated) == IF checked # "none" THEN checked ELSE simulated

ApiCheckStatus(answer, sc, prod) ==
    IF answer.kind = "missing" THEN "api_check_missing"
    ELSE IF answer.failure = "self_correlation" \/ sc = "FAIL" THEN "self_correlation_fail"
    ELSE IF answer.failure = "prod_correlation" \/ prod = "FAIL" THEN "prod_correlation_fail"
    ELSE IF "PENDING" \in {sc, prod} \/ answer.failure = "correlation_pending" THEN "api_check_pending"
    ELSE IF answer.active THEN "platform_active_check_readable"
    ELSE "api_check_readable"

\* NEAR_MISS_REPAIR and HARD_FAIL, which the metrics tell apart, are both FAILED.
Bucket(sim, answer, sc, prod) ==
    LET api == ApiCheckStatus(answer, sc, prod) IN
    IF sim.outcome = "timeout" THEN "INFRA_TIMEOUT"
    ELSE IF answer.active THEN "ACTIVE_OR_SUBMITTED"
    ELSE IF sim.platformFail \/ "FAIL" \in {sc, prod} THEN "FAILED"
    ELSE IF sim.eligible /\ api = "api_check_readable" THEN "CONFIRMED_READY"
    ELSE IF sim.eligible /\ api \in {"api_check_pending", "api_check_missing"} THEN "SUBMIT_PROBE_NEEDED"
    ELSE "FAILED"

\* classify_review_row, and whether the check it went by was read.
Review(e, sim, answer) ==
    LET sc   == Latest(answer.sc, sim.sc)
        prod == Latest(answer.prod, sim.prod)
    IN [expr |-> e, bucket |-> Bucket(sim, answer, sc, prod), sc |-> sc,
        read |-> answer.kind = "read"]
=============================================================================
