-------------------------- MODULE WQCorrelationGate --------------------------
(***************************************************************************)
(* The pure decision functions of the canonical check: what                *)
(* WQBrainClient.check_alpha_submission can answer, how the engine turns   *)
(* an answer into a check record, and what correlation_gate decides.       *)
(*                                                                         *)
(* A correlation value is abstracted to its side of the local cutoff:      *)
(* "none" (the platform gave no number), "low" (at or below), "high".      *)
(***************************************************************************)


CorrelationResults == {"PASS", "FAIL", "PENDING", "WARNING", "MISSING"}
CorrelationValues  == {"none", "low", "high"}
ClientFailures     == {"none", "self_correlation", "prod_correlation", "correlation_pending"}

\* One answer of PlatformGateway.check, as far as the engine reads it.
CheckReplies ==
    [ok : BOOLEAN, failure : ClientFailures, platformFail : BOOLEAN,
     sc : CorrelationResults, scValue : CorrelationValues,
     prod : CorrelationResults, prodValue : {"none", "some"}]

RETRIABLE_CHECK_FAILURES_NoMissing ==   \* mutant
    {"api_check_error", "api_check_pending", "correlation_check_error", "correlation_pending"}
RETRIABLE_CHECK_FAILURES ==
    {"api_check_error", "api_check_pending", "correlation_check_error",
     "correlation_missing", "correlation_pending"}

-----------------------------------------------------------------------------
\* The failures check_alpha_submission reports for a payload with these review
\* results: a FAIL wins (prod before self), then a PENDING.  A payload with
\* neither a result nor a value is polled until the poll budget is gone and
\* becomes correlation_pending.
ReviewFailure(r) ==
    IF r.prod = "FAIL" THEN "prod_correlation"
    ELSE IF r.sc = "FAIL" THEN "self_correlation"
    ELSE IF "PENDING" \in {r.sc, r.prod} THEN "correlation_pending"
    ELSE IF {r.sc, r.prod} = {"MISSING"} /\ {r.scValue, r.prodValue} = {"none"}
         THEN "correlation_pending"
    ELSE "none"

\* A reply built from a payload the platform returned.  (ok is read only when
\* there is no failure kind: its value beside one is immaterial.)
ReviewReplies ==
    {r \in CheckReplies : r.failure = ReviewFailure(r) /\ r.ok = (r.failure = "none")}

\* Connection error, 404 or another HTTP error: no payload at all.
TransportReply ==
    [ok |-> FALSE, failure |-> "none", platformFail |-> FALSE,
     sc |-> "MISSING", scValue |-> "none", prod |-> "MISSING", prodValue |-> "none"]

ClientReplies == ReviewReplies \cup {TransportReply}

-----------------------------------------------------------------------------
ApiCheckStatus(check) ==
    CASE check.platformFail -> "platform_check_fail"
      [] ~check.platformFail /\ check.failure = "self_correlation" -> "self_correlation_fail"
      [] ~check.platformFail /\ check.failure = "prod_correlation" -> "prod_correlation_fail"
      [] ~check.platformFail /\ check.failure = "correlation_pending" -> "api_check_pending"
      [] ~check.platformFail /\ check.failure = "none" ->
            IF check.ok THEN "api_check_readable" ELSE "api_check_error"

\* build_check_record: the row the gate judges and the event stores.
CheckRecord(check) ==
    [api |-> ApiCheckStatus(check), failure |-> check.failure,
     platformFail |-> check.platformFail,
     sc |-> check.sc, scValue |-> check.scValue,
     prod |-> check.prod, prodValue |-> check.prodValue]

\* correlation_gate: "ready", or the reason the row is refused.  The self
\* correlation must be an explicit pass not above the cutoff ...
SelfVerdict_NoCutoff(row) ==   \* mutant: the value is not compared
    CASE row.sc = "PASS" -> "ready"
      [] row.sc = "PENDING" -> "correlation_pending"
      [] row.sc = "FAIL" -> "self_correlation_fail"
      [] OTHER -> "correlation_missing"
SelfVerdict(row) ==
    CASE row.sc = "PASS" /\ row.scValue # "high" -> "ready"
      [] row.sc = "PASS" /\ row.scValue = "high" -> "self_correlation_above_cutoff"
      [] row.sc = "PENDING" -> "correlation_pending"
      [] row.sc = "FAIL" -> "self_correlation_fail"
      [] OTHER -> "correlation_missing"

\* ... and the production correlation neither failed nor pending.
ProdVerdict(row) ==
    CASE row.prod = "PENDING" -> "correlation_pending"
      [] row.prod = "FAIL" -> "prod_correlation_fail"
      [] OTHER -> "ready"

GateReason(row) ==
    IF row.platformFail THEN "platform_check_fail"
    ELSE IF row.api = "api_check_pending" THEN "correlation_pending"
    ELSE IF row.api # "api_check_readable" THEN "correlation_check_error"
    ELSE IF SelfVerdict(row) # "ready" THEN SelfVerdict(row)
    ELSE ProdVerdict(row)

Ready(row) == GateReason(row) = "ready"

\* The failure kind a refused row is stored under: the client's, else the gate's.
StoredFailureKind(row) ==
    IF row.failure # "none" THEN row.failure ELSE GateReason(row)

\* The status execute returns for a refused row ...
RefusedStatus(row) ==
    IF GateReason(row) \in RETRIABLE_CHECK_FAILURES THEN "CHECK_PENDING" ELSE "BLOCKED"

\* ... and whether a later execution of the attempt may check again.
Recheckable(kind) == kind \in RETRIABLE_CHECK_FAILURES

\* _check_fingerprint: what makes two check outcomes the same event.
Fingerprint_NoValue(row) == <<row.api, row.sc, row.prod, row.prodValue>>   \* mutant
Fingerprint(row) == <<row.api, row.sc, row.scValue, row.prod, row.prodValue>>
=============================================================================
