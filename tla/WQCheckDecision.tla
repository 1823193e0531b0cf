--------------------------- MODULE WQCheckDecision ---------------------------
(***************************************************************************)
(* The client and the gate together: what a check_alpha_submission that    *)
(* has answered leads the engine to, and the record the engine keeps of it *)
(* for later executions of the attempt.                                    *)
(***************************************************************************)
EXTENDS WQBrainClient

\* The call was a check, and answered.
Checked == reply.kind = "check"

Row == CheckRecord(reply.check)

\* The check the documentation lets pass (Correlation Gate in WQ_AGENT_CORE_V2.md):
\* an explicit self pass with a value at or below the cutoff, no failed platform check,
\* and no production review that failed or is pending.
Documented(check) ==
    /\ ~check.platformFail
    /\ check.sc = "PASS" /\ check.scValue = "low"
    /\ check.prod \notin {"FAIL", "PENDING"}

\* A self pass to which the platform gave no value, and which one at or below the
\* cutoff would have made documented: correlation_gate compares a value only if
\* there is one.
PassWithoutValue(check) ==
    check.scValue = "none" /\ Documented([check EXCEPT !.scValue = "low"])

\* Through the client's polls, the record and the gate together, the checks that pass
\* are those the documentation lets pass and, against it, those that pass without a
\* value: no others, and none of these is refused.
GateExact ==
    Checked => (Ready(Row) <=> Documented(reply.check) \/ PassWithoutValue(reply.check))

\* An earlier answer of the same attempt that the event log takes for the same
\* event was the same verdict, to be resumed the same way: dropping the second
\* of the two events loses nothing (_check_fingerprint).
FingerprintDecides ==
    Checked => \A earlier \in ClientReplies :
        Fingerprint(CheckRecord(earlier)) = Fingerprint(Row) =>
            /\ GateReason(CheckRecord(earlier)) = GateReason(Row)
            /\ StoredFailureKind(CheckRecord(earlier)) = StoredFailureKind(Row)

\* A refused check is made again by a later execution of the attempt when it was
\* refused for want of an answer (pending, missing, unreadable, polls spent), and
\* never when a review failed.
RecheckedIfUnanswered ==
    Checked /\ ~Ready(Row) =>
        LET failed == "FAIL" \in {reply.check.sc, reply.check.prod}
        IN /\ failed => ~Recheckable(StoredFailureKind(Row))
           /\ ~failed /\ ~reply.check.platformFail /\ reply.check.scValue # "high" =>
                 Recheckable(StoredFailureKind(Row))
=============================================================================
