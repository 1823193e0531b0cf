-------------------------- MODULE MCWQAgentWorkflow --------------------------
(* WQAgentWorkflow for TLC. *)
EXTENDS WQAgentWorkflow

CONSTANTS a, b, c

BothModes == {"run-submit", "presubmit-sequential"}
Presubmit == {"presubmit-sequential"}

ThreeExpressions == {a, b, c}

\* Candidate files are read anew each cycle, and the model adds to them in any order.
SomeOffers == {<<a, b, c>>, <<c, a>>, <<b, c, a>>}

\* a and b are near copies, b and c are built from the same fields.
SomeSimilar == {{a, b}}
SomeSignature == [e \in ThreeExpressions |-> IF e = a THEN "a" ELSE "bc"]

Sim(outcome, eligible, sc) ==
    [outcome |-> outcome, eligible |-> eligible, platformFail |-> FALSE, sc |-> sc, prod |-> "none"]

\* A good one that has its correlation or waits for it, one that is not good, and
\* one that was not waited for.
SomeSimResults ==
    {Sim("ok", TRUE, "PASS"), Sim("ok", TRUE, "PENDING"), Sim("ok", FALSE, "none"),
     Sim("timeout", FALSE, "none")}

Answer(sc, failure) == [Unread EXCEPT !.kind = "read", !.sc = sc, !.failure = failure]

ReadAnswers == {Answer("PASS", "none"), Answer("PENDING", "correlation_pending")}
AllAnswers == ReadAnswers \cup {Unread, Answer("FAIL", "self_correlation")}
=============================================================================
