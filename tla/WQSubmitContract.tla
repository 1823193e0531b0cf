-------------------------- MODULE WQSubmitContract --------------------------
(***************************************************************************)
(* What the execution engine promises about one attempt, seen from the     *)
(* platform: submissions are bounded, one at a time, each settled by an    *)
(* explicit UNSUBMITTED before the next, and none follows an outcome that  *)
(* ends the attempt (Recovery Rules of WQ_AGENT_CORE_V2.md).               *)
(***************************************************************************)
EXTENDS Naturals

CONSTANT MaxPosts

VARIABLES
    phase,    \* "open", "unsettled", "active" or "closed"
    posts     \* submissions so far

Init == phase = "open" /\ posts = 0

\* A submission: only while the attempt is open and the budget lasts.
Post ==
    /\ phase = "open" /\ posts < MaxPosts
    /\ phase' = "unsettled" /\ posts' = posts + 1

\* The platform says the alpha is not submitted.
Reopen == phase = "unsettled" /\ phase' = "open" /\ UNCHANGED posts

\* A submission is found to have succeeded.
Confirm ==
    /\ posts > 0 /\ phase \in {"open", "unsettled"}
    /\ phase' = "active" /\ UNCHANGED posts

\* The attempt ends without one.
Close ==
    /\ phase \in {"open", "unsettled"}
    /\ phase' = "closed" /\ UNCHANGED posts

Next == Post \/ Reopen \/ Confirm \/ Close

Spec == Init /\ [][Next]_<<phase, posts>>
=============================================================================
