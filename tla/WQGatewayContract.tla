------------------------- MODULE WQGatewayContract -------------------------
(***************************************************************************)
(* One PlatformGateway.submit call as the execution engine relies on it:   *)
(* while the call is open the platform may take the submission, and        *)
(* "ACTIVE" is answered only for an alpha that is ACTIVE.  Nothing else    *)
(* about the platform follows from an answer.                              *)
(***************************************************************************)
EXTENDS Naturals

VARIABLES
    call,        \* "idle", "open", or how it ended: "active", "pending", "failed", "raised"
    status,      \* the alpha's status on the platform
    reviewing    \* a request the platform has, or will have, is undecided

Init == call = "idle" /\ status = "UNSUBMITTED" /\ reviewing = FALSE

Open == call = "idle" /\ call' = "open" /\ UNCHANGED <<status, reviewing>>

Take ==
    /\ call = "open" /\ status # "ACTIVE" /\ reviewing' = TRUE
    /\ UNCHANGED <<call, status>>

Answer ==
    /\ call = "open"
    /\ call' \in {"pending", "failed", "raised"} \cup (IF status = "ACTIVE" THEN {"active"} ELSE {})
    /\ UNCHANGED <<status, reviewing>>

Decide ==
    /\ reviewing
    /\ \/ status' = "ACTIVE" /\ reviewing' = FALSE
       \/ status' = "UNSUBMITTED" /\ reviewing' \in BOOLEAN
       \/ status' = "OTHER" /\ status = "UNSUBMITTED" /\ UNCHANGED reviewing
    /\ UNCHANGED call

Next == Open \/ Take \/ Answer \/ Decide

Spec == Init /\ [][Next]_<<call, status, reviewing>>
=============================================================================
