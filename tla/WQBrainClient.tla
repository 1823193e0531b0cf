---------------------------- MODULE WQBrainClient ----------------------------
(***************************************************************************)
(* WQBrainClient: one call of authenticate, simulate, check_alpha_         *)
(* submission or submit_alpha, over a connection that loses requests and   *)
(* answers and delivers requests late, to a platform that decides in its   *)
(* own time.  Each request returns or raises, as all have a timeout.       *)
(***************************************************************************)
EXTENDS Integers, WQCorrelationGate

CONSTANTS
    Operations,    \* the calls considered
    AuthTries,     \* authenticate's _max_retries
    SimTries,      \* _MAX_RETRIES
    SimPolls,      \* _POLL_MAX_ATTEMPTS
    CheckPolls,    \* check_alpha_submission's max_polls
    SubmitTries,   \* submit_alpha's outer loop
    PostTries,     \* its loop over lost connections
    SubmitPolls    \* _poll_alpha_submission's max_polls

ASSUME OperationsAssumption ==
    Operations \subseteq {"authenticate", "simulate", "check", "submit"}
ASSUME TriesAssumption ==
    /\ CheckPolls \in Int
    /\ {AuthTries, SimTries, SimPolls, SubmitTries, PostTries, SubmitPolls} \subseteq Nat \ {0}

VARIABLES
    op,          \* the call, "none" before it
    pc,          \* its loop: "idle", "auth", "create", "follow", "check", "post", "poll", "fetch", "done"
    tries,       \* rounds of the outer loop begun and given up
    sends,       \* lost POSTs of this round
    polls,       \* polls of this round
    limited,     \* last_rate_limit is set
    payload,     \* last_payload, as a CheckReply
    reply,       \* what the call returned
    status,      \* platform: the alpha's status
    reviewing,   \* platform: a submission it took is undecided
    inflight,    \* a POST whose sender has given up is still on its way
    posts,       \* history: POSTs to /submit
    created      \* history: simulations the platform created

loops    == <<tries, sends, polls, limited, payload>>
platform == <<status, reviewing, inflight>>
history  == <<posts, created>>
vars     == <<op, pc, loops, reply, platform, history>>

NoReply == [kind |-> "none"]

\* A result of submit_alpha; detail tells its two exhausted cases from the rest.
SubmitReply(code, ok, shown, failure, detail) ==
    [kind |-> "submit", code |-> code, ok |-> ok, platform |-> shown,
     failure |-> failure, detail |-> detail]

Bool(kind, ok) == [kind |-> kind, ok |-> ok]

\* Payload {}: neither results nor values.
NoPayload == [TransportReply EXCEPT !.failure = "correlation_pending"]

Answered(r) ==
    /\ pc' = "done" /\ reply' = r

Init ==
    /\ op = "none" /\ pc = "idle"
    /\ tries = 0 /\ sends = 0 /\ polls = 0
    /\ limited = FALSE /\ payload = NoPayload /\ reply = NoReply
    /\ status = "UNSUBMITTED" /\ reviewing = FALSE /\ inflight = FALSE
    /\ posts = 0 /\ created = 0

Call(o) ==
    /\ pc = "idle"
    /\ op' = o
    /\ pc' = CASE o = "authenticate" -> "auth" [] o = "simulate" -> "create"
               [] o = "check" -> "check" [] o = "submit" -> "post"
    /\ UNCHANGED <<loops, reply, platform, history>>

\* An exception no handler is for: any RequestException of authenticate, and of
\* the others one that is neither a ConnectionError nor a Timeout.
Raise ==
    /\ pc \in {"auth", "check", "post"}
    /\ Answered([kind |-> "raised"])
    /\ UNCHANGED <<op, loops, platform, history>>

-----------------------------------------------------------------------------
(* authenticate                                                            *)

AuthLimited ==
    /\ pc = "auth" /\ tries < AuthTries
    /\ tries' = tries + 1
    /\ UNCHANGED <<op, pc, sends, polls, limited, payload, reply, platform, history>>

\* A session, a refusal, an inquiry, or the rate limit to the end.
AuthAnswer ==
    /\ pc = "auth"
    /\ \E ok \in BOOLEAN :
         /\ tries = AuthTries => ~ok
         /\ Answered(Bool("authenticate", ok))
    /\ UNCHANGED <<op, loops, platform, history>>

-----------------------------------------------------------------------------
(* simulate                                                                *)

\* The connection fails before or after the platform has created the
\* simulation, or the platform is at its limit: wait and send another.
CreateAgain ==
    /\ pc = "create" /\ tries < SimTries
    /\ tries' = tries + 1
    /\ created' \in {created, created + 1}
    /\ UNCHANGED <<op, pc, sends, polls, limited, payload, reply, platform, posts>>

\* The tries are spent, or another HTTP error, which may hide a creation.
CreateFails ==
    /\ pc = "create"
    /\ Answered(Bool("simulate", FALSE))
    /\ \/ UNCHANGED created
       \/ tries < SimTries /\ created' = created + 1
    /\ UNCHANGED <<op, loops, platform, posts>>

\* 200, 201 or 202; without a Location the simulation cannot be followed.
CreateAccepted_Retried ==   \* mutant: no Location, so send another
    /\ pc = "create"
    /\ created' = created + 1
    /\ \/ pc' = "follow"
       \/ UNCHANGED pc
    /\ UNCHANGED <<op, loops, reply, platform, posts>>
CreateAccepted ==
    /\ pc = "create" /\ tries < SimTries
    /\ created' = created + 1
    /\ \/ pc' = "follow" /\ UNCHANGED reply
       \/ Answered(Bool("simulate", FALSE))
    /\ UNCHANGED <<op, loops, platform, posts>>

\* Unreadable, or still running.
FollowOn ==
    /\ pc = "follow" /\ polls < SimPolls
    /\ polls' = polls + 1
    /\ UNCHANGED <<op, pc, tries, sends, limited, payload, reply, platform, history>>

\* DONE (the metrics are fetched when they are not there), FAILED, or the polls are spent.
FollowEnds ==
    /\ pc = "follow"
    /\ \E ok \in BOOLEAN :
         /\ polls = SimPolls => ~ok
         /\ Answered(Bool("simulate", ok))
    /\ UNCHANGED <<op, loops, platform, history>>

-----------------------------------------------------------------------------
(* check_alpha_submission                                                  *)

CheckRounds == IF CheckPolls > 1 THEN CheckPolls ELSE 1

\* What ends the polling: a FAIL, a value beside a settled result, or a result
\* with nothing pending.
Conclusive(r) ==
    LET known(result) == result \in {"PASS", "FAIL", "WARNING"} IN
    \/ "FAIL" \in {r.sc, r.prod}
    \/ r.sc # "PENDING" /\ r.scValue # "none"
    \/ r.prod # "PENDING" /\ r.prodValue # "none"
    \/ (known(r.sc) \/ known(r.prod)) /\ "PENDING" \notin {r.sc, r.prod}

\* The reviews of a payload, and the failure and ok _normalize_check_submission_payload
\* derives from them.
Payloads ==
    {r \in CheckReplies :
        /\ r.failure = IF r.prod = "FAIL" THEN "prod_correlation"
                       ELSE IF r.sc = "FAIL" THEN "self_correlation"
                       ELSE IF "PENDING" \in {r.sc, r.prod} THEN "correlation_pending"
                       ELSE "none"
        /\ r.ok = (r.failure \notin {"self_correlation", "prod_correlation"})}

CheckError ==   \* an HTTP error, or no connection at the last poll
    /\ pc = "check" /\ polls < CheckRounds
    /\ Answered([kind |-> "check", check |-> TransportReply])
    /\ UNCHANGED <<op, loops, platform, history>>

CheckUnread ==   \* 429, or no connection before the last poll
    /\ pc = "check" /\ polls < CheckRounds
    /\ polls' = polls + 1
    /\ UNCHANGED <<op, pc, tries, sends, limited, payload, reply, platform, history>>

CheckRead_Restarts ==   \* mutant: a poll that was answered starts the count anew
    /\ pc = "check" /\ polls < CheckRounds
    /\ \E r \in Payloads :
         IF Conclusive(r)
         THEN Answered([kind |-> "check", check |-> r]) /\ UNCHANGED <<polls, payload>>
         ELSE polls' = 0 /\ payload' = r /\ UNCHANGED <<pc, reply>>
    /\ UNCHANGED <<op, tries, sends, limited, platform, history>>
CheckRead ==
    /\ pc = "check" /\ polls < CheckRounds
    /\ \E r \in Payloads :
         IF Conclusive(r)
         THEN Answered([kind |-> "check", check |-> r]) /\ UNCHANGED <<polls, payload>>
         ELSE polls' = polls + 1 /\ payload' = r /\ UNCHANGED <<pc, reply>>
    /\ UNCHANGED <<op, tries, sends, limited, platform, history>>

CheckExpires ==
    /\ pc = "check" /\ polls = CheckRounds
    /\ Answered([kind |-> "check",
                 check |-> [payload EXCEPT !.ok = FALSE,
                            !.failure = IF @ = "none" THEN "correlation_pending" ELSE @]])
    /\ UNCHANGED <<op, loops, platform, history>>

-----------------------------------------------------------------------------
(* submit_alpha                                                            *)

\* A POST that reaches the platform: it takes the submission, or refuses it.
Reaches(taken) ==
    /\ posts' = posts + 1
    /\ taken => status # "ACTIVE"
    /\ reviewing' = (reviewing \/ taken)

NextTry ==
    /\ pc' = "post" /\ tries' = tries + 1 /\ sends' = 0

\* ConnectionError or Timeout: the request is lost, or its answer is, or it will
\* arrive later.
PostLost ==
    /\ pc = "post" /\ tries < SubmitTries /\ sends < PostTries
    /\ sends' = sends + 1
    /\ \E taken \in BOOLEAN : Reaches(taken)
    /\ inflight' \in {inflight, TRUE}
    /\ UNCHANGED <<op, pc, tries, polls, limited, payload, reply, status, created>>

PostGivenUp ==
    /\ pc = "post" /\ tries < SubmitTries /\ sends = PostTries
    /\ Answered(SubmitReply(0, FALSE, "none", "none", "no connection"))
    /\ UNCHANGED <<op, loops, platform, history>>

PostForbidden ==
    /\ pc = "post" /\ tries < SubmitTries /\ sends < PostTries
    /\ Reaches(FALSE)
    /\ \/ Answered(SubmitReply(403, FALSE, "UNSUBMITTED", "correlation", "refused"))
       \/ Answered(SubmitReply(403, FALSE, "none", "none", "refused"))
    /\ UNCHANGED <<op, loops, status, inflight, created>>

PostLimited ==
    /\ pc = "post" /\ tries < SubmitTries /\ sends < PostTries
    /\ Reaches(FALSE)
    /\ NextTry /\ limited' = TRUE
    /\ UNCHANGED <<op, polls, payload, reply, status, inflight, created>>

\* Another HTTP error, which may come from a gateway in front of the platform.
PostUnexpected ==
    /\ pc = "post" /\ tries < SubmitTries /\ sends < PostTries
    /\ \E taken \in BOOLEAN : Reaches(taken)
    /\ NextTry
    /\ UNCHANGED <<op, polls, limited, payload, reply, status, inflight, created>>

PostAccepted ==
    /\ pc = "post" /\ tries < SubmitTries /\ sends < PostTries
    /\ \E taken \in BOOLEAN : Reaches(taken)
    /\ pc' = "poll" /\ polls' = 0
    /\ UNCHANGED <<op, tries, sends, limited, payload, reply, status, inflight, created>>

\* The outer loop is spent.
Exhausted ==
    /\ pc = "post" /\ tries = SubmitTries
    /\ Answered(IF limited THEN SubmitReply(429, FALSE, "none", "rate_limited", "exhausted")
                           ELSE SubmitReply(200, FALSE, "none", "none", "exhausted"))
    /\ UNCHANGED <<op, loops, platform, history>>

\* One round of _poll_alpha_submission that decides nothing: the status is
\* unreadable or undecided; when the reviews have passed and the alpha is still
\* UNSUBMITTED it is POSTed again, whatever comes of that.
PollOn ==
    /\ pc = "poll" /\ polls < SubmitPolls
    /\ polls' = polls + 1
    /\ \/ UNCHANGED <<reviewing, inflight, posts>>
       \/ /\ status = "UNSUBMITTED"
          /\ \E taken \in BOOLEAN : Reaches(taken)
          /\ inflight' \in {inflight, TRUE}
    /\ UNCHANGED <<op, pc, tries, sends, limited, payload, reply, status, created>>

PollActive_Accepted ==   \* mutant: any status but UNSUBMITTED confirms
    /\ pc = "poll" /\ polls < SubmitPolls /\ status # "UNSUBMITTED"
    /\ Answered(SubmitReply(200, TRUE, "ACTIVE", "none", "active"))
    /\ UNCHANGED <<op, loops, platform, history>>
PollActive ==
    /\ pc = "poll" /\ polls < SubmitPolls /\ status = "ACTIVE"
    /\ Answered(SubmitReply(200, TRUE, "ACTIVE", "none", "active"))
    /\ UNCHANGED <<op, loops, platform, history>>

\* A correlation failed, and the status is not ACTIVE.
PollFailed ==
    /\ pc = "poll" /\ polls < SubmitPolls /\ status # "ACTIVE"
    /\ Answered(SubmitReply(200, FALSE, status, "correlation", "refused"))
    /\ UNCHANGED <<op, loops, platform, history>>

PollExpires ==
    /\ pc = "poll" /\ polls = SubmitPolls
    /\ pc' = "fetch"
    /\ UNCHANGED <<op, loops, reply, platform, history>>

\* Polling has timed out: UNSUBMITTED is tried again ...
FetchUnsubmitted ==
    /\ pc = "fetch" /\ status = "UNSUBMITTED"
    /\ NextTry
    /\ UNCHANGED <<op, polls, limited, payload, reply, platform, history>>

\* ... and anything else, also what cannot be read, counts as accepted.
FetchOther ==
    /\ pc = "fetch"
    /\ Answered(SubmitReply(200, TRUE, "TIMEOUT", "correlation_pending", "accepted"))
    /\ UNCHANGED <<op, loops, platform, history>>

-----------------------------------------------------------------------------
(* The platform.                                                           *)

Arrives ==
    /\ inflight
    /\ inflight' = FALSE
    /\ reviewing' \in {reviewing, status # "ACTIVE"}
    /\ UNCHANGED <<op, pc, loops, reply, status, history>>

Decides ==
    /\ reviewing
    /\ \/ status' \in {"ACTIVE", "UNSUBMITTED"} /\ reviewing' = FALSE
       \/ status = "UNSUBMITTED" /\ status' = "OTHER" /\ UNCHANGED reviewing
    /\ UNCHANGED <<op, pc, loops, reply, inflight, history>>

Step ==
    \/ AuthLimited \/ AuthAnswer
    \/ CreateAgain \/ CreateFails \/ CreateAccepted \/ FollowOn \/ FollowEnds
    \/ CheckError \/ CheckUnread \/ CheckRead \/ CheckExpires
    \/ PostLost \/ PostGivenUp \/ PostForbidden \/ PostLimited \/ PostUnexpected
    \/ PostAccepted \/ Exhausted
    \/ PollOn \/ PollActive \/ PollFailed \/ PollExpires
    \/ FetchUnsubmitted \/ FetchOther

Next == (\E o \in Operations : Call(o)) \/ Step \/ Raise \/ Arrives \/ Decides

Spec == Init /\ [][Next]_vars

\* The thread that makes the call goes on with it: no request waits for ever.
LiveSpec == Spec /\ WF_vars(Step)

-----------------------------------------------------------------------------
(* Properties.                                                             *)

SubmitReplies ==
    [kind : {"submit"}, code : {0, 200, 403, 429}, ok : BOOLEAN,
     platform : {"none", "UNSUBMITTED", "OTHER", "ACTIVE", "TIMEOUT"},
     failure : {"none", "correlation", "correlation_pending", "rate_limited"},
     detail : {"no connection", "refused", "exhausted", "active", "accepted"}]

Replies ==
    {NoReply, [kind |-> "raised"]} \cup [kind : {"authenticate", "simulate"}, ok : BOOLEAN]
      \cup [kind : {"check"}, check : CheckReplies] \cup SubmitReplies

TypeOK ==
    /\ op \in Operations \cup {"none"}
    /\ pc \in {"idle", "auth", "create", "follow", "check", "post", "poll", "fetch", "done"}
    /\ tries \in Nat /\ sends \in Nat /\ polls \in Nat /\ posts \in Nat /\ created \in Nat
    /\ limited \in BOOLEAN /\ payload \in CheckReplies /\ reply \in Replies
    /\ status \in {"UNSUBMITTED", "OTHER", "ACTIVE"}
    /\ reviewing \in BOOLEAN /\ inflight \in BOOLEAN

\* Through all nested retries one call costs a bounded number of simulations and
\* of POSTs: a lost answer does not multiply them further.
CostBounded ==
    /\ created <= SimTries
    /\ posts <= SubmitTries * (PostTries + SubmitPolls)

\* Whatever a check's polls saw and lost, its answer is one the correlation gate
\* is verified for (ClientReplies); ok is not looked at beside a failure.
CheckAnswersKnown ==
    reply.kind = "check" =>
        [reply.check EXCEPT !.ok = @ /\ reply.check.failure = "none"] \in ClientReplies

\* The status _submit_status gives a reply, and what it is to the contract.
Settled(r) ==
    IF r.kind = "raised" THEN "raised"
    ELSE IF r.ok /\ r.platform = "ACTIVE" THEN "active"
    ELSE IF r.failure # "correlation" /\ (r.ok \/ r.failure = "correlation_pending") THEN "pending"
    ELSE "failed"

CallOf == IF op # "submit" THEN "idle" ELSE IF pc = "done" THEN Settled(reply) ELSE "open"

Undecided == reviewing \/ (inflight /\ status # "ACTIVE")

Contract == INSTANCE WQGatewayContract WITH call <- CallOf, reviewing <- Undecided

\* submit_alpha is the submit the engine is verified with: it answers ACTIVE only
\* for an ACTIVE alpha, and every retry of its own falls within the open call.
SubmitsAsAssumed == Contract!Spec

\* A call ends, by its own counters, whatever the connection does.
CallEnds == pc # "idle" ~> pc = "done"
=============================================================================
