------------------------- MODULE WQBrainClientProofs -------------------------
(***************************************************************************)
(* What holds of the client's calls for any numbers of tries and polls.    *)
(***************************************************************************)
EXTENDS WQCheckDecision, TLAPS

-----------------------------------------------------------------------------
(* Types.                                                                  *)

\* What the calls end with is a reply.
LEMMA ReplyTypes ==
    /\ NoReply \in Replies /\ [kind |-> "raised"] \in Replies
    /\ \A ok \in BOOLEAN : Bool("authenticate", ok) \in Replies /\ Bool("simulate", ok) \in Replies
BY DEF Replies, Bool

LEMMA CheckReplyTypes ==
    \A r \in CheckReplies : [kind |-> "check", check |-> r] \in Replies
BY DEF Replies

LEMMA SubmitReplyTypes ==
    /\ SubmitReply(0, FALSE, "none", "none", "no connection") \in Replies
    /\ SubmitReply(403, FALSE, "UNSUBMITTED", "correlation", "refused") \in Replies
    /\ SubmitReply(403, FALSE, "none", "none", "refused") \in Replies
    /\ SubmitReply(429, FALSE, "none", "rate_limited", "exhausted") \in Replies
    /\ SubmitReply(200, FALSE, "none", "none", "exhausted") \in Replies
    /\ SubmitReply(200, TRUE, "ACTIVE", "none", "active") \in Replies
    /\ SubmitReply(200, TRUE, "TIMEOUT", "correlation_pending", "accepted") \in Replies
    /\ SubmitReply(200, FALSE, "UNSUBMITTED", "correlation", "refused") \in Replies
    /\ SubmitReply(200, FALSE, "OTHER", "correlation", "refused") \in Replies
    /\ SubmitReply(200, FALSE, "ACTIVE", "correlation", "refused") \in Replies
BY DEF SubmitReply, SubmitReplies, Replies

\* What a check answers is built from these.
LEMMA CheckTypes ==
    /\ TransportReply \in CheckReplies
    /\ NoPayload \in CheckReplies
    /\ Payloads \subseteq CheckReplies
    /\ \A r \in CheckReplies :
          [r EXCEPT !.ok = FALSE,
                    !.failure = IF @ = "none" THEN "correlation_pending" ELSE @] \in CheckReplies
<1>1. TransportReply \in CheckReplies
  BY DEF TransportReply, CheckReplies, CorrelationResults, CorrelationValues, ClientFailures
<1>2. NoPayload \in CheckReplies
  BY DEF NoPayload, TransportReply, CheckReplies, CorrelationResults, CorrelationValues,
         ClientFailures
<1>3. Payloads \subseteq CheckReplies
  BY DEF Payloads
<1>4. \A r \in CheckReplies :
          [r EXCEPT !.ok = FALSE,
                    !.failure = IF @ = "none" THEN "correlation_pending" ELSE @] \in CheckReplies
  BY DEF CheckReplies, ClientFailures
<1> QED
  BY <1>1, <1>2, <1>3, <1>4

\* TypeOK in three parts.
Counters ==
    /\ tries \in Nat /\ sends \in Nat /\ polls \in Nat /\ posts \in Nat /\ created \in Nat
Flags == limited \in BOOLEAN /\ reviewing \in BOOLEAN /\ inflight \in BOOLEAN
Values ==
    /\ op \in Operations \cup {"none"}
    /\ pc \in {"idle", "auth", "create", "follow", "check", "post", "poll", "fetch", "done"}
    /\ payload \in CheckReplies /\ reply \in Replies
    /\ status \in {"UNSUBMITTED", "OTHER", "ACTIVE"}

LEMMA TypeParts == TypeOK <=> Counters /\ Flags /\ Values
BY DEF TypeOK, Counters, Flags, Values

LEMMA TypeInit == Init => TypeOK
<1>1. Init => Counters
  BY DEF Init, Counters
<1>2. Init => Flags
  BY DEF Init, Flags
<1>3. Init => Values
  BY ReplyTypes, CheckTypes DEF Init, Values
<1> QED
  BY <1>1, <1>2, <1>3, TypeParts

LEMMA CountersStep == Counters /\ [Next]_vars => Counters'
<1> USE DEF Counters, loops, platform, history
<1>1. ASSUME Counters, (\E o \in Operations : Call(o)) \/ Raise \/ Arrives \/ Decides \/ UNCHANGED vars
      PROVE  Counters'
  BY <1>1 DEF Call, Raise, Arrives, Decides, vars
<1>2. ASSUME Counters, PollOn
      PROVE  Counters'
  <2>1. posts' = posts \/ posts' = posts + 1
    BY <1>2 DEF PollOn, Reaches
  <2>2. polls' = polls + 1 /\ UNCHANGED <<tries, sends, created>>
    BY <1>2 DEF PollOn
  <2> QED
    BY <1>2, <2>1, <2>2
<1>3. Counters /\ AuthLimited => Counters'
  BY DEF AuthLimited
<1>4. Counters /\ AuthAnswer => Counters'
  BY DEF AuthAnswer
<1>5. Counters /\ CreateAgain => Counters'
  BY DEF CreateAgain
<1>6. Counters /\ CreateFails => Counters'
  BY DEF CreateFails
<1>7. Counters /\ CreateAccepted => Counters'
  BY DEF CreateAccepted
<1>8. Counters /\ FollowOn => Counters'
  BY DEF FollowOn
<1>9. Counters /\ FollowEnds => Counters'
  BY DEF FollowEnds
<1>10. Counters /\ CheckError => Counters'
  BY DEF CheckError
<1>11. Counters /\ CheckUnread => Counters'
  BY DEF CheckUnread
<1>12. Counters /\ CheckRead => Counters'
  BY DEF CheckRead
<1>13. Counters /\ CheckExpires => Counters'
  BY DEF CheckExpires
<1>14. Counters /\ PostLost => Counters'
  BY DEF PostLost, Reaches
<1>15. Counters /\ PostGivenUp => Counters'
  BY DEF PostGivenUp
<1>16. Counters /\ PostForbidden => Counters'
  BY DEF PostForbidden, Reaches
<1>17. Counters /\ PostLimited => Counters'
  BY DEF PostLimited, Reaches, NextTry
<1>18. Counters /\ PostUnexpected => Counters'
  BY DEF PostUnexpected, Reaches, NextTry
<1>19. Counters /\ PostAccepted => Counters'
  BY DEF PostAccepted, Reaches
<1>20. Counters /\ Exhausted => Counters'
  BY DEF Exhausted
<1>21. Counters /\ PollActive => Counters'
  BY DEF PollActive
<1>22. Counters /\ PollFailed => Counters'
  BY DEF PollFailed
<1>23. Counters /\ PollExpires => Counters'
  BY DEF PollExpires
<1>24. Counters /\ FetchUnsubmitted => Counters'
  BY DEF FetchUnsubmitted, NextTry
<1>25. Counters /\ FetchOther => Counters'
  BY DEF FetchOther
<1> QED
  BY <1>1, <1>2, <1>3, <1>4, <1>5, <1>6, <1>7, <1>8, <1>9, <1>10, <1>11, <1>12, <1>13,
     <1>14, <1>15, <1>16, <1>17, <1>18, <1>19, <1>20, <1>21, <1>22, <1>23, <1>24, <1>25 DEF Next, Step

LEMMA FlagsStep ==
    ASSUME Flags, [Next]_vars
    PROVE  Flags'
BY DEF Flags, Next, Step, Call, Raise, vars, loops, platform, history,
       AuthLimited, AuthAnswer, CreateAgain, CreateFails, CreateAccepted, FollowOn, FollowEnds,
       CheckError, CheckUnread, CheckRead, CheckExpires,
       PostLost, PostGivenUp, PostForbidden, PostLimited, PostUnexpected, PostAccepted, Exhausted,
       PollOn, PollActive, PollFailed, PollExpires, FetchUnsubmitted, FetchOther,
       Reaches, NextTry, Arrives, Decides

LEMMA ValuesStep ==
    ASSUME Values, [Next]_vars
    PROVE  Values'
<1> USE DEF Values, loops, platform
<1>1. ASSUME NEW o \in Operations, Call(o)
      PROVE  Values'
  <2>1. pc' \in {"auth", "create", "check", "post"}
    BY <1>1, OperationsAssumption DEF Call
  <2> QED
    BY <1>1, <2>1 DEF Call
<1>2. CASE Raise \/ AuthLimited \/ AuthAnswer
  BY <1>2, ReplyTypes DEF Raise, AuthLimited, AuthAnswer, Answered
<1>3. CASE CreateAgain \/ CreateFails \/ CreateAccepted \/ FollowOn \/ FollowEnds
  BY <1>3, ReplyTypes DEF CreateAgain, CreateFails, CreateAccepted, FollowOn, FollowEnds, Answered
<1>4. CASE CheckError \/ CheckUnread
  BY <1>4, CheckReplyTypes, CheckTypes DEF CheckError, CheckUnread, Answered
<1>5. CASE CheckRead
  BY <1>5, CheckReplyTypes, CheckTypes DEF CheckRead, Answered
<1>6. CASE CheckExpires
  BY <1>6, CheckReplyTypes, CheckTypes DEF CheckExpires, Answered
<1>7. CASE PostLost \/ PostLimited \/ PostUnexpected \/ PostAccepted
  BY <1>7 DEF PostLost, PostLimited, PostUnexpected, PostAccepted, NextTry
<1>8. CASE PostGivenUp \/ PostForbidden \/ Exhausted \/ PollActive \/ PollFailed \/ FetchOther
  <2>1. CASE PostGivenUp \/ PostForbidden \/ Exhausted
    BY <2>1, SubmitReplyTypes DEF PostGivenUp, PostForbidden, Exhausted, Answered
  <2>2. CASE PollActive
    BY <2>2, SubmitReplyTypes DEF PollActive, Answered
  <2>3. CASE PollFailed
    <3>1. SubmitReply(200, FALSE, status, "correlation", "refused") \in Replies
      BY SubmitReplyTypes
    <3> QED
      BY <2>3, <3>1 DEF PollFailed, Answered
  <2>4. CASE FetchOther
    BY <2>4, SubmitReplyTypes DEF FetchOther, Answered
  <2> QED
    BY <1>8, <2>1, <2>2, <2>3, <2>4
<1>9. CASE PollOn \/ PollExpires \/ FetchUnsubmitted
  BY <1>9 DEF PollOn, PollExpires, FetchUnsubmitted, NextTry
<1>10. CASE Arrives \/ Decides \/ UNCHANGED vars
  BY <1>10 DEF Arrives, Decides, vars
<1> QED
  BY <1>1, <1>2, <1>3, <1>4, <1>5, <1>6, <1>7, <1>8, <1>9, <1>10 DEF Next, Step

LEMMA TypeStep == TypeOK /\ [Next]_vars => TypeOK'
<1>1. Counters' /\ Flags' /\ Values' => TypeOK'
  BY DEF TypeOK, Counters, Flags, Values
<1> QED
  BY <1>1, TypeParts, CountersStep, FlagsStep, ValuesStep

\* The client's variables stay typed, through every interleaving of its loops
\* with what the connection and the platform do.
THEOREM TypeCorrect == Spec => []TypeOK
<1> QED
  BY TypeInit, TypeStep, PTL DEF Spec
-----------------------------------------------------------------------------
(* Cost.                                                                   *)

\* The POSTs of n rounds of submit_alpha.
Within(n) == n * (PostTries + SubmitPolls)

LEMMA WithinRounds ==
    /\ Within(0) = 0
    /\ \A n \in Nat : Within(n) \in Nat /\ Within(n + 1) = Within(n) + PostTries + SubmitPolls
    /\ \A n \in Nat : n <= SubmitTries => Within(n) <= Within(SubmitTries)
<1>1. PostTries \in Nat /\ SubmitPolls \in Nat /\ SubmitTries \in Nat
  BY TriesAssumption
<1> DEFINE R == PostTries + SubmitPolls
<1>2. R \in Nat
  BY <1>1
<1>3. ASSUME NEW n \in Nat
      PROVE  n * R \in Nat /\ (n + 1) * R = n * R + R /\ (n <= SubmitTries => n * R <= SubmitTries * R)
  <2> HIDE DEF R
  <2> QED
    BY <1>1, <1>2
<1> QED
  BY <1>1, <1>2, <1>3 DEF Within

\* Where a call is, what it has cost is covered by the rounds it has begun.
CostInv ==
    /\ pc = "idle" => tries = 0 /\ sends = 0
    /\ pc \in {"idle", "auth", "create", "follow", "check"} => posts = 0
    /\ pc \in {"idle", "create"} => created <= tries
    /\ pc = "post" => tries <= SubmitTries /\ sends <= PostTries /\ posts <= Within(tries) + sends
    /\ pc = "poll" => /\ tries < SubmitTries /\ polls <= SubmitPolls
                      /\ posts <= Within(tries) + PostTries + polls
    /\ pc = "fetch" => tries < SubmitTries /\ posts <= Within(tries + 1)
    /\ posts <= Within(SubmitTries)
    /\ created <= SimTries

LEMMA CostInit == Init => CostInv
BY WithinRounds, TriesAssumption DEF Init, CostInv

LEMMA CostStep == Counters /\ CostInv /\ [Next]_vars => CostInv'
<1> USE WithinRounds, TriesAssumption DEF Counters, CostInv, loops, platform, history
<1>1. Counters /\ CostInv /\ AuthLimited => CostInv'
  BY DEF AuthLimited
<1>2. Counters /\ CostInv /\ AuthAnswer => CostInv'
  BY DEF AuthAnswer, Answered
<1>3. Counters /\ CostInv /\ CreateAgain => CostInv'
  BY DEF CreateAgain
<1>4. Counters /\ CostInv /\ CreateFails => CostInv'
  BY DEF CreateFails, Answered
<1>5. Counters /\ CostInv /\ CreateAccepted => CostInv'
  <2> SUFFICES ASSUME Counters, CostInv, CreateAccepted
               PROVE  CostInv'
    OBVIOUS
  <2>1. /\ pc = "create" /\ tries < SimTries /\ created' = created + 1
        /\ pc' \in {"follow", "done"} /\ UNCHANGED <<tries, sends, polls, posts>>
    BY DEF CreateAccepted, Answered
  <2> QED
    BY <2>1
<1>6. Counters /\ CostInv /\ FollowOn => CostInv'
  BY DEF FollowOn
<1>7. Counters /\ CostInv /\ FollowEnds => CostInv'
  BY DEF FollowEnds, Answered
<1>8. Counters /\ CostInv /\ CheckError => CostInv'
  BY DEF CheckError, Answered
<1>9. Counters /\ CostInv /\ CheckUnread => CostInv'
  BY DEF CheckUnread
<1>10. Counters /\ CostInv /\ CheckRead => CostInv'
  BY DEF CheckRead, Answered
<1>11. Counters /\ CostInv /\ CheckExpires => CostInv'
  BY DEF CheckExpires, Answered
<1>12. Counters /\ CostInv /\ PostLost => CostInv'
  BY DEF PostLost, Reaches
<1>13. Counters /\ CostInv /\ PostGivenUp => CostInv'
  BY DEF PostGivenUp, Answered
<1>14. Counters /\ CostInv /\ PostForbidden => CostInv'
  <2> SUFFICES ASSUME Counters, CostInv, PostForbidden
               PROVE  CostInv'
    OBVIOUS
  <2>1. /\ pc = "post" /\ tries < SubmitTries /\ sends < PostTries /\ posts' = posts + 1
        /\ pc' = "done" /\ UNCHANGED <<tries, sends, polls, created>>
    BY DEF PostForbidden, Reaches, Answered
  <2>2. posts' <= Within(tries + 1) /\ Within(tries + 1) <= Within(SubmitTries)
    BY <2>1
  <2> QED
    BY <2>1, <2>2
<1>15. Counters /\ CostInv /\ PostLimited => CostInv'
  BY DEF PostLimited, Reaches, NextTry
<1>16. Counters /\ CostInv /\ PostUnexpected => CostInv'
  BY DEF PostUnexpected, Reaches, NextTry
<1>17. Counters /\ CostInv /\ PostAccepted => CostInv'
  BY DEF PostAccepted, Reaches
<1>18. Counters /\ CostInv /\ Exhausted => CostInv'
  BY DEF Exhausted, Answered
<1>19. Counters /\ CostInv /\ PollOn => CostInv'
  <2> SUFFICES ASSUME Counters, CostInv, PollOn
               PROVE  CostInv'
    OBVIOUS
  <2>1. /\ pc = "poll" /\ polls < SubmitPolls /\ polls' = polls + 1
        /\ UNCHANGED <<pc, tries, sends, created>>
    BY DEF PollOn
  <2>2. posts' = posts \/ posts' = posts + 1
    BY DEF PollOn, Reaches
  <2>3. posts' <= Within(tries + 1) /\ Within(tries + 1) <= Within(SubmitTries)
    BY <2>1, <2>2
  <2> QED
    BY <2>1, <2>2, <2>3
<1>20. Counters /\ CostInv /\ PollActive => CostInv'
  BY DEF PollActive, Answered
<1>21. Counters /\ CostInv /\ PollFailed => CostInv'
  BY DEF PollFailed, Answered
<1>22. Counters /\ CostInv /\ PollExpires => CostInv'
  BY DEF PollExpires
<1>23. Counters /\ CostInv /\ FetchUnsubmitted => CostInv'
  BY DEF FetchUnsubmitted, NextTry
<1>24. Counters /\ CostInv /\ FetchOther => CostInv'
  BY DEF FetchOther, Answered
<1>25. Counters /\ CostInv /\ Raise => CostInv'
  BY DEF Raise, Answered
<1>26. Counters /\ CostInv /\ Arrives => CostInv'
  BY DEF Arrives
<1>27. Counters /\ CostInv /\ Decides => CostInv'
  BY DEF Decides
<1>28. Counters /\ CostInv /\ (\E o \in Operations : Call(o)) => CostInv'
  BY OperationsAssumption DEF Call
<1>29. Counters /\ CostInv /\ UNCHANGED vars => CostInv'
  BY DEF vars
<1> QED
  BY <1>1, <1>2, <1>3, <1>4, <1>5, <1>6, <1>7, <1>8, <1>9, <1>10, <1>11, <1>12, <1>13,
     <1>14, <1>15, <1>16, <1>17, <1>18, <1>19, <1>20, <1>21, <1>22, <1>23, <1>24, <1>25,
     <1>26, <1>27, <1>28, <1>29 DEF Next, Step

\* One call creates no more simulations than simulate's loop has tries, and POSTs
\* no more often than the three nested loops of submit_alpha allow together.
THEOREM Cost == Spec => []CostBounded
<1>1. Counters /\ CostInv => CostBounded
  BY DEF CostInv, CostBounded, Within
<1>2. TypeOK => Counters
  BY TypeParts
<1> QED
  BY <1>1, <1>2, CostInit, CostStep, TypeCorrect, PTL DEF Spec
-----------------------------------------------------------------------------
(* What a check answers.                                                   *)

LEMMA ConclusiveKnown ==
    ASSUME NEW r \in Payloads, Conclusive(r)
    PROVE  [r EXCEPT !.ok = @ /\ r.failure = "none"] \in ClientReplies
<1> DEFINE e == [r EXCEPT !.ok = @ /\ r.failure = "none"]
<1>1. r \in CheckReplies
  BY DEF Payloads
<1>2. /\ e \in CheckReplies /\ e.failure = r.failure
      /\ e.sc = r.sc /\ e.prod = r.prod /\ e.scValue = r.scValue /\ e.prodValue = r.prodValue
  BY <1>1 DEF CheckReplies
<1>3. e.ok = (e.failure = "none")
  <2>1. r.failure = "none" => r.ok
    BY DEF Payloads
  <2>2. e.ok = (r.ok /\ r.failure = "none")
    BY <1>1 DEF CheckReplies
  <2> QED
    BY <1>2, <2>1, <2>2
<1>4. e.failure = ReviewFailure(e)
  <2> HIDE DEF e
  <2>1. r.failure = IF r.prod = "FAIL" THEN "prod_correlation"
                    ELSE IF r.sc = "FAIL" THEN "self_correlation"
                    ELSE IF "PENDING" \in {r.sc, r.prod} THEN "correlation_pending"
                    ELSE "none"
    BY DEF Payloads
  <2>2. ~({r.sc, r.prod} = {"MISSING"} /\ {r.scValue, r.prodValue} = {"none"})
    BY DEF Conclusive
  <2> QED
    BY <1>2, <2>1, <2>2 DEF ReviewFailure
<1> QED
  BY <1>2, <1>3, <1>4 DEF ClientReplies, ReviewReplies

\* What the last poll has left: nothing, or a payload that decides nothing.
Open(r) == r = NoPayload \/ (r \in Payloads /\ ~Conclusive(r))

LEMMA OpenKnown ==
    ASSUME NEW r, Open(r)
    PROVE  LET e == [r EXCEPT !.ok = FALSE,
                              !.failure = IF @ = "none" THEN "correlation_pending" ELSE @]
           IN  [e EXCEPT !.ok = @ /\ e.failure = "none"] \in ClientReplies
<1>1. CASE r = NoPayload
  BY <1>1 DEF NoPayload, TransportReply, ClientReplies, ReviewReplies, ReviewFailure,
              CheckReplies, CorrelationResults, CorrelationValues, ClientFailures
<1>2. CASE r \in Payloads /\ ~Conclusive(r)
  BY <1>2 DEF Payloads, Conclusive, ClientReplies, ReviewReplies, ReviewFailure, CheckReplies,
              CorrelationResults, CorrelationValues, ClientFailures
<1> QED
  BY <1>1, <1>2 DEF Open

LEMMA SubmitReplyKind ==
    \A code, ok, shown, failure, detail :
       SubmitReply(code, ok, shown, failure, detail).kind = "submit"
BY DEF SubmitReply

CheckInv == Open(payload) /\ CheckAnswersKnown

LEMMA CheckInit == Init => CheckInv
BY DEF Init, CheckInv, Open, CheckAnswersKnown, NoReply

LEMMA CheckStep == CheckInv /\ [Next]_vars => CheckInv'
<1> USE DEF CheckInv, loops, platform, history
<1>1. ASSUME CheckInv, CheckRead
      PROVE  CheckInv'
  <2>1. PICK r \in Payloads :
           IF Conclusive(r)
           THEN Answered([kind |-> "check", check |-> r]) /\ UNCHANGED <<polls, payload>>
           ELSE polls' = polls + 1 /\ payload' = r /\ UNCHANGED <<pc, reply>>
    BY <1>1 DEF CheckRead
  <2>2. CASE Conclusive(r)
    BY <1>1, <2>1, <2>2, ConclusiveKnown DEF Answered, CheckAnswersKnown
  <2>3. CASE ~Conclusive(r)
    BY <1>1, <2>1, <2>3 DEF Open, CheckAnswersKnown
  <2> QED
    BY <2>2, <2>3
<1>2. ASSUME CheckInv, CheckExpires
      PROVE  CheckInv'
  <2>1. reply' = [kind |-> "check",
                  check |-> [payload EXCEPT !.ok = FALSE,
                               !.failure = IF @ = "none" THEN "correlation_pending" ELSE @]]
    BY <1>2 DEF CheckExpires, Answered
  <2>2. payload' = payload
    BY <1>2 DEF CheckExpires
  <2> QED
    BY <1>2, <2>1, <2>2, OpenKnown DEF CheckAnswersKnown
<1>3. ASSUME CheckInv, CheckError
      PROVE  CheckInv'
  <2>1. reply'.check = TransportReply /\ payload' = payload
    BY <1>3 DEF CheckError, Answered
  <2>2. [TransportReply EXCEPT !.ok = @ /\ TransportReply.failure = "none"] = TransportReply
    <3>1. \A r \in CheckReplies : ~r.ok => [r EXCEPT !.ok = @ /\ r.failure = "none"] = r
      BY DEF CheckReplies
    <3>2. ~TransportReply.ok
      BY DEF TransportReply
    <3> QED
      BY <3>1, <3>2, CheckTypes
  <2>3. [reply'.check EXCEPT !.ok = @ /\ reply'.check.failure = "none"] \in ClientReplies
    BY <2>1, <2>2 DEF ClientReplies
  <2>4. Open(payload)'
    BY <1>3, <2>1
  <2> QED
    BY <2>3, <2>4 DEF CheckAnswersKnown
\* Every other step answers no check.
<1>4. ASSUME CheckInv, payload' = payload, reply' = reply \/ reply'.kind # "check"
      PROVE  CheckInv'
  BY <1>4 DEF CheckAnswersKnown
<1>5. AuthAnswer \/ CreateFails \/ CreateAccepted \/ FollowEnds \/ Raise
      => payload' = payload /\ (reply' = reply \/ reply'.kind # "check")
  BY DEF AuthAnswer, CreateFails, CreateAccepted, FollowEnds, Raise, Answered, Bool
<1>6. ASSUME PostGivenUp \/ PostForbidden \/ Exhausted
      PROVE  payload' = payload /\ reply'.kind # "check"
  <2>1. payload' = payload
    BY <1>6 DEF PostGivenUp, PostForbidden, Exhausted
  <2>2. CASE PostGivenUp
    BY <2>1, <2>2, SubmitReplyKind DEF PostGivenUp, Answered
  <2>3. CASE PostForbidden
    <3>1. \/ reply' = SubmitReply(403, FALSE, "UNSUBMITTED", "correlation", "refused")
          \/ reply' = SubmitReply(403, FALSE, "none", "none", "refused")
      BY <2>3, Zenon DEF PostForbidden, Answered
    <3>2. /\ SubmitReply(403, FALSE, "UNSUBMITTED", "correlation", "refused").kind = "submit"
          /\ SubmitReply(403, FALSE, "none", "none", "refused").kind = "submit"
      BY DEF SubmitReply
    <3> QED
      BY <2>1, <3>1, <3>2
  <2>4. CASE Exhausted
    <3>1. \/ reply' = SubmitReply(429, FALSE, "none", "rate_limited", "exhausted")
          \/ reply' = SubmitReply(200, FALSE, "none", "none", "exhausted")
      BY <2>4, Zenon DEF Exhausted, Answered
    <3>2. /\ SubmitReply(429, FALSE, "none", "rate_limited", "exhausted").kind = "submit"
          /\ SubmitReply(200, FALSE, "none", "none", "exhausted").kind = "submit"
      BY DEF SubmitReply
    <3> QED
      BY <2>1, <3>1, <3>2
  <2> QED
    BY <1>6, <2>2, <2>3, <2>4
<1>7. ASSUME PollActive \/ PollFailed \/ FetchOther
      PROVE  payload' = payload /\ reply'.kind # "check"
  <2>1. payload' = payload /\ \E code, ok, shown, failure, detail :
                                 reply' = SubmitReply(code, ok, shown, failure, detail)
    BY <1>7 DEF PollActive, PollFailed, FetchOther, Answered
  <2> QED
    BY <2>1, SubmitReplyKind
<1>8. AuthLimited \/ CreateAgain \/ FollowOn \/ CheckUnread \/ PostLost \/ PostLimited
      \/ PostUnexpected \/ PostAccepted => payload' = payload /\ reply' = reply
  BY DEF AuthLimited, CreateAgain, FollowOn, CheckUnread, PostLost, PostLimited, PostUnexpected,
         PostAccepted
<1>9. PollOn \/ PollExpires \/ FetchUnsubmitted \/ Arrives \/ Decides
      \/ (\E o \in Operations : Call(o)) \/ UNCHANGED vars => payload' = payload /\ reply' = reply
  BY DEF PollOn, PollExpires, FetchUnsubmitted, Arrives, Decides, Call, vars
<1> QED
  BY <1>1, <1>2, <1>3, <1>4, <1>5, <1>6, <1>7, <1>8, <1>9 DEF Next, Step

\* Whatever a check's polls saw and lost, the gate gets an answer it is checked
\* for, for any number of polls.
THEOREM CheckAnswers == Spec => []CheckAnswersKnown
<1>1. CheckInv => CheckAnswersKnown
  BY DEF CheckInv
<1> QED
  BY <1>1, CheckInit, CheckStep, PTL DEF Spec
-----------------------------------------------------------------------------
(* The contract.                                                           *)

\* Which call is open where, and what the platform's status says of its review.
RefInv ==
    /\ pc = "idle" => op = "none"
    /\ pc \in {"auth", "create", "follow", "check"} => op # "submit"
    /\ pc \in {"post", "poll", "fetch"} => op = "submit"
    /\ status = "OTHER" => reviewing
    /\ status = "ACTIVE" => ~reviewing

LEMMA RefInit == Init => RefInv
BY DEF Init, RefInv

\* A step of the call that leaves the platform alone.
Quietly ==
    /\ UNCHANGED <<op, status, reviewing>>
    /\ \/ pc' = pc
       \/ pc' = "done" /\ pc # "idle"
       \/ pc = "create" /\ pc' = "follow"
       \/ pc \in {"poll", "fetch"} /\ pc' \in {"fetch", "post"}

LEMMA RefInvStep == RefInv /\ [Next]_vars => RefInv'
<1> USE DEF RefInv, loops, platform, history
<1>1. ASSUME RefInv, NEW o \in Operations, Call(o)
      PROVE  RefInv'
  BY <1>1, OperationsAssumption DEF Call
<1>2. ASSUME RefInv, Quietly
      PROVE  RefInv'
  BY <1>2 DEF Quietly
<1>3. /\ AuthLimited \/ AuthAnswer \/ CheckError \/ CheckUnread \/ CheckExpires => Quietly
      /\ CheckRead => Quietly
      /\ CreateAgain \/ CreateFails \/ CreateAccepted \/ FollowOn \/ FollowEnds \/ Raise => Quietly
  <2>1. AuthLimited \/ AuthAnswer \/ CheckError \/ CheckUnread \/ CheckExpires => Quietly
    BY DEF AuthLimited, AuthAnswer, CheckError, CheckUnread, CheckExpires, Answered, Quietly
  <2>2. CheckRead => Quietly
    BY DEF CheckRead, Answered, Quietly
  <2>3. CreateAgain \/ CreateFails \/ CreateAccepted \/ FollowOn \/ FollowEnds \/ Raise => Quietly
    BY DEF CreateAgain, CreateFails, CreateAccepted, FollowOn, FollowEnds, Raise, Answered, Quietly
  <2> QED
    BY <2>1, <2>2, <2>3
<1>4. ASSUME RefInv, PostLost \/ PostForbidden \/ PostLimited \/ PostUnexpected \/ PostAccepted \/ PollOn
      PROVE  RefInv'
  <2>1. op' = op /\ status' = status /\ pc' \in {"post", "poll", "done"} /\ op = "submit"
    BY <1>4 DEF PostLost, PostForbidden, PostLimited, PostUnexpected, PostAccepted, PollOn, NextTry,
                Answered
  <2>2. reviewing => reviewing'
    BY <1>4 DEF PostLost, PostForbidden, PostLimited, PostUnexpected, PostAccepted, PollOn, Reaches
  <2>3. status = "ACTIVE" /\ ~reviewing => ~reviewing'
    BY <1>4 DEF PostLost, PostForbidden, PostLimited, PostUnexpected, PostAccepted, PollOn, Reaches
  <2> QED
    BY <1>4, <2>1, <2>2, <2>3
<1>5. PostGivenUp \/ Exhausted \/ PollActive \/ PollFailed \/ PollExpires \/ FetchUnsubmitted
      \/ FetchOther => Quietly
  BY DEF PostGivenUp, Exhausted, PollActive, PollFailed, PollExpires, FetchUnsubmitted,
         FetchOther, NextTry, Answered, Quietly
<1>6. ASSUME RefInv, Arrives
      PROVE  RefInv'
  BY <1>6 DEF Arrives
<1>7. ASSUME RefInv, Decides
      PROVE  RefInv'
  BY <1>7 DEF Decides
<1>8. UNCHANGED vars => Quietly
  BY DEF vars, Quietly
<1> QED
  BY <1>1, <1>2, <1>3, <1>4, <1>5, <1>6, <1>7, <1>8 DEF Next, Step

Stutters == CallOf' = CallOf /\ status' = status /\ Undecided' = Undecided

LEMMA UndecidedKept ==
    ASSUME UNCHANGED <<status, reviewing, inflight>>
    PROVE  Undecided' = Undecided
BY DEF Undecided

LEMMA CallSteps ==
    ASSUME RefInv, NEW o \in Operations, Call(o)
    PROVE  Contract!Open \/ Stutters
<1>1. op = "none" /\ op' = o /\ pc' # "done" /\ UNCHANGED <<status, reviewing, inflight>>
  BY OperationsAssumption DEF Call, RefInv, platform
<1>2. CASE o = "submit"
  BY <1>1, <1>2, UndecidedKept DEF Contract!Open, CallOf
<1>3. CASE o # "submit"
  BY <1>1, <1>3, UndecidedKept DEF Stutters, CallOf
<1> QED
  BY <1>2, <1>3

LEMMA OtherSteps ==
    ASSUME RefInv,
           \/ AuthLimited \/ AuthAnswer \/ CheckError \/ CheckUnread \/ CheckRead \/ CheckExpires
           \/ CreateAgain \/ CreateFails \/ CreateAccepted \/ FollowOn \/ FollowEnds
    PROVE  Stutters
<1>1. op' = op /\ op # "submit"
  BY DEF AuthLimited, AuthAnswer, CheckError, CheckUnread, CheckRead, CheckExpires,
         CreateAgain, CreateFails, CreateAccepted, FollowOn, FollowEnds, RefInv
<1>2. UNCHANGED <<status, reviewing, inflight>>
  BY DEF AuthLimited, AuthAnswer, CheckError, CheckUnread, CheckRead, CheckExpires,
         CreateAgain, CreateFails, CreateAccepted, FollowOn, FollowEnds, platform
<1> QED
  BY <1>1, <1>2, UndecidedKept DEF Stutters, CallOf

LEMMA PostSteps ==
    ASSUME RefInv, Flags,
           PostLost \/ PostLimited \/ PostUnexpected \/ PostAccepted \/ PollOn
    PROVE  Contract!Take \/ Stutters
<1>1. op = "submit" /\ op' = op /\ pc # "done" /\ pc' # "done" /\ status' = status
  BY DEF PostLost, PostLimited, PostUnexpected, PostAccepted, PollOn, NextTry, RefInv
<1>2. CallOf = "open" /\ CallOf' = "open"
  BY <1>1 DEF CallOf
<1>3. /\ (reviewing => reviewing') /\ (inflight => inflight')
      /\ status = "ACTIVE" /\ ~reviewing => ~reviewing'
  <2>1. reviewing => reviewing'
    BY DEF PostLost, PostLimited, PostUnexpected, PostAccepted, PollOn, Reaches
  <2>2. inflight => inflight'
    BY DEF PostLost, PostLimited, PostUnexpected, PostAccepted, PollOn
  <2>3. status = "ACTIVE" /\ ~reviewing => ~reviewing'
    BY DEF PostLost, PostLimited, PostUnexpected, PostAccepted, PollOn, Reaches
  <2> QED
    BY <2>1, <2>2, <2>3
<1>4. CASE status = "ACTIVE"
  BY <1>1, <1>2, <1>3, <1>4 DEF RefInv, Stutters, Undecided
<1>5. CASE status # "ACTIVE" /\ Undecided
  <2>1. Undecided' = TRUE /\ Undecided = TRUE
    BY <1>1, <1>3, <1>5 DEF Undecided
  <2> QED
    BY <1>1, <1>2, <2>1 DEF Stutters
<1>6. CASE status # "ACTIVE" /\ ~Undecided
  <2>1. Undecided = FALSE /\ (Undecided' = TRUE \/ Undecided' = FALSE)
    BY <1>6 DEF Undecided
  <2> QED
    BY <1>1, <1>2, <1>6, <2>1 DEF Stutters, Contract!Take
<1> QED
  BY <1>4, <1>5, <1>6

LEMMA AnswerSteps ==
    ASSUME RefInv, Flags,
           \/ PostGivenUp \/ PostForbidden \/ Exhausted \/ PollActive \/ PollFailed \/ FetchOther
           \/ Raise
    PROVE  Contract!Answer \/ Stutters
<1>1. op' = op /\ pc' = "done" /\ pc # "done" /\ status' = status
  BY DEF PostGivenUp, PostForbidden, Exhausted, PollActive, PollFailed, FetchOther, Raise, Answered,
         platform
<1>2. Undecided' = Undecided
  <2>1. CASE PostForbidden
    <3>1. (reviewing' <=> reviewing) /\ inflight' = inflight
      BY <2>1 DEF PostForbidden, Reaches
    <3> QED
      BY <1>1, <3>1 DEF Undecided
  <2>2. CASE ~PostForbidden
    BY <2>2, UndecidedKept
    DEF PostGivenUp, Exhausted, PollActive, PollFailed, FetchOther, Raise, platform
  <2> QED
    BY <2>1, <2>2
<1>3. CASE op # "submit"
  BY <1>1, <1>2, <1>3 DEF CallOf, Stutters
<1>4. CASE op = "submit"
  <2>1. Settled(reply') \in {"pending", "failed", "raised"}
        \/ (Settled(reply') = "active" /\ status = "ACTIVE")
    <3>1. CASE PollActive
      BY <3>1 DEF PollActive, Answered, Settled, SubmitReply
    <3>2. CASE PostGivenUp
      BY <3>2 DEF PostGivenUp, Answered, Settled, SubmitReply
    <3>3. CASE PostForbidden
      <4>1. \/ reply' = SubmitReply(403, FALSE, "UNSUBMITTED", "correlation", "refused")
            \/ reply' = SubmitReply(403, FALSE, "none", "none", "refused")
        BY <3>3, Zenon DEF PostForbidden, Answered
      <4> QED
        BY <4>1 DEF Settled, SubmitReply
    <3>4. CASE Exhausted
      <4>1. \/ reply' = SubmitReply(429, FALSE, "none", "rate_limited", "exhausted")
            \/ reply' = SubmitReply(200, FALSE, "none", "none", "exhausted")
        BY <3>4, Zenon DEF Exhausted, Answered
      <4> QED
        BY <4>1 DEF Settled, SubmitReply
    <3>5. CASE PollFailed
      BY <3>5 DEF PollFailed, Answered, Settled, SubmitReply
    <3>6. CASE FetchOther
      BY <3>6 DEF FetchOther, Answered, Settled, SubmitReply
    <3>7. CASE Raise
      BY <3>7 DEF Raise, Answered, Settled
    <3> QED
      BY <3>1, <3>2, <3>3, <3>4, <3>5, <3>6, <3>7
  <2>2. CallOf = "open" /\ CallOf' = Settled(reply')
    BY <1>1, <1>4 DEF CallOf, Settled
  <2> QED
    BY <1>1, <1>2, <2>1, <2>2 DEF Contract!Answer
<1> QED
  BY <1>3, <1>4

LEMMA PlatformSteps ==
    ASSUME RefInv, Flags, Values, Arrives \/ Decides
    PROVE  Contract!Decide \/ Stutters
<1>1. CallOf' = CallOf
  BY DEF Arrives, Decides, CallOf, Settled, loops
<1>2. Undecided \in BOOLEAN /\ Undecided' \in BOOLEAN
  BY DEF Undecided
<1>3. CASE Arrives
  <2>1. inflight /\ status' = status /\ ~inflight'
    BY <1>3 DEF Arrives
  <2>2. CASE status = "ACTIVE"
    <3>1. ~reviewing /\ ~reviewing'
      BY <1>3, <2>2 DEF Arrives, RefInv
    <3> QED
      BY <1>1, <2>1, <2>2, <3>1 DEF Undecided, Stutters
  <2>3. CASE status = "UNSUBMITTED"
    BY <1>1, <1>2, <2>1, <2>3 DEF Undecided, Contract!Decide
  <2>4. CASE status = "OTHER"
    <3>1. reviewing /\ reviewing'
      BY <1>3, <2>4 DEF Arrives, RefInv
    <3> QED
      BY <1>1, <2>1, <2>4, <3>1 DEF Undecided, Stutters
  <2> QED
    BY <2>2, <2>3, <2>4 DEF Values
<1>4. CASE Decides
  <2>1. reviewing /\ inflight' = inflight
    BY <1>4 DEF Decides
  <2>2. CASE status' = "ACTIVE" /\ ~reviewing'
    BY <1>1, <2>1, <2>2 DEF Undecided, Contract!Decide
  <2>3. CASE status' = "UNSUBMITTED"
    BY <1>1, <1>2, <2>1, <2>3 DEF Undecided, Contract!Decide
  <2>4. CASE status = "UNSUBMITTED" /\ status' = "OTHER" /\ reviewing' = reviewing
    BY <1>1, <2>1, <2>4 DEF Undecided, Contract!Decide
  <2> QED
    BY <1>4, <2>2, <2>3, <2>4 DEF Decides
<1> QED
  BY <1>3, <1>4

LEMMA QuietSteps ==
    ASSUME RefInv, PollExpires \/ FetchUnsubmitted \/ UNCHANGED vars
    PROVE  Stutters
<1>1. CASE PollExpires \/ FetchUnsubmitted
  <2>1. op' = op /\ pc # "done" /\ pc' # "done" /\ UNCHANGED <<status, reviewing, inflight>>
    BY <1>1 DEF PollExpires, FetchUnsubmitted, NextTry, platform
  <2> QED
    BY <2>1, UndecidedKept DEF Stutters, CallOf
<1>2. CASE UNCHANGED vars
  <2>1. UNCHANGED <<op, pc, reply, status, reviewing, inflight>>
    BY <1>2 DEF vars, platform
  <2> QED
    BY <2>1 DEF Stutters, CallOf, Settled, Undecided
<1> QED
  BY <1>1, <1>2

\* submit_alpha is the submit the engine relies on, for any numbers of tries and
\* polls: whatever it retries happens within the open call, and it answers ACTIVE
\* only of an alpha that is.
THEOREM Implements == Spec => SubmitsAsAssumed
<1>1. Init => Contract!Init
  BY DEF Init, Contract!Init, CallOf, Undecided
<1>2. TypeOK /\ RefInv /\ [Next]_vars => [Contract!Next]_<<CallOf, status, Undecided>>
  <2> SUFFICES ASSUME TypeOK, RefInv, [Next]_vars
               PROVE  Contract!Next \/ Stutters
    BY DEF Stutters
  <2>1. Flags /\ Values
    BY TypeParts
  <2>2. CASE (\E o \in Operations : Call(o)) \/ UNCHANGED vars
    BY <2>2, CallSteps, QuietSteps DEF Contract!Next
  <2>3. CASE Step \/ Raise
    BY <2>1, <2>3, OtherSteps, PostSteps, AnswerSteps, QuietSteps DEF Step, Contract!Next
  <2>4. CASE Arrives \/ Decides
    BY <2>1, <2>4, PlatformSteps DEF Contract!Next
  <2> QED
    BY <2>2, <2>3, <2>4 DEF Next
<1> QED
  BY <1>1, <1>2, RefInit, RefInvStep, TypeCorrect, PTL DEF Spec, SubmitsAsAssumed, Contract!Spec
-----------------------------------------------------------------------------
(* What the gate decides of an answer.                                     *)

\* An answer with ok as the gate reads it, and what the gate does not read of it.
Read(r) == [r EXCEPT !.ok = @ /\ r.failure = "none"]

LEMMA ReadFields ==
    ASSUME NEW r \in CheckReplies
    PROVE  /\ Read(r).ok = (r.ok /\ r.failure = "none")
           /\ Read(r).failure = r.failure /\ Read(r).platformFail = r.platformFail
           /\ Read(r).sc = r.sc /\ Read(r).scValue = r.scValue
           /\ Read(r).prod = r.prod /\ Read(r).prodValue = r.prodValue
BY DEF Read, CheckReplies

LEMMA RowFields ==
    ASSUME NEW r
    PROVE  /\ CheckRecord(r).api = ApiCheckStatus(r)
           /\ CheckRecord(r).failure = r.failure
           /\ CheckRecord(r).platformFail = r.platformFail
           /\ CheckRecord(r).sc = r.sc /\ CheckRecord(r).scValue = r.scValue
           /\ CheckRecord(r).prod = r.prod /\ CheckRecord(r).prodValue = r.prodValue
BY DEF CheckRecord

\* A checked answer is a known one in what the gate reads.
LEMMA AnswerKnown ==
    ASSUME TypeOK, CheckAnswersKnown, Checked
    PROVE  reply.check \in CheckReplies /\ Read(reply.check) \in ClientReplies
<1>1. reply \in Replies /\ reply.kind = "check"
  BY DEF TypeOK, Checked
<1>2. \A s \in SubmitReplies : s.kind = "submit"
  BY DEF SubmitReplies
<1>3. \A s \in [kind : {"authenticate", "simulate"}, ok : BOOLEAN] : s.kind # "check"
  OBVIOUS
<1>4. \A s \in {NoReply, [kind |-> "raised"]} : s.kind # "check"
  BY DEF NoReply
<1>5. reply \in [kind : {"check"}, check : CheckReplies]
  BY <1>1, <1>2, <1>3, <1>4 DEF Replies
<1>6. reply.check \in CheckReplies
  BY <1>5
<1> QED
  BY <1>1, <1>6 DEF CheckAnswersKnown, Read

\* The failure of a known answer is that of its reviews, unless there were none.
Reviewed(r)   == r.failure = ReviewFailure(r) /\ (r.failure = "none" => r.ok)
Unreviewed(r) ==
    /\ r.failure = "none" /\ ~r.ok /\ ~r.platformFail
    /\ r.sc = "MISSING" /\ r.scValue = "none" /\ r.prod = "MISSING" /\ r.prodValue = "none"

LEMMA KnownFailure ==
    ASSUME NEW r \in CheckReplies, Read(r) \in ClientReplies
    PROVE  Reviewed(r) \/ Unreviewed(r)
<1>1. CASE Read(r) \in ReviewReplies
  <2>1. Read(r).failure = ReviewFailure(Read(r)) /\ Read(r).ok = (Read(r).failure = "none")
    BY <1>1 DEF ReviewReplies
  <2>2. ReviewFailure(Read(r)) = ReviewFailure(r)
    BY ReadFields DEF ReviewFailure
  <2> QED
    BY <2>1, <2>2, ReadFields, Zenon DEF Reviewed
<1>2. CASE Read(r) = TransportReply
  <2>1. /\ r.failure = "none" /\ r.sc = "MISSING" /\ r.scValue = "none"
        /\ r.prod = "MISSING" /\ r.prodValue = "none"
    BY <1>2, ReadFields DEF TransportReply
  <2>2. ~r.platformFail
    BY <1>2, ReadFields DEF TransportReply
  <2>3. ~(r.ok /\ r.failure = "none")
    <3>1. Read(r).ok = FALSE
      BY <1>2 DEF TransportReply
    <3> QED
      BY <3>1, ReadFields, Zenon
  <2> QED
    BY <2>1, <2>2, <2>3 DEF Unreviewed
<1> QED
  BY <1>1, <1>2 DEF ClientReplies

\* What a check that passes the gate says ...
LEMMA ReadyMeans ==
    ASSUME NEW r \in CheckReplies, Ready(CheckRecord(r))
    PROVE  ~r.platformFail /\ r.sc = "PASS" /\ r.scValue # "high" /\ r.prod \notin {"FAIL", "PENDING"}
<1>1. /\ ~r.platformFail /\ SelfVerdict(CheckRecord(r)) = "ready"
      /\ ProdVerdict(CheckRecord(r)) = "ready"
  BY RowFields DEF Ready, GateReason
<1> QED
  BY <1>1, RowFields DEF SelfVerdict, ProdVerdict

\* ... and whichever says so passes: the client has no failure to report of it.
LEMMA MeansReady ==
    ASSUME NEW r \in CheckReplies, Read(r) \in ClientReplies,
           ~r.platformFail, r.sc = "PASS", r.scValue # "high", r.prod \notin {"FAIL", "PENDING"}
    PROVE  Ready(CheckRecord(r))
<1>1. Reviewed(r)
  BY KnownFailure DEF Unreviewed
<1>2. r.failure = "none" /\ r.ok
  BY <1>1 DEF Reviewed, ReviewFailure
<1>3. ApiCheckStatus(r) = "api_check_readable"
  BY <1>2 DEF ApiCheckStatus
<1>4. SelfVerdict(CheckRecord(r)) = "ready" /\ ProdVerdict(CheckRecord(r)) = "ready"
  BY RowFields DEF SelfVerdict, ProdVerdict
<1> QED
  BY <1>3, <1>4, RowFields DEF Ready, GateReason

\* The checks that pass are those the documentation lets pass and those of a self pass
\* without a value, for any number of polls: the gate is wider than its documentation
\* by exactly these, and narrower nowhere.
THEOREM Gate == Spec => []GateExact
<1>1. TypeOK /\ CheckAnswersKnown => GateExact
  <2> SUFFICES ASSUME TypeOK, CheckAnswersKnown, Checked
               PROVE  Ready(Row) <=> Documented(reply.check) \/ PassWithoutValue(reply.check)
    BY DEF GateExact
  <2>1. PICK r : r = reply.check
    OBVIOUS
  <2>2. r \in CheckReplies /\ Read(r) \in ClientReplies
    BY <2>1, AnswerKnown
  <2>3. Documented(r) \/ PassWithoutValue(r)
          <=> /\ ~r.platformFail /\ r.sc = "PASS" /\ r.scValue # "high"
              /\ r.prod \notin {"FAIL", "PENDING"}
    BY <2>2 DEF Documented, PassWithoutValue, CheckReplies, CorrelationValues
  <2> QED
    BY <2>1, <2>2, <2>3, ReadyMeans, MeansReady DEF Row
<1> QED
  BY <1>1, TypeCorrect, CheckAnswers, PTL

\* A refusal for a failed review is stored as that ...
LEMMA FailedIsFinal ==
    ASSUME TypeOK, CheckAnswersKnown, Checked, "FAIL" \in {reply.check.sc, reply.check.prod}
    PROVE  ~Recheckable(StoredFailureKind(Row))
<1> DEFINE r == reply.check
<1>1. r \in CheckReplies /\ Read(r) \in ClientReplies
  BY AnswerKnown
<1>2. r.failure \in {"prod_correlation", "self_correlation"}
  BY <1>1, KnownFailure DEF Reviewed, Unreviewed, ReviewFailure
<1> QED
  BY <1>2, RowFields DEF StoredFailureKind, Row, Recheckable, RETRIABLE_CHECK_FAILURES

\* ... and one for want of an answer as what a later execution checks again.
LEMMA UnansweredIsOpen ==
    ASSUME TypeOK, CheckAnswersKnown, Checked, ~Ready(Row),
           ~reply.check.platformFail, reply.check.scValue # "high",
           "FAIL" \notin {reply.check.sc, reply.check.prod}
    PROVE  Recheckable(StoredFailureKind(Row))
<1> DEFINE r == reply.check
<1>1. r \in CheckReplies /\ Read(r) \in ClientReplies
  BY AnswerKnown
<1>2. r.failure \in {"none", "correlation_pending"}
  BY <1>1, KnownFailure DEF Reviewed, Unreviewed, ReviewFailure
<1>3. CASE r.failure = "correlation_pending"
  BY <1>3, RowFields DEF StoredFailureKind, Row, Recheckable, RETRIABLE_CHECK_FAILURES
<1>4. CASE r.failure = "none"
  <2>1. GateReason(Row) \in {"correlation_pending", "correlation_check_error", "correlation_missing"}
    <3>1. SelfVerdict(Row) \in {"ready", "correlation_pending", "correlation_missing"}
      BY <1>1, RowFields DEF SelfVerdict, Row
    <3>2. ProdVerdict(Row) \in {"ready", "correlation_pending"}
      BY <1>1, RowFields DEF ProdVerdict, Row
    <3> QED
      BY <3>1, <3>2, RowFields DEF GateReason, Row, Ready
  <2> QED
    BY <1>4, <2>1, RowFields DEF StoredFailureKind, Row, Recheckable, RETRIABLE_CHECK_FAILURES
<1> QED
  BY <1>2, <1>3, <1>4

\* For any number of polls, a refused check is made again exactly for want of an answer.
THEOREM Refusals == Spec => []RecheckedIfUnanswered
<1>1. TypeOK /\ CheckAnswersKnown => RecheckedIfUnanswered
  BY FailedIsFinal, UnansweredIsOpen DEF RecheckedIfUnanswered
<1> QED
  BY <1>1, TypeCorrect, CheckAnswers, PTL


\* What the fingerprint holds, and what it determines.
LEMMA FingerprintFields ==
    ASSUME NEW a, NEW b, Fingerprint(CheckRecord(a)) = Fingerprint(CheckRecord(b))
    PROVE  /\ ApiCheckStatus(a) = ApiCheckStatus(b)
           /\ a.sc = b.sc /\ a.scValue = b.scValue /\ a.prod = b.prod /\ a.prodValue = b.prodValue
BY RowFields DEF Fingerprint

\* The check status of an answer, by its parts.
LEMMA StatusMeans ==
    ASSUME NEW r \in CheckReplies
    PROVE  /\ r.platformFail <=> ApiCheckStatus(r) = "platform_check_fail"
           /\ ~r.platformFail /\ r.failure = "none" /\ r.ok => ApiCheckStatus(r) = "api_check_readable"
           /\ ~r.platformFail /\ r.failure = "none" /\ ~r.ok => ApiCheckStatus(r) = "api_check_error"
           /\ ~r.platformFail /\ r.failure = "self_correlation" => ApiCheckStatus(r) = "self_correlation_fail"
           /\ ~r.platformFail /\ r.failure = "prod_correlation" => ApiCheckStatus(r) = "prod_correlation_fail"
           /\ ~r.platformFail /\ r.failure = "correlation_pending" => ApiCheckStatus(r) = "api_check_pending"
<1>1. r.platformFail \in BOOLEAN /\ r.failure \in ClientFailures /\ r.ok \in BOOLEAN
  BY DEF CheckReplies
<1>2. CASE r.platformFail
  BY <1>2 DEF ApiCheckStatus
<1>3. CASE ~r.platformFail /\ r.failure = "none"
  BY <1>1, <1>3 DEF ApiCheckStatus
<1>4. CASE ~r.platformFail /\ r.failure = "self_correlation"
  BY <1>4 DEF ApiCheckStatus
<1>5. CASE ~r.platformFail /\ r.failure = "prod_correlation"
  BY <1>5 DEF ApiCheckStatus
<1>6. CASE ~r.platformFail /\ r.failure = "correlation_pending"
  BY <1>6 DEF ApiCheckStatus
<1> QED
  BY <1>1, <1>2, <1>3, <1>4, <1>5, <1>6 DEF ClientFailures

LEMMA EarlierKnown ==
    ASSUME NEW r \in ClientReplies
    PROVE  r \in CheckReplies /\ (Reviewed(r) \/ Unreviewed(r))
<1>1. CASE r \in ReviewReplies
  BY <1>1 DEF ReviewReplies, Reviewed
<1>2. CASE r = TransportReply
  <2>1. r \in CheckReplies
    BY <1>2 DEF TransportReply, CheckReplies, ClientFailures, CorrelationResults, CorrelationValues
  <2>2. Unreviewed(r)
    BY <1>2 DEF TransportReply, Unreviewed
  <2> QED
    BY <2>1, <2>2
<1> QED
  BY <1>1, <1>2 DEF ClientReplies

\* Of two known answers with one fingerprint, either none or both were reviewed ...
LEMMA BothUnreviewed ==
    ASSUME NEW a \in CheckReplies, NEW b \in CheckReplies, Unreviewed(a), Reviewed(b),
           ApiCheckStatus(a) = ApiCheckStatus(b)
    PROVE  b.failure = a.failure /\ ~b.platformFail
<1>1. ApiCheckStatus(b) = "api_check_error"
  BY StatusMeans DEF Unreviewed
<1>2. ~b.platformFail
  BY <1>1, StatusMeans
<1>3. b.failure \in ClientFailures
  BY DEF CheckReplies
<1>4. b.failure = "none"
  BY <1>1, <1>2, <1>3, StatusMeans DEF ClientFailures
<1> QED
  BY <1>2, <1>4 DEF Unreviewed

\* ... and their failures are the same.
LEMMA SameFailure ==
    ASSUME NEW a \in CheckReplies, NEW b \in CheckReplies,
           Reviewed(a) \/ Unreviewed(a), Reviewed(b) \/ Unreviewed(b),
           Fingerprint(CheckRecord(a)) = Fingerprint(CheckRecord(b))
    PROVE  a.failure = b.failure
<1>1. /\ ApiCheckStatus(a) = ApiCheckStatus(b)
      /\ a.sc = b.sc /\ a.scValue = b.scValue /\ a.prod = b.prod /\ a.prodValue = b.prodValue
  BY FingerprintFields
<1>2. CASE Reviewed(a) /\ Reviewed(b)
  <2>1. ReviewFailure(a) = ReviewFailure(b)
    BY <1>1 DEF ReviewFailure
  <2> QED
    BY <1>2, <2>1 DEF Reviewed
<1>3. CASE Unreviewed(a) /\ Unreviewed(b)
  BY <1>3 DEF Unreviewed
<1>4. CASE Unreviewed(a) /\ Reviewed(b)
  BY <1>1, <1>4, BothUnreviewed
<1>5. CASE Reviewed(a) /\ Unreviewed(b)
  BY <1>1, <1>5, BothUnreviewed
<1> QED
  BY <1>2, <1>3, <1>4, <1>5

LEMMA SameVerdict ==
    ASSUME NEW a \in CheckReplies, NEW b \in CheckReplies,
           Reviewed(a) \/ Unreviewed(a), Reviewed(b) \/ Unreviewed(b),
           Fingerprint(CheckRecord(a)) = Fingerprint(CheckRecord(b))
    PROVE  /\ GateReason(CheckRecord(a)) = GateReason(CheckRecord(b))
           /\ StoredFailureKind(CheckRecord(a)) = StoredFailureKind(CheckRecord(b))
<1>1. /\ ApiCheckStatus(a) = ApiCheckStatus(b)
      /\ a.sc = b.sc /\ a.scValue = b.scValue /\ a.prod = b.prod
  BY FingerprintFields
<1>2. /\ SelfVerdict(CheckRecord(a)) = SelfVerdict(CheckRecord(b))
      /\ ProdVerdict(CheckRecord(a)) = ProdVerdict(CheckRecord(b))
  BY <1>1, RowFields DEF SelfVerdict, ProdVerdict
<1>3. CASE ApiCheckStatus(a) = "platform_check_fail"
  <2>1. a.platformFail /\ b.platformFail
    BY <1>1, <1>3, StatusMeans, Zenon
  <2>2. GateReason(CheckRecord(a)) = "platform_check_fail" /\ GateReason(CheckRecord(b)) = "platform_check_fail"
    BY <2>1, RowFields DEF GateReason
  <2> QED
    BY <2>2, SameFailure, RowFields DEF StoredFailureKind
<1>4. CASE ApiCheckStatus(a) # "platform_check_fail"
  <2>1. ~a.platformFail /\ ~b.platformFail
    BY <1>1, <1>4, StatusMeans, Zenon
  <2>2. GateReason(CheckRecord(a)) = GateReason(CheckRecord(b))
    BY <1>1, <1>2, <2>1, RowFields DEF GateReason
  <2> QED
    BY <2>2, SameFailure, RowFields DEF StoredFailureKind
<1> QED
  BY <1>3, <1>4

\* For any number of polls, answers with one fingerprint are one verdict: the event
\* log loses nothing by taking them for one event.
THEOREM Fingerprints == Spec => []FingerprintDecides
<1>1. ASSUME TypeOK, CheckAnswersKnown, Checked, NEW earlier \in ClientReplies,
             Fingerprint(CheckRecord(earlier)) = Fingerprint(Row)
      PROVE  /\ GateReason(CheckRecord(earlier)) = GateReason(Row)
             /\ StoredFailureKind(CheckRecord(earlier)) = StoredFailureKind(Row)
  BY <1>1, AnswerKnown, KnownFailure, EarlierKnown, SameVerdict DEF Row
<1>2. TypeOK /\ CheckAnswersKnown => FingerprintDecides
  BY <1>1 DEF FingerprintDecides
<1> QED
  BY <1>2, TypeCorrect, CheckAnswers, PTL
=============================================================================
