---------------------------- MODULE WQAgentEngine ----------------------------
(***************************************************************************)
(* ExecutionEngine.execute on one attempt: a worker reads the attempt's    *)
(* events, returns at once when they are terminal, reconciles an earlier   *)
(* submission with the platform, and otherwise validates, simulates,       *)
(* checks and submits, appending an event around every side effect.        *)
(*                                                                         *)
(* The log is the AgentRepository port: append ignores an event whose      *)
(* identity (attempt, type, key) is there already.  A worker is one        *)
(* execution at a time; a crash drops everything but the log, and so does  *)
(* an exception raised by the gateway or the repository.                   *)
(***************************************************************************)
EXTENDS Integers, Sequences, FiniteSets, WQCorrelationGate

CONSTANTS
    Workers,            \* processes executing the attempt
    MaxSubmitRetries,   \* ExecutionPolicy.max_submit_retries
    SubmitModes,        \* the values of ExecutionPolicy.submit_enabled in use
    Checks,             \* the answers of PlatformGateway.check considered
    MaxCrashes,         \* bound: crashes in a behaviour
    MaxChecks           \* bound: check_started events of the attempt

ASSUME WorkersAssumption == IsFiniteSet(Workers)
ASSUME RetriesAssumption == MaxSubmitRetries \in Int
ASSUME ModesAssumption == SubmitModes \subseteq BOOLEAN
ASSUME ChecksAssumption == Checks \subseteq ClientReplies
ASSUME BoundsAssumption == MaxCrashes \in Nat /\ MaxChecks \in Nat

VARIABLES
    log,          \* events of the attempt, in the order they were appended
    pc,           \* where each worker is; "idle" between executions
    seen,         \* how much of the log the worker read when it began
    enabled,      \* its policy's submit_enabled
    sim,          \* its simulation row
    result,       \* the status its last finished execution returned
    status,       \* platform: the alpha's status
    reviewing,    \* platform: an accepted submission awaits its outcome
    submits,      \* history: calls of gateway.submit
    late,         \* history: those made when the alpha was ACTIVE already
    unsettled,    \* history: no UNSUBMITTED status was read since the last of them
    simulations,  \* history: calls of gateway.simulate
    crashes

locals   == <<pc, seen, enabled, sim, result>>
platform == <<status, reviewing>>
history  == <<submits, late, unsettled, simulations>>
vars     == <<log, locals, platform, history, crashes>>

EventTypes ==
    {"candidate_created", "validation_passed", "validation_rejected",
     "simulation_started", "simulation_succeeded", "simulation_failed",
     "check_started", "check_succeeded", "check_blocked", "ready",
     "submit_started", "submit_succeeded", "submit_failed",
     "submission_pending", "active_confirmed"}

CheckTypes  == {"check_succeeded", "check_blocked"}
SubmitTypes == {"submit_started", "submit_failed", "submission_pending"}
ActiveTypes == {"submit_succeeded", "active_confirmed"}

\* What simulate yields: no alpha; an alpha _should_check refuses; one it lets through.
SimulationRows == {"failed", "uncheckable", "checkable"}

SubmitAttempts == 1 + (IF MaxSubmitRetries > 0 THEN MaxSubmitRetries ELSE 0)

Steps == {"idle", "reconcile", "create", "validate", "sim_start", "simulate",
          "sim_record", "sim_gate", "check_start", "check", "passed", "post", "reply"}

Statuses == {"none", "ACTIVE", "VALIDATION_FAILED", "SIMULATION_FAILED", "BLOCKED",
             "READY", "CHECK_PENDING", "SUBMISSION_PENDING", "SUBMIT_FAILED"}

-----------------------------------------------------------------------------
(* Reading the log.  The worker reads it once, as a prefix of length n.    *)

Of(n, types)   == {i \in 1..n : log[i].type \in types}
Occurs(n, type) == Of(n, {type}) # {}
Count(n, type) == Cardinality(Of(n, {type}))

\* _latest_event: i is the last event of one of these types.
IsLatest(i, n, types) == i \in Of(n, types) /\ \A j \in Of(n, types) : j <= i

\* The last check of the prefix was refused, for a reason that is not retriable.
HardBlocked(n) ==
    \E i \in 1..n :
        /\ IsLatest(i, n, CheckTypes)
        /\ log[i].type = "check_blocked" /\ ~Recheckable(log[i].kind)

Submitted_Answered(n) ==   \* mutant: a submission without an outcome is no submission
    Of(n, {"submit_failed", "submission_pending"}) # {}
Submitted(n) == Of(n, SubmitTypes) # {}

\* _submit_failure_retriable, on the class of the stored status code.
RefusedSubmission(n) ==
    \E i \in 1..n :
        /\ IsLatest(i, n, SubmitTypes)
        /\ log[i].type = "submit_failed" /\ log[i].kind = "settled"

\* _resume_terminal up to its status call: the status it returns at once,
\* "reconcile" when the platform must be asked, "run" when nothing is terminal.
Resume(n, submitEnabled) ==
    IF Of(n, ActiveTypes) # {} THEN "ACTIVE"
    ELSE IF Occurs(n, "validation_rejected") THEN "VALIDATION_FAILED"
    ELSE IF Occurs(n, "simulation_failed") THEN "SIMULATION_FAILED"
    ELSE IF HardBlocked(n) THEN "BLOCKED"
    ELSE IF Occurs(n, "ready") /\ ~submitEnabled THEN "READY"
    ELSE IF ~Submitted(n) THEN "run"
    ELSE IF RefusedSubmission(n) THEN "SUBMIT_FAILED"
    ELSE "reconcile"

-----------------------------------------------------------------------------
(* Writing it.  key is what follows the attempt and the type in the event  *)
(* key; kind is what a later execution reads back from the record: the     *)
(* failure kind of a check, whether a submission's status code class is    *)
(* "retriable" or "settled", the simulation row.                           *)

Once   == <<"once", 0>>
Try(k) == <<"try", k>>

Recorded(type, key) == \E i \in 1..Len(log) : log[i].type = type /\ log[i].key = key

Emit(type, key, kind) ==
    log' = IF Recorded(type, key) THEN log
           ELSE Append(log, [type |-> type, key |-> key, kind |-> kind])

Goto(w, step) == pc' = [pc EXCEPT ![w] = step]

\* The execution is over: its local variables are gone.
Leave(w) ==
    /\ Goto(w, "idle")
    /\ seen' = [seen EXCEPT ![w] = 0]
    /\ enabled' = [enabled EXCEPT ![w] = FALSE]
    /\ sim' = [sim EXCEPT ![w] = "none"]

Return(w, value) ==
    /\ Leave(w)
    /\ result' = [result EXCEPT ![w] = value]

ThisCheck(w) == Count(seen[w], "check_started") + 1
ThisSubmit_Fresh(w) == Count(Len(log), "submit_started") + 1  \* mutant: not the log it read
ThisSubmit(w) == Count(seen[w], "submit_started") + 1

-----------------------------------------------------------------------------
Init ==
    /\ log = <<>>
    /\ pc = [w \in Workers |-> "idle"]
    /\ seen = [w \in Workers |-> 0]
    /\ enabled = [w \in Workers |-> FALSE]
    /\ sim = [w \in Workers |-> "none"]
    /\ result = [w \in Workers |-> "none"]
    /\ status = "UNSUBMITTED" /\ reviewing = FALSE
    /\ submits = 0 /\ late = 0 /\ unsettled = FALSE /\ simulations = 0
    /\ crashes = 0

\* execute begins: read the events, and return what they already decide.
Begin(w, e) ==
    LET n == Len(log) IN
    /\ pc[w] = "idle"
    /\ \/ /\ Resume(n, e) \in {"reconcile", "run"}
          /\ Goto(w, IF Resume(n, e) = "run" THEN "create" ELSE "reconcile")
          /\ seen' = [seen EXCEPT ![w] = n]
          /\ enabled' = [enabled EXCEPT ![w] = e]
          /\ UNCHANGED <<sim, result>>
       \/ /\ Resume(n, e) \notin {"reconcile", "run"}
          /\ Return(w, Resume(n, e))
    /\ UNCHANGED <<log, platform, history, crashes>>

\* The rest of _resume_terminal, for each answer of gateway.status.
ReconcileUnknown(w) ==
    /\ pc[w] = "reconcile"
    /\ Return(w, "SUBMISSION_PENDING")
    /\ UNCHANGED <<log, platform, history, crashes>>

ReconcileActive_Silent(w) ==   \* mutant: the discovery is not recorded
    /\ pc[w] = "reconcile" /\ status = "ACTIVE"
    /\ Return(w, "ACTIVE")
    /\ UNCHANGED <<log, platform, history, crashes>>

ReconcileActive(w) ==
    /\ pc[w] = "reconcile" /\ status = "ACTIVE"
    /\ Emit("active_confirmed", Once, "none")
    /\ Return(w, "ACTIVE")
    /\ UNCHANGED <<platform, history, crashes>>

ReconcileOther(w) ==
    /\ pc[w] = "reconcile" /\ status = "OTHER"
    /\ Emit("submission_pending", Once, "retriable")
    /\ Return(w, "SUBMISSION_PENDING")
    /\ UNCHANGED <<platform, history, crashes>>

\* UNSUBMITTED with the budget spent.  The failure keeps the status code of the
\* record it replaces, so whether it is final depends on that record.
ReconcileExhausted(w) ==
    /\ pc[w] = "reconcile" /\ status = "UNSUBMITTED"
    /\ Count(seen[w], "submit_started") >= SubmitAttempts
    /\ \E i \in 1..seen[w] :
         /\ IsLatest(i, seen[w], SubmitTypes)
         /\ Emit("submit_failed", <<"exhausted", 0>>, log[i].kind)
    /\ Return(w, "SUBMIT_FAILED")
    /\ unsettled' = FALSE
    /\ UNCHANGED <<platform, submits, late, simulations, crashes>>

ReconcileRetry_AnyStatus(w) ==   \* mutant: any answer of the platform allows a retry
    /\ pc[w] = "reconcile"
    /\ Count(seen[w], "submit_started") < SubmitAttempts
    /\ Goto(w, "create")
    /\ unsettled' = FALSE
    /\ UNCHANGED <<log, seen, enabled, sim, result, platform, submits, late, simulations, crashes>>

\* UNSUBMITTED with budget left: the execution goes on from the start, and what it
\* read of the status is not read again before it submits.
ReconcileRetry(w) ==
    /\ pc[w] = "reconcile" /\ status = "UNSUBMITTED"
    /\ Count(seen[w], "submit_started") < SubmitAttempts
    /\ Goto(w, "create")
    /\ unsettled' = FALSE
    /\ UNCHANGED <<log, seen, enabled, sim, result, platform, submits, late, simulations, crashes>>

-----------------------------------------------------------------------------
\* Where execute goes once the expression is valid: a recorded simulation is reused.
AfterValidation_Anew(w) ==   \* mutant: no simulation is reused
    Goto(w, "sim_start") /\ UNCHANGED sim
AfterValidation(w) ==
    IF Occurs(seen[w], "simulation_succeeded")
    THEN /\ Goto(w, "sim_gate")
         /\ \E i \in 1..seen[w] :
              /\ IsLatest(i, seen[w], {"simulation_succeeded"})
              /\ sim' = [sim EXCEPT ![w] = log[i].kind]
    ELSE Goto(w, "sim_start") /\ UNCHANGED sim

CreateCandidate(w) ==
    /\ pc[w] = "create"
    /\ Emit("candidate_created", Once, "none")
    /\ IF Occurs(seen[w], "validation_passed")
       THEN AfterValidation(w)
       ELSE Goto(w, "validate") /\ UNCHANGED sim
    /\ UNCHANGED <<seen, enabled, result, platform, history, crashes>>

ValidationPasses(w) ==
    /\ pc[w] = "validate"
    /\ Emit("validation_passed", Once, "none")
    /\ AfterValidation(w)
    /\ UNCHANGED <<seen, enabled, result, platform, history, crashes>>

ValidationRejects(w) ==
    /\ pc[w] = "validate"
    /\ Emit("validation_rejected", Once, "none")
    /\ Return(w, "VALIDATION_FAILED")
    /\ UNCHANGED <<platform, history, crashes>>

StartSimulation(w) ==
    /\ pc[w] = "sim_start"
    /\ Emit("simulation_started", Once, "none")
    /\ Goto(w, "simulate")
    /\ UNCHANGED <<seen, enabled, sim, result, platform, history, crashes>>

Simulate(w) ==
    /\ pc[w] = "simulate"
    /\ simulations' = simulations + 1
    /\ \E row \in SimulationRows : sim' = [sim EXCEPT ![w] = row]
    /\ Goto(w, "sim_record")
    /\ UNCHANGED <<log, seen, enabled, result, platform, submits, late, unsettled, crashes>>

RecordSimulation(w) ==
    /\ pc[w] = "sim_record"
    /\ IF sim[w] = "failed"
       THEN /\ Emit("simulation_failed", Once, "none")
            /\ Return(w, "SIMULATION_FAILED")
       ELSE /\ Emit("simulation_succeeded", Once, sim[w])
            /\ Goto(w, "sim_gate") /\ UNCHANGED <<seen, enabled, sim, result>>
    /\ UNCHANGED <<platform, history, crashes>>

-----------------------------------------------------------------------------
SimulationBlocks(w) ==
    /\ pc[w] = "sim_gate" /\ sim[w] # "checkable"
    /\ Emit("check_blocked", Once, "simulation_gate")
    /\ Return(w, "BLOCKED")
    /\ UNCHANGED <<platform, history, crashes>>

\* A check that passed is reused, but never when a submission is being retried.
CheckCached_Any(n) ==   \* mutant: a refused check is reused too
    ~Submitted(n) /\ Of(n, CheckTypes) # {}
CheckCached_Retry(n) ==   \* mutant: a passing check serves the retry as well
    \E i \in 1..n : IsLatest(i, n, CheckTypes) /\ log[i].type = "check_succeeded"
CheckCached(n) ==
    /\ ~Submitted(n)
    /\ \E i \in 1..n : IsLatest(i, n, CheckTypes) /\ log[i].type = "check_succeeded"

\* The cached row passes the gate it passed before, and is recorded already.
ReuseCheck(w) ==
    /\ pc[w] = "sim_gate" /\ sim[w] = "checkable"
    /\ CheckCached(seen[w])
    /\ Goto(w, "passed")
    /\ UNCHANGED <<log, seen, enabled, sim, result, platform, history, crashes>>

NeedCheck(w) ==
    /\ pc[w] = "sim_gate" /\ sim[w] = "checkable"
    /\ ~CheckCached(seen[w])
    /\ Goto(w, "check_start")
    /\ UNCHANGED <<log, seen, enabled, sim, result, platform, history, crashes>>

StartCheck(w) ==
    /\ pc[w] = "check_start"
    /\ ThisCheck(w) <= MaxChecks
    /\ Emit("check_started", Try(ThisCheck(w)), "none")
    /\ Goto(w, "check")
    /\ UNCHANGED <<seen, enabled, sim, result, platform, history, crashes>>

\* The bound on checks: at the bound the execution is interrupted instead.
Abandon(w) ==
    /\ pc[w] = "check_start" /\ ThisCheck(w) > MaxChecks
    /\ Leave(w)
    /\ UNCHANGED <<log, result, platform, history, crashes>>

\* gateway.check, the gate's verdict on its answer, and the verdict's event.
CheckPasses(w) ==
    /\ pc[w] = "check"
    /\ \E reply \in Checks :
         LET row == CheckRecord(reply) IN
         /\ Ready(row)
         /\ Emit("check_succeeded", Fingerprint(row), "none")
    /\ Goto(w, "passed")
    /\ UNCHANGED <<seen, enabled, sim, result, platform, history, crashes>>

CheckBlocks(w) ==
    /\ pc[w] = "check"
    /\ \E reply \in Checks :
         LET row == CheckRecord(reply) IN
         /\ ~Ready(row)
         /\ Emit("check_blocked", Fingerprint(row), StoredFailureKind(row))
         /\ Return(w, RefusedStatus(row))
    /\ UNCHANGED <<platform, history, crashes>>

MarkReady(w) ==
    /\ pc[w] = "passed" /\ ~enabled[w]
    /\ Emit("ready", Once, "none")
    /\ Return(w, "READY")
    /\ UNCHANGED <<platform, history, crashes>>

-----------------------------------------------------------------------------
StartSubmit(w) ==
    /\ pc[w] = "passed" /\ enabled[w]
    /\ Emit("submit_started", Try(ThisSubmit(w)), "retriable")
    /\ Goto(w, "post")
    /\ UNCHANGED <<seen, enabled, sim, result, platform, history, crashes>>

\* gateway.submit: the platform takes the request into review, or never sees it.
\* (The client may send it again before it replies, see WQBrainClient.)
Post(w) ==
    /\ pc[w] = "post"
    /\ submits' = submits + 1
    /\ late' = late + (IF status = "ACTIVE" THEN 1 ELSE 0)
    /\ unsettled' = TRUE
    /\ \/ status # "ACTIVE" /\ reviewing' = TRUE
       \/ UNCHANGED reviewing
    /\ Goto(w, "reply")
    /\ UNCHANGED <<log, seen, enabled, sim, result, status, simulations, crashes>>

\* What submit_alpha returned and the event it becomes.
ReplyActive(w) ==
    /\ pc[w] = "reply" /\ status = "ACTIVE"
    /\ Emit("submit_succeeded", Try(ThisSubmit(w)), "none")
    /\ Return(w, "ACTIVE")
    /\ UNCHANGED <<platform, history, crashes>>

\* Polling ran out and the platform's status could not be read as UNSUBMITTED:
\* ok with platform_status TIMEOUT, and a 200 in the record.
ReplyPending(w) ==
    /\ pc[w] = "reply"
    /\ Emit("submission_pending", Try(ThisSubmit(w)), "settled")
    /\ Return(w, "SUBMISSION_PENDING")
    /\ UNCHANGED <<platform, history, crashes>>

\* A failure: a correlation, a 403, or retries the client reports with 200
\* ("settled"); no connection or a rate limit ("retriable").
ReplyFailed(w) ==
    /\ pc[w] = "reply"
    /\ \E class \in {"settled", "retriable"} :
         Emit("submit_failed", Try(ThisSubmit(w)), class)
    /\ Return(w, "SUBMIT_FAILED")
    /\ UNCHANGED <<platform, history, crashes>>

-----------------------------------------------------------------------------
\* The platform decides on a submission it has taken into review; another request
\* of the same submit may still be before it.
PlatformActivates ==
    /\ reviewing
    /\ status' = "ACTIVE" /\ reviewing' = FALSE
    /\ UNCHANGED <<log, locals, history, crashes>>

PlatformReturns ==
    /\ reviewing
    /\ status' = "UNSUBMITTED" /\ reviewing' \in BOOLEAN
    /\ UNCHANGED <<log, locals, history, crashes>>

PlatformHolds ==
    /\ reviewing /\ status = "UNSUBMITTED"
    /\ status' = "OTHER"
    /\ UNCHANGED <<log, locals, reviewing, history, crashes>>

Crash(w) ==
    /\ pc[w] # "idle" /\ crashes < MaxCrashes
    /\ crashes' = crashes + 1
    /\ Leave(w)
    /\ UNCHANGED <<log, result, platform, history>>

Reconcile(w) ==
    \/ ReconcileUnknown(w) \/ ReconcileActive(w) \/ ReconcileOther(w)
    \/ ReconcileExhausted(w) \/ ReconcileRetry(w)

Step(w) ==
    \/ Reconcile(w)
    \/ CreateCandidate(w) \/ ValidationPasses(w) \/ ValidationRejects(w)
    \/ StartSimulation(w) \/ Simulate(w) \/ RecordSimulation(w)
    \/ SimulationBlocks(w) \/ ReuseCheck(w) \/ NeedCheck(w)
    \/ StartCheck(w) \/ Abandon(w) \/ CheckPasses(w) \/ CheckBlocks(w) \/ MarkReady(w)
    \/ StartSubmit(w) \/ Post(w) \/ ReplyActive(w) \/ ReplyPending(w) \/ ReplyFailed(w)

Platform == PlatformActivates \/ PlatformReturns \/ PlatformHolds

Next ==
    \/ \E w \in Workers : Step(w) \/ Crash(w) \/ \E e \in SubmitModes : Begin(w, e)
    \/ Platform

Spec == Init /\ [][Next]_vars

-----------------------------------------------------------------------------
(* Properties.                                                             *)

Keys == ({"once", "exhausted"} \X {0}) \cup ({"try"} \X Nat)
          \cup {Fingerprint(CheckRecord(reply)) : reply \in Checks}

Kinds == {"none", "retriable", "settled", "simulation_gate"} \cup SimulationRows
          \cup {StoredFailureKind(CheckRecord(reply)) : reply \in Checks}

Event == [type : EventTypes, key : Keys, kind : Kinds]

TypeOK ==
    /\ log \in Seq(Event)
    /\ pc \in [Workers -> Steps]
    /\ seen \in [Workers -> Nat]
    /\ enabled \in [Workers -> BOOLEAN]
    /\ sim \in [Workers -> SimulationRows \cup {"none"}]
    /\ result \in [Workers -> Statuses]
    /\ status \in {"UNSUBMITTED", "OTHER", "ACTIVE"} /\ reviewing \in BOOLEAN
    /\ submits \in Nat /\ late \in Nat /\ unsettled \in BOOLEAN /\ simulations \in Nat
    /\ crashes \in Nat

Now == Len(log)
ActiveRecorded == Of(Now, ActiveTypes) # {}

\* The event whose presence an event of this type vouches for.
Prerequisite(type) ==
    CASE type \in {"validation_passed", "validation_rejected"} -> "candidate_created"
      [] type = "simulation_started" -> "validation_passed"
      [] type \in {"simulation_succeeded", "simulation_failed"} -> "simulation_started"
      [] type \in {"check_started", "check_blocked"} -> "simulation_succeeded"
      [] type = "check_succeeded" -> "check_started"
      [] type \in {"ready", "submit_started"} -> "check_succeeded"
      [] type \in ActiveTypes \cup {"submit_failed", "submission_pending"} -> "submit_started"

\* However executions overlap, crash and resume, the log reads as one lifecycle:
\* nothing is recorded before the event that had to come first (the event order
\* execute follows, and WQ_AGENT_CORE_V2.md draws under Event Lifecycle).
CausalOrder ==
    \A i \in 1..Now :
        log[i].type # "candidate_created" => Occurs(i - 1, Prerequisite(log[i].type))

\* Any number of overlapping executions record no more submissions than the
\* policy's budget allows (max_submit_attempts in _resume_terminal).
SubmitBudget == Count(Now, "submit_started") <= SubmitAttempts

\* A status read before the platform's decision may be acted on after it, but only
\* once per execution under way: when the alpha is ACTIVE, each worker asks for its
\* submission at most once more, and an execution that begins then asks for none
\* (the status call of _resume_terminal, whatever was lost or read too early).
LateSubmitsBounded == late <= Cardinality(Workers)

\* Every simulation beyond one per worker is paid for by a crash between the call
\* and its record: resuming never simulates what the log already holds.
SimulationsBounded == simulations <= Cardinality(Workers) + crashes

\* Between two submissions there is a new check: a passing check is not reused
\* for a retry (retrying_submission in execute).
RecheckBeforeRepost ==
    \A i, j \in Of(Now, {"submit_started"}) :
        i < j => \E k \in (i + 1)..(j - 1) : log[k].type = "check_started"

\* A submission is reconciled with the platform's status before another is made
\* (Recovery Rules of WQ_AGENT_CORE_V2.md), by whichever worker makes it.
ReconciledBeforePost == [][submits' # submits => ~unsettled]_vars

-----------------------------------------------------------------------------
(* What the engine promises the platform (WQSubmitContract).               *)

Closed == Resume(Now, TRUE) \in {"VALIDATION_FAILED", "SIMULATION_FAILED",
                                 "BLOCKED", "SUBMIT_FAILED"}

Contract == INSTANCE WQSubmitContract WITH
    MaxPosts <- SubmitAttempts,
    posts    <- submits,
    phase    <- IF ActiveRecorded THEN "active"
                ELSE IF Closed THEN "closed"
                ELSE IF unsettled THEN "unsettled" ELSE "open"

\* One worker submits as the contract allows: within the budget, never while an
\* earlier submission is unsettled, never after the attempt is closed or ACTIVE.
SubmitsAsPromised == Contract!Spec

-----------------------------------------------------------------------------
(* Liveness: the runner keeps executing the attempt with submission on, an *)
(* execution goes on until it returns, and the platform's status is not    *)
(* unreadable for ever.                                                    *)

Fairness ==
    \A w \in Workers :
        WF_vars(Step(w)) /\ SF_vars(Begin(w, TRUE)) /\ SF_vars(ReconcileActive(w))

LiveSpec == Spec /\ Fairness

\* An alpha that turned ACTIVE after the execution that submitted it was lost, or
\* gave up polling, is found out by a later execution.
ActiveIsLearned ==
    (/\ status = "ACTIVE" /\ Resume(Now, TRUE) = "reconcile"
     /\ \A w \in Workers : pc[w] = "idle") ~> ActiveRecorded
=============================================================================
