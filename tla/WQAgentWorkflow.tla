--------------------------- MODULE WQAgentWorkflow ---------------------------
(***************************************************************************)
(* The two loops of the agent workflow, run_submit_loop and                *)
(* run_presubmit_sequential, over cycles of design, simulation, review     *)
(* and, in the first, submission.  A process dies at any step, and a rerun *)
(* keeps nothing but what the platform knows.                              *)
(*                                                                         *)
(* A candidate is its expression; the designer's sources are the sequence  *)
(* a cycle is offered.                                                     *)
(***************************************************************************)
EXTENDS Integers, FiniteSets, SequencesExt, WQReview

CONSTANTS
    Modes,          \* the loops considered
    Expressions,
    Offers,         \* what the sources of a cycle can hold, in order, without repetition
    Similar,        \* pairs of expressions more similar than virtual_similarity_cutoff
    Signature,      \* the field signature of an expression
    MaxSignature,   \* max_virtual_field_signature_count
    SimResults,     \* the simulation results considered
    Answers,        \* the check answers considered
    AllowProbe,     \* allow_submit_probe
    Target,         \* target_submissions, target_ready
    MaxTotal,       \* max_total_simulations
    MaxCycles,      \* max_cycles
    MaxEmpty,       \* max_consecutive_empty_cycles
    MaxFailures,    \* max_consecutive_submit_failures
    CycleLimit,     \* the candidates of a cycle, by cycle_candidate_count and max_simulations
    MaxSessions     \* bound of the model

ASSUME InputsAssumption ==
    /\ Modes \subseteq {"run-submit", "presubmit-sequential"}
    /\ Offers \subseteq Seq(Expressions) /\ \A o \in Offers : IsInjective(o)
    /\ SimResults \subseteq Simulations /\ Answers \subseteq CheckAnswers
    /\ AllowProbe \in BOOLEAN
ASSUME LimitsAssumption ==
    {MaxSignature, Target, MaxTotal, MaxCycles, MaxEmpty, MaxFailures, CycleLimit, MaxSessions}
        \subseteq Nat \ {0}

VARIABLES
    mode,           \* of the session, "none" before the first
    pc,             \* "off", "loop", "simulate", "select", "submit", "account", "ended"
    cycle,          \* cycles accounted
    offered,        \* what the designer of this cycle had
    pool,           \* candidates of this cycle still to simulate
    rows,           \* its simulations; after the review, its review queue
    selected,       \* alphas still to submit in this cycle
    chosen,         \* there were alphas to submit in this cycle
    accepted,       \* those answered ok
    skip,           \* rejected_normalized_expressions
    records,        \* submitted_records, virtual_records
    total,          \* total_simulations
    empty,          \* consecutive_empty_cycles
    failures,       \* consecutive_submit_failures
    inventory,      \* the ACTIVE expressions of the last synchronisation
    stop_reason,
    active,         \* platform: ACTIVE expressions
    reviewing,      \* platform: submissions it took and has not decided
    sessions,       \* processes started
    posted,         \* history: submissions of this session
    simulated,      \* history: simulations of this session
    log             \* history: what each cycle of this session came to

work     == <<offered, pool, rows, selected, chosen, accepted>>
counters == <<skip, records, total, empty, failures>>
platform == <<active, reviewing>>
history  == <<posted, simulated, log>>
vars == <<mode, pc, cycle, work, counters, inventory, stop_reason, platform, sessions, history>>

Submitting == mode = "run-submit"

Recorded == {records[i].expr : i \in DOMAIN records}

Init ==
    /\ cycle = 0 /\ offered = {} /\ pool = <<>> /\ rows = <<>>
    /\ selected = <<>> /\ chosen = FALSE /\ accepted = <<>>
    /\ skip = {} /\ records = <<>> /\ total = 0 /\ empty = 0 /\ failures = 0
    /\ posted = <<>> /\ simulated = 0 /\ log = <<>>
    /\ mode = "none" /\ pc = "off" /\ inventory = {} /\ stop_reason = "none"
    /\ active = {} /\ reviewing = {} /\ sessions = 0

\* Nothing done in the session.
Fresh ==
    /\ cycle' = 0 /\ offered' = {} /\ pool' = <<>> /\ rows' = <<>>
    /\ selected' = <<>> /\ chosen' = FALSE /\ accepted' = <<>>
    /\ skip' = {} /\ records' = <<>> /\ total' = 0 /\ empty' = 0 /\ failures' = 0
    /\ posted' = <<>> /\ simulated' = 0 /\ log' = <<>>

\* The accumulators of an earlier run are emptied; presubmit reads the platform
\* once, here.
Start(m) ==
    /\ pc \in {"off", "ended"} /\ sessions < MaxSessions
    /\ sessions' = sessions + 1
    /\ mode' = m /\ pc' = "loop" /\ stop_reason' = "running"
    /\ inventory' = IF m = "presubmit-sequential" THEN active ELSE {}
    /\ Fresh
    /\ UNCHANGED platform

\* Killed, or an exception of the platform, the model or the client: what is left
\* in the files is not read again.
Crash ==
    /\ pc \notin {"off", "ended"}
    /\ pc' = "off" /\ mode' = "none" /\ stop_reason' = "none" /\ inventory' = {}
    /\ Fresh
    /\ UNCHANGED <<platform, sessions>>

-----------------------------------------------------------------------------
(* The head of the loop, and the design of a cycle.                        *)

TopReason ==
    IF Len(records) >= Target THEN "target_reached"
    ELSE IF total >= MaxTotal THEN "max_total_simulations_reached"
    ELSE IF cycle >= MaxCycles THEN "max_cycles_reached"
    ELSE IF empty >= MaxEmpty THEN "max_consecutive_empty_cycles_reached"
    ELSE IF Submitting /\ failures >= MaxFailures THEN "max_consecutive_submit_failures_reached"
    ELSE "running"

Stop ==
    /\ pc = "loop" /\ TopReason # "running"
    /\ pc' = "ended" /\ stop_reason' = TopReason
    /\ UNCHANGED <<mode, cycle, work, counters, inventory, platform, sessions, history>>

\* _run_submit_cycle_limit
Limit_Whole == CycleLimit   \* mutant: not what is left of the budget
Limit == IF CycleLimit < MaxTotal - total THEN CycleLimit ELSE MaxTotal - total

\* The designer stops at so many candidates, as those to be skipped come first.
DesignLimit_Plain == Limit   \* mutant: and forgets them
DesignLimit == Limit + Cardinality(skip) + (IF Submitting THEN 0 ELSE Len(records))

First(n, s) == SubSeq(s, 1, IF n < Len(s) THEN n ELSE Len(s))

\* Positions in their order, and what a sequence holds there.
Ordered(positions) ==
    CHOOSE f \in [1..Cardinality(positions) -> positions] :
        \A j, k \in DOMAIN f : j < k => f[j] < f[k]
At(s, positions) == [k \in 1..Cardinality(positions) |-> s[Ordered(positions)[k]]]

\* ModelCandidateDesignerAgent.run: what is ACTIVE is left out only here when it
\* will be submitted; otherwise the filter tells.
Designed(offer, known) ==
    First(DesignLimit,
          IF Submitting THEN At(offer, {i \in DOMAIN offer : offer[i] \notin known}) ELSE offer)

Collides(e, known) ==
    e \in known \/ \E a \in known : {a, e} \in Similar

\* The capacity of its signature is used up.
Crowded(e, known) == Cardinality({a \in known : Signature[a] = Signature[e]}) >= MaxSignature

Eligible(e, known) == e \notin skip /\ ~Collides(e, known)

\* _filter_candidate_pool_for_presubmit; the candidates kept count towards the
\* capacity of their signature: they are its first eligible ones, so that to count
\* the eligible ones before a candidate is the same.
Filtered(candidates, known) ==
    LET Before(i) == {candidates[j] : j \in {k \in 1..(i - 1) : Eligible(candidates[k], known)}}
    IN At(candidates, {i \in DOMAIN candidates :
                           /\ Eligible(candidates[i], known)
                           /\ ~Crowded(candidates[i], known \cup Before(i))})

\* _run_submit_cycle and _run_presubmit_cycle up to SimulationAgent.run.  The first
\* reads the platform anew, and filters only when there is something to skip; to
\* the second its own ready records are ACTIVE.
Design ==
    /\ pc = "loop" /\ TopReason = "running"
    /\ inventory' = IF Submitting THEN active ELSE inventory
    /\ \E offer \in Offers :
         LET known == IF Submitting THEN active ELSE inventory \cup Recorded
             candidates == Designed(offer, known)
         IN /\ offered' = ToSet(offer)
            /\ pool' = First(Limit, IF Submitting /\ skip = {} THEN candidates
                                    ELSE Filtered(candidates, known))
    /\ pc' = "simulate"
    /\ UNCHANGED <<mode, cycle, rows, selected, chosen, accepted, counters, stop_reason,
                   platform, sessions, history>>

-----------------------------------------------------------------------------
(* SimulationAgent, ReviewAgent.                                           *)

Simulate ==
    /\ pc = "simulate" /\ pool # <<>>
    /\ \E sim \in SimResults : rows' = Append(rows, [expr |-> Head(pool), sim |-> sim])
    /\ pool' = Tail(pool) /\ simulated' = simulated + 1
    /\ UNCHANGED <<mode, pc, cycle, offered, selected, chosen, accepted, counters, inventory,
                   stop_reason, platform, sessions, posted, log>>

ReviewRows ==
    /\ pc = "simulate" /\ pool = <<>>
    /\ \E answer \in [DOMAIN rows -> Answers \cup {Unchecked}] :
         /\ \A i \in DOMAIN rows : answer[i] # Unchecked => NeedsCheck(rows[i].sim)
         /\ \A i \in DOMAIN rows : NeedsCheck(rows[i].sim) => answer[i] \in Answers
         /\ rows' = [i \in DOMAIN rows |-> Review(rows[i].expr, rows[i].sim, answer[i])]
    /\ pc' = IF Submitting THEN "select" ELSE "account"
    /\ UNCHANGED <<mode, cycle, offered, pool, selected, chosen, accepted, counters, inventory,
                   stop_reason, platform, sessions, history>>

-----------------------------------------------------------------------------
(* SubmissionAgent.                                                        *)

\* _row_can_submit
Submittable(row) ==
    \/ row.bucket = "CONFIRMED_READY"
    \/ row.bucket = "SUBMIT_PROBE_NEEDED" /\ AllowProbe

Wanted_Target == Target   \* mutant: each cycle the whole target
Wanted == Target - Len(records)

\* select_submission_candidates, in the order of their scores.
Select ==
    /\ pc = "select"
    /\ \E order \in SetToSeqs({row \in ToSet(rows) : Submittable(row)}) :
         selected' = First(Wanted, order)
    /\ chosen' = (selected' # <<>>)
    /\ pc' = "submit"
    /\ UNCHANGED <<mode, cycle, offered, pool, rows, accepted, counters, inventory,
                   stop_reason, platform, sessions, history>>

\* One alpha of run_submit_by_ids: ACTIVE, accepted without a decision, or refused,
\* which may hide a submission that was taken.
Submit ==
    /\ pc = "submit" /\ selected # <<>>
    /\ LET row == Head(selected) IN
         /\ posted' = Append(posted, row.expr)
         /\ \/ active' = active \cup {row.expr}
               /\ accepted' = Append(accepted, row) /\ UNCHANGED reviewing
            \/ reviewing' = reviewing \cup ({row.expr} \ active)
               /\ accepted' = Append(accepted, row) /\ UNCHANGED active
            \/ reviewing' \in {reviewing, reviewing \cup ({row.expr} \ active)}
               /\ UNCHANGED <<accepted, active>>
    /\ selected' = Tail(selected)
    /\ UNCHANGED <<mode, pc, cycle, offered, pool, rows, chosen, counters, inventory,
                   stop_reason, sessions, simulated, log>>

-----------------------------------------------------------------------------
(* The end of a cycle.                                                     *)

EndCycle(newRecords, newSkip) ==
    /\ records' = records \o newRecords /\ skip' = skip \cup newSkip
    /\ total' = total + Len(rows)
    /\ cycle' = cycle + 1
    /\ log' = Append(log, [simulated |-> Len(rows), chosen |-> chosen, new |-> Len(newRecords)])
    /\ offered' = {} /\ rows' = <<>> /\ chosen' = FALSE /\ accepted' = <<>>
    /\ IF Len(records') >= Target \/ total' >= MaxTotal
       THEN /\ pc' = "ended"
            /\ stop_reason' = IF Len(records') >= Target THEN "target_reached"
                              ELSE "max_total_simulations_reached"
       ELSE pc' = "loop" /\ UNCHANGED stop_reason
    /\ UNCHANGED <<mode, pool, selected, inventory, platform, sessions, posted, simulated>>

Reviewed == {rows[i].expr : i \in DOMAIN rows}

AccountSubmit_Adds ==   \* mutant: empty cycles are counted, not consecutive ones
    /\ pc = "submit" /\ selected = <<>>
    /\ empty' = IF rows = <<>> THEN empty + 1 ELSE empty
    /\ failures' = IF accepted # <<>> THEN 0 ELSE IF chosen THEN failures + 1 ELSE failures
    /\ EndCycle(accepted, Reviewed)
AccountSubmit_Forgets ==   \* mutant: what was submitted is not to be skipped
    /\ pc = "submit" /\ selected = <<>>
    /\ empty' = IF rows = <<>> THEN empty + 1 ELSE 0
    /\ failures' = IF accepted # <<>> THEN 0 ELSE IF chosen THEN failures + 1 ELSE failures
    /\ EndCycle(accepted, {row.expr : row \in {r \in ToSet(rows) : ~Submittable(r)}})
AccountSubmit ==
    /\ pc = "submit" /\ selected = <<>>
    /\ empty' = IF rows = <<>> THEN empty + 1 ELSE 0
    /\ failures' = IF accepted # <<>> THEN 0 ELSE IF chosen THEN failures + 1 ELSE failures
    /\ EndCycle(accepted, Reviewed)

\* presubmit_acceptance_gate; the cutoffs and the policy decide besides.
Acceptable(row, known) ==
    /\ row.bucket = "CONFIRMED_READY" /\ row.sc = "PASS"
    /\ ~Collides(row.expr, known) /\ ~Crowded(row.expr, known)

\* _should_defer_presubmit_recheck
Deferred(row) == row.bucket = "SUBMIT_PROBE_NEEDED"

\* select_presubmit_ready_candidate: the first that passes is accepted, the
\* others that pass stay candidates.
AccountPresubmit_All ==   \* mutant: all that pass are accepted
    /\ pc = "account"
    /\ LET known == inventory \cup Recorded
           passing == SelectSeq(rows, LAMBDA row : Acceptable(row, known))
       IN /\ empty' = IF passing = <<>> THEN empty + 1 ELSE 0
          /\ EndCycle(passing, {row.expr : row \in {r \in ToSet(rows) \ ToSet(passing) : ~Deferred(r)}})
    /\ UNCHANGED failures
AccountPresubmit_Stalls ==   \* mutant: a cycle without candidates is tried again
    /\ pc = "account"
    /\ IF rows = <<>>
       THEN /\ pc' = "loop"
            /\ UNCHANGED <<mode, cycle, work, counters, inventory, stop_reason, platform, sessions, history>>
       ELSE EndCycle(<<>>, Reviewed) /\ empty' = empty + 1 /\ UNCHANGED failures
AccountPresubmit ==
    /\ pc = "account"
    /\ \E passing \in SUBSET {row \in ToSet(rows) : Acceptable(row, inventory \cup Recorded)} :
         LET refused == {row.expr : row \in {r \in ToSet(rows) \ passing : ~Deferred(r)}} IN
         \/ /\ passing = {}
            /\ empty' = empty + 1
            /\ EndCycle(<<>>, refused)
         \/ \E row \in passing :
              /\ empty' = 0
              /\ EndCycle(<<row>>, refused)
    /\ UNCHANGED failures

-----------------------------------------------------------------------------
(* The platform.                                                           *)

Decide(e) ==
    /\ e \in reviewing
    /\ reviewing' = reviewing \ {e}
    /\ active' \in {active, active \cup {e}}
    /\ UNCHANGED <<mode, pc, cycle, work, counters, inventory, stop_reason, sessions, history>>

Step ==
    \/ Stop \/ Design \/ Simulate \/ ReviewRows \/ Select \/ Submit
    \/ AccountSubmit \/ AccountPresubmit

Next ==
    \/ \E m \in Modes : Start(m)
    \/ Step \/ Crash
    \/ \E e \in Expressions : Decide(e)

Spec == Init /\ [][Next]_vars

\* A process that is not killed goes on: every call of the platform returns.
LiveSpec == Spec /\ WF_vars(Step)

-----------------------------------------------------------------------------
(* Properties.                                                             *)

\* A session never simulates more than max_total_simulations, at no point of a
\* cycle either, although the counter is brought up to date only after it.
SimulationsKept == total + Len(rows) + Len(pool) <= MaxTotal

\* Nothing is submitted twice: in a session, whatever the platform answered the first
\* time, nor after a process that died had submitted it and the platform showed it
\* ACTIVE at the last synchronisation; nor more successes than the target.
SubmittedOnce ==
    /\ IsInjective(posted)
    /\ (ToSet(pool) \cup {rows[i].expr : i \in DOMAIN rows}) \cap inventory = {}
    /\ Submitting => Len(records) + Len(accepted) + Len(selected) <= Target

\* The ready records together fit beside the ACTIVE inventory: each is neither
\* equal nor too similar to what is ACTIVE nor to another, and no field signature
\* is beyond its capacity unless the platform's own alphas are.
ReadyFit ==
    mode = "presubmit-sequential" =>
        /\ \A i, j \in DOMAIN records :
               i # j => ~Collides(records[i].expr, {records[j].expr})
        /\ \A e \in Recorded :
               /\ ~Collides(e, inventory)
               /\ Cardinality({a \in inventory \cup Recorded : Signature[a] = Signature[e]})
                    <= MaxSignature

\* Candidates that an earlier cycle rejected or accepted do not use up the places of
\* new ones: a cycle has nothing to simulate only when its sources have nothing new
\* (unless others than those collide with the ACTIVE inventory).
NotStarved ==
    LET old   == skip \cup Recorded \cup (IF Submitting THEN inventory ELSE {})
        known == IF Submitting THEN inventory ELSE inventory \cup Recorded
    IN (/\ pc = "simulate" /\ pool = <<>> /\ rows = <<>>
        /\ \A e \in offered \ old : ~Collides(e, known) /\ ~Crowded(e, known))
       => offered \subseteq old

\* The reason a session ends with is what its cycles came to: in a row, since the
\* last that was different.
ReasonIsTrue ==
    LET Recent(n) == (Len(log) - n + 1)..Len(log)
        Since(i) == \A j \in i..Len(log) : log[j].new = 0
    IN CASE stop_reason = "target_reached" -> Len(records) >= Target
         [] stop_reason = "max_total_simulations_reached" ->
                Len(records) < Target /\ simulated = MaxTotal
         [] stop_reason = "max_consecutive_empty_cycles_reached" ->
                \A i \in Recent(MaxEmpty) :
                    i > 0 /\ IF Submitting THEN log[i].simulated = 0 ELSE log[i].new = 0
         [] stop_reason = "max_consecutive_submit_failures_reached" ->
                Cardinality({i \in DOMAIN log : log[i].chosen /\ Since(i)}) >= MaxFailures
         [] stop_reason = "max_cycles_reached" -> Len(log) = MaxCycles
         [] OTHER -> TRUE

\* A session ends, if it is not killed.
SessionEnds == (pc \notin {"off", "ended"}) ~> (pc \in {"off", "ended"})

\* "A row is ready only when: ... check-only review is readable" (WQ_WORKFLOW.md).
ReadyWasRead ==
    mode = "presubmit-sequential" => \A i \in DOMAIN records : records[i].read
=============================================================================
