----------------------------- MODULE WQAutopilot -----------------------------
(***************************************************************************)
(* The autopilot controller: sessions that share an output directory, each *)
(* giving its simulations to branches by quota, running a loop of the      *)
(* workflow as its child, and recording what came of every branch.  The    *)
(* record is written when a session ends; the child's files are written as *)
(* it goes, and only those with a name used again are replaced.            *)
(*                                                                         *)
(* A cycle of the child (WQAgentWorkflow has its steps) is here what the   *)
(* branches see of it: rows are assigned, some are simulated and reviewed. *)
(***************************************************************************)
EXTENDS Integers, FiniteSets, FiniteSetsExt, Functions, SequencesExt

CONSTANTS
    Branches,
    Fallback,       \* the branches that accompany the primary one, in order
    Modes,          \* the child loops considered
    Candidates,
    Outcomes,       \* what a review comes to: "ready", "other", or a bucket of failures
    Budget,         \* max_total_simulations
    MinTrials,      \* autopilot_branch_min_trials
    FailureLimit,   \* autopilot_branch_failure_limit
    MaxCycles,      \* max_cycles
    MaxSessions     \* bound of the model

ASSUME InputsAssumption ==
    /\ Fallback \in Seq(Branches) /\ Len(Fallback) = 3 /\ IsInjective(Fallback)
    /\ Modes \subseteq {"run-submit", "presubmit-sequential"}
    /\ {"ready", "pending"} \subseteq Outcomes
    /\ {Budget, MinTrials, FailureLimit, MaxCycles, MaxSessions} \subseteq Nat \ {0}
    /\ IsFiniteSet(Candidates)

VARIABLES
    pc,             \* "off", "child"
    mode,           \* the child's loop, here the same in all sessions of the directory
    resumed,        \* autopilot_resume, with a state to resume
    previous,       \* the branch records of the state read at the start
    budgets,        \* candidate_budgets, and simulation_budgets, which are the same
    accepted,       \* the tracker's count of rows for each branch
    pool,           \* rows of this cycle that have a branch
    cycle,
    total,          \* simulations of the child
    seen,           \* candidates the child will not simulate again
    dirs,           \* the rows in the child's cycle directories, also of earlier sessions
    accumulator,    \* submitted_accumulator.jsonl
    state,          \* branch records of autopilot_state.json
    sessions,
    truth           \* history: what came of the branches in the sessions that state records

plan  == <<resumed, previous, budgets>>
child == <<accepted, pool, cycle, total, seen>>
files == <<dirs, accumulator, state>>
vars == <<pc, mode, plan, child, files, sessions, truth>>

Submitting == mode = "run-submit"

Failures == Outcomes \ {"ready", "other"}

Rows == [cand : Candidates, branch : Branches, outcome : Outcomes]

NoBranch == [b \in {} |-> 0]

Nothing == [simulated |-> 0, ready |-> 0, active |-> 0]

\* No process: what one knew is gone.
Idle ==
    /\ pc' = "off" /\ UNCHANGED mode /\ resumed' = FALSE
    /\ previous' = NoBranch /\ budgets' = NoBranch /\ accepted' = NoBranch
    /\ pool' = {} /\ cycle' = 0 /\ total' = 0 /\ seen' = {}

Init ==
    /\ pc = "off" /\ mode \in Modes /\ resumed = FALSE
    /\ previous = NoBranch /\ budgets = NoBranch /\ accepted = NoBranch
    /\ pool = {} /\ cycle = 0 /\ total = 0 /\ seen = {}
    /\ dirs = <<>> /\ accumulator = {} /\ state = NoBranch
    /\ sessions = 0 /\ truth = [b \in Branches |-> Nothing]

-----------------------------------------------------------------------------
(* The branch plan.                                                        *)

\* The primary branch has three fifths and two others a fifth each.
Quotas(primary) ==
    LET two == {Fallback[1], Fallback[2]}
        others == IF primary \in two THEN (two \ {primary}) \cup {Fallback[3]} ELSE two
    IN [b \in {primary} \cup others |-> IF b = primary THEN 3 ELSE 1]

\* Those of them that no earlier session pruned.
Open_All(quotas, records) == quotas   \* mutant
Open(quotas, records) ==
    Restrict(quotas, {b \in DOMAIN quotas : ~(b \in DOMAIN records /\ records[b].status = "pruned")})

\* The sum of a function to the naturals, which is the number of points under it.
SumOf(f) == Cardinality(UNION {{b} \X (1..f[b]) : b \in DOMAIN f})

\* allocate_branch_budgets: what is left after rounding down goes to the largest
\* fractions.  Equal ones may differ in their last bit, and come in any order.
Allocations_Rounded(quotas, amount) ==   \* mutant: each share rounded up
    LET whole == SumOf(quotas)
    IN {[b \in DOMAIN quotas |-> (amount * quotas[b] + whole - 1) \div whole]}
Allocations(quotas, amount) ==
    LET whole == SumOf(quotas)
        Floor(b) == (amount * quotas[b]) \div whole
        Fraction(b) == (amount * quotas[b]) % whole
        left == amount - SumOf([b \in DOMAIN quotas |-> Floor(b)])
    IN {[b \in DOMAIN quotas |-> Floor(b) + (IF b \in lucky THEN 1 ELSE 0)] :
            lucky \in {l \in kSubset(left, DOMAIN quotas) :
                           \A b \in l, c \in DOMAIN quotas \ l : Fraction(b) >= Fraction(c)}}

\* The policy, compiled from the failures in the files, may favour any branch.  The
\* child empties its accumulated files.
Start(resume) ==
    /\ pc = "off" /\ sessions < MaxSessions
    /\ sessions' = sessions + 1
    /\ resumed' = (resume /\ state # NoBranch)
    /\ previous' = IF resume THEN state ELSE NoBranch
    /\ \E primary \in Branches :
         LET open == Open(Quotas(primary), previous')
         IN budgets' \in (IF open = NoBranch THEN {NoBranch} ELSE Allocations(open, Budget))
    /\ pc' = "child"
    /\ accepted' = [b \in DOMAIN budgets' |-> 0]
    /\ pool' = {} /\ cycle' = 0 /\ total' = 0 /\ seen' = {}
    /\ accumulator' = IF Submitting THEN {} ELSE accumulator
    /\ UNCHANGED <<mode, dirs, state, truth>>

-----------------------------------------------------------------------------
(* The child.                                                              *)

\* The head of the child's loop.
Goes == pc = "child" /\ cycle < MaxCycles /\ total < Budget

HasRoom(b) == accepted[b] < budgets[b]

\* _branch_with_most_remaining
Roomiest_Any ==   \* mutant: also one that has none
    DOMAIN budgets
Roomiest ==
    {b \in DOMAIN budgets :
        HasRoom(b) /\ \A c \in DOMAIN budgets : budgets[b] - accepted[b] >= budgets[c] - accepted[c]}

\* One row of _apply_branch_candidate_budgets, which is for the branch it names or
\* that its words suggest.  The pool keeps the first row of a candidate.  A row for
\* which no branch has room is left out.
Assign(c) ==
    /\ Goes
    /\ \E wanted \in DOMAIN budgets :
       \E b \in IF HasRoom(wanted) THEN {wanted} ELSE Roomiest :
         /\ accepted' = [accepted EXCEPT ![b] = @ + 1]
         /\ pool' = IF \E row \in pool : row.cand = c THEN pool
                    ELSE pool \cup {[cand |-> c, branch |-> b]}
    /\ UNCHANGED <<pc, mode, plan, cycle, total, seen, files, sessions, truth>>

\* A ready record has been accepted or rejected; a row that waits for its
\* correlations may be simulated again, where it is not submitted.
Deferred(row) == ~Submitting /\ row.outcome = "pending"

\* The cycle: of the pool, those that are new and pass the filters are simulated, and
\* in run-submit those that are ready, or only pending, may be submitted.  What was
\* submitted is recorded without its branch (of is for truth).
Cycle ==
    /\ Goes
    /\ \E kept \in SUBSET {row \in pool : row.cand \notin seen} :
       \E outcome \in [kept -> Outcomes] :
         LET rows == {[cand |-> row.cand, branch |-> row.branch, outcome |-> outcome[row]] : row \in kept}
         IN /\ total + Cardinality(rows) <= Budget
            /\ total' = total + Cardinality(rows)
            /\ dirs' = IF cycle < Len(dirs) THEN [dirs EXCEPT ![cycle + 1] = rows]
                       ELSE Append(dirs, rows)
            /\ seen' = seen \cup {row.cand : row \in {r \in rows : ~Deferred(r)}}
            /\ \E ok \in SUBSET {row \in rows : Submitting /\ row.outcome \in {"ready", "pending"}} :
                 accumulator' = accumulator \cup
                     {[cand |-> row.cand, branch |-> "none", of |-> row.branch] : row \in ok}
    /\ cycle' = cycle + 1 /\ pool' = {}
    /\ UNCHANGED <<pc, mode, plan, accepted, state, sessions, truth>>

-----------------------------------------------------------------------------
(* The branch record.                                                      *)

\* _unique_branch_rows
Unique(rows, b) == Cardinality({row.cand : row \in {r \in rows : r.branch = b}})

\* Each copy of a failed row counts: of the cycles of this session there is one
\* more in the parent's review queue, and another where it is rejected.
Copies(i, f) ==
    IF Submitting \/ i > cycle THEN 1 ELSE IF f = "pending" THEN 2 ELSE 3

Written_Last == dirs[cycle]   \* mutant: the last cycle only
Written == UNION Range(dirs)

FailuresOf(b, f) ==
    SumOf([i \in DOMAIN dirs |->
        Copies(i, f) * Cardinality({row \in dirs[i] : row.branch = b /\ row.outcome = f})])

Fresh == [status |-> "active", simulated |-> 0, ready |-> 0, active |-> 0,
          failures |-> [f \in Failures |-> 0]]

Before(b) == IF b \in DOMAIN previous THEN previous[b] ELSE Fresh

\* Statuses "active" and "exhausted", which nothing tells apart later, are one.
Status_Failures(b, simulated, ready, activated, failures) ==   \* mutant: failures first
    IF Before(b).status = "pruned" THEN "pruned"
    ELSE IF simulated >= MinTrials /\ \E f \in Failures : failures[f] >= FailureLimit THEN "pruned"
    ELSE IF activated > 0 \/ ready > 0 THEN "productive"
    ELSE "active"
Status(b, simulated, ready, activated, failures) ==
    IF Before(b).status = "pruned" THEN "pruned"
    ELSE IF activated > 0 \/ ready > 0 THEN "productive"
    ELSE IF simulated >= MinTrials /\ \E f \in Failures : failures[f] >= FailureLimit THEN "pruned"
    ELSE "active"

\* build_autopilot_branch_state, for one branch
Record(b) ==
    LET simulated == Before(b).simulated + Unique(Written, b)
        ready     == Before(b).ready + Unique({r \in Written : r.outcome = "ready"}, b)
        activated == Before(b).active + (IF Submitting THEN Unique(accumulator, b) ELSE 0)
        failures  == [f \in Failures |-> Before(b).failures[f] + FailuresOf(b, f)]
    IN [status |-> Status(b, simulated, ready, activated, failures),
        simulated |-> simulated, ready |-> ready, active |-> activated, failures |-> failures]

\* The child has ended, for any of its reasons.
Finish ==
    /\ pc = "child" /\ cycle > 0 /\ pool = {}
    /\ state' = [b \in DOMAIN previous \cup DOMAIN budgets |-> Record(b)]
    /\ truth' = [b \in Branches |->
           LET mine == UNION {dirs[i] : i \in 1..cycle}
               old == IF resumed THEN truth[b] ELSE Nothing
           IN [simulated |-> old.simulated + Unique(mine, b),
               ready  |-> old.ready + Unique({r \in mine : r.outcome = "ready"}, b),
               active |-> old.active + Cardinality({row \in accumulator : Submitting /\ row.of = b})]]
    /\ Idle
    /\ UNCHANGED <<dirs, accumulator, sessions>>

Crash ==
    /\ pc = "child"
    /\ Idle
    /\ UNCHANGED <<files, sessions, truth>>

Next ==
    \/ \E resume \in BOOLEAN : Start(resume)
    \/ \E c \in Candidates : Assign(c)
    \/ Cycle \/ Finish \/ Crash

Spec == Init /\ [][Next]_vars

-----------------------------------------------------------------------------
(* Properties.                                                             *)

Pruned(records) == {b \in DOMAIN records : records[b].status = "pruned"}

\* Rounding neither loses nor adds a simulation: the caps of the open branches are
\* together the budget of the round, each within one of its share; and so they
\* would be with any other budget.
ExactShares(caps, quotas, amount) ==
    LET whole == SumOf(quotas) IN
    /\ DOMAIN caps = DOMAIN quotas /\ SumOf(caps) = amount
    /\ \A b \in DOMAIN caps :
           amount * quotas[b] - whole < caps[b] * whole /\ caps[b] * whole < amount * quotas[b] + whole
CapsAreExact ==
    budgets # NoBranch => \E primary \in Branches :
        LET open == Open(Quotas(primary), previous)
        IN /\ ExactShares(budgets, open, Budget)
           /\ cycle = 0 /\ pool = {} =>   \* the fractions repeat after twenty
                \A amount \in 1..20 : \A caps \in Allocations(open, amount) : ExactShares(caps, open, amount)

\* No branch simulates more than its cap in a session, over all of its cycles and
\* whichever branch its rows were meant for.
CapsAreKept ==
    \A b \in DOMAIN budgets :
        Cardinality(UNION {{i} \X {row \in dirs[i] : row.branch = b} : i \in 1..cycle}) <= budgets[b]

\* "a resumed autopilot run does not allocate budget to a persistently pruned branch"
\* (WQ_AGENT_CORE_V2.md), nor does any candidate reach it by another way.
PrunedGetsNothing ==
    pc = "child" /\ resumed =>
        /\ Pruned(state) \cap DOMAIN budgets = {}
        /\ \A i \in 1..cycle : \A row \in dirs[i] : row.branch \notin Pruned(state)

\* Pruning is for good: neither a crash nor a resumed session takes it back.
PrunedForever == [][resumed \/ pc = "off" \/ state' = state => Pruned(state) \subseteq Pruned(state')]_vars

\* A branch that had a ready outcome in any session that counts is not pruned for
\* the failures of others, before or after.
ReadyNotPruned == \A b \in Pruned(state) : truth[b].ready = 0

\* The totals are cumulative: no session's outcomes are lost from them.
NothingUncounted ==
    \A b \in Branches :
        LET counted == IF b \in DOMAIN state THEN state[b] ELSE Nothing
        IN counted.simulated >= truth[b].simulated /\ counted.ready >= truth[b].ready

\* "Branch state records current and cumulative candidates, simulations, ready
\* outcomes, ACTIVE outcomes" (WQ_AGENT_CORE_V2.md).
ActiveIsCounted ==
    \A b \in DOMAIN state : state[b].active >= truth[b].active
=============================================================================
