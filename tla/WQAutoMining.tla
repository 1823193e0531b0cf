---------------------------- MODULE WQAutoMining ----------------------------
(***************************************************************************)
(* WQAutoMiner: rounds that take candidates from a queue, simulate them,   *)
(* submit what is eligible, breed children from the rest, and save a       *)
(* checkpoint; with the death of the process at any moment and its rerun   *)
(* in the same directory.                                                  *)
(*                                                                         *)
(* Expressions are compared by their hash.  Their ranking, the diagnosis   *)
(* and what the generator makes of it are free choices.                    *)
(***************************************************************************)
EXTENDS Sequences, Naturals, Functions

CONSTANTS
    Exprs,              \* expressions, up to normalisation
    Illegal,            \* those the local validation refuses
    Seeds,              \* the candidates file, which may repeat itself
    MaxRuns,            \* max_runs
    MaxRounds,          \* max_rounds
    ParentLimits,       \* the values of parents_per_round in use
    ChildrenPerParent,  \* children_per_parent
    MaxGeneration,      \* max_generation
    MaxFailures,        \* max_consecutive_failures
    Target,             \* target_submissions; 0: nothing is submitted
    MaxCrashes,         \* bound on crashes
    NoCheckpoint

ASSUME ConstantsAssumption ==
    /\ Illegal \subseteq Exprs /\ Seeds \in Seq(Exprs)
    /\ MaxRuns \in Nat /\ MaxRounds \in Nat /\ ParentLimits \subseteq Nat
    /\ ChildrenPerParent \in Nat /\ MaxGeneration \in Nat /\ MaxFailures \in Nat
    /\ Target \in Nat /\ MaxCrashes \in Nat

Candidates == [expr : Exprs, gen : Nat]

Miners ==
    [queue : Seq(Candidates), seen : SUBSET Exprs, runs : Nat, submitted : Nat,
     failures : Nat, round : Nat]

ASSUME NoCheckpointAssumption == NoCheckpoint \notin Miners

VARIABLES
    limit,       \* config.parents_per_round of the runs in this directory
    pc,          \* "off", "round", "pick", "simulate", "submit", "expand"
    miner,       \* the miner's attributes
    taken,       \* len(entries) of this round
    current,     \* the candidate in _process_candidate
    parents,     \* this round's entries that are still to be expanded
    disk,        \* the checkpoint file
    reason,      \* how the last run ended
    simulated,   \* history: simulations of each expression
    recorded,    \* history: expressions with the outcome of a simulation in the results file
    runs,        \* history: simulations in all
    accepted,    \* history: submissions answered as accepted
    unheard,     \* history: submissions the platform took without such an answer
    crashes

history == <<simulated, recorded, runs, accepted, unheard>>
vars == <<limit, pc, miner, taken, current, parents, disk, reason, history, crashes>>

-----------------------------------------------------------------------------
Blank == [queue |-> <<>>, seen |-> {}, runs |-> 0, submitted |-> 0, failures |-> 0, round |-> 0]

Queued(m) == {m.queue[i].expr : i \in DOMAIN m.queue}

SeedQueue == [i \in DOMAIN Seeds |-> [expr |-> Seeds[i], gen |-> 0]]

\* _load_state: the checkpoint, or the candidates file.
Load == IF disk = NoCheckpoint THEN [Blank EXCEPT !.queue = SeedQueue] ELSE disk

TargetReached_OffByOne(m) == Target > 0 /\ m.submitted + 1 >= Target   \* mutant
TargetReached(m) == Target > 0 /\ m.submitted >= Target

Init ==
    /\ limit \in ParentLimits
    /\ pc = "off" /\ miner = Blank /\ taken = 0 /\ parents = {}
    /\ current = [expr |-> "none", gen |-> 0]
    /\ disk = NoCheckpoint /\ reason = "none"
    /\ simulated = [e \in Exprs |-> 0] /\ recorded = {} /\ runs = 0 /\ accepted = 0 /\ unheard = 0
    /\ crashes = 0

\* _finish, at the end of a process whose miner has come to m.
Finish(m, why) ==
    /\ pc' = "off" /\ reason' = why
    /\ disk' = m /\ miner' = Blank
    /\ taken' = 0 /\ parents' = {}
    /\ UNCHANGED <<current, history, crashes, limit>>

\* The checks before the first round.
StartRefused ==
    /\ pc = "off"
    /\ \/ Load.runs >= MaxRuns /\ Finish(Load, "max_runs_reached")
       \/ Load.runs < MaxRuns /\ TargetReached(Load) /\ Finish(Load, "target_submissions_reached")
       \/ Load.runs < MaxRuns /\ ~TargetReached(Load) /\ Finish(Load, "not authenticated")

Start ==
    /\ pc = "off" /\ Load.runs < MaxRuns /\ ~TargetReached(Load)
    /\ pc' = "round" /\ miner' = Load /\ reason' = "none"
    /\ UNCHANGED <<taken, current, parents, disk, history, crashes, limit>>

\* _stop_reason, without the stop file.
StopReason(m) ==
    IF TargetReached(m) THEN "target_submissions_reached"
    ELSE IF m.runs >= MaxRuns THEN "max_runs_reached"
    ELSE IF m.round >= MaxRounds THEN "max_rounds_reached"
    ELSE IF m.queue = <<>> THEN "queue_empty"
    ELSE "none"

\* The stop file may be there at any round.
Stop ==
    /\ pc = "round"
    /\ \/ Finish(miner, "stop_file_detected")
       \/ StopReason(miner) # "none" /\ Finish(miner, StopReason(miner))

RoundBegins ==
    /\ pc = "round" /\ StopReason(miner) = "none"
    /\ pc' = "pick" /\ miner' = [miner EXCEPT !.round = @ + 1]
    /\ UNCHANGED <<taken, current, parents, disk, reason, history, crashes, limit>>

-----------------------------------------------------------------------------
(* _process_candidate                                                      *)

MorePicks ==
    /\ miner.queue # <<>> /\ taken < limit
    /\ miner.runs < MaxRuns /\ ~TargetReached(miner)

\* The entry of a candidate, which may be a parent of this round.
Enter(c, expandable) ==
    /\ taken' = taken + 1
    /\ parents' = IF expandable /\ c.gen < MaxGeneration THEN parents \cup {c} ELSE parents

Popped(c) == [miner EXCEPT !.queue = Tail(@), !.seen = @ \cup {c.expr}]

\* Seen before, or refused by the local validation.
Skip_Unseen ==   \* mutant: an illegal expression is not marked as seen
    /\ pc = "pick" /\ MorePicks
    /\ LET c == Head(miner.queue) IN
         /\ c.expr \in miner.seen \cup Illegal
         /\ miner' = [miner EXCEPT !.queue = Tail(@)]
         /\ Enter(c, c.expr \notin miner.seen)
    /\ UNCHANGED <<pc, current, disk, reason, history, crashes, limit>>
Skip_Rotated ==   \* mutant: a candidate seen before goes back to the queue
    /\ pc = "pick" /\ MorePicks
    /\ LET c == Head(miner.queue) IN
         IF c.expr \in miner.seen
         THEN /\ miner' = [miner EXCEPT !.queue = Append(Tail(@), c)]
              /\ UNCHANGED <<taken, parents>>
         ELSE /\ c.expr \in Illegal
              /\ miner' = Popped(c)
              /\ Enter(c, TRUE)
    /\ UNCHANGED <<pc, current, disk, reason, history, crashes, limit>>
Skip ==
    /\ pc = "pick" /\ MorePicks
    /\ LET c == Head(miner.queue) IN
         /\ c.expr \in miner.seen \cup Illegal
         /\ miner' = Popped(c)
         /\ Enter(c, c.expr \notin miner.seen)
    /\ UNCHANGED <<pc, current, disk, reason, history, crashes, limit>>

Simulate_Again ==   \* mutant: the expression may have been seen
    /\ pc = "pick" /\ MorePicks
    /\ LET c == Head(miner.queue) IN
         /\ c.expr \notin Illegal
         /\ miner' = [Popped(c) EXCEPT !.runs = @ + 1]
         /\ current' = c
         /\ simulated' = [simulated EXCEPT ![c.expr] = @ + 1]
    /\ runs' = runs + 1
    /\ pc' = "simulate"
    /\ UNCHANGED <<taken, parents, disk, reason, recorded, accepted, unheard, crashes, limit>>
Simulate ==
    /\ pc = "pick" /\ MorePicks
    /\ LET c == Head(miner.queue) IN
         /\ c.expr \notin miner.seen \cup Illegal
         /\ miner' = [Popped(c) EXCEPT !.runs = @ + 1]
         /\ current' = c
         /\ simulated' = [simulated EXCEPT ![c.expr] = @ + 1]
    /\ runs' = runs + 1
    /\ pc' = "simulate"
    /\ UNCHANGED <<taken, parents, disk, reason, recorded, accepted, unheard, crashes, limit>>

\* The outcome of the current candidate goes to the results file.
Record(expandable) ==
    /\ pc' = "pick"
    /\ Enter(current, expandable)
    /\ recorded' = recorded \cup {current.expr}

SimulationFails ==
    /\ pc = "simulate"
    /\ miner' = [miner EXCEPT !.failures = @ + 1]
    /\ Record(TRUE)
    /\ UNCHANGED <<current, disk, reason, simulated, runs, accepted, unheard, crashes, limit>>

\* Completed: not eligible, without an alpha, or nothing more to submit.
SimulationEnds ==
    /\ pc = "simulate"
    /\ miner' = [miner EXCEPT !.failures = 0]
    /\ Record(TRUE)
    /\ UNCHANGED <<current, disk, reason, simulated, runs, accepted, unheard, crashes, limit>>

SimulationEligible ==
    /\ pc = "simulate" /\ Target > 0 /\ miner.submitted < Target
    /\ miner' = [miner EXCEPT !.failures = 0]
    /\ pc' = "submit"
    /\ UNCHANGED <<taken, current, parents, disk, reason, history, crashes, limit>>

\* classify_submit_result of an answer that is ok: active or submitted.
SubmitAccepted ==
    /\ pc = "submit"
    /\ miner' = [miner EXCEPT !.submitted = @ + 1]
    /\ accepted' = accepted + 1
    /\ Record(FALSE)
    /\ UNCHANGED <<current, disk, reason, simulated, runs, unheard, crashes, limit>>

\* Any other answer: a correlation pending; or a failure, which may be improved.  The
\* platform may have taken the request all the same (no connection for the answer, polls
\* or tries spent), and the alpha may become ACTIVE; the miner does not ask again.
SubmitNotAccepted ==
    /\ pc = "submit"
    /\ unheard' \in {unheard, unheard + 1}
    /\ \E pending \in BOOLEAN : Record(~pending)
    /\ UNCHANGED <<miner, current, disk, reason, simulated, runs, accepted, crashes, limit>>

-----------------------------------------------------------------------------
(* The end of a round.                                                     *)

\* A round that took nothing, which is one with parents_per_round at zero, ends the run,
\* whatever is queued.
RoundExpands ==
    /\ pc = "pick" /\ ~MorePicks
    /\ IF taken = 0 THEN Finish(miner, "queue_empty")
       ELSE /\ pc' = "expand"
            /\ UNCHANGED <<miner, taken, current, parents, disk, reason, history, crashes, limit>>

\* What of the generator's proposals is new ...
NewOnes(m) == Exprs \ (m.seen \cup Queued(m))

\* ... is some of it, without repetition, in some order.
Proposals(m) ==
    UNION {{s \in [1..n -> NewOnes(m)] : IsInjective(s)} : n \in 0..ChildrenPerParent}

Breed(m, c, s) ==
    [m EXCEPT !.queue = @ \o [i \in 1..Len(s) |-> [expr |-> s[i], gen |-> c.gen + 1]]]

\* One entry of _expand_from_entries; the best comes first, which may be any.
Expand ==
    /\ pc = "expand" /\ ~TargetReached(miner)
    /\ \E c \in parents, s \in Proposals(miner) :
         /\ miner' = Breed(miner, c, s)
         /\ parents' = parents \ {c}
    /\ UNCHANGED <<pc, taken, current, disk, reason, history, crashes, limit>>

\* _save_progress, and the end of a run of failures.
RoundEnds_Unsaved ==   \* mutant: only the end of the run saves
    /\ pc = "expand" /\ (parents = {} \/ TargetReached(miner))
    /\ IF miner.failures >= MaxFailures
       THEN Finish(miner, "max_consecutive_failures_reached")
       ELSE /\ pc' = "round" /\ taken' = 0 /\ parents' = {}
            /\ UNCHANGED <<miner, current, disk, reason, history, crashes, limit>>
RoundEnds ==
    /\ pc = "expand" /\ (parents = {} \/ TargetReached(miner))
    /\ IF miner.failures >= MaxFailures
       THEN Finish(miner, "max_consecutive_failures_reached")
       ELSE /\ pc' = "round" /\ disk' = miner /\ taken' = 0 /\ parents' = {}
            /\ UNCHANGED <<miner, current, reason, history, crashes, limit>>

\* The process is killed, or submit_alpha raises; during a submission the platform may
\* have taken it.
Crash ==
    /\ pc # "off" /\ crashes < MaxCrashes
    /\ crashes' = crashes + 1
    /\ \/ UNCHANGED unheard
       \/ pc = "submit" /\ unheard' = unheard + 1
    /\ pc' = "off" /\ reason' = "crashed"
    /\ miner' = Blank /\ taken' = 0 /\ parents' = {}
    /\ UNCHANGED <<current, disk, simulated, recorded, runs, accepted, limit>>

Step ==
    \/ Stop \/ RoundBegins \/ Skip \/ Simulate
    \/ SimulationFails \/ SimulationEnds \/ SimulationEligible
    \/ SubmitAccepted \/ SubmitNotAccepted
    \/ RoundExpands \/ Expand \/ RoundEnds

Next == StartRefused \/ Start \/ Step \/ Crash

Spec == Init /\ [][Next]_vars

\* A process that is not killed goes on; nothing says that it is started again.
LiveSpec == Spec /\ WF_vars(Step)

-----------------------------------------------------------------------------
(* Properties.                                                             *)

TypeOK ==
    /\ pc \in {"off", "round", "pick", "simulate", "submit", "expand"}
    /\ miner \in Miners /\ disk \in Miners \cup {NoCheckpoint}
    /\ taken \in Nat /\ parents \subseteq Candidates
    /\ pc \in {"simulate", "submit"} => current \in Candidates
    /\ reason \in {"none", "crashed", "not authenticated", "stop_file_detected", "queue_empty",
                   "max_runs_reached", "max_rounds_reached", "target_submissions_reached",
                   "max_consecutive_failures_reached"}
    /\ simulated \in [Exprs -> Nat] /\ recorded \subseteq Exprs
    /\ runs \in Nat /\ accepted \in Nat /\ unheard \in Nat /\ crashes \in Nat
    /\ limit \in ParentLimits

\* max_runs and target_submissions bound what all runs in a directory cost together;
\* a crash costs at most the round it interrupts.  The target is one of answers: what
\* the platform took without the miner hearing of it counts against the simulations
\* alone, of which each is submitted at most once.
CostBounded ==
    /\ runs <= MaxRuns + crashes * limit
    /\ accepted <= Target + crashes * limit
    /\ accepted + unheard <= runs

\* No expression is simulated twice, whichever way it comes back (a repeated seed,
\* the child of several parents, a resumed queue), but for the round of a crash.
SimulatedOnce == \A e \in Exprs : simulated[e] <= 1 + crashes

\* Through rounds, checkpoints and reruns no candidate is dropped: the seeds, and what
\* a checkpoint had queued or seen, are seen or queued.
NoCandidateLost ==
    LET known(m) == m.seen \cup Queued(m)
    IN  /\ pc # "off" =>
              {Seeds[i] : i \in DOMAIN Seeds} \cup (IF disk = NoCheckpoint THEN {} ELSE known(disk))
                \subseteq known(miner)
        /\ disk # NoCheckpoint => {Seeds[i] : i \in DOMAIN Seeds} \subseteq known(disk)

\* The reason a run ends with is true of all runs in the directory: the budget was
\* spent, the target was answered as accepted, or every legal seed was simulated (with
\* parents_per_round at zero a run says queue_empty of a queue it does not look into).
ReasonIsTrue ==
    /\ reason = "max_runs_reached" => runs >= MaxRuns
    /\ reason = "target_submissions_reached" => accepted >= Target
    /\ reason = "max_consecutive_failures_reached" => runs >= MaxFailures
    /\ reason = "queue_empty" /\ limit > 0 =>
          \A i \in DOMAIN Seeds : Seeds[i] \notin Illegal => simulated[Seeds[i]] > 0

\* A run ends, by its rounds and its queue, whatever the platform answers.
RunEnds == pc # "off" ~> pc = "off"
=============================================================================
