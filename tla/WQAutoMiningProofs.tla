------------------------- MODULE WQAutoMiningProofs -------------------------
(***************************************************************************)
(* Proofs about WQAutoMining: its types, what the runs in a directory cost *)
(* together, that nothing is simulated twice, and that no candidate is     *)
(* lost, for any seeds, budgets and crashes.                               *)
(***************************************************************************)
EXTENDS WQAutoMining, TLAPS

-----------------------------------------------------------------------------
(* The operators on the miner.                                             *)

LEMMA SeedQueueType == SeedQueue \in Seq(Candidates) /\ Blank \in Miners
<1>1. Seeds \in Seq(Exprs)
  BY ConstantsAssumption
<1>2. DOMAIN Seeds = 1..Len(Seeds) /\ Len(Seeds) \in Nat
  BY <1>1
<1>3. \A i \in 1..Len(Seeds) : Seeds[i] \in Exprs
  BY <1>1
<1>4. SeedQueue \in [1..Len(Seeds) -> Candidates]
  BY <1>2, <1>3 DEF SeedQueue, Candidates
<1>5. SeedQueue \in Seq(Candidates)
  BY <1>2, <1>4
<1> QED
  BY <1>5 DEF Blank, Miners

LEMMA LoadType ==
    /\ disk \in Miners \cup {NoCheckpoint} => Load \in Miners
    /\ disk' \in Miners \cup {NoCheckpoint} => Load' \in Miners
<1>1. [Blank EXCEPT !.queue = SeedQueue] \in Miners
  BY SeedQueueType DEF Miners
<1> QED
  BY <1>1 DEF Load

\* What the pops and the children do to a queue of candidates.
LEMMA PoppedType ==
    ASSUME miner \in Miners, miner.queue # <<>>
    PROVE  /\ Head(miner.queue) \in Candidates
           /\ Popped(Head(miner.queue)) \in Miners
           /\ Popped(Head(miner.queue)).runs = miner.runs
           /\ Popped(Head(miner.queue)).submitted = miner.submitted
           /\ Popped(Head(miner.queue)).failures = miner.failures
           /\ Popped(Head(miner.queue)).round = miner.round
           /\ Popped(Head(miner.queue)).seen = miner.seen \cup {Head(miner.queue).expr}
           /\ Popped(Head(miner.queue)).queue = Tail(miner.queue)
<1>1. miner.queue \in Seq(Candidates) /\ miner.seen \subseteq Exprs
  BY DEF Miners
<1>2. Head(miner.queue) \in Candidates /\ Tail(miner.queue) \in Seq(Candidates)
  BY <1>1
<1>3. Head(miner.queue).expr \in Exprs
  BY <1>2 DEF Candidates
<1> QED
  BY <1>1, <1>2, <1>3 DEF Popped, Miners

LEMMA BredType ==
    ASSUME NEW m \in Miners, NEW c \in Candidates, NEW s \in Proposals(m)
    PROVE  /\ Breed(m, c, s) \in Miners
           /\ Breed(m, c, s).runs = m.runs /\ Breed(m, c, s).submitted = m.submitted
           /\ Breed(m, c, s).failures = m.failures /\ Breed(m, c, s).round = m.round
           /\ Breed(m, c, s).seen = m.seen
           /\ \E n \in Nat : s \in [1..n -> NewOnes(m)] /\ IsInjective(s) /\ Len(s) = n
<1>1. PICK n \in 0..ChildrenPerParent : s \in [1..n -> NewOnes(m)] /\ IsInjective(s)
  BY DEF Proposals
<1>2. n \in Nat
  BY <1>1, ConstantsAssumption
<1>3. s \in Seq(NewOnes(m)) /\ Len(s) = n
  BY <1>1, <1>2
<1>4. NewOnes(m) \subseteq Exprs
  BY DEF NewOnes
<1>5. c.gen + 1 \in Nat
  BY DEF Candidates
<1>6. [i \in 1..Len(s) |-> [expr |-> s[i], gen |-> c.gen + 1]] \in [1..n -> Candidates]
  BY <1>1, <1>3, <1>4, <1>5 DEF Candidates
<1>7. [i \in 1..Len(s) |-> [expr |-> s[i], gen |-> c.gen + 1]] \in Seq(Candidates)
  BY <1>2, <1>6
<1>8. m.queue \o [i \in 1..Len(s) |-> [expr |-> s[i], gen |-> c.gen + 1]] \in Seq(Candidates)
  BY <1>7 DEF Miners
<1> QED
  BY <1>1, <1>2, <1>3, <1>8 DEF Breed, Miners

-----------------------------------------------------------------------------
(* Types.                                                                  *)

LEMMA FinishType ==
    ASSUME TypeOK, NEW m \in Miners, NEW why, Finish(m, why),
           why \in {"not authenticated", "stop_file_detected", "queue_empty",
                    "max_runs_reached", "max_rounds_reached", "target_submissions_reached",
                    "max_consecutive_failures_reached"}
    PROVE  TypeOK'
<1>1. Blank \in Miners
  BY SeedQueueType
<1>2. UNCHANGED <<current, simulated, recorded, runs, accepted, unheard, crashes, limit>>
  BY DEF Finish, history
<1> QED
  BY <1>1, <1>2 DEF Finish, TypeOK

\* What the steps of _process_candidate change.
LEMMA SkipChanges ==
    ASSUME Skip
    PROVE  /\ miner.queue # <<>> /\ pc = "pick" /\ pc' = "pick"
           /\ Head(miner.queue).expr \in miner.seen \cup Illegal
           /\ taken < limit /\ taken' = taken + 1
           /\ miner' = Popped(Head(miner.queue))
           /\ parents' \subseteq parents \cup {Head(miner.queue)}
           /\ UNCHANGED <<current, disk, reason, simulated, recorded, runs, accepted, unheard, crashes, limit>>
  BY DEF Skip, MorePicks, Enter, history

LEMMA SimulateChanges ==
    ASSUME Simulate
    PROVE  /\ miner.queue # <<>> /\ pc = "pick" /\ pc' = "simulate"
           /\ Head(miner.queue).expr \notin miner.seen \cup Illegal
           /\ miner.runs < MaxRuns /\ taken < limit
           /\ miner' = [Popped(Head(miner.queue)) EXCEPT !.runs = @ + 1]
           /\ current' = Head(miner.queue)
           /\ simulated' = [simulated EXCEPT ![Head(miner.queue).expr] = @ + 1]
           /\ runs' = runs + 1
           /\ UNCHANGED <<taken, parents, disk, reason, recorded, accepted, unheard, crashes, limit>>
  BY DEF Simulate, MorePicks

Outcome == SimulationFails \/ SimulationEnds \/ SubmitAccepted \/ SubmitNotAccepted

LEMMA RecordChanges ==
    ASSUME NEW b \in BOOLEAN, Record(b)
    PROVE  /\ pc' = "pick" /\ taken' = taken + 1
           /\ parents' \subseteq parents \cup {current}
           /\ recorded' = recorded \cup {current.expr}
  BY DEF Record, Enter

LEMMA OutcomeChanges ==
    ASSUME Outcome
    PROVE  /\ pc \in {"simulate", "submit"} /\ pc' = "pick" /\ taken' = taken + 1
           /\ parents' \subseteq parents \cup {current}
           /\ recorded' = recorded \cup {current.expr}
           /\ UNCHANGED <<current, disk, reason, simulated, runs, crashes, limit>>
           /\ \/ /\ pc = "simulate"
                 /\ miner' = [miner EXCEPT !.failures = @ + 1]
                 /\ accepted' = accepted /\ unheard' = unheard
              \/ /\ miner' = [miner EXCEPT !.failures = 0]
                 /\ accepted' = accepted /\ unheard' = unheard
              \/ /\ pc = "submit"
                 /\ miner' = [miner EXCEPT !.submitted = @ + 1]
                 /\ accepted' = accepted + 1 /\ unheard' = unheard
              \/ /\ miner' = miner
                 /\ accepted' = accepted /\ unheard' \in {unheard, unheard + 1}
<1>1. CASE SimulationFails
  BY <1>1, RecordChanges, Zenon DEF SimulationFails
<1>2. CASE SimulationEnds
  BY <1>2, RecordChanges, Zenon DEF SimulationEnds
<1>3. CASE SubmitAccepted
  BY <1>3, RecordChanges, Zenon DEF SubmitAccepted
<1>4. CASE SubmitNotAccepted
  <2>1. PICK pending \in BOOLEAN : Record(~pending)
    BY <1>4 DEF SubmitNotAccepted
  <2>2. (~pending) \in BOOLEAN
    OBVIOUS
  <2> QED
    BY <1>4, <2>1, <2>2, RecordChanges, Zenon DEF SubmitNotAccepted
<1> QED
  BY <1>1, <1>2, <1>3, <1>4 DEF Outcome

\* The miner after the outcome of a candidate.
LEMMA OutcomeMiner ==
    ASSUME miner \in Miners, Outcome
    PROVE  /\ miner' \in Miners
           /\ miner'.queue = miner.queue /\ miner'.seen = miner.seen
           /\ miner'.runs = miner.runs /\ miner'.round = miner.round
           /\ \/ miner'.submitted = miner.submitted /\ accepted' = accepted
              \/ /\ pc = "submit"
                 /\ miner'.submitted = miner.submitted + 1 /\ accepted' = accepted + 1
           /\ miner'.failures <= miner.failures + 1
           /\ pc = "submit" => miner'.failures <= miner.failures
  BY OutcomeChanges DEF Miners

LEMMA TypeStep == TypeOK /\ [Next]_vars => TypeOK'
<1> SUFFICES ASSUME TypeOK, [Next]_vars PROVE TypeOK'
  OBVIOUS
<1>0. miner \in Miners /\ Load \in Miners
  BY LoadType DEF TypeOK
<1>a. /\ taken \in Nat /\ runs \in Nat /\ accepted \in Nat /\ crashes \in Nat /\ unheard \in Nat
      /\ simulated \in [Exprs -> Nat] /\ parents \subseteq Candidates
  BY DEF TypeOK
<1>1. CASE StartRefused
  BY <1>0, <1>1, FinishType DEF StartRefused
<1>2. CASE Start
  BY <1>0, <1>2 DEF Start, TypeOK, history
<1>3. CASE Stop
  <2>1. CASE Finish(miner, "stop_file_detected")
    BY <1>0, <2>1, FinishType
  <2>2. CASE StopReason(miner) # "none" /\ Finish(miner, StopReason(miner))
    <3>1. StopReason(miner) \in {"queue_empty", "max_runs_reached", "max_rounds_reached",
                                 "target_submissions_reached"}
      BY <2>2 DEF StopReason
    <3> QED
      BY <1>0, <2>2, <3>1, FinishType
  <2> QED
    BY <1>3, <2>1, <2>2 DEF Stop
<1>4. CASE RoundBegins
  <2>0. miner' = [miner EXCEPT !.round = miner.round + 1]
    BY <1>4 DEF RoundBegins
  <2>a. miner.round + 1 \in Nat
    BY <1>0 DEF Miners
  <2>1. miner' \in Miners
    BY <1>0, <2>0, <2>a DEF Miners
  <2> QED
    BY <1>4, <2>1 DEF RoundBegins, TypeOK, history
<1>5. CASE Skip
  <2>1. miner' \in Miners /\ Head(miner.queue) \in Candidates
    BY <1>0, <1>5, SkipChanges, PoppedType
  <2>2. taken' \in Nat
    BY <1>a, <1>5, SkipChanges
  <2>3. parents' \subseteq Candidates
    BY <1>a, <1>5, <2>1, SkipChanges
  <2> QED
    BY <1>5, <2>1, <2>2, <2>3, SkipChanges DEF TypeOK
<1>6. CASE Simulate
  <2>2. Head(miner.queue) \in Candidates /\ Popped(Head(miner.queue)) \in Miners
    BY <1>0, <1>6, SimulateChanges, PoppedType
  <2>3. miner' \in Miners
    BY <1>6, <2>2, SimulateChanges DEF Miners
  <2>4. simulated' \in [Exprs -> Nat]
    <3>1. Head(miner.queue).expr \in Exprs
      BY <2>2 DEF Candidates
    <3>2. simulated' = [simulated EXCEPT ![Head(miner.queue).expr] = simulated[Head(miner.queue).expr] + 1]
      BY <1>6, SimulateChanges
    <3> QED
      BY <1>a, <3>1, <3>2
  <2>5. runs' \in Nat
    BY <1>a, <1>6, SimulateChanges
  <2> QED
    BY <1>6, <2>2, <2>3, <2>4, <2>5, SimulateChanges DEF TypeOK
<1>7. CASE Outcome
  <2>1. miner' \in Miners
    BY <1>0, <1>7, OutcomeMiner
  <2>2. accepted' \in Nat /\ unheard' \in Nat /\ taken' \in Nat
    BY <1>0, <1>a, <1>7, OutcomeChanges, OutcomeMiner
  <2>3. current \in Candidates /\ current.expr \in Exprs
    BY <1>7, OutcomeChanges DEF TypeOK, Candidates
  <2>4. parents' \subseteq Candidates /\ recorded' \subseteq Exprs
    BY <1>7, <2>3, OutcomeChanges DEF TypeOK
  <2> QED
    BY <1>7, <2>1, <2>2, <2>3, <2>4, OutcomeChanges DEF TypeOK
<1>8. CASE SimulationEligible
  <2>1. miner' \in Miners
    BY <1>0, <1>8 DEF SimulationEligible, Miners
  <2> QED
    BY <1>8, <2>1 DEF SimulationEligible, TypeOK, history
<1>9. CASE RoundExpands
  <2>1. CASE taken = 0
    <3>1. Finish(miner, "queue_empty")
      BY <1>9, <2>1, Zenon DEF RoundExpands
    <3> QED
      BY <1>0, <3>1, FinishType
  <2>2. CASE taken # 0
    <3>1. /\ pc' = "expand"
          /\ UNCHANGED <<miner, taken, current, parents, disk, reason, history, crashes, limit>>
      BY <1>9, <2>2, Zenon DEF RoundExpands
    <3> QED
      BY <3>1 DEF TypeOK, history
  <2> QED
    BY <2>1, <2>2
<1>10. CASE Expand
  <2>1. PICK c \in parents, s \in Proposals(miner) :
           miner' = Breed(miner, c, s) /\ parents' = parents \ {c}
    BY <1>10 DEF Expand
  <2>2. c \in Candidates
    BY DEF TypeOK
  <2>3. miner' \in Miners
    BY <1>0, <2>1, <2>2, BredType
  <2>4. UNCHANGED <<pc, taken, current, disk, reason, history, crashes>>
    BY <1>10 DEF Expand
  <2>5. limit' = limit
    BY <1>10 DEF Expand
  <2> QED
    BY <2>1, <2>3, <2>4, <2>5 DEF TypeOK, history
<1>11. CASE RoundEnds
  <2>1. CASE Finish(miner, "max_consecutive_failures_reached")
    BY <1>0, <2>1, FinishType
  <2>2. CASE ~(miner.failures >= MaxFailures)
    <3>1. /\ pc' = "round" /\ disk' = miner /\ taken' = 0 /\ parents' = {}
          /\ UNCHANGED <<miner, current, reason, history, crashes, limit>>
      BY <1>11, <2>2, Zenon DEF RoundEnds
    <3> QED
      BY <1>0, <3>1 DEF TypeOK, history
  <2> QED
    BY <1>11, <2>1, <2>2, Zenon DEF RoundEnds
<1>12. CASE Crash
  <2>1. miner' \in Miners /\ crashes' \in Nat /\ unheard' \in Nat
    BY <1>a, <1>12, SeedQueueType DEF Crash
  <2> QED
    BY <1>12, <2>1 DEF Crash, TypeOK
<1>13. CASE UNCHANGED vars
  BY <1>13 DEF vars, history, TypeOK
<1> QED
  BY <1>1, <1>2, <1>3, <1>4, <1>5, <1>6, <1>7, <1>8, <1>9, <1>10, <1>11, <1>12, <1>13
  DEF Next, Step, Outcome

\* The types of all variables: the miner's attributes and its checkpoint are records of
\* the same shape, whatever was popped, bred or reloaded.
THEOREM TypeCorrect == Spec => []TypeOK
<1>1. Init => TypeOK
  BY SeedQueueType DEF Init, TypeOK
<1> QED
  BY <1>1, TypeStep, PTL DEF Spec

-----------------------------------------------------------------------------
(* What the runs cost.  Between runs the checkpoint holds the totals, during a *)
(* run the miner does; it is ahead of its checkpoint by the entries of one     *)
(* round at most, which is what a crash can lose.                              *)

Held == IF pc = "off" THEN Load ELSE miner

InWork == IF pc \in {"simulate", "submit"} THEN 1 ELSE 0

CostInv ==
    /\ Load.runs <= MaxRuns /\ Load.submitted <= Target
    /\ Held.runs <= MaxRuns /\ Held.submitted <= Target
    /\ Load.runs <= Held.runs /\ Load.submitted <= Held.submitted
    /\ Held.runs <= Load.runs + taken + InWork
    /\ Held.submitted <= Load.submitted + taken
    /\ taken + InWork <= limit
    /\ pc \in {"off", "round"} => taken = 0
    /\ pc = "submit" => miner.submitted < Target

Spent ==
    /\ Held.runs <= runs /\ Held.submitted <= accepted
    /\ runs <= Held.runs + crashes * limit
    /\ accepted <= Held.submitted + crashes * limit

LEMMA LoadKept == UNCHANGED disk => Load' = Load
  BY DEF Load

\* The end of a process saves what it held.
LEMMA FinishHolds ==
    ASSUME TypeOK, NEW m, NEW why, m = Held, Finish(m, why)
    PROVE  /\ Load' = Held /\ Held' = Held /\ taken' = 0 /\ pc' = "off"
           /\ UNCHANGED <<simulated, recorded, runs, accepted, unheard, crashes>>
<1>1. m \in Miners
  BY LoadType DEF TypeOK, Held
<1>2. disk' = m /\ pc' = "off"
  BY DEF Finish
<1>3. Load' = m
  BY <1>1, <1>2, NoCheckpointAssumption DEF Load
<1> QED
  BY <1>2, <1>3 DEF Finish, Held, history

LEMMA StopFinishes ==
    ASSUME TypeOK, StartRefused \/ Stop
    PROVE  \E why : Finish(Held, why) /\ reason' = why /\ (why = "stop_file_detected" \/ why = "not authenticated"
              \/ (why = "max_runs_reached" /\ Held.runs >= MaxRuns)
              \/ (why = "target_submissions_reached" /\ TargetReached(Held))
              \/ why = "max_rounds_reached"
              \/ (why = "queue_empty" /\ Held.queue = <<>>))
<1>1. CASE StartRefused
  BY <1>1 DEF StartRefused, Finish, Held
<1>2. CASE Stop
  <2>1. pc = "round" /\ Held = miner
    BY <1>2 DEF Stop, Held
  <2>2. CASE Finish(miner, "stop_file_detected")
    BY <2>1, <2>2 DEF Finish
  <2>3. CASE StopReason(miner) # "none" /\ Finish(miner, StopReason(miner))
    <3>1. reason' = StopReason(miner)
      BY <2>3 DEF Finish
    <3> QED
      BY <2>1, <2>3, <3>1 DEF StopReason
  <2> QED
    BY <1>2, <2>2, <2>3 DEF Stop
<1> QED
  BY <1>1, <1>2

RoundGoesOn ==
    /\ pc = "pick" /\ pc' = "expand"
    /\ UNCHANGED <<miner, taken, current, parents, disk, reason, history, crashes, limit>>

RoundWasEmpty == pc = "pick" /\ taken = 0 /\ ~MorePicks /\ Finish(Held, "queue_empty")

LEMMA ExpandsOrEnds == RoundExpands => RoundGoesOn \/ RoundWasEmpty
<1> SUFFICES ASSUME RoundExpands PROVE RoundGoesOn \/ RoundWasEmpty
  OBVIOUS
<1>1. CASE taken = 0
  <2>1. pc = "pick" /\ ~MorePicks /\ Finish(miner, "queue_empty")
    BY <1>1, Zenon DEF RoundExpands
  <2>2. Held = miner
    BY <2>1 DEF Held
  <2> QED
    BY <1>1, <2>1, <2>2 DEF RoundWasEmpty
<1>2. CASE taken # 0
  BY <1>2, Zenon DEF RoundExpands, RoundGoesOn
<1> QED
  BY <1>1, <1>2

\* The configuration is the same for all runs.
LEMMA LimitKept == [Next]_vars => limit' = limit
<1> SUFFICES ASSUME [Next]_vars PROVE limit' = limit
  OBVIOUS
<1>1. ASSUME NEW m, NEW why, Finish(m, why) PROVE limit' = limit
  BY <1>1 DEF Finish
<1>2. CASE StartRefused \/ Stop \/ RoundWasEmpty
  BY <1>1, <1>2 DEF StartRefused, Stop, RoundWasEmpty
<1>3. CASE Start \/ RoundBegins \/ SimulationEligible \/ RoundGoesOn \/ Expand \/ Crash
  BY <1>3 DEF Start, RoundBegins, SimulationEligible, RoundGoesOn, Expand, Crash
<1>4. CASE Skip \/ Simulate \/ Outcome
  BY <1>4, SkipChanges, SimulateChanges, OutcomeChanges
<1>5. CASE RoundEnds
  BY <1>1, <1>5, Zenon DEF RoundEnds
<1>6. CASE UNCHANGED vars
  BY <1>6 DEF vars
<1> QED
  BY <1>2, <1>3, <1>4, <1>5, <1>6, ExpandsOrEnds DEF Next, Step, Outcome

\* The numbers the cost invariants speak of.
LEMMA Numbers ==
    ASSUME TypeOK
    PROVE  /\ Load \in Miners /\ Held \in Miners /\ miner \in Miners
           /\ Load.runs \in Nat /\ Held.runs \in Nat
           /\ Load.submitted \in Nat /\ Held.submitted \in Nat
           /\ Load.failures \in Nat /\ Held.failures \in Nat
           /\ taken \in Nat /\ InWork \in Nat
           /\ runs \in Nat /\ accepted \in Nat /\ unheard \in Nat /\ crashes \in Nat
           /\ MaxRuns \in Nat /\ Target \in Nat /\ limit \in Nat
<1>1. Load \in Miners /\ Held \in Miners /\ miner \in Miners
  BY LoadType DEF TypeOK, Held
<1>2. /\ Load.runs \in Nat /\ Held.runs \in Nat
      /\ Load.submitted \in Nat /\ Held.submitted \in Nat
      /\ Load.failures \in Nat /\ Held.failures \in Nat
  BY <1>1 DEF Miners
<1>3. InWork \in Nat
  BY DEF InWork
<1>4. MaxRuns \in Nat /\ Target \in Nat /\ limit \in Nat
  BY ConstantsAssumption DEF TypeOK
<1>5. taken \in Nat /\ runs \in Nat /\ accepted \in Nat /\ unheard \in Nat /\ crashes \in Nat
  BY DEF TypeOK
<1> QED
  BY <1>1, <1>2, <1>3, <1>4, <1>5

LEMMA CostStep == TypeOK /\ CostInv /\ [Next]_vars => CostInv'
<1> SUFFICES ASSUME TypeOK, CostInv, [Next]_vars PROVE CostInv'
  OBVIOUS
<1>0. TypeOK'
  BY TypeStep
<1>l. limit' = limit
  BY LimitKept
<1>a. ASSUME pc' = "off", Held' = Load', taken' = 0,
             Load'.runs <= MaxRuns, Load'.submitted <= Target
      PROVE  CostInv'
  <2>1. InWork' = 0 /\ pc' # "submit"
    BY <1>a DEF InWork
  <2>2. Load'.runs \in Nat /\ Load'.submitted \in Nat
    <3>1. Load' \in Miners
      BY <1>0, LoadType DEF TypeOK
    <3> QED
      BY <3>1 DEF Miners
  <2> QED
    BY <1>a, <2>1, <2>2, Numbers, <1>l DEF CostInv
<1>b. ASSUME NEW why, Finish(Held, why) PROVE CostInv'
  BY <1>a, <1>b, FinishHolds DEF CostInv
<1>c. ASSUME UNCHANGED disk PROVE Load' = Load
  BY <1>c, LoadKept
<1>1. CASE StartRefused \/ Stop
  BY <1>1, <1>b, StopFinishes
<1>2. CASE Start
  <2>1. /\ pc = "off" /\ pc' = "round" /\ miner' = Load /\ taken' = taken /\ disk' = disk
    BY <1>2 DEF Start
  <2>2. Held' = Held /\ Load' = Load /\ InWork' = 0 /\ InWork = 0
    BY <2>1, <1>c DEF Held, InWork
  <2> QED
    BY <2>1, <2>2, Numbers, <1>l DEF CostInv
<1>3. CASE RoundBegins \/ RoundGoesOn
  <2>1. /\ pc \in {"round", "pick"} /\ pc' \in {"pick", "expand"}
        /\ taken' = taken /\ disk' = disk
    BY <1>3 DEF RoundBegins, RoundGoesOn
  <2>2. miner'.runs = miner.runs /\ miner'.submitted = miner.submitted
    BY <1>3, Numbers DEF RoundBegins, RoundGoesOn, Miners
  <2>3. /\ Held'.runs = Held.runs /\ Held'.submitted = Held.submitted
        /\ Load' = Load /\ InWork' = 0 /\ InWork = 0
    BY <2>1, <2>2, <1>c DEF Held, InWork
  <2> QED
    BY <2>1, <2>3, Numbers, <1>l DEF CostInv
<1>4. CASE Skip
  <2>1. /\ pc = "pick" /\ pc' = "pick" /\ taken' = taken + 1 /\ taken < limit
        /\ disk' = disk
    BY <1>4, SkipChanges
  <2>2. miner'.runs = miner.runs /\ miner'.submitted = miner.submitted
    BY <1>4, Numbers, SkipChanges, PoppedType
  <2>3. /\ Held'.runs = Held.runs /\ Held'.submitted = Held.submitted
        /\ Load' = Load /\ InWork' = 0 /\ InWork = 0
    BY <2>1, <2>2, <1>c DEF Held, InWork
  <2> QED
    BY <2>1, <2>3, Numbers, <1>l DEF CostInv
<1>5. CASE Simulate
  <2>1. /\ pc = "pick" /\ pc' = "simulate" /\ taken' = taken /\ taken < limit
        /\ miner.runs < MaxRuns /\ disk' = disk
    BY <1>5, SimulateChanges
  <2>2. miner'.runs = miner.runs + 1 /\ miner'.submitted = miner.submitted
    BY <1>5, Numbers, SimulateChanges, PoppedType DEF Miners
  <2>3. /\ Held'.runs = Held.runs + 1 /\ Held'.submitted = Held.submitted
        /\ Load' = Load /\ InWork' = 1 /\ InWork = 0 /\ Held.runs < MaxRuns
    BY <2>1, <2>2, <1>c DEF Held, InWork
  <2> QED
    BY <2>1, <2>3, Numbers, <1>l DEF CostInv
<1>6. CASE Outcome
  <2>1. /\ pc \in {"simulate", "submit"} /\ pc' = "pick" /\ taken' = taken + 1 /\ disk' = disk
    BY <1>6, OutcomeChanges
  <2>2. /\ miner'.runs = miner.runs
        /\ \/ miner'.submitted = miner.submitted
           \/ pc = "submit" /\ miner'.submitted = miner.submitted + 1
    BY <1>6, Numbers, OutcomeMiner
  <2>3. Load' = Load /\ InWork' = 0 /\ InWork = 1 /\ Held = miner /\ Held' = miner'
    BY <2>1, <1>c DEF Held, InWork
  <2>4. Held'.submitted <= Target /\ Held'.submitted <= Held.submitted + 1
        /\ Held'.submitted >= Held.submitted
    BY <2>2, <2>3, Numbers, <1>l DEF CostInv
  <2> QED
    BY <2>1, <2>2, <2>3, <2>4, Numbers, <1>l DEF CostInv
<1>7. CASE SimulationEligible
  <2>1. /\ pc = "simulate" /\ pc' = "submit" /\ taken' = taken /\ disk' = disk
        /\ miner.submitted < Target
    BY <1>7 DEF SimulationEligible
  <2>2. miner'.runs = miner.runs /\ miner'.submitted = miner.submitted
    BY <1>7, Numbers DEF SimulationEligible, Miners
  <2>3. /\ Held'.runs = Held.runs /\ Held'.submitted = Held.submitted
        /\ Load' = Load /\ InWork' = InWork
    BY <2>1, <2>2, <1>c DEF Held, InWork
  <2> QED
    BY <2>1, <2>2, <2>3, Numbers, <1>l DEF CostInv
<1>8. CASE Expand
  <2>1. PICK c \in parents, s \in Proposals(miner) : miner' = Breed(miner, c, s)
    BY <1>8 DEF Expand
  <2>2. c \in Candidates
    BY DEF TypeOK
  <2>3. miner'.runs = miner.runs /\ miner'.submitted = miner.submitted
    BY <2>1, <2>2, Numbers, BredType
  <2>4. pc = "expand" /\ pc' = "expand" /\ taken' = taken /\ disk' = disk
    BY <1>8 DEF Expand
  <2>5. /\ Held'.runs = Held.runs /\ Held'.submitted = Held.submitted
        /\ Load' = Load /\ InWork' = InWork
    BY <2>3, <2>4, <1>c DEF Held, InWork
  <2> QED
    BY <2>4, <2>5, Numbers, <1>l DEF CostInv
<1>9. CASE RoundEnds
  <2>1. Held = miner
    BY <1>9 DEF RoundEnds, Held
  <2>2. CASE Finish(miner, "max_consecutive_failures_reached")
    BY <1>b, <2>1, <2>2
  <2>3. CASE ~(miner.failures >= MaxFailures)
    <3>1. pc' = "round" /\ disk' = miner /\ taken' = 0 /\ miner' = miner
      BY <1>9, <2>3, Zenon DEF RoundEnds
    <3>2. Load' = miner
      BY <3>1, Numbers, NoCheckpointAssumption DEF Load
    <3>3. Held' = Held /\ Load' = Held /\ InWork' = 0
      BY <3>1, <3>2, <2>1 DEF Held, InWork
    <3> QED
      BY <3>1, <3>3, Numbers, <1>l DEF CostInv
  <2> QED
    BY <1>9, <2>2, <2>3, Zenon DEF RoundEnds
<1>10. CASE Crash
  <2>1. pc' = "off" /\ disk' = disk /\ taken' = 0
    BY <1>10 DEF Crash
  <2>2. Held' = Load' /\ Load' = Load
    BY <2>1, <1>c DEF Held
  <2> QED
    BY <1>a, <2>1, <2>2 DEF CostInv
<1>11. CASE UNCHANGED vars
  <2>1. UNCHANGED <<pc, miner, taken, disk>>
    BY <1>11 DEF vars
  <2>2. Held' = Held /\ Load' = Load /\ InWork' = InWork
    BY <2>1, <1>c DEF Held, InWork
  <2> QED
    BY <2>1, <2>2, <1>l DEF CostInv
<1> QED
  BY <1>1, <1>2, <1>3, <1>4, <1>5, <1>6, <1>7, <1>8, <1>9, <1>10, <1>11, <1>b, ExpandsOrEnds
  DEF RoundWasEmpty, Next, Step, Outcome

\* The totals against the history: ahead of it never, behind it by a round per crash.
LEMMA SpentStep == TypeOK /\ CostInv /\ Spent /\ [Next]_vars => Spent'
<1> SUFFICES ASSUME TypeOK, CostInv, Spent, [Next]_vars PROVE Spent'
  OBVIOUS
<1> DEFINE D == crashes * limit
<1>d. D \in Nat
  BY Numbers
<1>l. limit' = limit
  BY LimitKept
<1>a. ASSUME Held'.runs = Held.runs, Held'.submitted = Held.submitted, runs' = runs,
             accepted' = accepted, crashes' = crashes
      PROVE  Spent'
  BY <1>a, <1>l DEF Spent
<1>b. ASSUME NEW why, Finish(Held, why) PROVE Spent'
  BY <1>a, <1>b, FinishHolds
<1>1. CASE StartRefused \/ Stop
  BY <1>1, <1>b, StopFinishes
<1>2. CASE Start
  BY <1>2, <1>a DEF Start, Held, history
<1>3. CASE RoundBegins \/ RoundGoesOn
  <2>1. miner'.runs = miner.runs /\ miner'.submitted = miner.submitted
    BY <1>3, Numbers DEF RoundBegins, RoundGoesOn, Miners
  <2> QED
    BY <1>3, <2>1, <1>a DEF RoundBegins, RoundGoesOn, Held, history
<1>4. CASE Skip
  <2>1. miner'.runs = miner.runs /\ miner'.submitted = miner.submitted
    BY <1>4, Numbers, SkipChanges, PoppedType
  <2> QED
    BY <1>4, <2>1, <1>a, SkipChanges DEF Held
<1>5. CASE Simulate
  <2>1. miner'.runs = miner.runs + 1 /\ miner'.submitted = miner.submitted
    BY <1>5, Numbers, SimulateChanges, PoppedType DEF Miners
  <2>2. Held'.runs = Held.runs + 1 /\ Held'.submitted = Held.submitted
    BY <1>5, <2>1, SimulateChanges DEF Held
  <2>3. runs' = runs + 1 /\ accepted' = accepted /\ D' = D
    BY <1>5, <1>l, SimulateChanges
  <2> QED
    BY <1>d, <2>2, <2>3, Numbers DEF Spent
<1>6. CASE Outcome
  <2>1. Held = miner /\ Held' = miner' /\ runs' = runs /\ crashes' = crashes /\ D' = D
    BY <1>6, <1>l, OutcomeChanges DEF Held
  <2>2. miner'.runs = miner.runs
    BY <1>6, Numbers, OutcomeMiner
  <2>3. CASE miner'.submitted = miner.submitted /\ accepted' = accepted
    BY <1>a, <2>1, <2>2, <2>3
  <2>4. CASE miner'.submitted = miner.submitted + 1 /\ accepted' = accepted + 1
    BY <1>d, <2>1, <2>2, <2>4, Numbers DEF Spent
  <2> QED
    BY <1>6, <2>3, <2>4, Numbers, OutcomeMiner
<1>7. CASE SimulationEligible
  <2>1. miner'.runs = miner.runs /\ miner'.submitted = miner.submitted
    BY <1>7, Numbers DEF SimulationEligible, Miners
  <2> QED
    BY <1>7, <2>1, <1>a DEF SimulationEligible, Held, history
<1>8. CASE Expand
  <2>1. PICK c \in parents, s \in Proposals(miner) : miner' = Breed(miner, c, s)
    BY <1>8 DEF Expand
  <2>2. c \in Candidates
    BY DEF TypeOK
  <2>3. miner'.runs = miner.runs /\ miner'.submitted = miner.submitted
    BY <2>1, <2>2, Numbers, BredType
  <2> QED
    BY <1>8, <2>3, <1>a DEF Expand, Held, history
<1>9. CASE RoundEnds
  <2>1. Held = miner
    BY <1>9 DEF RoundEnds, Held
  <2>2. CASE Finish(miner, "max_consecutive_failures_reached")
    BY <1>b, <2>1, <2>2
  <2>3. CASE ~(miner.failures >= MaxFailures)
    <3>1. pc' = "round" /\ miner' = miner /\ UNCHANGED <<history, crashes>>
      BY <1>9, <2>3, Zenon DEF RoundEnds
    <3> QED
      BY <1>a, <2>1, <3>1 DEF Held, history
  <2> QED
    BY <1>9, <2>2, <2>3, Zenon DEF RoundEnds
<1>10. CASE Crash
  <2>1. /\ pc' = "off" /\ disk' = disk /\ runs' = runs /\ accepted' = accepted
        /\ crashes' = crashes + 1
    BY <1>10 DEF Crash
  <2>2. Held' = Load
    BY <2>1, LoadKept DEF Held
  <2>3. D' = D + limit
    BY <2>1, <1>l, Numbers
  <2>4. Held.runs <= Load.runs + limit /\ Held.submitted <= Load.submitted + limit
    BY Numbers, <1>l DEF CostInv
  <2>5. /\ Load.runs <= runs /\ Load.submitted <= accepted
        /\ runs <= Load.runs + D + limit
        /\ accepted <= Load.submitted + D + limit
    BY <1>d, <2>4, Numbers DEF CostInv, Spent
  <2> QED
    BY <1>d, <2>1, <2>2, <2>3, <2>5, Numbers DEF Spent
<1>11. CASE UNCHANGED vars
  <2>1. UNCHANGED <<pc, miner, disk, runs, accepted, crashes>>
    BY <1>11 DEF vars, history
  <2> QED
    BY <2>1, <1>a, LoadKept DEF Held
<1> QED
  BY <1>1, <1>2, <1>3, <1>4, <1>5, <1>6, <1>7, <1>8, <1>9, <1>10, <1>11, <1>b, ExpandsOrEnds
  DEF RoundWasEmpty, Next, Step, Outcome

\* Every submission the platform took, heard of or not, is of a simulation of its own.
HeardInv == accepted + unheard + InWork <= runs

LEMMA HeardStep == TypeOK /\ HeardInv /\ [Next]_vars => HeardInv'
<1> SUFFICES ASSUME TypeOK, HeardInv, [Next]_vars PROVE HeardInv'
  OBVIOUS
<1>a. ASSUME UNCHANGED <<runs, accepted, unheard>>, InWork' = 0 \/ InWork' = InWork
      PROVE  HeardInv'
  BY <1>a, Numbers DEF HeardInv
<1>b. ASSUME NEW why, Finish(Held, why) PROVE HeardInv'
  <2>1. InWork' = 0
    BY <1>b, FinishHolds DEF InWork
  <2> QED
    BY <1>a, <1>b, <2>1, FinishHolds
<1>1. CASE StartRefused \/ Stop
  BY <1>1, <1>b, StopFinishes
<1>2. CASE Start \/ RoundBegins \/ RoundGoesOn \/ SimulationEligible \/ Expand
  <2>1. InWork' = 0 \/ InWork' = InWork
    BY <1>2 DEF Start, RoundBegins, RoundGoesOn, SimulationEligible, Expand, InWork
  <2>2. UNCHANGED <<runs, accepted, unheard>>
    BY <1>2 DEF Start, RoundBegins, RoundGoesOn, SimulationEligible, Expand, history
  <2> QED
    BY <1>a, <2>1, <2>2
<1>3. CASE Skip
  BY <1>3, <1>a, SkipChanges DEF InWork
<1>4. CASE Simulate
  <2>1. runs' = runs + 1 /\ accepted' = accepted /\ unheard' = unheard
    BY <1>4, SimulateChanges
  <2>2. InWork = 0 /\ InWork' = 1
    BY <1>4, SimulateChanges DEF InWork
  <2> QED
    BY <2>1, <2>2, Numbers DEF HeardInv
<1>5. CASE Outcome
  <2>1. /\ runs' = runs
        /\ \/ accepted' = accepted /\ unheard' \in {unheard, unheard + 1}
           \/ accepted' = accepted + 1 /\ unheard' = unheard
    BY <1>5, OutcomeChanges
  <2>2. InWork = 1 /\ InWork' = 0
    BY <1>5, OutcomeChanges DEF InWork
  <2> QED
    BY <2>1, <2>2, Numbers DEF HeardInv
<1>6. CASE RoundEnds
  <2>1. Held = miner /\ InWork = 0
    BY <1>6 DEF RoundEnds, Held, InWork
  <2>2. CASE Finish(miner, "max_consecutive_failures_reached")
    BY <1>b, <2>1, <2>2
  <2>3. CASE ~(miner.failures >= MaxFailures)
    <3>1. pc' = "round" /\ UNCHANGED history
      BY <1>6, <2>3, Zenon DEF RoundEnds
    <3> QED
      BY <1>a, <3>1 DEF history, InWork
  <2> QED
    BY <1>6, <2>2, <2>3, Zenon DEF RoundEnds
<1>7. CASE Crash
  <2>1. /\ runs' = runs /\ accepted' = accepted /\ pc' = "off"
        /\ unheard' = unheard \/ (pc = "submit" /\ unheard' = unheard + 1)
    BY <1>7 DEF Crash
  <2>2. InWork' = 0 /\ (pc = "submit" => InWork = 1)
    BY <2>1 DEF InWork
  <2> QED
    BY <2>1, <2>2, Numbers DEF HeardInv
<1>8. CASE UNCHANGED vars
  BY <1>8, <1>a DEF vars, history, InWork
<1> QED
  BY <1>1, <1>2, <1>3, <1>4, <1>5, <1>6, <1>7, <1>8, <1>b, ExpandsOrEnds
  DEF RoundWasEmpty, Next, Step, Outcome

\* A round that has begun takes something, unless its size is zero.
PickInv == pc = "pick" /\ taken = 0 /\ limit > 0 => MorePicks

LEMMA PickStep == TypeOK /\ CostInv /\ PickInv /\ [Next]_vars => PickInv'
<1> SUFFICES ASSUME TypeOK, CostInv, PickInv, [Next]_vars, pc' = "pick", taken' = 0, limit' > 0
             PROVE  MorePicks'
  BY DEF PickInv
<1>1. CASE RoundBegins
  <2>1. /\ taken' = 0 /\ StopReason(miner) = "none"
        /\ miner' = [miner EXCEPT !.round = miner.round + 1]
    BY <1>1 DEF RoundBegins
  <2>2. /\ miner'.queue = miner.queue /\ miner'.runs = miner.runs
        /\ miner'.submitted = miner.submitted
    BY <2>1, Numbers DEF Miners
  <2>3. miner.queue # <<>> /\ ~(miner.runs >= MaxRuns) /\ ~TargetReached(miner)
    BY <2>1, Zenon DEF StopReason
  <2>4. miner.runs \in Nat /\ MaxRuns \in Nat /\ limit' \in Nat
    BY LimitKept, Numbers DEF Miners
  <2>5. miner'.runs < MaxRuns /\ taken' < limit'
    BY <2>1, <2>2, <2>3, <2>4
  <2>6. ~TargetReached(miner')
    BY <2>2, <2>3 DEF TargetReached
  <2>7. miner'.queue # <<>>
    BY <2>2, <2>3
  <2> QED
    BY <2>5, <2>6, <2>7, Zenon DEF MorePicks, TargetReached
<1>2. CASE Skip
  BY <1>2, SkipChanges, Numbers
<1>3. CASE Outcome
  BY <1>3, OutcomeChanges, Numbers
<1>4. CASE StartRefused \/ Stop \/ RoundWasEmpty
  BY <1>4, StopFinishes, FinishHolds DEF RoundWasEmpty
<1>5. CASE Start \/ Simulate \/ SimulationEligible \/ RoundGoesOn \/ Expand \/ Crash
  BY <1>5 DEF Start, Simulate, SimulationEligible, RoundGoesOn, Expand, Crash
<1>6. CASE RoundEnds
  <2>1. pc' \in {"off", "round"}
    BY <1>6, Zenon DEF RoundEnds, Finish
  <2> QED
    BY <2>1
<1>7. CASE UNCHANGED vars
  BY <1>7 DEF vars, PickInv, MorePicks, TargetReached
<1> QED
  BY <1>1, <1>2, <1>3, <1>4, <1>5, <1>6, <1>7, ExpandsOrEnds DEF Next, Step, Outcome

LEMMA CostInit == Init => CostInv /\ Spent /\ HeardInv /\ PickInv
<1> SUFFICES ASSUME Init PROVE CostInv /\ Spent /\ HeardInv /\ PickInv
  OBVIOUS
<1>1. Load = [Blank EXCEPT !.queue = SeedQueue] /\ Held = Load /\ InWork = 0
  BY DEF Init, Load, Held, InWork
<1>2. Load.runs = 0 /\ Load.submitted = 0 /\ Held.runs = 0 /\ Held.submitted = 0
  BY <1>1 DEF Blank
<1>3. limit \in Nat
  BY ConstantsAssumption DEF Init
<1> QED
  BY <1>1, <1>2, <1>3, ConstantsAssumption DEF Init, CostInv, Spent, HeardInv, PickInv

LEMMA CostAlways == Spec => [](TypeOK /\ CostInv /\ Spent /\ HeardInv /\ PickInv)
<1>1. Spec => []TypeOK
  BY TypeCorrect
<1>2. TypeOK /\ CostInv /\ Spent /\ HeardInv /\ PickInv /\ [Next]_vars
        => (CostInv /\ Spent /\ HeardInv /\ PickInv)'
  BY CostStep, SpentStep, HeardStep, PickStep
<1> QED
  BY <1>1, <1>2, CostInit, PTL DEF Spec

\* max_runs and target_submissions bound what all runs of a directory cost together, but
\* for parents_per_round at each crash: the budgets are counted in the checkpoint, which
\* is never further behind than the round that was interrupted.  The target is one of
\* answers; with what the platform took unheard, the simulations are the bound.
THEOREM Cost == Spec => []CostBounded
<1>1. TypeOK /\ CostInv /\ Spent /\ HeardInv => CostBounded
  <2> SUFFICES ASSUME TypeOK, CostInv, Spent, HeardInv PROVE CostBounded
    OBVIOUS
  <2> DEFINE D == crashes * limit
  <2>1. D \in Nat
    BY Numbers
  <2>2. Held.runs <= MaxRuns /\ Held.submitted <= Target
    BY DEF CostInv
  <2>3. runs <= Held.runs + D /\ accepted <= Held.submitted + D
    BY DEF Spent
  <2>4. accepted + unheard <= runs
    BY Numbers DEF HeardInv
  <2> QED
    BY <2>1, <2>2, <2>3, <2>4, Numbers DEF CostBounded
<1> QED
  BY <1>1, CostAlways, PTL

-----------------------------------------------------------------------------
(* What is seen and queued.  Each step changes the two together.           *)

Known(m) == m.seen \cup Queued(m)

SeedExprs == {Seeds[i] : i \in DOMAIN Seeds}

LEMMA PoppedKnown ==
    ASSUME miner \in Miners, miner.queue # <<>>
    PROVE  /\ Known(Popped(Head(miner.queue))) = Known(miner)
           /\ Head(miner.queue).expr \in Queued(miner)
<1> DEFINE q == miner.queue
<1>1. q \in Seq(Candidates) /\ Len(q) > 0 /\ Len(q) \in Nat /\ DOMAIN q = 1..Len(q)
  BY DEF Miners
<1>2. Head(q) = q[1] /\ Len(Tail(q)) = Len(q) - 1 /\ DOMAIN Tail(q) = 1..(Len(q) - 1)
  BY <1>1
<1>3. \A i \in 1..(Len(q) - 1) : Tail(q)[i] = q[i + 1]
  BY <1>1
<1> DEFINE T == {Tail(q)[i].expr : i \in DOMAIN Tail(q)}
<1>4. Queued(miner) = T \cup {Head(q).expr}
  <2>1. ASSUME NEW e \in Queued(miner) PROVE e \in T \cup {Head(q).expr}
    <3>1. PICK i \in 1..Len(q) : e = q[i].expr
      BY <1>1, <2>1 DEF Queued
    <3>2. CASE i = 1
      BY <1>2, <3>1, <3>2
    <3>3. CASE i # 1
      <4>1. i - 1 \in 1..(Len(q) - 1) /\ (i - 1) + 1 = i
        BY <1>1, <3>3
      <4>2. Tail(q)[i - 1] = q[i]
        BY <4>1, <1>3
      <4> QED
        BY <1>2, <3>1, <4>1, <4>2
    <3> QED
      BY <3>2, <3>3
  <2>2. T \cup {Head(q).expr} \subseteq Queued(miner)
    <3>1. \A i \in 1..(Len(q) - 1) : i + 1 \in 1..Len(q)
      BY <1>1
    <3>2. \A i \in DOMAIN Tail(q) : Tail(q)[i].expr \in Queued(miner)
      BY <1>1, <1>2, <1>3, <3>1 DEF Queued
    <3>3. Head(q).expr \in Queued(miner)
      BY <1>1, <1>2 DEF Queued
    <3> QED
      BY <3>2, <3>3
  <2> QED
    BY <2>1, <2>2
<1>5. Queued(Popped(Head(q))) = T
  BY PoppedType DEF Queued
<1> QED
  BY <1>4, <1>5, PoppedType DEF Known

LEMMA BredKnown ==
    ASSUME NEW m \in Miners, NEW c \in Candidates, NEW s \in Proposals(m)
    PROVE  Known(m) \subseteq Known(Breed(m, c, s))
<1> DEFINE k == [i \in 1..Len(s) |-> [expr |-> s[i], gen |-> c.gen + 1]]
<1>1. PICK n \in Nat : s \in [1..n -> NewOnes(m)] /\ Len(s) = n
  BY BredType
<1>2. k \in Seq(Candidates) /\ m.queue \in Seq(Candidates)
  <2>1. c.gen + 1 \in Nat /\ NewOnes(m) \subseteq Exprs
    BY DEF Candidates, NewOnes
  <2>2. k \in [1..n -> Candidates]
    BY <1>1, <2>1 DEF Candidates
  <2> QED
    BY <2>2 DEF Miners
<1>3. Breed(m, c, s).queue = m.queue \o k /\ Breed(m, c, s).seen = m.seen
  BY BredType DEF Breed, Miners
<1>4. \A i \in DOMAIN m.queue : i \in DOMAIN (m.queue \o k) /\ (m.queue \o k)[i] = m.queue[i]
  BY <1>2
<1>5. Queued(m) \subseteq Queued(Breed(m, c, s))
  BY <1>3, <1>4 DEF Queued
<1> QED
  BY <1>3, <1>5 DEF Known

\* A step that neither loads nor saves leaves what is seen and queued alone, or moves the
\* head of the queue to what is seen, or adds children.
LEMMA HeldSteps ==
    ASSUME TypeOK, [Next]_vars
    PROVE  \/ Crash
           \/ Simulate /\ Held = miner /\ Held' = miner'
           \/ /\ UNCHANGED <<simulated, crashes>>
              /\ \/ Held'.seen = Held.seen
                 \/ \E e \in Held.seen \cup Illegal : Held'.seen = Held.seen \cup {e}
              /\ Known(Held) \subseteq Known(Held')
              /\ UNCHANGED disk \/ Load' = Held'
<1>0. miner \in Miners
  BY DEF TypeOK
<1> DEFINE Goal ==
       /\ UNCHANGED <<simulated, crashes>>
       /\ \/ Held'.seen = Held.seen
          \/ \E e \in Held.seen \cup Illegal : Held'.seen = Held.seen \cup {e}
       /\ Known(Held) \subseteq Known(Held')
       /\ UNCHANGED disk \/ Load' = Held'
<1>a. ASSUME Held'.seen = Held.seen, Held'.queue = Held.queue, UNCHANGED <<simulated, crashes>>,
             UNCHANGED disk \/ Load' = Held'
      PROVE  Goal
  BY <1>a DEF Known, Queued
<1>b. ASSUME NEW why, Finish(Held, why) PROVE Goal
  BY <1>a, <1>b, FinishHolds
<1>1. CASE StartRefused \/ Stop
  BY <1>1, <1>b, StopFinishes
<1>2. CASE Start
  BY <1>2, <1>a DEF Start, Held, history
<1>3. CASE RoundBegins \/ RoundGoesOn \/ SimulationEligible
  <2>1. miner'.seen = miner.seen /\ miner'.queue = miner.queue
    BY <1>0, <1>3 DEF RoundBegins, RoundGoesOn, SimulationEligible, Miners
  <2>2. Held = miner /\ Held' = miner'
    BY <1>3 DEF RoundBegins, RoundGoesOn, SimulationEligible, Held
  <2>3. UNCHANGED <<simulated, crashes, disk>>
    BY <1>3 DEF RoundBegins, RoundGoesOn, SimulationEligible, history
  <2> QED
    BY <2>1, <2>2, <2>3, <1>a
<1>4. CASE Skip
  <2>1. Held = miner /\ Held' = miner' /\ UNCHANGED <<simulated, crashes, disk>>
    BY <1>4, SkipChanges DEF Held
  <2>2. miner' = Popped(Head(miner.queue)) /\ miner.queue # <<>>
        /\ Head(miner.queue).expr \in miner.seen \cup Illegal
    BY <1>4, SkipChanges
  <2> QED
    BY <1>0, <2>1, <2>2, PoppedType, PoppedKnown
<1>5. CASE Simulate
  BY <1>5, SimulateChanges DEF Held
<1>6. CASE Outcome
  <2>1. Held = miner /\ Held' = miner' /\ UNCHANGED <<simulated, crashes, disk>>
    BY <1>6, OutcomeChanges DEF Held
  <2>2. miner'.seen = miner.seen /\ miner'.queue = miner.queue
    BY <1>0, <1>6, OutcomeMiner
  <2> QED
    BY <2>1, <2>2, <1>a
<1>7. CASE Expand
  <2>1. PICK c \in parents, s \in Proposals(miner) : miner' = Breed(miner, c, s)
    BY <1>7 DEF Expand
  <2>2. c \in Candidates
    BY DEF TypeOK
  <2>3. Held = miner /\ Held' = miner' /\ UNCHANGED <<simulated, crashes, disk>>
    BY <1>7 DEF Expand, Held, history
  <2>4. miner'.seen = miner.seen /\ Known(miner) \subseteq Known(miner')
    BY <1>0, <2>1, <2>2, BredType, BredKnown
  <2> QED
    BY <2>3, <2>4
<1>8. CASE RoundEnds
  <2>1. Held = miner
    BY <1>8 DEF RoundEnds, Held
  <2>2. CASE Finish(miner, "max_consecutive_failures_reached")
    BY <1>b, <2>1, <2>2
  <2>3. CASE ~(miner.failures >= MaxFailures)
    <3>1. pc' = "round" /\ disk' = miner /\ miner' = miner /\ UNCHANGED <<history, crashes>>
      BY <1>8, <2>3, Zenon DEF RoundEnds
    <3>2. Load' = miner /\ Held' = miner
      BY <1>0, <3>1, NoCheckpointAssumption DEF Load, Held
    <3> QED
      BY <1>a, <2>1, <3>1, <3>2 DEF history
  <2> QED
    BY <1>8, <2>2, <2>3, Zenon DEF RoundEnds
<1>9. CASE UNCHANGED vars
  <2>1. UNCHANGED <<pc, miner, disk, simulated, crashes>>
    BY <1>9 DEF vars, history
  <2> QED
    BY <2>1, <1>a, LoadKept DEF Held
<1> QED
  BY <1>1, <1>2, <1>3, <1>4, <1>5, <1>6, <1>7, <1>8, <1>9, <1>b, ExpandsOrEnds
  DEF RoundWasEmpty, Next, Step, Outcome

OnceInv ==
    \A e \in Exprs : simulated[e] <= crashes \/ (e \in Held.seen /\ simulated[e] <= crashes + 1)

LEMMA OnceStep == TypeOK /\ OnceInv /\ [Next]_vars => OnceInv'
<1> SUFFICES ASSUME TypeOK, OnceInv, [Next]_vars PROVE OnceInv'
  OBVIOUS
<1>0. simulated \in [Exprs -> Nat] /\ crashes \in Nat /\ miner \in Miners
  BY DEF TypeOK
<1>1. CASE Crash
  <2>1. simulated' = simulated /\ crashes' = crashes + 1
    BY <1>1 DEF Crash
  <2> QED
    BY <1>0, <2>1 DEF OnceInv
<1>2. CASE Simulate /\ Held = miner /\ Held' = miner'
  <2> DEFINE h == Head(miner.queue).expr
  <2>1. /\ simulated' = [simulated EXCEPT ![h] = simulated[h] + 1]
        /\ crashes' = crashes /\ h \notin miner.seen
    BY <1>2, SimulateChanges
  <2>2. miner'.seen = miner.seen \cup {h} /\ h \in Exprs
    BY <1>0, <1>2, SimulateChanges, PoppedType DEF Miners, Candidates
  <2>3. ASSUME NEW e \in Exprs, e # h
        PROVE  simulated'[e] <= crashes' \/ (e \in Held'.seen /\ simulated'[e] <= crashes' + 1)
    <3>1. simulated'[e] = simulated[e]
      BY <1>0, <2>1, <2>3
    <3> QED
      BY <1>2, <2>1, <2>2, <2>3, <3>1 DEF OnceInv
  <2>4. simulated'[h] <= crashes' + 1 /\ h \in Held'.seen
    <3>1. simulated[h] <= crashes
      BY <1>2, <2>1, <2>2 DEF OnceInv
    <3>2. simulated'[h] = simulated[h] + 1 /\ simulated[h] \in Nat
      BY <1>0, <2>1, <2>2
    <3> QED
      BY <1>0, <1>2, <2>1, <2>2, <3>1, <3>2
  <2> QED
    BY <2>3, <2>4 DEF OnceInv
<1>3. CASE UNCHANGED <<simulated, crashes>> /\ Held.seen \subseteq Held'.seen
  BY <1>3 DEF OnceInv
<1> QED
  BY <1>1, <1>2, <1>3, HeldSteps

\* No expression is simulated twice but for the rounds of crashes, whatever the seeds and
\* the generator: what was simulated is seen, and what is seen is skipped.
THEOREM Once == Spec => []SimulatedOnce
<1>1. Init => OnceInv
  BY DEF Init, OnceInv
<1>2. TypeOK /\ OnceInv => SimulatedOnce
  <2> SUFFICES ASSUME TypeOK, OnceInv, NEW e \in Exprs PROVE simulated[e] <= 1 + crashes
    BY DEF SimulatedOnce
  <2>1. simulated[e] \in Nat /\ crashes \in Nat
    BY DEF TypeOK
  <2> QED
    BY <2>1 DEF OnceInv
<1> QED
  BY <1>1, <1>2, OnceStep, TypeCorrect, PTL DEF Spec

-----------------------------------------------------------------------------
KeptInv == SeedExprs \subseteq Known(Load) /\ Known(Load) \subseteq Known(Held)

LEMMA KeptStep == TypeOK /\ KeptInv /\ [Next]_vars => KeptInv'
<1> SUFFICES ASSUME TypeOK, KeptInv, [Next]_vars PROVE KeptInv'
  OBVIOUS
<1>0. miner \in Miners /\ SeedExprs' = SeedExprs
  BY DEF TypeOK, SeedExprs
<1>1. CASE Crash
  <2>1. Held' = Load' /\ Load' = Load
    BY <1>1, LoadKept DEF Crash, Held
  <2>2. Known(Held)' = Known(Held') /\ Known(Load)' = Known(Load')
    BY DEF Known, Queued
  <2> QED
    BY <1>0, <2>1, <2>2 DEF KeptInv
<1>2. CASE Simulate /\ Held = miner /\ Held' = miner'
  <2>1. miner.queue # <<>> /\ Load' = Load
    BY <1>2, SimulateChanges, LoadKept
  <2>2. miner' = [Popped(Head(miner.queue)) EXCEPT !.runs = @ + 1]
    BY <1>2, SimulateChanges
  <2>3. Popped(Head(miner.queue)) \in Miners
    BY <1>0, <2>1, PoppedType
  <2>4. /\ miner'.queue = Popped(Head(miner.queue)).queue
        /\ miner'.seen = Popped(Head(miner.queue)).seen
    BY <2>2, <2>3 DEF Miners
  <2>5. Known(miner') = Known(miner)
    BY <1>0, <2>1, <2>4, PoppedKnown DEF Known, Queued
  <2> QED
    BY <1>0, <1>2, <2>1, <2>5 DEF KeptInv, Known, Queued
<1>3. CASE Known(Held) \subseteq Known(Held') /\ (UNCHANGED disk \/ Load' = Held')
  <2>1. CASE UNCHANGED disk
    BY <1>0, <1>3, <2>1, LoadKept DEF KeptInv, Known, Queued
  <2>2. CASE Load' = Held'
    BY <1>0, <1>3, <2>2 DEF KeptInv, Known, Queued
  <2> QED
    BY <1>3, <2>1, <2>2
<1> QED
  BY <1>1, <1>2, <1>3, HeldSteps

LEMMA KeptInit == Init => KeptInv
<1> SUFFICES ASSUME Init PROVE KeptInv
  OBVIOUS
<1>1. Load = [Blank EXCEPT !.queue = SeedQueue] /\ Held = Load
  BY DEF Init, Load, Held
<1>2. Load.queue = SeedQueue
  BY <1>1 DEF Blank
<1>3. \A i \in DOMAIN Seeds : i \in DOMAIN SeedQueue /\ SeedQueue[i].expr = Seeds[i]
  BY DEF SeedQueue
<1> QED
  BY <1>1, <1>2, <1>3 DEF KeptInv, Known, Queued, SeedExprs

\* No candidate is dropped by popping, breeding, saving, reloading or dying: the seeds are
\* among what the checkpoint knows, and that among what the miner knows.
THEOREM Kept == Spec => []NoCandidateLost
<1>1. KeptInv => NoCandidateLost
  <2> SUFFICES ASSUME KeptInv PROVE NoCandidateLost
    OBVIOUS
  <2>1. pc # "off" => Held = miner
    BY DEF Held
  <2>2. disk # NoCheckpoint => Load = disk
    BY DEF Load
  <2> QED
    BY <2>1, <2>2 DEF NoCandidateLost, KeptInv, Known, SeedExprs
<1> QED
  BY <1>1, KeptInit, KeptStep, TypeCorrect, PTL DEF Spec

-----------------------------------------------------------------------------
(* Why a run ended.  A reason is written by the step that ends the run; what it *)
(* says of the totals stays true, because they only grow.                       *)

WorkInv ==
    /\ Held.failures <= Held.runs /\ Load.failures <= Load.runs
    /\ pc = "simulate" => Held.failures < Held.runs
    /\ \A e \in Exprs \ Illegal : e \in Held.seen \cup Load.seen => simulated[e] > 0

TotalsGrow ==
    /\ runs <= runs' /\ accepted <= accepted'
    /\ \A e \in Exprs : simulated[e] <= simulated'[e]

\* How a step leaves the failures and the runs of the miner.
LEMMA FailureSteps ==
    ASSUME TypeOK, [Next]_vars
    PROVE  \/ Held'.failures = Held.failures /\ Held'.runs = Held.runs /\ pc' # "simulate"
           \/ Held'.runs = Held.runs /\ Held'.failures = 0 /\ pc' # "simulate"
           \/ Held'.runs = Held.runs /\ pc = "simulate" /\ Held'.failures = Held.failures + 1
              /\ pc' # "simulate"
           \/ Held'.runs = Held.runs + 1 /\ Held'.failures = Held.failures
           \/ Held' = Load /\ pc' # "simulate"
           \/ Held' = Held /\ pc' = pc
<1>0. miner \in Miners
  BY DEF TypeOK
<1>b. ASSUME NEW why, Finish(Held, why) PROVE Held' = Held /\ pc' = "off"
  BY <1>b, FinishHolds
<1>1. CASE StartRefused \/ Stop
  BY <1>1, <1>b, StopFinishes
<1>2. CASE Start
  BY <1>2 DEF Start, Held
<1>3. CASE RoundBegins \/ RoundGoesOn
  BY <1>0, <1>3 DEF RoundBegins, RoundGoesOn, Held, Miners
<1>4. CASE Skip
  BY <1>0, <1>4, SkipChanges, PoppedType DEF Held
<1>5. CASE Simulate
  <2>1. miner'.runs = miner.runs + 1 /\ miner'.failures = miner.failures
    BY <1>0, <1>5, SimulateChanges, PoppedType DEF Miners
  <2> QED
    BY <1>5, <2>1, SimulateChanges DEF Held
<1>6. CASE Outcome
  <2>1. Held = miner /\ Held' = miner' /\ pc' = "pick"
    BY <1>6, OutcomeChanges DEF Held
  <2> QED
    BY <1>0, <1>6, <2>1, OutcomeChanges DEF Miners
<1>7. CASE SimulationEligible
  BY <1>0, <1>7 DEF SimulationEligible, Held, Miners
<1>8. CASE Expand
  <2>1. PICK c \in parents, s \in Proposals(miner) : miner' = Breed(miner, c, s)
    BY <1>8 DEF Expand
  <2>2. c \in Candidates
    BY DEF TypeOK
  <2> QED
    BY <1>0, <1>8, <2>1, <2>2, BredType DEF Expand, Held
<1>9. CASE RoundEnds
  <2>1. Held = miner
    BY <1>9 DEF RoundEnds, Held
  <2>2. CASE Finish(miner, "max_consecutive_failures_reached")
    BY <1>b, <2>1, <2>2
  <2>3. CASE ~(miner.failures >= MaxFailures)
    <3>1. pc' = "round" /\ miner' = miner
      BY <1>9, <2>3, Zenon DEF RoundEnds
    <3> QED
      BY <2>1, <3>1 DEF Held
  <2> QED
    BY <1>9, <2>2, <2>3, Zenon DEF RoundEnds
<1>10. CASE Crash
  BY <1>10, LoadKept DEF Crash, Held
<1>11. CASE UNCHANGED vars
  BY <1>11, LoadKept DEF vars, Held
<1> QED
  BY <1>1, <1>2, <1>3, <1>4, <1>5, <1>6, <1>7, <1>8, <1>9, <1>10, <1>11, <1>b, ExpandsOrEnds
  DEF RoundWasEmpty, Next, Step, Outcome

\* Where the checkpoint can come from.
LEMMA SavedIsHeld == TypeOK /\ [Next]_vars => Load' = Load \/ Load' = Held'
<1> SUFFICES ASSUME TypeOK, [Next]_vars PROVE Load' = Load \/ Load' = Held'
  OBVIOUS
<1>1. UNCHANGED disk \/ Load' = Held'
  BY HeldSteps, SimulateChanges DEF Crash
<1> QED
  BY <1>1, LoadKept

LEMMA TotalsStep == TypeOK /\ [Next]_vars => TotalsGrow
<1> SUFFICES ASSUME TypeOK, [Next]_vars PROVE TotalsGrow
  OBVIOUS
<1>0. /\ simulated \in [Exprs -> Nat] /\ runs \in Nat /\ accepted \in Nat
      /\ miner \in Miners
  BY DEF TypeOK
<1>1. CASE UNCHANGED <<simulated, runs, accepted>>
  BY <1>0, <1>1 DEF TotalsGrow
<1>2. CASE Simulate
  <2>1. Head(miner.queue).expr \in Exprs
    BY <1>0, <1>2, SimulateChanges, PoppedType DEF Candidates
  <2>2. /\ simulated' = [simulated EXCEPT ![Head(miner.queue).expr] = simulated[Head(miner.queue).expr] + 1]
        /\ runs' = runs + 1 /\ accepted' = accepted
    BY <1>2, SimulateChanges
  <2>3. \A e \in Exprs : simulated[e] <= simulated'[e]
    BY <1>0, <2>1, <2>2
  <2> QED
    BY <1>0, <2>2, <2>3 DEF TotalsGrow
<1>3. CASE Outcome
  <2>1. UNCHANGED <<simulated, runs>> /\ (accepted' = accepted \/ accepted' = accepted + 1)
    BY <1>3, OutcomeChanges
  <2> QED
    BY <1>0, <2>1 DEF TotalsGrow
<1>4. CASE Skip
  BY <1>1, <1>4, SkipChanges
<1>5. CASE StartRefused \/ Stop \/ RoundWasEmpty
  BY <1>1, <1>5, StopFinishes, FinishHolds DEF RoundWasEmpty
<1>6. CASE RoundEnds
  <2>1. UNCHANGED history
    BY <1>6, Zenon DEF RoundEnds, Finish
  <2> QED
    BY <1>1, <2>1 DEF history
<1>7. CASE Start \/ RoundBegins \/ SimulationEligible \/ RoundGoesOn \/ Expand \/ Crash
  BY <1>1, <1>7
  DEF Start, RoundBegins, SimulationEligible, RoundGoesOn, Expand, Crash, history
<1>8. CASE UNCHANGED vars
  BY <1>1, <1>8 DEF vars, history
<1> QED
  BY <1>2, <1>3, <1>4, <1>5, <1>6, <1>7, <1>8, ExpandsOrEnds DEF Next, Step, Outcome

LEMMA WorkStep == TypeOK /\ WorkInv /\ [Next]_vars => WorkInv'
<1> SUFFICES ASSUME TypeOK, WorkInv, [Next]_vars PROVE WorkInv'
  OBVIOUS
<1>0. TypeOK'
  BY TypeStep
<1>1. Load.runs \in Nat /\ Load.failures \in Nat /\ Held.runs \in Nat /\ Held.failures \in Nat
  BY Numbers DEF Miners
<1>2. pc' = "simulate" => Held'.failures < Held'.runs
  BY <1>1, FailureSteps DEF WorkInv
<1>3. Held'.failures <= Held'.runs
  BY <1>1, FailureSteps DEF WorkInv
<1>4. Load'.failures <= Load'.runs
  BY <1>3, SavedIsHeld DEF WorkInv
<1>5. ASSUME NEW e \in Exprs \ Illegal, e \in Held'.seen \cup Load'.seen PROVE simulated'[e] > 0
  <2>1. simulated[e] \in Nat /\ simulated'[e] \in Nat /\ simulated[e] <= simulated'[e]
    BY <1>0, TotalsStep DEF TypeOK, TotalsGrow
  <2>2. e \in Held.seen \cup Load.seen => simulated'[e] > 0
    BY <2>1 DEF WorkInv
  <2>3. CASE Crash
    BY <1>5, <2>2, <2>3, LoadKept DEF Crash, Held
  <2>4. CASE Simulate /\ Held = miner /\ Held' = miner'
    <3> DEFINE h == Head(miner.queue).expr
    <3>1. /\ simulated' = [simulated EXCEPT ![h] = simulated[h] + 1] /\ Load' = Load
      BY <2>4, SimulateChanges, LoadKept
    <3>2. miner'.seen = miner.seen \cup {h}
      BY <2>4, SimulateChanges, PoppedType DEF TypeOK, Miners
    <3>3. e = h => simulated'[e] = simulated[e] + 1
      BY <3>1 DEF TypeOK
    <3> QED
      BY <1>5, <2>1, <2>2, <2>4, <3>1, <3>2, <3>3
  <2>5. CASE /\ \/ Held'.seen = Held.seen
                \/ \E i \in Held.seen \cup Illegal : Held'.seen = Held.seen \cup {i}
    <3>1. e \in Held'.seen => e \in Held.seen
      BY <2>5
    <3> QED
      BY <1>5, <2>2, <3>1, SavedIsHeld
  <2> QED
    BY <2>3, <2>4, <2>5, HeldSteps
<1> QED
  BY <1>2, <1>3, <1>4, <1>5 DEF WorkInv

LEMMA ReasonStep ==
    TypeOK /\ Spent /\ PickInv /\ KeptInv /\ WorkInv /\ ReasonIsTrue /\ [Next]_vars => ReasonIsTrue'
<1> SUFFICES ASSUME TypeOK, Spent, PickInv, KeptInv, WorkInv, ReasonIsTrue, [Next]_vars
             PROVE  ReasonIsTrue'
  OBVIOUS
<1>0. /\ runs \in Nat /\ accepted \in Nat /\ runs' \in Nat /\ accepted' \in Nat
      /\ simulated \in [Exprs -> Nat] /\ simulated' \in [Exprs -> Nat]
      /\ MaxRuns \in Nat /\ Target \in Nat /\ MaxFailures \in Nat
  BY TypeStep, ConstantsAssumption DEF TypeOK
<1>1. runs <= runs' /\ accepted <= accepted' /\ \A e \in Exprs : simulated[e] <= simulated'[e]
  BY TotalsStep DEF TotalsGrow
<1>s. \A i \in DOMAIN Seeds : Seeds[i] \in Exprs
  BY ConstantsAssumption
<1>l. limit' = limit
  BY LimitKept
<1>2. CASE UNCHANGED reason
  <2>1. \A e \in Exprs : simulated[e] > 0 => simulated'[e] > 0
    BY <1>0, <1>1
  <2> QED
    BY <1>0, <1>1, <1>2, <1>l, <1>s, <2>1 DEF ReasonIsTrue
<1>3. CASE StartRefused \/ Stop
  <2>1. PICK why : /\ Finish(Held, why) /\ reason' = why
                   /\ \/ why = "stop_file_detected" \/ why = "not authenticated"
                      \/ (why = "max_runs_reached" /\ Held.runs >= MaxRuns)
                      \/ (why = "target_submissions_reached" /\ TargetReached(Held))
                      \/ why = "max_rounds_reached"
                      \/ (why = "queue_empty" /\ Held.queue = <<>>)
    BY <1>3, StopFinishes
  <2>2. CASE why \in {"stop_file_detected", "not authenticated", "max_rounds_reached"}
    BY <2>1, <2>2 DEF ReasonIsTrue
  <2>3. CASE why = "max_runs_reached" /\ Held.runs >= MaxRuns
    <3>1. runs' >= MaxRuns
      BY <1>0, <1>1, <2>3, Numbers DEF Spent
    <3> QED
      BY <2>1, <2>3, <3>1 DEF ReasonIsTrue
  <2>4. CASE why = "target_submissions_reached" /\ TargetReached(Held)
    <3>1. accepted' >= Target
      BY <1>0, <1>1, <2>4, Numbers DEF Spent, TargetReached
    <3> QED
      BY <2>1, <2>4, <3>1 DEF ReasonIsTrue
  <2>5. CASE why = "queue_empty" /\ Held.queue = <<>>
    <3>1. Queued(Held) = {}
      BY <2>5 DEF Queued
    <3>2. ASSUME NEW i \in DOMAIN Seeds, Seeds[i] \notin Illegal PROVE simulated'[Seeds[i]] > 0
      <4>1. Seeds[i] \in Held.seen /\ Seeds[i] \in Exprs \ Illegal
        BY <1>s, <3>1, <3>2 DEF KeptInv, Known, SeedExprs
      <4>2. simulated[Seeds[i]] > 0
        BY <4>1 DEF WorkInv
      <4> QED
        BY <1>0, <1>1, <4>1, <4>2
    <3> QED
      BY <2>1, <2>5, <3>2 DEF ReasonIsTrue
  <2> QED
    BY <2>1, <2>2, <2>3, <2>4, <2>5
<1>4. CASE RoundEnds
  <2>1. CASE miner.failures >= MaxFailures
    <3>1. reason' = "max_consecutive_failures_reached" /\ Held = miner
      BY <1>4, <2>1 DEF RoundEnds, Finish, Held
    <3>2. runs' >= MaxFailures
      BY <1>0, <1>1, <2>1, <3>1, Numbers DEF WorkInv, Spent
    <3> QED
      BY <3>1, <3>2 DEF ReasonIsTrue
  <2>2. CASE ~(miner.failures >= MaxFailures)
    BY <1>2, <1>4, <2>2, Zenon DEF RoundEnds
  <2> QED
    BY <2>1, <2>2
<1>5. CASE Start \/ Crash
  <2>1. reason' \in {"none", "crashed"}
    BY <1>5 DEF Start, Crash
  <2> QED
    BY <2>1 DEF ReasonIsTrue
<1>6. CASE Skip \/ Simulate \/ Outcome
  BY <1>2, <1>6, SkipChanges, SimulateChanges, OutcomeChanges
<1>7. CASE RoundBegins \/ SimulationEligible \/ RoundGoesOn \/ Expand
  BY <1>2, <1>7 DEF RoundBegins, SimulationEligible, RoundGoesOn, Expand
<1>8. CASE UNCHANGED vars
  BY <1>2, <1>8 DEF vars
<1>9. CASE RoundWasEmpty
  <2>1. ~(limit' > 0) /\ reason' = "queue_empty"
    BY <1>9, <1>l DEF RoundWasEmpty, PickInv, Finish
  <2> QED
    BY <2>1 DEF ReasonIsTrue
<1> QED
  BY <1>3, <1>4, <1>5, <1>6, <1>7, <1>8, <1>9, ExpandsOrEnds DEF Next, Step, Outcome

\* The reason a run of the miner ends with is true of everything done in its directory,
\* by this process and the ones before it: a budget it names was spent, and an empty
\* queue means that every legal seed was simulated.
THEOREM Reasons == Spec => []ReasonIsTrue
<1>1. Init => WorkInv /\ ReasonIsTrue
  <2> SUFFICES ASSUME Init PROVE WorkInv /\ ReasonIsTrue
    OBVIOUS
  <2>1. Load = [Blank EXCEPT !.queue = SeedQueue] /\ Held = Load
    BY DEF Init, Load, Held
  <2>2. Load.runs = 0 /\ Load.failures = 0 /\ Load.seen = {}
    BY <2>1 DEF Blank
  <2> QED
    BY <2>1, <2>2 DEF Init, WorkInv, ReasonIsTrue
<1>2. Spec => []KeptInv
  BY KeptInit, KeptStep, TypeCorrect, PTL DEF Spec
<1> QED
  BY <1>1, <1>2, WorkStep, ReasonStep, CostAlways, PTL DEF Spec
=============================================================================
