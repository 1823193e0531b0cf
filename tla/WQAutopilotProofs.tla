-------------------------- MODULE WQAutopilotProofs --------------------------
(***************************************************************************)
(* Proofs about WQAutopilot: what a branch that was pruned gets, what the  *)
(* record of a branch never forgets, and that the caps of the branches add *)
(* up to the budget and are kept, for any branches, candidates, budgets    *)
(* and limits, any number of sessions and any crashes.                     *)
(***************************************************************************)
EXTENDS WQAutopilot, FiniteSetTheorems, TLAPS

\* The steps of Next, each with what it binds.
LEMMA Steps ==
    ASSUME Next
    PROVE  \/ \E resume \in BOOLEAN : Start(resume)
           \/ \E c \in Candidates : Assign(c)
           \/ Cycle
           \/ Finish
           \/ Crash
BY DEF Next

-----------------------------------------------------------------------------
(* The branches of a session.                                              *)

\* The branches of a session are open, and all that its child writes is theirs.
\* A session without a state to resume knows of no branch.
Separate ==
    /\ pc \in {"off", "child"} /\ resumed \in BOOLEAN
    /\ pc = "child" => previous = (IF resumed THEN state ELSE NoBranch)
    /\ Pruned(previous) \cap DOMAIN budgets = {}
    /\ cycle \in Nat /\ cycle <= Len(dirs)
    /\ dirs \in Seq(SUBSET Rows)
    /\ \A row \in pool : row.cand \in Candidates /\ row.branch \in Branches \cap DOMAIN budgets
    /\ \A i \in 1..cycle : \A row \in dirs[i] : row.branch \in DOMAIN budgets
    /\ DOMAIN budgets \subseteq Branches

LEMMA OpenBranches ==
    ASSUME NEW quotas, NEW records
    PROVE  /\ DOMAIN Open(quotas, records) \subseteq DOMAIN quotas
           /\ Pruned(records) \cap DOMAIN Open(quotas, records) = {}
BY DEF Open, Restrict, Pruned

LEMMA AllocationDomain ==
    ASSUME NEW quotas, NEW amount, NEW caps \in Allocations(quotas, amount)
    PROVE  DOMAIN caps = DOMAIN quotas
BY DEF Allocations

LEMMA NoBranchDomain == DOMAIN NoBranch = {} /\ Pruned(NoBranch) = {}
BY DEF NoBranch, Pruned

LEMMA QuotaBranches ==
    ASSUME NEW primary \in Branches
    PROVE  DOMAIN Quotas(primary) \subseteq Branches
<1>1. Fallback \in Seq(Branches) /\ Len(Fallback) = 3
  BY InputsAssumption
<1>2. 1 \in 1..3 /\ 2 \in 1..3 /\ 3 \in 1..3
  OBVIOUS
<1>3. \A i \in 1..3 : Fallback[i] \in Branches
  BY <1>1
<1>4. Fallback[1] \in Branches /\ Fallback[2] \in Branches /\ Fallback[3] \in Branches
  BY <1>2, <1>3
<1> QED
  BY <1>4 DEF Quotas

LEMMA InitSeparate == Init => Separate
<1> SUFFICES ASSUME Init PROVE Separate
  OBVIOUS
<1>1. /\ pc = "off" /\ resumed = FALSE /\ previous = NoBranch /\ budgets = NoBranch
      /\ pool = {} /\ cycle = 0 /\ dirs = <<>>
  BY DEF Init
<1>2. cycle \in Nat /\ cycle <= Len(dirs) /\ dirs \in Seq(SUBSET Rows)
  BY <1>1
<1>3. Pruned(previous) \cap DOMAIN budgets = {} /\ DOMAIN budgets \subseteq Branches
  BY <1>1, NoBranchDomain
<1>4. \A i \in 1..cycle : \A row \in dirs[i] : row.branch \in DOMAIN budgets
  BY <1>1
<1> QED
  BY <1>1, <1>2, <1>3, <1>4 DEF Separate

LEMMA StartSeparate ==
    ASSUME Separate, NEW resume \in BOOLEAN, Start(resume)
    PROVE  Separate'
<1>1. PICK primary \in Branches :
         budgets' \in (IF Open(Quotas(primary), previous') = NoBranch THEN {NoBranch}
                       ELSE Allocations(Open(Quotas(primary), previous'), Budget))
  BY DEF Start
<1>2. DOMAIN budgets' = DOMAIN Open(Quotas(primary), previous')
  <2>1. CASE Open(Quotas(primary), previous') = NoBranch
    BY <1>1, <2>1
  <2>2. CASE Open(Quotas(primary), previous') # NoBranch
    BY <1>1, <2>2, AllocationDomain
  <2> QED
    BY <2>1, <2>2
<1>3. DOMAIN budgets' \subseteq Branches /\ Pruned(previous') \cap DOMAIN budgets' = {}
  BY <1>2, OpenBranches, QuotaBranches
<1>4. pc' = "child" /\ pool' = {} /\ cycle' = 0 /\ dirs' = dirs /\ state' = state
  BY DEF Start
<1>5. resumed' \in BOOLEAN /\ previous' = (IF resumed' THEN state' ELSE NoBranch)
  BY <1>4 DEF Start
<1>6. cycle' \in Nat /\ cycle' <= Len(dirs') /\ dirs' \in Seq(SUBSET Rows)
  BY <1>4 DEF Separate
<1>7. \A i \in 1..cycle' : \A row \in dirs'[i] : row.branch \in DOMAIN budgets'
  BY <1>4
<1>8. Pruned(previous)' = Pruned(previous')
  BY DEF Pruned
<1> QED
  BY <1>3, <1>4, <1>5, <1>6, <1>7, <1>8 DEF Separate

LEMMA AssignSeparate ==
    ASSUME Separate, NEW c \in Candidates, Assign(c)
    PROVE  Separate'
<1>1. PICK wanted \in DOMAIN budgets : \E b \in IF HasRoom(wanted) THEN {wanted} ELSE Roomiest :
         pool' = IF \E row \in pool : row.cand = c THEN pool
                 ELSE pool \cup {[cand |-> c, branch |-> b]}
  BY DEF Assign
<1>2. PICK b \in DOMAIN budgets :
         pool' = IF \E row \in pool : row.cand = c THEN pool
                 ELSE pool \cup {[cand |-> c, branch |-> b]}
  BY <1>1 DEF Roomiest
<1>3. UNCHANGED <<pc, resumed, previous, budgets, cycle, dirs, state>>
  BY DEF Assign, plan, files
<1>4. \A row \in pool' : row.cand \in Candidates /\ row.branch \in Branches \cap DOMAIN budgets
  BY <1>2 DEF Separate
<1> QED
  BY <1>3, <1>4 DEF Separate, Pruned

\* The rows a cycle writes are of the branches of its pool.
LEMMA CycleWrites ==
    ASSUME Separate, Cycle
    PROVE  \E rows \in SUBSET Rows :
             /\ \A row \in rows : row.branch \in DOMAIN budgets
             /\ dirs' = IF cycle < Len(dirs) THEN [dirs EXCEPT ![cycle + 1] = rows]
                        ELSE Append(dirs, rows)
<1>1. PICK kept \in SUBSET {row \in pool : row.cand \notin seen} : \E outcome \in [kept -> Outcomes] :
        dirs' = LET rows == {[cand |-> row.cand, branch |-> row.branch, outcome |-> outcome[row]] : row \in kept}
                IN IF cycle < Len(dirs) THEN [dirs EXCEPT ![cycle + 1] = rows]
                   ELSE Append(dirs, rows)
  BY DEF Cycle
<1>2. PICK outcome \in [kept -> Outcomes] :
        dirs' = LET rows == {[cand |-> row.cand, branch |-> row.branch, outcome |-> outcome[row]] : row \in kept}
                IN IF cycle < Len(dirs) THEN [dirs EXCEPT ![cycle + 1] = rows]
                   ELSE Append(dirs, rows)
  BY <1>1
<1> DEFINE rows == {[cand |-> row.cand, branch |-> row.branch, outcome |-> outcome[row]] : row \in kept}
<1>3. \A row \in kept : row.cand \in Candidates /\ row.branch \in Branches \cap DOMAIN budgets
                        /\ outcome[row] \in Outcomes
  BY <1>2 DEF Separate
<1>4. rows \in SUBSET Rows /\ \A row \in rows : row.branch \in DOMAIN budgets
  BY <1>3 DEF Rows
<1> QED
  BY <1>2, <1>4

LEMMA CycleSeparate ==
    ASSUME Separate, Cycle
    PROVE  /\ Separate'
           /\ Len(dirs') >= Len(dirs)
<1>1. PICK rows \in SUBSET Rows :
             /\ \A row \in rows : row.branch \in DOMAIN budgets
             /\ dirs' = IF cycle < Len(dirs) THEN [dirs EXCEPT ![cycle + 1] = rows]
                        ELSE Append(dirs, rows)
  BY CycleWrites
<1>2. /\ UNCHANGED <<pc, resumed, previous, budgets, state>>
      /\ cycle' = cycle + 1 /\ pool' = {}
  BY DEF Cycle, plan
<1>3. /\ cycle \in Nat /\ cycle <= Len(dirs) /\ dirs \in Seq(SUBSET Rows)
      /\ \A i \in 1..cycle : \A row \in dirs[i] : row.branch \in DOMAIN budgets
  BY DEF Separate
<1>4. /\ dirs' \in Seq(SUBSET Rows) /\ Len(dirs') >= Len(dirs) /\ cycle' <= Len(dirs')
      /\ dirs'[cycle + 1] = rows
      /\ \A i \in 1..cycle : dirs'[i] = dirs[i]
  <2>1. CASE cycle < Len(dirs)
    BY <1>1, <1>2, <1>3, <2>1
  <2>2. CASE cycle = Len(dirs)
    BY <1>1, <1>2, <1>3, <2>2
  <2> QED
    BY <1>3, <2>1, <2>2
<1>5. \A i \in 1..cycle' : \A row \in dirs'[i] : row.branch \in DOMAIN budgets'
  <2>1. 1..cycle' = (1..cycle) \cup {cycle + 1}
    BY <1>2, <1>3
  <2> QED
    BY <1>1, <1>2, <1>3, <1>4, <2>1
<1>6. cycle' \in Nat
  BY <1>2, <1>3
<1> QED
  BY <1>2, <1>4, <1>5, <1>6 DEF Separate, Pruned

LEMMA IdleSeparate ==
    ASSUME Separate, Idle, dirs' = dirs
    PROVE  Separate'
<1>1. /\ pc' = "off" /\ resumed' = FALSE /\ previous' = NoBranch /\ budgets' = NoBranch
      /\ pool' = {} /\ cycle' = 0
  BY DEF Idle
<1>2. cycle' \in Nat /\ cycle' <= Len(dirs') /\ dirs' \in Seq(SUBSET Rows)
  BY <1>1 DEF Separate
<1>3. \A i \in 1..cycle' : \A row \in dirs'[i] : row.branch \in DOMAIN budgets'
  BY <1>1
<1>4. Pruned(previous)' \cap DOMAIN budgets' = {} /\ DOMAIN budgets' \subseteq Branches
  BY <1>1, NoBranchDomain DEF Pruned
<1> QED
  BY <1>1, <1>2, <1>3, <1>4 DEF Separate

LEMMA SeparateStep == Separate /\ [Next]_vars => Separate'
<1> SUFFICES ASSUME Separate, [Next]_vars PROVE Separate'
  OBVIOUS
<1>1. ASSUME NEW resume \in BOOLEAN, Start(resume) PROVE Separate'
  BY <1>1, StartSeparate
<1>2. ASSUME NEW c \in Candidates, Assign(c) PROVE Separate'
  BY <1>2, AssignSeparate
<1>3. CASE Cycle
  BY <1>3, CycleSeparate
<1>4. CASE Finish
  BY <1>4, IdleSeparate DEF Finish
<1>5. CASE Crash
  BY <1>5, IdleSeparate DEF Crash, files
<1>6. CASE UNCHANGED vars
  BY <1>6 DEF vars, plan, child, files, Separate, Pruned
<1> QED
  BY <1>1, <1>2, <1>3, <1>4, <1>5, <1>6, Steps

LEMMA SeparateAlways == Spec => []Separate
BY InitSeparate, SeparateStep, PTL DEF Spec

\* No candidate of a resumed session comes to a branch pruned before it: the branch has
\* no budget, and a row that names it goes elsewhere (_apply_branch_candidate_budgets).
THEOREM NothingForPruned == Spec => []PrunedGetsNothing
<1>1. Separate => PrunedGetsNothing
  BY DEF Separate, PrunedGetsNothing, Pruned
<1> QED
  BY <1>1, SeparateAlways, PTL

\* A record of build_autopilot_branch_state begins with the one before it, and a status
\* of "pruned" is the first it looks at: no resumed session takes it back.
THEOREM PrunedStays == Spec => PrunedForever
<1> DEFINE Kept == resumed \/ pc = "off" \/ state' = state => Pruned(state) \subseteq Pruned(state')
<1>1. Separate /\ [Next]_vars => [Kept]_vars
  <2> SUFFICES ASSUME Separate, Next, resumed \/ pc = "off" \/ state' = state
               PROVE  Pruned(state) \subseteq Pruned(state')
    OBVIOUS
  <2>1. CASE state' = state
    BY <2>1
  <2>2. CASE Finish
    <3>1. pc = "child" /\ state' = [b \in DOMAIN previous \cup DOMAIN budgets |-> Record(b)]
      BY <2>2 DEF Finish
    <3>2. CASE resumed
      <4>1. previous = state
        BY <3>1, <3>2 DEF Separate
      <4>2. ASSUME NEW b \in Pruned(state) PROVE b \in DOMAIN state' /\ state'[b].status = "pruned"
        <5>1. b \in DOMAIN previous /\ previous[b].status = "pruned"
          BY <4>1, <4>2 DEF Pruned
        <5>2. Before(b).status = "pruned"
          BY <5>1 DEF Before
        <5>3. Record(b).status = "pruned"
          BY <5>2 DEF Record, Status
        <5> QED
          BY <3>1, <5>1, <5>3
      <4> QED
        BY <4>2 DEF Pruned
    <3> QED
      BY <2>1, <3>1, <3>2
  <2> QED
    BY <2>1, <2>2, Steps DEF Start, Assign, Cycle, Crash, files
<1> QED
  BY <1>1, SeparateAlways, PTL DEF Spec, PrunedForever

-----------------------------------------------------------------------------
(* The record of a branch.                                                 *)

\* The record of a branch counts at least what came of it, and a branch that had a
\* ready outcome is not among the pruned.
Counted ==
    /\ DOMAIN state \subseteq Branches
    /\ \A b \in DOMAIN state : state[b].simulated \in Nat /\ state[b].ready \in Nat
    /\ \A b \in Branches : truth[b].simulated \in Nat /\ truth[b].ready \in Nat
    /\ \A b \in DOMAIN state :
           state[b].simulated >= truth[b].simulated /\ state[b].ready >= truth[b].ready
    /\ \A b \in Branches \ DOMAIN state : truth[b].simulated = 0 /\ truth[b].ready = 0
    /\ \A b \in Pruned(state) : truth[b].ready = 0

LEMMA UniqueGrows ==
    ASSUME NEW rows \in SUBSET Rows, NEW few \in SUBSET rows, NEW b
    PROVE  /\ Unique(rows, b) \in Nat /\ Unique(few, b) \in Nat
           /\ Unique(few, b) <= Unique(rows, b)
           /\ (\A row \in few : row.branch # b) => Unique(few, b) = 0
<1> DEFINE Of(rs) == {row.cand : row \in {r \in rs : r.branch = b}}
<1>1. IsFiniteSet(Candidates)
  BY InputsAssumption
<1>2. Of(rows) \in SUBSET Candidates /\ Of(few) \in SUBSET Of(rows)
  BY DEF Rows
<1>3. IsFiniteSet(Of(rows))
  BY <1>1, <1>2, FS_Subset
<1>4. IsFiniteSet(Of(few)) /\ Cardinality(Of(few)) <= Cardinality(Of(rows))
  BY <1>2, <1>3, FS_Subset
<1>5. Cardinality(Of(rows)) \in Nat /\ Cardinality(Of(few)) \in Nat
  BY <1>3, <1>4, FS_CardinalityType
<1>6. (\A row \in few : row.branch # b) => Of(few) = {}
  OBVIOUS
<1>7. Cardinality({}) = 0
  BY FS_EmptySet
<1>8. Unique(rows, b) = Cardinality(Of(rows)) /\ Unique(few, b) = Cardinality(Of(few))
  BY DEF Unique
<1> HIDE DEF Of
<1> QED
  BY <1>4, <1>5, <1>6, <1>7, <1>8

\* What a session adds to truth, and what it goes on from.
Mine == UNION {dirs[i] : i \in 1..cycle}
Old(b) == IF resumed THEN truth[b] ELSE Nothing

LEMMA MineWritten ==
    ASSUME Separate
    PROVE  /\ Written \in SUBSET Rows /\ Mine \in SUBSET Written
           /\ {r \in Written : r.outcome = "ready"} \in SUBSET Rows
           /\ {r \in Mine : r.outcome = "ready"} \in SUBSET {r \in Written : r.outcome = "ready"}
           /\ \A row \in Mine : row.branch \in DOMAIN budgets
<1>1. /\ cycle \in Nat /\ cycle <= Len(dirs) /\ dirs \in Seq(SUBSET Rows)
      /\ \A i \in 1..cycle : \A row \in dirs[i] : row.branch \in DOMAIN budgets
  BY DEF Separate
<1>2. \A i \in DOMAIN dirs : dirs[i] \in SUBSET Rows
  BY <1>1
<1>3. 1..cycle \subseteq DOMAIN dirs
  BY <1>1
<1>4. Written \in SUBSET Rows /\ Mine \in SUBSET Written
  BY <1>2, <1>3 DEF Written, Mine, Range
<1>5. \A row \in Mine : row.branch \in DOMAIN budgets
  BY <1>1 DEF Mine
<1> QED
  BY <1>4, <1>5

LEMMA BeforeCounts ==
    ASSUME Separate, Counted, pc = "child", NEW b \in Branches
    PROVE  /\ Before(b).simulated \in Nat /\ Before(b).ready \in Nat
           /\ Old(b).simulated \in Nat /\ Old(b).ready \in Nat
           /\ Before(b).simulated >= Old(b).simulated /\ Before(b).ready >= Old(b).ready
           /\ Before(b).status = "pruned" => Old(b).ready = 0 /\ b \notin DOMAIN budgets
           /\ b \notin DOMAIN previous => Old(b).simulated = 0 /\ Old(b).ready = 0
<1>1. CASE resumed
  <2>1. previous = state /\ Old(b) = truth[b]
    BY <1>1 DEF Separate, Old
  <2>2. CASE b \in DOMAIN state
    <3>1. Before(b) = state[b]
      BY <2>1, <2>2 DEF Before
    <3>2. Before(b).status = "pruned" => b \in Pruned(state)
      BY <2>2, <3>1 DEF Pruned
    <3> QED
      BY <2>1, <2>2, <3>1, <3>2 DEF Counted, Separate
  <2>3. CASE b \notin DOMAIN state
    <3>1. Before(b) = Fresh
      BY <2>1, <2>3 DEF Before
    <3> QED
      BY <2>1, <2>3, <3>1 DEF Counted, Fresh
  <2> QED
    BY <2>2, <2>3
<1>2. CASE ~resumed
  <2>1. previous = NoBranch /\ Old(b) = Nothing
    BY <1>2 DEF Separate, Old
  <2>2. Before(b) = Fresh
    BY <2>1, NoBranchDomain DEF Before
  <2> QED
    BY <2>1, <2>2 DEF Fresh, Nothing
<1> QED
  BY <1>1, <1>2

\* A record is pruned because it was, or has no ready outcome.
LEMMA RecordOf ==
    ASSUME NEW b
    PROVE  /\ Record(b).simulated = Before(b).simulated + Unique(Written, b)
           /\ Record(b).ready = Before(b).ready + Unique({r \in Written : r.outcome = "ready"}, b)
           /\ Record(b).status = "pruned" => Before(b).status = "pruned" \/ ~(Record(b).ready > 0)
<1> DEFINE ready == Before(b).ready + Unique({r \in Written : r.outcome = "ready"}, b)
<1>1. /\ Record(b).simulated = Before(b).simulated + Unique(Written, b)
      /\ Record(b).ready = ready
  BY DEF Record
<1>2. \A simulated, activated, failures :
         Before(b).status # "pruned" /\ ready > 0 => Status(b, simulated, ready, activated, failures) # "pruned"
  BY DEF Status
<1>3. PICK simulated, activated, failures :
         Record(b).status = Status(b, simulated, ready, activated, failures)
  BY DEF Record
<1> HIDE DEF ready
<1>4. Record(b).status = "pruned" => Before(b).status = "pruned" \/ ~(ready > 0)
  BY <1>2, <1>3
<1> QED
  BY <1>1, <1>4 DEF ready

LEMMA FinishCounted ==
    ASSUME Separate, Counted, Finish
    PROVE  Counted'
<1>1. /\ pc = "child"
      /\ state' = [b \in DOMAIN previous \cup DOMAIN budgets |-> Record(b)]
      /\ \A b \in Branches : truth'[b].simulated = Old(b).simulated + Unique(Mine, b)
                          /\ truth'[b].ready = Old(b).ready + Unique({r \in Mine : r.outcome = "ready"}, b)
  BY DEF Finish, Old, Mine
<1>2. DOMAIN state' \subseteq Branches
  BY <1>1, NoBranchDomain DEF Separate, Counted
<1> DEFINE allready == {r \in Written : r.outcome = "ready"}
           myready == {r \in Mine : r.outcome = "ready"}
<1>3. /\ Written \in SUBSET Rows /\ Mine \in SUBSET Written
      /\ allready \in SUBSET Rows /\ myready \in SUBSET allready /\ myready \in SUBSET Mine
      /\ \A row \in Mine : row.branch \in DOMAIN budgets
  BY MineWritten
<1> HIDE DEF allready, myready
<1>4. ASSUME NEW b \in Branches
      PROVE  /\ Unique(Written, b) \in Nat /\ Unique(Mine, b) \in Nat
             /\ Unique(allready, b) \in Nat /\ Unique(myready, b) \in Nat
             /\ Unique(Mine, b) <= Unique(Written, b) /\ Unique(myready, b) <= Unique(allready, b)
             /\ b \notin DOMAIN budgets => Unique(Mine, b) = 0 /\ Unique(myready, b) = 0
  <2>1. b \notin DOMAIN budgets => /\ \A row \in Mine : row.branch # b
                                   /\ \A row \in myready : row.branch # b
    BY <1>3
  <2> QED
    BY <1>3, <2>1, UniqueGrows
<1>5. \A b \in Branches : /\ truth'[b].simulated = Old(b).simulated + Unique(Mine, b)
                          /\ truth'[b].ready = Old(b).ready + Unique(myready, b)
  BY <1>1 DEF myready
<1>6. \A b \in Branches : truth'[b].simulated \in Nat /\ truth'[b].ready \in Nat
  BY <1>1, <1>4, <1>5, BeforeCounts
<1>7. ASSUME NEW b \in DOMAIN state'
      PROVE  /\ state'[b].simulated \in Nat /\ state'[b].ready \in Nat
             /\ state'[b].simulated >= truth'[b].simulated /\ state'[b].ready >= truth'[b].ready
             /\ state'[b].status = "pruned" => truth'[b].ready = 0
  <2>1. b \in Branches /\ state'[b] = Record(b)
    BY <1>1, <1>2
  <2>2. /\ Record(b).simulated = Before(b).simulated + Unique(Written, b)
        /\ Record(b).ready = Before(b).ready + Unique(allready, b)
        /\ Record(b).status = "pruned" => Before(b).status = "pruned" \/ ~(Record(b).ready > 0)
    BY RecordOf DEF allready
  <2>3. /\ Before(b).simulated \in Nat /\ Before(b).ready \in Nat
        /\ Old(b).simulated \in Nat /\ Old(b).ready \in Nat
        /\ Before(b).simulated >= Old(b).simulated /\ Before(b).ready >= Old(b).ready
        /\ Before(b).status = "pruned" => Old(b).ready = 0 /\ b \notin DOMAIN budgets
    BY <1>1, <2>1, BeforeCounts
  <2>4. /\ Record(b).simulated \in Nat /\ Record(b).ready \in Nat
        /\ Record(b).simulated >= truth'[b].simulated /\ Record(b).ready >= truth'[b].ready
    BY <1>4, <1>5, <2>1, <2>2, <2>3
  <2>5. ASSUME Record(b).status = "pruned" PROVE truth'[b].ready = 0
    <3>1. CASE Before(b).status = "pruned"
      BY <1>4, <1>5, <2>1, <2>3, <3>1
    <3>2. CASE ~(Record(b).ready > 0)
      BY <1>6, <2>1, <2>4, <3>2
    <3> QED
      BY <2>2, <2>5, <3>1, <3>2
  <2> QED
    BY <2>1, <2>4, <2>5
<1>8. ASSUME NEW b \in Branches \ DOMAIN state'
      PROVE  truth'[b].simulated = 0 /\ truth'[b].ready = 0
  <2>1. b \notin DOMAIN previous /\ b \notin DOMAIN budgets
    BY <1>1
  <2>2. Old(b).simulated = 0 /\ Old(b).ready = 0
    BY <1>1, <2>1, BeforeCounts
  <2> QED
    BY <1>4, <1>5, <2>1, <2>2
<1>9. \A b \in Pruned(state)' : b \in DOMAIN state' /\ state'[b].status = "pruned"
  BY DEF Pruned
<1> QED
  BY <1>2, <1>6, <1>7, <1>8, <1>9 DEF Counted

LEMMA CountedStep == Separate /\ Counted /\ [Next]_vars => Counted'
<1> SUFFICES ASSUME Separate, Counted, [Next]_vars PROVE Counted'
  OBVIOUS
<1>1. CASE Finish
  BY <1>1, FinishCounted
<1>2. CASE UNCHANGED <<state, truth>>
  BY <1>2 DEF Counted, Pruned
<1> QED
  BY <1>1, <1>2, Steps DEF Start, Assign, Cycle, Crash, vars, files

LEMMA CountedAlways == Spec => []Counted
<1>1. Init => Counted
  BY NoBranchDomain DEF Init, Counted, Nothing
<1> QED
  BY <1>1, CountedStep, SeparateAlways, PTL DEF Spec

\* The record of a branch counts at least the simulations and ready outcomes of every
\* session that ended in the line of sessions it continues.
THEOREM Cumulative == Spec => []NothingUncounted
<1>1. Counted => NothingUncounted
  BY DEF Counted, NothingUncounted, Nothing
<1> QED
  BY <1>1, CountedAlways, PTL

\* A branch with a ready outcome in a session that counts is never pruned.
THEOREM Productive == Spec => []ReadyNotPruned
<1>1. Counted => ReadyNotPruned
  BY DEF Counted, ReadyNotPruned
<1> QED
  BY <1>1, CountedAlways, PTL

-----------------------------------------------------------------------------
(* The shares of a budget.                                                 *)

\* The points under a function, over some of its domain.
Points(f, D) == UNION {{b} \X (1..f[b]) : b \in D}

LEMMA PointsAdd ==
    ASSUME NEW f, NEW D, NEW b, b \notin D, f[b] \in Nat, IsFiniteSet(Points(f, D))
    PROVE  /\ IsFiniteSet(Points(f, D \cup {b}))
           /\ Cardinality(Points(f, D \cup {b})) = Cardinality(Points(f, D)) + f[b]
<1> DEFINE column == {b} \X (1..f[b])
<1>1. IsFiniteSet({b}) /\ Cardinality({b}) = 1
  BY FS_Singleton
<1>2. PICK n \in Nat : n = f[b]
  OBVIOUS
<1>3. IsFiniteSet(1..n) /\ Cardinality(1..n) = n
  BY FS_Interval
<1>4. IsFiniteSet({b} \X (1..n)) /\ Cardinality({b} \X (1..n)) = 1 * n
  BY <1>1, <1>3, FS_Product
<1>5. IsFiniteSet(column) /\ Cardinality(column) = n
  BY <1>2, <1>4
<1>6. Points(f, D \cup {b}) = Points(f, D) \cup column
  BY DEF Points
<1>7. Points(f, D) \cap column = {}
  BY DEF Points
<1> HIDE DEF column
<1>8. Cardinality({}) = 0 /\ Cardinality(Points(f, D)) \in Nat
  BY FS_EmptySet, FS_CardinalityType
<1>9. /\ IsFiniteSet(Points(f, D) \cup column)
      /\ Cardinality(Points(f, D) \cup column)
           = Cardinality(Points(f, D)) + Cardinality(column) - Cardinality(Points(f, D) \cap column)
  BY <1>5, FS_Union
<1>10. Cardinality(Points(f, D) \cap column) = 0
  BY <1>7, <1>8
<1>11. Cardinality(Points(f, D) \cup column) = Cardinality(Points(f, D)) + n
  BY <1>5, <1>8, <1>9, <1>10
<1> QED
  BY <1>2, <1>6, <1>9, <1>11

\* What a function has at a branch, and 0 where it has nothing.
Value(f, b) == IF b \in DOMAIN f THEN f[b] ELSE 0

LEMMA PointsMaybe ==
    ASSUME NEW f, NEW D, NEW b, b \notin D, \A c \in DOMAIN f : f[c] \in Nat,
           IsFiniteSet(Points(f, D \cap DOMAIN f))
    PROVE  /\ IsFiniteSet(Points(f, (D \cup {b}) \cap DOMAIN f))
           /\ Cardinality(Points(f, (D \cup {b}) \cap DOMAIN f))
                = Cardinality(Points(f, D \cap DOMAIN f)) + Value(f, b)
           /\ Value(f, b) \in Nat
<1>1. Value(f, b) \in Nat
  BY DEF Value
<1>2. CASE b \in DOMAIN f
  <2>1. (D \cup {b}) \cap DOMAIN f = (D \cap DOMAIN f) \cup {b} /\ b \notin D \cap DOMAIN f
    BY <1>2
  <2>2. Value(f, b) = f[b] /\ f[b] \in Nat
    BY <1>2 DEF Value
  <2>3. /\ IsFiniteSet(Points(f, (D \cap DOMAIN f) \cup {b}))
        /\ Cardinality(Points(f, (D \cap DOMAIN f) \cup {b}))
             = Cardinality(Points(f, D \cap DOMAIN f)) + f[b]
    BY <2>1, <2>2, PointsAdd
  <2> QED
    BY <1>1, <2>1, <2>2, <2>3
<1>3. CASE b \notin DOMAIN f
  <2>1. (D \cup {b}) \cap DOMAIN f = D \cap DOMAIN f /\ Value(f, b) = 0
    BY <1>3 DEF Value
  <2>2. PICK n \in Nat : n = Cardinality(Points(f, D \cap DOMAIN f))
    BY FS_CardinalityType
  <2>3. Points(f, (D \cup {b}) \cap DOMAIN f) = Points(f, D \cap DOMAIN f)
    BY <2>1
  <2>4. Cardinality(Points(f, (D \cup {b}) \cap DOMAIN f)) = n /\ n + Value(f, b) = n
    BY <2>1, <2>2, <2>3
  <2> QED
    BY <1>1, <2>2, <2>3, <2>4
<1> QED
  BY <1>2, <1>3

\* A sum over at most three branches is the sum of its values there.
LEMMA SumOfThree ==
    ASSUME NEW f, NEW p, NEW x, NEW y, p # x, p # y, x # y,
           DOMAIN f \subseteq {p, x, y}, \A c \in DOMAIN f : f[c] \in Nat
    PROVE  SumOf(f) = Value(f, p) + Value(f, x) + Value(f, y)
<1>1. IsFiniteSet(Points(f, {} \cap DOMAIN f)) /\ Cardinality(Points(f, {} \cap DOMAIN f)) = 0
  <2>1. Points(f, {} \cap DOMAIN f) = {}
    BY DEF Points
  <2> QED
    BY <2>1, FS_EmptySet
<1>2. /\ IsFiniteSet(Points(f, ({} \cup {p}) \cap DOMAIN f))
      /\ Cardinality(Points(f, ({} \cup {p}) \cap DOMAIN f)) = 0 + Value(f, p)
      /\ Value(f, p) \in Nat
  BY <1>1, PointsMaybe
<1>3. {} \cup {p} = {p}
  OBVIOUS
<1>4. /\ IsFiniteSet(Points(f, {p} \cap DOMAIN f))
      /\ Cardinality(Points(f, {p} \cap DOMAIN f)) = Value(f, p)
  BY <1>2, <1>3
<1>5. /\ IsFiniteSet(Points(f, ({p} \cup {x}) \cap DOMAIN f))
      /\ Cardinality(Points(f, ({p} \cup {x}) \cap DOMAIN f)) = Value(f, p) + Value(f, x)
      /\ Value(f, x) \in Nat
  <2>1. x \notin {p}
    OBVIOUS
  <2>2. /\ IsFiniteSet(Points(f, ({p} \cup {x}) \cap DOMAIN f))
        /\ Cardinality(Points(f, ({p} \cup {x}) \cap DOMAIN f))
             = Cardinality(Points(f, {p} \cap DOMAIN f)) + Value(f, x)
        /\ Value(f, x) \in Nat
    BY <1>4, <2>1, PointsMaybe
  <2> QED
    BY <1>4, <2>2
<1>6. /\ Cardinality(Points(f, ({p} \cup {x} \cup {y}) \cap DOMAIN f))
           = Value(f, p) + Value(f, x) + Value(f, y)
  <2>1. y \notin {p} \cup {x}
    OBVIOUS
  <2> QED
    BY <1>5, <2>1, PointsMaybe
<1>7. ({p} \cup {x} \cup {y}) \cap DOMAIN f = DOMAIN f
  OBVIOUS
<1> QED
  BY <1>6, <1>7 DEF SumOf, Points

\* As many as are in a set of at most three.
LEMMA CountThree ==
    ASSUME NEW p, NEW x, NEW y, p # x, p # y, x # y, NEW s \in SUBSET {p, x, y}
    PROVE  Cardinality(s) = (IF p \in s THEN 1 ELSE 0) + (IF x \in s THEN 1 ELSE 0)
                              + (IF y \in s THEN 1 ELSE 0)
<1>1. \A T, e : IsFiniteSet(T) /\ e \notin T =>
          /\ IsFiniteSet((T \cup {e}) \cap s) /\ IsFiniteSet(T \cap s)
          /\ Cardinality((T \cup {e}) \cap s) = Cardinality(T \cap s) + (IF e \in s THEN 1 ELSE 0)
  <2> SUFFICES ASSUME NEW T, NEW e, IsFiniteSet(T), e \notin T
               PROVE  /\ IsFiniteSet((T \cup {e}) \cap s) /\ IsFiniteSet(T \cap s)
                      /\ Cardinality((T \cup {e}) \cap s)
                           = Cardinality(T \cap s) + (IF e \in s THEN 1 ELSE 0)
    OBVIOUS
  <2>1. IsFiniteSet(T \cap s)
    <3>1. T \cap s \subseteq T
      OBVIOUS
    <3> QED
      BY <3>1, FS_Subset
  <2>2. Cardinality(T \cap s) \in Nat
    BY <2>1, FS_CardinalityType
  <2>3. CASE e \in s
    <3>1. (T \cup {e}) \cap s = (T \cap s) \cup {e} /\ e \notin T \cap s
      BY <2>3
    <3>2. /\ IsFiniteSet((T \cap s) \cup {e})
          /\ Cardinality((T \cap s) \cup {e}) = Cardinality(T \cap s) + 1
      BY <2>1, <3>1, FS_AddElement
    <3> QED
      BY <2>1, <2>3, <3>1, <3>2
  <2>4. CASE e \notin s
    <3>1. (T \cup {e}) \cap s = T \cap s
      BY <2>4
    <3>2. PICK n \in Nat : n = Cardinality(T \cap s)
      BY <2>2
    <3>3. Cardinality((T \cup {e}) \cap s) = n /\ n + 0 = n
      BY <3>1, <3>2
    <3> QED
      BY <2>1, <2>4, <3>1, <3>2, <3>3
  <2> QED
    BY <2>3, <2>4
<1>2. IsFiniteSet({}) /\ IsFiniteSet({p}) /\ IsFiniteSet({p} \cup {x})
  BY FS_EmptySet, FS_Singleton, FS_Union
<1>3. Cardinality(({} \cup {p}) \cap s) = Cardinality({} \cap s) + (IF p \in s THEN 1 ELSE 0)
  BY <1>1, <1>2
<1>4. {} \cup {p} = {p} /\ {} \cap s = {} /\ ({p} \cup {x} \cup {y}) \cap s = s
  OBVIOUS
<1>5. Cardinality({p} \cap s) = (IF p \in s THEN 1 ELSE 0)
  BY <1>3, <1>4, FS_EmptySet
<1>6. Cardinality(({p} \cup {x}) \cap s) = Cardinality({p} \cap s) + (IF x \in s THEN 1 ELSE 0)
  BY <1>1, <1>2
<1>7. y \notin {p} \cup {x}
  OBVIOUS
<1>8. Cardinality(({p} \cup {x} \cup {y}) \cap s)
        = Cardinality(({p} \cup {x}) \cap s) + (IF y \in s THEN 1 ELSE 0)
  BY <1>1, <1>2, <1>7
<1> QED
  BY <1>4, <1>5, <1>6, <1>8

LEMMA Division ==
    ASSUME NEW t \in Nat, NEW w \in Nat \ {0}
    PROVE  t \div w \in Nat /\ t % w \in 0..(w - 1) /\ t = w * (t \div w) + (t % w)
  OBVIOUS

LEMMA WithinOne ==
    ASSUME NEW t \in Int, NEW w \in 1..5, NEW f \in Int, NEW r \in Int, NEW l \in {0, 1},
           t = w * f + r, 0 <= r, r < w, l = 1 => r > 0
    PROVE  t - w < (f + l) * w /\ (f + l) * w < t + w
<1>1. CASE l = 0
  <2>1. (f + l) * w = w * f
    BY <1>1
  <2>2. PICK g \in Int : g = w * f
    OBVIOUS
  <2> QED
    BY <2>1, <2>2
<1>2. CASE l = 1
  <2>1. (f + l) * w = w * f + w
    BY <1>2
  <2>2. PICK g \in Int : g = w * f
    OBVIOUS
  <2> QED
    BY <1>2, <2>1, <2>2
<1> QED
  BY <1>1, <1>2

\* The quotas of the branches that are open.
Shares(quotas, p, x, y) ==
    /\ p # x /\ p # y /\ x # y
    /\ DOMAIN quotas \subseteq {p, x, y} /\ DOMAIN quotas # {}
    /\ \A b \in DOMAIN quotas : quotas[b] = IF b = p THEN 3 ELSE 1

LEMMA SharesExact ==
    ASSUME NEW quotas, NEW p, NEW x, NEW y, Shares(quotas, p, x, y),
           NEW amount \in Nat, NEW caps \in Allocations(quotas, amount)
    PROVE  /\ ExactShares(caps, quotas, amount)
           /\ \A b \in DOMAIN caps : caps[b] \in Nat
<1> DEFINE w == SumOf(quotas)
           Floor(b) == (amount * quotas[b]) \div w
           Fraction(b) == (amount * quotas[b]) % w
           D == DOMAIN quotas
           floors == [b \in D |-> Floor(b)]
<1>1. /\ p # x /\ p # y /\ x # y /\ D \subseteq {p, x, y} /\ D # {}
      /\ \A b \in D : quotas[b] = IF b = p THEN 3 ELSE 1
  BY DEF Shares
<1>2. PICK lucky \in kSubset(amount - SumOf(floors), D) :
         /\ \A b \in lucky, c \in D \ lucky : Fraction(b) >= Fraction(c)
         /\ caps = [b \in D |-> Floor(b) + (IF b \in lucky THEN 1 ELSE 0)]
  BY DEF Allocations
<1>3. lucky \in SUBSET D /\ Cardinality(lucky) = amount - SumOf(floors)
  BY <1>2 DEF kSubset
<1> DEFINE q(b) == Value(quotas, b)
           f(b) == Value(floors, b)
           l(b) == IF b \in lucky THEN 1 ELSE 0
           r(b) == IF b \in D THEN Fraction(b) ELSE 0
<1>4. /\ q(p) \in {0, 3} /\ q(x) \in {0, 1} /\ q(y) \in {0, 1}
      /\ \A b \in D : q(b) = quotas[b] /\ q(b) \in {1, 3}
      /\ \A b : b \notin D => q(b) = 0
  BY <1>1 DEF Value
<1>5. w = q(p) + q(x) + q(y)
  <2>1. \A c \in D : quotas[c] \in Nat
    BY <1>1
  <2> QED
    BY <1>1, <2>1, SumOfThree
<1>6. w \in 1..5 /\ q(p) + q(x) + q(y) # 0
  <2>1. q(p) + q(x) + q(y) # 0
    BY <1>1, <1>4
  <2> QED
    BY <1>4, <1>5, <2>1
<1> HIDE DEF w
<1>7. ASSUME NEW b \in D
      PROVE  /\ Floor(b) \in Nat /\ Fraction(b) \in 0..(w - 1)
             /\ amount * quotas[b] = w * Floor(b) + Fraction(b)
  <2>1. amount * quotas[b] \in Nat /\ w \in Nat \ {0}
    BY <1>1, <1>6
  <2>2. PICK t \in Nat : t = amount * quotas[b]
    BY <2>1
  <2>3. t \div w \in Nat /\ t % w \in 0..(w - 1) /\ t = w * (t \div w) + (t % w)
    BY <2>1, Division
  <2> QED
    BY <2>2, <2>3
<1> HIDE DEF Floor, Fraction
<1>8. /\ DOMAIN floors = D /\ \A b \in D : floors[b] = Floor(b) /\ floors[b] \in Nat
  BY <1>7
<1>9. SumOf(floors) = f(p) + f(x) + f(y)
  <2> HIDE DEF floors
  <2> QED
    BY <1>1, <1>8, SumOfThree
<1>10. \A b : /\ f(b) \in Nat /\ (b \in D => f(b) = Floor(b)) /\ (b \notin D => f(b) = 0)
              /\ r(b) \in Int /\ 0 <= r(b) /\ r(b) < w
              /\ (b \in D => r(b) = Fraction(b)) /\ (b \notin D => r(b) = 0)
  BY <1>6, <1>7, <1>8 DEF Value
<1>11. \A b : amount * q(b) = w * f(b) + r(b)
  BY <1>4, <1>6, <1>7, <1>10
<1>12. Cardinality(lucky) = l(p) + l(x) + l(y)
  BY <1>1, <1>3, CountThree
<1>13. /\ \A b : l(b) \in {0, 1} /\ (l(b) = 1 => b \in D) /\ (q(b) = 0 => l(b) = 0)
       /\ \A b, c : l(b) = 1 /\ l(c) = 0 => r(b) >= r(c)
  <2>1. \A b : l(b) \in {0, 1} /\ (l(b) = 1 => b \in D)
    BY <1>3
  <2>2. \A b : q(b) = 0 => l(b) = 0
    BY <1>4, <2>1
  <2>3. ASSUME NEW b, NEW c, l(b) = 1, l(c) = 0 PROVE r(b) >= r(c)
    <3>1. b \in lucky /\ b \in D /\ c \notin lucky
      BY <2>1, <2>3
    <3>2. CASE c \in D
      BY <1>2, <1>10, <3>1, <3>2
    <3>3. CASE c \notin D
      BY <1>10, <3>3
    <3> QED
      BY <3>2, <3>3
  <2> QED
    BY <2>1, <2>2, <2>3
<1>14. l(p) + l(x) + l(y) = amount - (f(p) + f(x) + f(y))
  BY <1>3, <1>9, <1>12
<1> HIDE DEF q, f, l, r, D, floors
\* What is left over goes to those with a fraction only: the fractions add up to so many wholes.
<1>15. (l(p) = 1 => r(p) > 0) /\ (l(x) = 1 => r(x) > 0) /\ (l(y) = 1 => r(y) > 0)
  <2>1. PICK fp \in Nat, fx \in Nat, fy \in Nat : fp = f(p) /\ fx = f(x) /\ fy = f(y)
    BY <1>10
  <2>2. PICK rp \in Int, rx \in Int, ry \in Int : rp = r(p) /\ rx = r(x) /\ ry = r(y)
    BY <1>10
  <2>3. PICK lp \in {0, 1}, lx \in {0, 1}, ly \in {0, 1} : lp = l(p) /\ lx = l(x) /\ ly = l(y)
    BY <1>13
  <2>4. PICK qp \in {0, 3}, qx \in {0, 1}, qy \in {0, 1} : qp = q(p) /\ qx = q(x) /\ qy = q(y)
    BY <1>4
  <2>5. /\ amount * qp = w * fp + rp /\ amount * qx = w * fx + rx /\ amount * qy = w * fy + ry
        /\ 0 <= rp /\ rp < w /\ 0 <= rx /\ rx < w /\ 0 <= ry /\ ry < w
    BY <1>10, <1>11, <2>1, <2>2, <2>4
  <2>6. /\ w = qp + qx + qy /\ w # 0
        /\ lp + lx + ly = amount - (fp + fx + fy)
        /\ (qp = 0 => lp = 0) /\ (qx = 0 => lx = 0) /\ (qy = 0 => ly = 0)
    BY <1>5, <1>6, <1>13, <1>14, <2>1, <2>3, <2>4
  <2>7. /\ lp = 1 /\ lx = 0 => rp >= rx
        /\ lp = 1 /\ ly = 0 => rp >= ry
        /\ lx = 1 /\ lp = 0 => rx >= rp
        /\ lx = 1 /\ ly = 0 => rx >= ry
        /\ ly = 1 /\ lp = 0 => ry >= rp
        /\ ly = 1 /\ lx = 0 => ry >= rx
    BY <1>13, <2>2, <2>3
  <2>8. ASSUME qp = 3 /\ qx = 1 /\ qy = 1
        PROVE  (lp = 1 => rp > 0) /\ (lx = 1 => rx > 0) /\ (ly = 1 => ry > 0)
    <3>1. /\ 3 * amount = 5 * fp + rp /\ amount = 5 * fx + rx /\ amount = 5 * fy + ry
          /\ rp < 5 /\ rx < 5 /\ ry < 5
      BY <2>5, <2>6, <2>8
    <3>2. rp + rx + ry = 5 * (lp + lx + ly)
      BY <2>6, <3>1
    <3> QED
      BY <2>5, <2>7, <3>1, <3>2
  <2>9. ASSUME qp = 3 /\ qx + qy = 1
        PROVE  (lp = 1 => rp > 0) /\ (lx = 1 => rx > 0) /\ (ly = 1 => ry > 0)
    <3>1. /\ 3 * amount = 4 * fp + rp /\ amount * qx = 4 * fx + rx /\ amount * qy = 4 * fy + ry
          /\ rp < 4 /\ rx < 4 /\ ry < 4
      BY <2>5, <2>6, <2>9
    <3>2. amount * qx + amount * qy = amount
      BY <2>9
    <3>3. rp + rx + ry = 4 * (lp + lx + ly)
      BY <2>6, <3>1, <3>2
    <3>4. lx = 0 \/ ly = 0
      BY <2>6, <2>9
    <3> QED
      BY <2>5, <2>7, <3>1, <3>3, <3>4
  <2>10. ASSUME qp = 0 /\ qx = 1 /\ qy = 1
        PROVE  (lp = 1 => rp > 0) /\ (lx = 1 => rx > 0) /\ (ly = 1 => ry > 0)
    <3>1. /\ 0 = 2 * fp + rp /\ amount = 2 * fx + rx /\ amount = 2 * fy + ry /\ lp = 0
          /\ rp < 2 /\ rx < 2 /\ ry < 2
      BY <2>5, <2>6, <2>10
    <3>2. rp + rx + ry = 2 * (lp + lx + ly)
      BY <2>6, <3>1
    <3> QED
      BY <2>5, <2>7, <3>1, <3>2
  <2>11. ASSUME qp = 3 /\ qx = 0 /\ qy = 0
        PROVE  (lp = 1 => rp > 0) /\ (lx = 1 => rx > 0) /\ (ly = 1 => ry > 0)
    <3>1. /\ 3 * amount = 3 * fp + rp /\ 0 = 3 * fx + rx /\ 0 = 3 * fy + ry
          /\ rp < 3 /\ rx < 3 /\ ry < 3
      BY <2>5, <2>6, <2>11
    <3>2. fp = amount /\ fx = 0 /\ fy = 0
      BY <2>5, <3>1
    <3> QED
      BY <2>6, <3>2
  <2>12. ASSUME qp = 0 /\ qx + qy = 1
        PROVE  (lp = 1 => rp > 0) /\ (lx = 1 => rx > 0) /\ (ly = 1 => ry > 0)
    <3>1. rp = 0 /\ rx = 0 /\ ry = 0 /\ fp = 0 /\ amount * qx = fx /\ amount * qy = fy
      BY <2>5, <2>6, <2>12
    <3>2. amount * qx + amount * qy = amount
      BY <2>12
    <3>3. lp + lx + ly = 0
      BY <2>6, <3>1, <3>2
    <3> QED
      BY <3>3
  <2>13. qp = 3 \/ qp = 0
    OBVIOUS
  <2>14. qx + qy = 0 \/ qx + qy = 1 \/ (qx = 1 /\ qy = 1)
    OBVIOUS
  <2>15. (lp = 1 => rp > 0) /\ (lx = 1 => rx > 0) /\ (ly = 1 => ry > 0)
    BY <2>6, <2>8, <2>9, <2>10, <2>11, <2>12, <2>13, <2>14
  <2> QED
    BY <2>2, <2>3, <2>15
<1>16. DOMAIN caps = D /\ \A b \in D : caps[b] = f(b) + l(b) /\ caps[b] \in Nat
  <2>1. DOMAIN caps = D
    BY <1>2
  <2>2. ASSUME NEW b \in D PROVE caps[b] = f(b) + l(b)
    BY <1>2, <1>10 DEF l
  <2> QED
    BY <1>10, <1>13, <2>1, <2>2
<1>17. SumOf(caps) = amount
  <2>1. SumOf(caps) = Value(caps, p) + Value(caps, x) + Value(caps, y)
    BY <1>1, <1>16, SumOfThree
  <2>2. \A b : Value(caps, b) = f(b) + l(b)
    BY <1>10, <1>13, <1>16 DEF Value
  <2>3. \A b : f(b) \in Nat /\ l(b) \in {0, 1}
    BY <1>10, <1>13
  <2> QED
    BY <1>14, <2>1, <2>2, <2>3
<1>18. ASSUME NEW b \in D
       PROVE  amount * quotas[b] - w < caps[b] * w /\ caps[b] * w < amount * quotas[b] + w
  <2>1. b = p \/ b = x \/ b = y
    BY <1>1
  <2>2. l(b) = 1 => r(b) > 0
    BY <1>15, <2>1
  <2>3. amount * quotas[b] = w * f(b) + r(b) /\ amount * quotas[b] \in Int
    BY <1>1, <1>4, <1>11
  <2> QED
    BY <1>6, <1>10, <1>13, <1>16, <2>2, <2>3, WithinOne
<1> QED
  BY <1>16, <1>17, <1>18 DEF ExactShares, w, D

\* The quotas of a plan: three fifths and a fifth each, of the branches that are open.
LEMMA OpenShares ==
    ASSUME NEW primary \in Branches, NEW records, Open(Quotas(primary), records) # NoBranch
    PROVE  \E x, y : Shares(Open(Quotas(primary), records), primary, x, y)
<1> DEFINE open == Open(Quotas(primary), records)
           two == {Fallback[1], Fallback[2]}
           others == IF primary \in two THEN (two \ {primary}) \cup {Fallback[3]} ELSE two
<1>1. Fallback[1] # Fallback[2] /\ Fallback[1] # Fallback[3] /\ Fallback[2] # Fallback[3]
  <2>1. DOMAIN Fallback = 1..3 /\ IsInjective(Fallback)
    BY InputsAssumption
  <2>2. 1 \in DOMAIN Fallback /\ 2 \in DOMAIN Fallback /\ 3 \in DOMAIN Fallback
    BY <2>1
  <2> QED
    BY <2>1, <2>2 DEF IsInjective
<1>2. \E x, y : others = {x, y} /\ x # y /\ primary # x /\ primary # y
  <2>1. CASE primary = Fallback[1]
    <3>1. others = {Fallback[2], Fallback[3]}
      BY <1>1, <2>1
    <3> QED
      BY <1>1, <2>1, <3>1
  <2>2. CASE primary = Fallback[2]
    <3>1. others = {Fallback[1], Fallback[3]}
      BY <1>1, <2>2
    <3> QED
      BY <1>1, <2>2, <3>1
  <2>3. CASE primary # Fallback[1] /\ primary # Fallback[2]
    BY <1>1, <2>3
  <2> QED
    BY <2>1, <2>2, <2>3
<1>3. Quotas(primary) = [b \in {primary} \cup others |-> IF b = primary THEN 3 ELSE 1]
  BY DEF Quotas
<1>4. PICK x, y : others = {x, y} /\ x # y /\ primary # x /\ primary # y
  BY <1>2
<1> HIDE DEF others, two
<1>5. DOMAIN open \subseteq {primary, x, y} /\ \A b \in DOMAIN open : open[b] = IF b = primary THEN 3 ELSE 1
  BY <1>3, <1>4 DEF Open, Restrict
<1>6. DOMAIN open # {}
  <2>1. open = [b \in DOMAIN open |-> open[b]]
    BY DEF Open, Restrict
  <2> QED
    BY <2>1 DEF NoBranch
<1> QED
  BY <1>4, <1>5, <1>6 DEF Shares

-----------------------------------------------------------------------------
(* The caps of a session.                                                  *)

\* The caps are a division of the budget among the branches of a plan that are open.
Divided ==
    budgets = NoBranch \/ \E primary \in Branches :
        LET open == Open(Quotas(primary), previous)
        IN open # NoBranch /\ budgets \in Allocations(open, Budget)

\* What was simulated of a branch, and what is to be.
Simulations(b) == UNION {{i} \X {row \in dirs[i] : row.branch = b} : i \in 1..cycle}
Assigned(b) == {row \in pool : row.branch = b}

\* The tracker counts every row of a branch that was simulated or still may be, and
\* counts none beyond the cap.
WithinCaps ==
    /\ DOMAIN accepted = DOMAIN budgets
    /\ IsFiniteSet(pool)
    /\ \A b \in DOMAIN budgets :
           /\ accepted[b] \in Nat /\ budgets[b] \in Nat /\ accepted[b] <= budgets[b]
           /\ IsFiniteSet(Simulations(b))
           /\ Cardinality(Simulations(b)) + Cardinality(Assigned(b)) <= accepted[b]

LEMMA AssignedFinite ==
    ASSUME IsFiniteSet(pool), NEW b
    PROVE  IsFiniteSet(Assigned(b)) /\ Cardinality(Assigned(b)) \in Nat
<1>1. Assigned(b) \subseteq pool
  BY DEF Assigned
<1> QED
  BY <1>1, FS_Subset, FS_CardinalityType

\* A session begins with caps that are whole numbers, and with nothing simulated.
LEMMA StartCaps ==
    ASSUME NEW resume \in BOOLEAN, Start(resume)
    PROVE  Divided' /\ WithinCaps'
<1>1. PICK primary \in Branches :
         budgets' \in (IF Open(Quotas(primary), previous') = NoBranch THEN {NoBranch}
                       ELSE Allocations(Open(Quotas(primary), previous'), Budget))
  BY DEF Start
<1> DEFINE open == Open(Quotas(primary), previous')
<1>2. accepted' = [b \in DOMAIN budgets' |-> 0] /\ pool' = {} /\ cycle' = 0
  BY DEF Start
<1>3. Divided'
  <2>1. CASE open = NoBranch
    BY <1>1, <2>1 DEF Divided
  <2>2. CASE open # NoBranch
    <3>1. budgets' \in Allocations(open, Budget)
      BY <1>1, <2>2
    <3>2. Open(Quotas(primary), previous)' = open
      BY DEF Open, Quotas
    <3>3. Allocations(Open(Quotas(primary), previous), Budget)' = Allocations(open, Budget)
      BY <3>2 DEF Allocations
    <3> QED
      BY <2>2, <3>1, <3>2, <3>3 DEF Divided
  <2> QED
    BY <2>1, <2>2
<1>4. \A b \in DOMAIN budgets' : budgets'[b] \in Nat
  <2>1. CASE open = NoBranch
    BY <1>1, <2>1, NoBranchDomain
  <2>2. CASE open # NoBranch
    <3>1. budgets' \in Allocations(open, Budget)
      BY <1>1, <2>2
    <3>2. PICK x, y : Shares(open, primary, x, y)
      BY <2>2, OpenShares
    <3>3. Budget \in Nat
      BY InputsAssumption
    <3> HIDE DEF open
    <3> QED
      BY <3>1, <3>2, <3>3, SharesExact
  <2> QED
    BY <2>1, <2>2
<1>5. \A b : Simulations(b)' = {} /\ Assigned(b)' = {}
  BY <1>2 DEF Simulations, Assigned
<1>6. IsFiniteSet({}) /\ Cardinality({}) = 0
  BY FS_EmptySet
<1>7. \A b \in DOMAIN budgets' : accepted'[b] = 0
  BY <1>2
<1>8. DOMAIN accepted' = DOMAIN budgets' /\ IsFiniteSet(pool')
  BY <1>2, <1>6
<1>9. ASSUME NEW b \in DOMAIN budgets'
      PROVE  /\ accepted'[b] \in Nat /\ budgets'[b] \in Nat /\ accepted'[b] <= budgets'[b]
             /\ IsFiniteSet(Simulations(b)')
             /\ Cardinality(Simulations(b)') + Cardinality(Assigned(b)') <= accepted'[b]
  <2>1. Cardinality(Simulations(b)') = 0 /\ Cardinality(Assigned(b)') = 0 /\ IsFiniteSet(Simulations(b)')
    BY <1>5, <1>6
  <2> QED
    BY <1>4, <1>7, <2>1
<1> QED
  BY <1>3, <1>8, <1>9 DEF WithinCaps

\* A row is charged to a branch that has room, whether the candidate is new to the pool or not.
LEMMA AssignCaps ==
    ASSUME WithinCaps, NEW c \in Candidates, Assign(c)
    PROVE  WithinCaps'
<1>1. PICK wanted \in DOMAIN budgets : \E b \in IF HasRoom(wanted) THEN {wanted} ELSE Roomiest :
         /\ accepted' = [accepted EXCEPT ![b] = @ + 1]
         /\ pool' = IF \E row \in pool : row.cand = c THEN pool
                    ELSE pool \cup {[cand |-> c, branch |-> b]}
  BY DEF Assign
<1>2. PICK b \in DOMAIN budgets :
         /\ accepted[b] < budgets[b]
         /\ accepted' = [accepted EXCEPT ![b] = @ + 1]
         /\ pool' = IF \E row \in pool : row.cand = c THEN pool
                    ELSE pool \cup {[cand |-> c, branch |-> b]}
  BY <1>1 DEF Roomiest, HasRoom
<1>3. UNCHANGED <<budgets, cycle, dirs>>
  BY DEF Assign, plan, files
<1>4. /\ DOMAIN accepted' = DOMAIN budgets
      /\ \A x \in DOMAIN budgets : accepted'[x] = IF x = b THEN accepted[x] + 1 ELSE accepted[x]
  BY <1>2 DEF WithinCaps
<1>5. IsFiniteSet(pool')
  <2>1. IsFiniteSet(pool)
    BY DEF WithinCaps
  <2>2. IsFiniteSet(pool \cup {[cand |-> c, branch |-> b]})
    BY <2>1, FS_AddElement
  <2> QED
    BY <1>2, <2>1, <2>2
<1>6. \A x : Simulations(x)' = Simulations(x)
  BY <1>3 DEF Simulations
<1>7. ASSUME NEW x \in DOMAIN budgets
      PROVE  /\ accepted'[x] \in Nat /\ accepted'[x] <= budgets[x]
             /\ Cardinality(Simulations(x)) + Cardinality(Assigned(x)') <= accepted'[x]
  <2>1. /\ accepted[x] \in Nat /\ budgets[x] \in Nat /\ accepted[x] <= budgets[x]
        /\ IsFiniteSet(Simulations(x)) /\ IsFiniteSet(pool)
        /\ Cardinality(Simulations(x)) + Cardinality(Assigned(x)) <= accepted[x]
    BY DEF WithinCaps
  <2>2. /\ IsFiniteSet(Assigned(x)) /\ Cardinality(Assigned(x)) \in Nat
        /\ Cardinality(Simulations(x)) \in Nat
    BY <2>1, AssignedFinite, FS_CardinalityType
  <2>3. CASE x # b
    <3>1. Assigned(x)' = Assigned(x)
      BY <1>2, <2>3 DEF Assigned
    <3> QED
      BY <1>4, <2>1, <2>3, <3>1
  <2>4. CASE x = b
    <3>1. Assigned(x)' \subseteq Assigned(x) \cup {[cand |-> c, branch |-> b]}
      BY <1>2 DEF Assigned
    <3>2. /\ IsFiniteSet(Assigned(x) \cup {[cand |-> c, branch |-> b]})
          /\ Cardinality(Assigned(x) \cup {[cand |-> c, branch |-> b]}) <= Cardinality(Assigned(x)) + 1
      <4>1. CASE [cand |-> c, branch |-> b] \in Assigned(x)
        <5>1. Assigned(x) \cup {[cand |-> c, branch |-> b]} = Assigned(x)
          BY <4>1
        <5>2. PICK n \in Nat : n = Cardinality(Assigned(x))
          BY <2>2
        <5>3. Cardinality(Assigned(x) \cup {[cand |-> c, branch |-> b]}) = n /\ n <= n + 1
          BY <5>1, <5>2
        <5> QED
          BY <2>2, <5>1, <5>2, <5>3
      <4>2. CASE [cand |-> c, branch |-> b] \notin Assigned(x)
        <5>1. /\ IsFiniteSet(Assigned(x) \cup {[cand |-> c, branch |-> b]})
              /\ Cardinality(Assigned(x) \cup {[cand |-> c, branch |-> b]}) = Cardinality(Assigned(x)) + 1
          BY <2>2, <4>2, FS_AddElement
        <5> QED
          BY <2>2, <5>1
      <4> QED
        BY <4>1, <4>2
    <3>3. IsFiniteSet(Assigned(x)') /\ Cardinality(Assigned(x)') <= Cardinality(Assigned(x) \cup {[cand |-> c, branch |-> b]})
      BY <3>1, <3>2, FS_Subset
    <3>4. /\ Cardinality(Assigned(x)') \in Nat
          /\ Cardinality(Assigned(x) \cup {[cand |-> c, branch |-> b]}) \in Nat
      BY <3>2, <3>3, FS_CardinalityType
    <3>5. Cardinality(Assigned(x)') <= Cardinality(Assigned(x)) + 1
      BY <2>2, <3>2, <3>3, <3>4
    <3> QED
      BY <1>2, <1>4, <2>1, <2>2, <2>4, <3>4, <3>5
  <2> QED
    BY <2>3, <2>4
<1> QED
  BY <1>3, <1>4, <1>5, <1>6, <1>7 DEF WithinCaps

\* Of a branch, a cycle writes no more rows than were assigned.
LEMMA CycleRows ==
    ASSUME IsFiniteSet(pool), Cycle
    PROVE  \E rows :
             /\ dirs' = IF cycle < Len(dirs) THEN [dirs EXCEPT ![cycle + 1] = rows]
                        ELSE Append(dirs, rows)
             /\ \A b : /\ IsFiniteSet({row \in rows : row.branch = b})
                       /\ Cardinality({row \in rows : row.branch = b}) <= Cardinality(Assigned(b))
<1>1. PICK kept \in SUBSET {row \in pool : row.cand \notin seen} : \E outcome \in [kept -> Outcomes] :
        dirs' = LET rows == {[cand |-> row.cand, branch |-> row.branch, outcome |-> outcome[row]] : row \in kept}
                IN IF cycle < Len(dirs) THEN [dirs EXCEPT ![cycle + 1] = rows]
                   ELSE Append(dirs, rows)
  BY DEF Cycle
<1>2. PICK outcome \in [kept -> Outcomes] :
        dirs' = LET rows == {[cand |-> row.cand, branch |-> row.branch, outcome |-> outcome[row]] : row \in kept}
                IN IF cycle < Len(dirs) THEN [dirs EXCEPT ![cycle + 1] = rows]
                   ELSE Append(dirs, rows)
  BY <1>1
<1> DEFINE Row(row) == [cand |-> row.cand, branch |-> row.branch, outcome |-> outcome[row]]
           rows == {Row(row) : row \in kept}
<1>3. ASSUME NEW b
      PROVE  /\ IsFiniteSet({row \in rows : row.branch = b})
             /\ Cardinality({row \in rows : row.branch = b}) <= Cardinality(Assigned(b))
  <2> DEFINE mine == {row \in kept : row.branch = b}
             written == {row \in rows : row.branch = b}
             made == [row \in mine |-> Row(row)]
  <2>1. mine \subseteq Assigned(b)
    BY DEF Assigned
  <2>2. IsFiniteSet(Assigned(b)) /\ Cardinality(Assigned(b)) \in Nat
    BY AssignedFinite
  <2>3. IsFiniteSet(mine) /\ Cardinality(mine) <= Cardinality(Assigned(b))
    BY <2>1, <2>2, FS_Subset
  <2>4. made \in Surjection(mine, written)
    <3>1. \A row \in mine : Row(row) \in written
      OBVIOUS
    <3>2. \A w \in written : \E row \in mine : Row(row) = w
      OBVIOUS
    <3> HIDE DEF mine, written, Row
    <3> QED
      BY <3>1, <3>2 DEF Surjection
  <2> HIDE DEF made, mine, written
  <2>5. IsFiniteSet(written) /\ Cardinality(written) <= Cardinality(mine)
    BY <2>3, <2>4, FS_Surjection
  <2>6. Cardinality(written) \in Nat /\ Cardinality(mine) \in Nat
    BY <2>3, <2>5, FS_CardinalityType
  <2> QED
    BY <2>2, <2>3, <2>5, <2>6 DEF written
<1> QED
  BY <1>2, <1>3

LEMMA CycleCaps ==
    ASSUME Separate, WithinCaps, Cycle
    PROVE  WithinCaps'
<1>1. IsFiniteSet(pool) /\ cycle \in Nat /\ cycle <= Len(dirs) /\ dirs \in Seq(SUBSET Rows)
  BY DEF Separate, WithinCaps
<1>2. PICK rows :
         /\ dirs' = IF cycle < Len(dirs) THEN [dirs EXCEPT ![cycle + 1] = rows]
                    ELSE Append(dirs, rows)
         /\ \A b : /\ IsFiniteSet({row \in rows : row.branch = b})
                   /\ Cardinality({row \in rows : row.branch = b}) <= Cardinality(Assigned(b))
  BY <1>1, CycleRows
<1>3. UNCHANGED <<budgets, accepted>> /\ cycle' = cycle + 1 /\ pool' = {}
  BY DEF Cycle, plan
<1>4. dirs'[cycle + 1] = rows /\ \A i \in 1..cycle : dirs'[i] = dirs[i]
  <2>1. CASE cycle < Len(dirs)
    BY <1>1, <1>2, <2>1
  <2>2. CASE cycle = Len(dirs)
    BY <1>1, <1>2, <2>2
  <2> QED
    BY <1>1, <2>1, <2>2
<1>5. 1..cycle' = (1..cycle) \cup {cycle + 1} /\ cycle + 1 \notin 1..cycle
  BY <1>1, <1>3
<1>6. ASSUME NEW b \in DOMAIN budgets
      PROVE  /\ IsFiniteSet(Simulations(b)')
             /\ Cardinality(Simulations(b)') + Cardinality(Assigned(b)') <= accepted[b]
  <2> DEFINE mine == {row \in rows : row.branch = b}
             column == {cycle + 1} \X mine
  <2>1. Simulations(b)' = Simulations(b) \cup column
    BY <1>4, <1>5 DEF Simulations
  <2>2. Assigned(b)' = {}
    BY <1>3 DEF Assigned
  <2>3. /\ accepted[b] \in Nat /\ IsFiniteSet(Simulations(b)) /\ Cardinality(Simulations(b)) \in Nat
        /\ Cardinality(Assigned(b)) \in Nat
        /\ Cardinality(Simulations(b)) + Cardinality(Assigned(b)) <= accepted[b]
    BY <1>1, AssignedFinite, FS_CardinalityType DEF WithinCaps
  <2>4. IsFiniteSet(mine) /\ Cardinality(mine) <= Cardinality(Assigned(b))
    BY <1>2
  <2> HIDE DEF mine
  <2>5. PICK n \in Nat : n = Cardinality(mine)
    BY <2>4, FS_CardinalityType
  <2>6. IsFiniteSet({cycle + 1}) /\ Cardinality({cycle + 1}) = 1
    BY FS_Singleton
  <2>7. IsFiniteSet(column) /\ Cardinality(column) = 1 * n
    BY <2>4, <2>5, <2>6, FS_Product
  <2> HIDE DEF column
  <2>8. IsFiniteSet(Simulations(b) \cap column) /\ Cardinality(Simulations(b) \cap column) \in Nat
    BY <2>3, FS_Intersection, FS_CardinalityType
  <2>9. /\ IsFiniteSet(Simulations(b) \cup column)
        /\ Cardinality(Simulations(b) \cup column)
             = Cardinality(Simulations(b)) + Cardinality(column) - Cardinality(Simulations(b) \cap column)
    BY <2>3, <2>7, FS_Union
  <2>10. Cardinality(Simulations(b) \cup column) <= Cardinality(Simulations(b)) + n
    BY <2>3, <2>7, <2>8, <2>9
  <2>11. Cardinality(Assigned(b)') = 0
    BY <2>2, FS_EmptySet
  <2>12. Cardinality(Simulations(b) \cup column) \in Nat
    BY <2>9, FS_CardinalityType
  <2>13. Cardinality(Simulations(b) \cup column) + 0 <= accepted[b]
    BY <2>3, <2>4, <2>5, <2>10, <2>12
  <2> QED
    BY <2>1, <2>9, <2>11, <2>13
<1>7. IsFiniteSet(pool')
  BY <1>3, FS_EmptySet
<1> QED
  BY <1>3, <1>6, <1>7 DEF WithinCaps

LEMMA IdleCaps ==
    ASSUME Idle
    PROVE  Divided' /\ WithinCaps'
<1>1. budgets' = NoBranch /\ accepted' = NoBranch /\ pool' = {}
  BY DEF Idle
<1>2. IsFiniteSet(pool')
  BY <1>1, FS_EmptySet
<1> QED
  BY <1>1, <1>2, NoBranchDomain DEF Divided, WithinCaps

LEMMA CapsStep == Separate /\ Divided /\ WithinCaps /\ [Next]_vars => Divided' /\ WithinCaps'
<1> SUFFICES ASSUME Separate, Divided, WithinCaps, [Next]_vars PROVE Divided' /\ WithinCaps'
  OBVIOUS
<1>1. ASSUME NEW resume \in BOOLEAN, Start(resume) PROVE Divided' /\ WithinCaps'
  BY <1>1, StartCaps
<1>2. ASSUME UNCHANGED plan PROVE Divided'
  <2>1. budgets' = budgets /\ previous' = previous
    BY <1>2 DEF plan
  <2>2. CASE budgets = NoBranch
    BY <2>1, <2>2 DEF Divided
  <2>3. CASE budgets # NoBranch
    <3>1. PICK primary \in Branches : /\ Open(Quotas(primary), previous) # NoBranch
                                      /\ budgets \in Allocations(Open(Quotas(primary), previous), Budget)
      BY <2>3 DEF Divided
    <3>2. Open(Quotas(primary), previous)' = Open(Quotas(primary), previous)
      BY <2>1 DEF Open, Quotas
    <3>3. Allocations(Open(Quotas(primary), previous), Budget)'
            = Allocations(Open(Quotas(primary), previous), Budget)
      BY <3>2 DEF Allocations
    <3> QED
      BY <2>1, <3>1, <3>2, <3>3 DEF Divided
  <2> QED
    BY <2>2, <2>3
<1>3. ASSUME NEW c \in Candidates, Assign(c) PROVE Divided' /\ WithinCaps'
  BY <1>2, <1>3, AssignCaps DEF Assign
<1>4. CASE Cycle
  BY <1>2, <1>4, CycleCaps DEF Cycle
<1>5. CASE Finish \/ Crash
  BY <1>5, IdleCaps DEF Finish, Crash
<1>6. CASE UNCHANGED vars
  BY <1>2, <1>6 DEF vars, plan, child, files, WithinCaps, Simulations, Assigned
<1> QED
  BY <1>1, <1>3, <1>4, <1>5, <1>6, Steps

LEMMA CapsAlways == Spec => [](Divided /\ WithinCaps)
<1>1. Init => Divided /\ WithinCaps
  <2> SUFFICES ASSUME Init PROVE Divided /\ WithinCaps
    OBVIOUS
  <2>1. budgets = NoBranch /\ accepted = NoBranch /\ pool = {}
    BY DEF Init
  <2> QED
    BY <2>1, NoBranchDomain, FS_EmptySet DEF Divided, WithinCaps
<1> QED
  BY <1>1, CapsStep, SeparateAlways, PTL DEF Spec

\* allocate_branch_budgets gives the budget of a session away exactly, to the branches that
\* are open and to each within one of its share: what rounding leaves over goes to those
\* with a fraction, whatever the budget and whichever branches were pruned.
THEOREM ExactCaps == Spec => []CapsAreExact
<1>1. Divided => CapsAreExact
  <2> SUFFICES ASSUME Divided, budgets # NoBranch
               PROVE  \E primary \in Branches :
                        LET open == Open(Quotas(primary), previous)
                        IN /\ ExactShares(budgets, open, Budget)
                           /\ cycle = 0 /\ pool = {} =>
                                \A amount \in 1..20 : \A caps \in Allocations(open, amount) :
                                    ExactShares(caps, open, amount)
    BY DEF CapsAreExact
  <2>1. PICK primary \in Branches : /\ Open(Quotas(primary), previous) # NoBranch
                                    /\ budgets \in Allocations(Open(Quotas(primary), previous), Budget)
    BY DEF Divided
  <2>2. PICK x, y : Shares(Open(Quotas(primary), previous), primary, x, y)
    BY <2>1, OpenShares
  <2>3. \A amount \in Nat : \A caps \in Allocations(Open(Quotas(primary), previous), amount) :
            ExactShares(caps, Open(Quotas(primary), previous), amount)
    BY <2>2, SharesExact
  <2>4. Budget \in Nat /\ \A amount \in 1..20 : amount \in Nat
    BY InputsAssumption
  <2> QED
    BY <2>1, <2>3, <2>4
<1> QED
  BY <1>1, CapsAlways, PTL

\* No branch has more simulations in a session than its cap, over all of its cycles,
\* whichever branch its rows named and whichever cycle directories were there before.
THEOREM KeptCaps == Spec => []CapsAreKept
<1>1. WithinCaps => CapsAreKept
  <2> SUFFICES ASSUME WithinCaps, NEW b \in DOMAIN budgets
               PROVE  Cardinality(Simulations(b)) <= budgets[b]
    BY DEF CapsAreKept, Simulations
  <2>1. /\ accepted[b] \in Nat /\ budgets[b] \in Nat /\ accepted[b] <= budgets[b]
        /\ IsFiniteSet(Simulations(b)) /\ IsFiniteSet(pool)
        /\ Cardinality(Simulations(b)) + Cardinality(Assigned(b)) <= accepted[b]
    BY DEF WithinCaps
  <2>2. Cardinality(Simulations(b)) \in Nat /\ Cardinality(Assigned(b)) \in Nat
    BY <2>1, AssignedFinite, FS_CardinalityType
  <2> QED
    BY <2>1, <2>2
<1> QED
  BY <1>1, CapsAlways, PTL
=============================================================================
