------------------------ MODULE WQAgentWorkflowProofs ------------------------
(***************************************************************************)
(* Proofs about WQAgentWorkflow, for any candidates, sources, platform and *)
(* limits, any number of sessions, and a process that dies at any step.    *)
(***************************************************************************)
EXTENDS WQAgentWorkflow, FiniteSetTheorems, SequenceTheorems, WellFoundedInduction, TLAPS

-----------------------------------------------------------------------------
(* Positions and sequences.                                                *)

LEMMA Least ==
    ASSUME NEW I \in SUBSET Nat, I # {}
    PROVE  \E m \in I : \A i \in I : m <= i
<1>1. PICK m \in I : \A i \in I : <<i, m>> \notin OpToRel(<, Nat)
  BY NatLessThanWellFounded, WFMin
<1>2. \A i \in I : ~(i < m)
  BY <1>1 DEF OpToRel
<1> QED
  BY <1>2

Increasing(f) == \A j, k \in DOMAIN f : j < k => f[j] < f[k]

\* Any positions can be put in order: those up to n can, whenever those before n can.
LEMMA OrderExists ==
    ASSUME NEW N \in Nat, NEW I \in SUBSET (1..N)
    PROVE  \E f \in [1..Cardinality(I) -> I] : Increasing(f)
<1> DEFINE Upto(n) == I \cap (1..n)
           Good(n) == \E f \in [1..Cardinality(Upto(n)) -> Upto(n)] : Increasing(f)
           Bad == {n \in 0..N : ~Good(n)}
<1>1. ASSUME Bad # {} PROVE FALSE
  <2>0. Bad \in SUBSET Nat
    OBVIOUS
  <2>1. PICK n \in Bad : \A i \in Bad : n <= i
    <3> HIDE DEF Bad
    <3> QED
      BY <1>1, <2>0, Least
  <2>n. n \in 0..N /\ ~Good(n)
    BY <2>1
  <2>2. n # 0
    <3>1. Upto(0) = {}
      OBVIOUS
    <3>2. Cardinality(Upto(0)) = 0
      BY <3>1, FS_EmptySet
    <3>3. 1..Cardinality(Upto(0)) = {}
      BY <3>2
    <3>4. [k \in 1..Cardinality(Upto(0)) |-> 0] \in [1..Cardinality(Upto(0)) -> Upto(0)]
      BY <3>3
    <3>5. Increasing([k \in 1..Cardinality(Upto(0)) |-> 0])
      BY <3>3 DEF Increasing
    <3> QED
      BY <2>n, <3>4, <3>5
  <2>3. n - 1 \in 0..N /\ n - 1 \notin Bad
    <3>1. n - 1 \in 0..N /\ ~(n <= n - 1)
      BY <2>n, <2>2
    <3> HIDE DEF Bad
    <3> QED
      BY <2>1, <3>1
  <2>4. PICK f \in [1..Cardinality(Upto(n - 1)) -> Upto(n - 1)] : Increasing(f)
    BY <2>3, Zenon
  <2>5. IsFiniteSet(Upto(n - 1)) /\ Cardinality(Upto(n - 1)) \in Nat
    <3>1. IsFiniteSet(1..N) /\ Upto(n - 1) \in SUBSET (1..N)
      BY FS_Interval
    <3> HIDE DEF Upto
    <3>2. IsFiniteSet(Upto(n - 1))
      BY <3>1, FS_Subset
    <3> QED
      BY <3>2, FS_CardinalityType
  <2>6. CASE n \notin I
    <3>1. Upto(n) = Upto(n - 1)
      BY <2>3, <2>6
    <3> QED
      BY <2>n, <2>4, <3>1
  <2>7. CASE n \in I
    <3>1. PICK c \in Nat : c = Cardinality(Upto(n - 1))
      BY <2>5
    <3>2. Upto(n) = Upto(n - 1) \cup {n} /\ n \notin Upto(n - 1)
      BY <2>3, <2>7
    <3>3. Cardinality(Upto(n)) = c + 1
      <4> HIDE DEF Upto
      <4> QED
        BY <2>5, <3>1, <3>2, FS_AddElement
    <3> DEFINE g == [k \in 1..(c + 1) |-> IF k <= c THEN f[k] ELSE n]
    <3>f. f \in [1..c -> Upto(n - 1)]
      BY <2>4, <3>1
    <3>4. g \in [1..(c + 1) -> Upto(n)]
      <4>1. \A k \in 1..c : f[k] \in Upto(n)
        BY <3>2, <3>f
      <4>2. n \in Upto(n)
        BY <3>2
      <4>3. \A k \in 1..(c + 1) : k <= c => k \in 1..c
        BY <3>1
      <4> HIDE DEF Upto
      <4> QED
        BY <4>1, <4>2, <4>3
    <3>5. Increasing(g)
      <4> SUFFICES ASSUME NEW j \in 1..(c + 1), NEW k \in 1..(c + 1), j < k
                   PROVE  g[j] < g[k]
        BY DEF Increasing
      <4>1. j <= c /\ j \in 1..c
        OBVIOUS
      <4>2. CASE k <= c
        <5>0. k \in 1..c /\ DOMAIN f = 1..c
          BY <3>1, <3>f, <4>2
        <5>1. f[j] < f[k]
          BY <2>4, <4>1, <5>0 DEF Increasing
        <5> QED
          BY <4>1, <4>2, <5>1
      <4>3. CASE ~(k <= c)
        <5>1. f[j] \in 1..(n - 1)
          BY <3>f, <4>1
        <5> QED
          BY <2>n, <4>1, <4>3, <5>1
      <4> QED
        BY <4>2, <4>3
    <3>6. Good(n)
      BY <3>3, <3>4, <3>5
    <3> QED
      BY <2>n, <3>6
  <2> QED
    BY <2>6, <2>7
<1>2. Good(N)
  <2>1. N \in 0..N
    OBVIOUS
  <2> HIDE DEF Good
  <2> QED
    BY <1>1, <2>1
<1>3. Upto(N) = I
  OBVIOUS
<1> QED
  BY <1>2, <1>3

LEMMA OrderedProperties ==
    ASSUME NEW N \in Nat, NEW I \in SUBSET (1..N)
    PROVE  /\ IsFiniteSet(I) /\ Cardinality(I) \in Nat
           /\ Ordered(I) \in [1..Cardinality(I) -> I]
           /\ \A j, k \in 1..Cardinality(I) : Ordered(I)[j] = Ordered(I)[k] => j = k
           /\ \A i \in I : \E k \in 1..Cardinality(I) : Ordered(I)[k] = i
<1>1. IsFiniteSet(I) /\ Cardinality(I) \in Nat
  <2>1. IsFiniteSet(1..N)
    BY FS_Interval
  <2>2. IsFiniteSet(I)
    BY <2>1, FS_Subset
  <2> QED
    BY <2>2, FS_CardinalityType
<1>2. Ordered(I) \in [1..Cardinality(I) -> I] /\ Increasing(Ordered(I))
  BY OrderExists DEF Ordered, Increasing
<1>3. \A j, k \in 1..Cardinality(I) : Ordered(I)[j] = Ordered(I)[k] => j = k
  <2> SUFFICES ASSUME NEW j \in 1..Cardinality(I), NEW k \in 1..Cardinality(I), j # k
               PROVE  Ordered(I)[j] # Ordered(I)[k]
    OBVIOUS
  <2>1. Ordered(I)[j] \in 1..N /\ Ordered(I)[k] \in 1..N
    BY <1>2
  <2>2. j < k \/ k < j
    BY <1>1
  <2>3. j < k => Ordered(I)[j] < Ordered(I)[k]
    BY <1>2 DEF Increasing
  <2>4. k < j => Ordered(I)[k] < Ordered(I)[j]
    BY <1>2 DEF Increasing
  <2> QED
    BY <2>1, <2>2, <2>3, <2>4
<1>4. \A i \in I : \E k \in 1..Cardinality(I) : Ordered(I)[k] = i
  <2>1. Ordered(I) \in Injection(1..Cardinality(I), I)
    BY <1>2, <1>3 DEF Injection, IsInjective
  <2>2. Cardinality(1..Cardinality(I)) = Cardinality(I)
    BY <1>1, FS_Interval
  <2>3. Ordered(I) \in Surjection(1..Cardinality(I), I)
    BY <1>1, <2>1, <2>2, FS_Injection
  <2> QED
    BY <2>3 DEF Surjection
<1> QED
  BY <1>1, <1>2, <1>3, <1>4

\* What a sequence holds at some positions is what it is there, in one place each.
LEMMA AtProperties ==
    ASSUME NEW S, NEW s \in Seq(S), NEW I \in SUBSET DOMAIN s
    PROVE  /\ At(s, I) \in Seq(S)
           /\ \A k \in DOMAIN At(s, I) : \E i \in I : At(s, I)[k] = s[i]
           /\ \A i \in I : \E k \in DOMAIN At(s, I) : At(s, I)[k] = s[i]
           /\ IsInjective(s) => IsInjective(At(s, I))
<1>1. Len(s) \in Nat /\ DOMAIN s = 1..Len(s)
  OBVIOUS
<1> DEFINE n == Cardinality(I)
<1>2. /\ n \in Nat
      /\ \A k \in 1..n : Ordered(I)[k] \in I
      /\ \A j, k \in 1..n : Ordered(I)[j] = Ordered(I)[k] => j = k
      /\ \A i \in I : \E k \in 1..n : Ordered(I)[k] = i
  BY <1>1, OrderedProperties
<1>3. /\ DOMAIN At(s, I) = 1..n
      /\ \A k \in 1..n : At(s, I)[k] = s[Ordered(I)[k]]
  BY DEF At
<1>4. At(s, I) \in [1..n -> S]
  BY <1>1, <1>2 DEF At
<1> HIDE DEF n
<1>5. At(s, I) \in Seq(S)
  BY <1>2, <1>4, SeqDef
<1>6. IsInjective(s) => IsInjective(At(s, I))
  BY <1>2, <1>3 DEF IsInjective
<1> QED
  BY <1>2, <1>3, <1>5, <1>6

LEMMA FirstProperties ==
    ASSUME NEW S, NEW s \in Seq(S), NEW n \in Nat
    PROVE  /\ First(n, s) \in Seq(S)
           /\ Len(First(n, s)) = IF n < Len(s) THEN n ELSE Len(s)
           /\ \A i \in 1..Len(First(n, s)) : i \in DOMAIN s /\ First(n, s)[i] = s[i]
           /\ IsInjective(s) => IsInjective(First(n, s))
<1> DEFINE m == IF n < Len(s) THEN n ELSE Len(s)
<1>1. m \in Nat /\ m <= Len(s) /\ \A i \in 1..m : s[i] \in S
  OBVIOUS
<1>2. First(n, s) = SubSeq(s, 1, m)
  BY DEF First
<1> HIDE DEF m
<1>3. /\ SubSeq(s, 1, m) \in Seq(S)
      /\ Len(SubSeq(s, 1, m)) = m
      /\ \A i \in 1..m : SubSeq(s, 1, m)[i] = s[i]
  <2>1. /\ SubSeq(s, 1, m) \in Seq(S)
        /\ Len(SubSeq(s, 1, m)) = IF 1 <= m THEN m - 1 + 1 ELSE 0
        /\ \A i \in 1..(m - 1 + 1) : SubSeq(s, 1, m)[i] = s[1 + i - 1]
    BY <1>1, SubSeqProperties
  <2> QED
    BY <1>1, <2>1
<1>4. IsInjective(s) => IsInjective(First(n, s))
  BY <1>1, <1>2, <1>3 DEF IsInjective
<1> QED
  BY <1>1, <1>2, <1>3, <1>4 DEF m

\* The expressions of rows: no more than there are rows.
LEMMA ExpressionsOf ==
    ASSUME NEW s, NEW n \in Nat, DOMAIN s = 1..n
    PROVE  /\ IsFiniteSet({s[i].expr : i \in DOMAIN s})
           /\ Cardinality({s[i].expr : i \in DOMAIN s}) \in Nat
           /\ Cardinality({s[i].expr : i \in DOMAIN s}) <= n
<1> DEFINE T == {s[i].expr : i \in DOMAIN s}
           f == [i \in 1..n |-> s[i].expr]
<1>1. f \in Surjection(1..n, T)
  BY DEF Surjection
<1>2. IsFiniteSet(1..n) /\ Cardinality(1..n) = n
  BY FS_Interval
<1> HIDE DEF T, f
<1>3. IsFiniteSet(T) /\ Cardinality(T) <= n
  BY <1>1, <1>2, FS_Surjection
<1>4. Cardinality(T) \in Nat
  BY <1>3, FS_CardinalityType
<1> QED
  BY <1>3, <1>4 DEF T

LEMMA ElementsFinite ==
    ASSUME NEW S, NEW s \in Seq(S)
    PROVE  IsFiniteSet(ToSet(s)) /\ ToSet(s) \in SUBSET S
<1> DEFINE f == [i \in 1..Len(s) |-> s[i]]
<1>1. f \in Surjection(1..Len(s), ToSet(s))
  BY DEF Surjection, ToSet
<1>2. IsFiniteSet(1..Len(s))
  BY FS_Interval
<1> HIDE DEF f
<1>3. IsFiniteSet(ToSet(s))
  BY <1>1, <1>2, FS_Surjection
<1> QED
  BY <1>3 DEF ToSet

LEMMA Orders ==
    ASSUME NEW S, NEW T \in SUBSET S, IsFiniteSet(T), NEW order \in SetToSeqs(T)
    PROVE  order \in Seq(S) /\ order \in Seq(T) /\ IsInjective(order)
<1>1. PICK n \in Nat : n = Cardinality(T)
  BY FS_CardinalityType
<1>2. order \in [1..n -> T] /\ \A i, j \in 1..n : i # j => order[i] # order[j]
  BY <1>1 DEF SetToSeqs
<1>3. order \in Seq(T) /\ order \in Seq(S)
  BY <1>1, <1>2, SeqDef
<1> QED
  BY <1>2, <1>3 DEF IsInjective

-----------------------------------------------------------------------------
(* Types, and what there is at each stage of a cycle.                      *)

Stages  == {"off", "loop", "simulate", "select", "submit", "account", "ended"}
Within  == {"simulate", "select", "submit", "account"}
Buckets == {"INFRA_TIMEOUT", "ACTIVE_OR_SUBMITTED", "FAILED", "CONFIRMED_READY", "SUBMIT_PROBE_NEEDED"}
StopReasons ==
    {"none", "running", "target_reached", "max_total_simulations_reached", "max_cycles_reached",
     "max_consecutive_empty_cycles_reached", "max_consecutive_submit_failures_reached"}

Simulated == [expr : Expressions, sim : Simulations]
Judged    == [expr : Expressions, bucket : Buckets, sc : Results, read : BOOLEAN]
Accounts  == [simulated : Nat, chosen : BOOLEAN, new : Nat]

SessionOK ==
    /\ mode \in Modes \cup {"none"} /\ pc \in Stages /\ cycle \in Nat
    /\ stop_reason \in StopReasons /\ sessions \in 0..MaxSessions
WorkOK ==
    /\ offered \in SUBSET Expressions /\ pool \in Seq(Expressions)
    /\ rows \in IF pc = "simulate" THEN Seq(Simulated) ELSE Seq(Judged)
    /\ selected \in Seq(Judged) /\ accepted \in Seq(Judged) /\ chosen \in BOOLEAN
CountersOK ==
    /\ skip \in SUBSET Expressions /\ records \in Seq(Judged)
    /\ total \in Nat /\ empty \in Nat /\ failures \in Nat
PlatformOK ==
    /\ inventory \in SUBSET Expressions /\ active \in SUBSET Expressions
    /\ reviewing \in SUBSET Expressions
    /\ IsFiniteSet(skip) /\ IsFiniteSet(inventory) /\ IsFiniteSet(active)
HistoryOK ==
    posted \in Seq(Expressions) /\ simulated \in Nat /\ log \in Seq(Accounts)

TypeOK == SessionOK /\ WorkOK /\ CountersOK /\ PlatformOK /\ HistoryOK

\* What is left of a stage is gone with it, and a session that goes on is below its
\* target and its cycles.
Flow ==
    /\ pc = "off" <=> mode = "none"
    /\ pc = "off" => stop_reason = "none"
    /\ pc \notin {"off", "ended"} => stop_reason = "running" /\ Len(records) < Target
    /\ pc \in {"off", "loop", "ended"} => rows = <<>>
    /\ pc # "simulate" => pool = <<>>
    /\ pc # "submit" => selected = <<>> /\ accepted = <<>> /\ chosen = FALSE
    /\ pc \in {"select", "submit"} => mode = "run-submit"
    /\ pc = "account" => mode = "presubmit-sequential"
    /\ Len(log) = cycle /\ cycle <= MaxCycles
    /\ pc \in Within => cycle < MaxCycles

TypeInv == TypeOK /\ Flow

LEMMA Limits ==
    /\ MaxSignature \in Nat \ {0} /\ Target \in Nat \ {0} /\ MaxTotal \in Nat \ {0}
    /\ MaxCycles \in Nat \ {0} /\ MaxEmpty \in Nat \ {0} /\ MaxFailures \in Nat \ {0}
    /\ CycleLimit \in Nat \ {0} /\ MaxSessions \in Nat \ {0}
  BY LimitsAssumption

LEMMA ReviewJudges ==
    ASSUME NEW e \in Expressions, NEW sim \in Simulations, NEW answer \in CheckAnswers
    PROVE  Review(e, sim, answer) \in Judged /\ Review(e, sim, answer).expr = e
<1>1. /\ answer.sc \in Results /\ sim.sc \in Results /\ answer.prod \in Results
      /\ sim.prod \in Results
  BY DEF CheckAnswers, Simulations
<1>2. Latest(answer.sc, sim.sc) \in Results
  BY <1>1 DEF Latest
<1>3. \A sc, prod : Bucket(sim, answer, sc, prod) \in Buckets
  BY DEF Bucket, Buckets
<1>4. (answer.kind = "read") \in BOOLEAN
  OBVIOUS
<1> QED
  BY <1>2, <1>3, <1>4 DEF Review, Judged

\* A candidate that is simulated.
LEMMA FilteredProperties ==
    ASSUME NEW candidates \in Seq(Expressions), NEW known
    PROVE  /\ Filtered(candidates, known) \in Seq(Expressions)
           /\ \A k \in DOMAIN Filtered(candidates, known) :
                 /\ \E i \in DOMAIN candidates : Filtered(candidates, known)[k] = candidates[i]
                 /\ Eligible(Filtered(candidates, known)[k], known)
           /\ IsInjective(candidates) => IsInjective(Filtered(candidates, known))
<1> DEFINE Before(i) == {candidates[j] : j \in {k \in 1..(i - 1) : Eligible(candidates[k], known)}}
           kept == {i \in DOMAIN candidates : /\ Eligible(candidates[i], known)
                                              /\ ~Crowded(candidates[i], known \cup Before(i))}
<1>1. Filtered(candidates, known) = At(candidates, kept)
  BY DEF Filtered
<1>2. kept \in SUBSET DOMAIN candidates /\ \A i \in kept : Eligible(candidates[i], known)
  OBVIOUS
<1> HIDE DEF kept
<1> QED
  BY <1>1, <1>2, AtProperties

\* If a candidate is eligible and no signature is used up beforehand, one is kept: the
\* first that is eligible.
LEMMA FilteredKeeps ==
    ASSUME NEW candidates \in Seq(Expressions), NEW known,
           NEW i \in DOMAIN candidates, Eligible(candidates[i], known),
           \A k \in DOMAIN candidates :
               Eligible(candidates[k], known) => ~Crowded(candidates[k], known)
    PROVE  Filtered(candidates, known) # <<>>
<1> DEFINE Before(k) == {candidates[j] : j \in {l \in 1..(k - 1) : Eligible(candidates[l], known)}}
           kept == {k \in DOMAIN candidates : /\ Eligible(candidates[k], known)
                                              /\ ~Crowded(candidates[k], known \cup Before(k))}
           eligible == {k \in DOMAIN candidates : Eligible(candidates[k], known)}
<1>1. Filtered(candidates, known) = At(candidates, kept)
  BY DEF Filtered
<1>2. eligible \in SUBSET Nat /\ eligible # {} /\ DOMAIN candidates = 1..Len(candidates)
      /\ Len(candidates) \in Nat
  OBVIOUS
<1>3. PICK m \in eligible : \A k \in eligible : m <= k
  <2> HIDE DEF eligible
  <2> QED
    BY <1>2, Least
<1>4. m \in DOMAIN candidates /\ m \in Nat /\ Eligible(candidates[m], known)
  BY <1>2, <1>3
<1>5. {l \in 1..(m - 1) : Eligible(candidates[l], known)} = {}
  <2> SUFFICES ASSUME NEW l \in 1..(m - 1), Eligible(candidates[l], known) PROVE FALSE
    OBVIOUS
  <2>1. l \in DOMAIN candidates /\ ~(m <= l)
    BY <1>2, <1>4
  <2>2. l \in eligible
    BY <2>1
  <2> HIDE DEF eligible
  <2> QED
    BY <1>3, <2>1, <2>2
<1>6. known \cup Before(m) = known
  BY <1>5
<1>7. m \in kept /\ kept \in SUBSET DOMAIN candidates
  BY <1>4, <1>6
<1> HIDE DEF kept
<1>8. \E k \in DOMAIN At(candidates, kept) : At(candidates, kept)[k] = candidates[m]
  BY <1>7, AtProperties
<1> QED
  BY <1>1, <1>8

\* The budget that is left, when the loop goes on.
LEMMA LimitBounds ==
    ASSUME TypeOK, total < MaxTotal
    PROVE  /\ Limit \in Nat /\ Limit > 0 /\ Limit <= MaxTotal - total
           /\ Cardinality(skip) \in Nat /\ DesignLimit \in Nat /\ DesignLimit > 0
           /\ DesignLimit = Limit + Cardinality(skip) + (IF Submitting THEN 0 ELSE Len(records))
<1>1. Limit \in Nat /\ Limit > 0 /\ Limit <= MaxTotal - total
  BY Limits DEF Limit, TypeOK, CountersOK
<1>2. Cardinality(skip) \in Nat /\ Len(records) \in Nat
  BY FS_CardinalityType DEF TypeOK, CountersOK, PlatformOK
<1> QED
  BY <1>1, <1>2 DEF DesignLimit

\* The designer's candidates are of its sources, and all of those, or as many as it was
\* asked for.
LEMMA DesignedProperties ==
    ASSUME DesignLimit \in Nat, NEW offer \in Offers, NEW known
    PROVE  /\ Designed(offer, known) \in Seq(Expressions) /\ IsInjective(Designed(offer, known))
           /\ \A k \in DOMAIN Designed(offer, known) :
                 /\ Designed(offer, known)[k] \in ToSet(offer)
                 /\ Submitting => Designed(offer, known)[k] \notin known
           /\ \/ Len(Designed(offer, known)) = DesignLimit
              \/ \A e \in ToSet(offer) :
                    \/ Submitting /\ e \in known
                    \/ \E k \in DOMAIN Designed(offer, known) : Designed(offer, known)[k] = e
<1>1. offer \in Seq(Expressions) /\ IsInjective(offer)
  BY InputsAssumption
<1> DEFINE new == {i \in DOMAIN offer : offer[i] \notin known}
           sources == IF Submitting THEN At(offer, new) ELSE offer
<1>2. Designed(offer, known) = First(DesignLimit, sources)
  BY DEF Designed
<1>3. /\ sources \in Seq(Expressions) /\ IsInjective(sources)
      /\ \A k \in DOMAIN sources :
            sources[k] \in ToSet(offer) /\ (Submitting => sources[k] \notin known)
      /\ \A e \in ToSet(offer) :
            (Submitting /\ e \in known) \/ \E k \in DOMAIN sources : sources[k] = e
  <2>1. CASE ~Submitting
    BY <1>1, <2>1 DEF ToSet
  <2>2. CASE Submitting
    <3>1. sources = At(offer, new) /\ new \in SUBSET DOMAIN offer
      BY <2>2
    <3>2. /\ At(offer, new) \in Seq(Expressions) /\ IsInjective(At(offer, new))
          /\ \A k \in DOMAIN At(offer, new) : \E i \in new : At(offer, new)[k] = offer[i]
          /\ \A i \in new : \E k \in DOMAIN At(offer, new) : At(offer, new)[k] = offer[i]
      BY <1>1, <3>1, AtProperties
    <3>3. \A k \in DOMAIN sources : sources[k] \in ToSet(offer) /\ sources[k] \notin known
      BY <3>1, <3>2 DEF ToSet
    <3>4. \A e \in ToSet(offer) : e \in known \/ \E k \in DOMAIN sources : sources[k] = e
      BY <3>1, <3>2 DEF ToSet
    <3> QED
      BY <2>2, <3>1, <3>2, <3>3, <3>4
  <2> QED
    BY <2>1, <2>2
<1> HIDE DEF sources
<1> DEFINE t == First(DesignLimit, sources)
<1>4. /\ t \in Seq(Expressions) /\ IsInjective(t)
      /\ Len(t) = IF DesignLimit < Len(sources) THEN DesignLimit ELSE Len(sources)
      /\ \A k \in 1..Len(t) : k \in DOMAIN sources /\ t[k] = sources[k]
  BY <1>3, FirstProperties
<1> HIDE DEF t
<1>5. DOMAIN t = 1..Len(t) /\ DOMAIN sources = 1..Len(sources)
  BY <1>3, <1>4
<1>6. Len(t) = DesignLimit \/ \A k \in DOMAIN sources : k \in DOMAIN t /\ t[k] = sources[k]
  BY <1>4, <1>5
<1>7. \A k \in DOMAIN t : t[k] \in ToSet(offer) /\ (Submitting => t[k] \notin known)
  BY <1>3, <1>4, <1>5
<1>8. Len(t) = DesignLimit \/ \A e \in ToSet(offer) :
         (Submitting /\ e \in known) \/ \E k \in DOMAIN t : t[k] = e
  BY <1>3, <1>6
<1> QED
  BY <1>2, <1>4, <1>7, <1>8 DEF t

\* What a cycle is given to simulate: no more than is left, each candidate once, none
\* that was ACTIVE and, to be submitted, none that was tried.
LEMMA DesignedPool ==
    ASSUME TypeInv, Design
    PROVE  /\ total < MaxTotal
           /\ pool' \in Seq(Expressions) /\ IsInjective(pool') /\ Len(pool') <= Limit
           /\ \A k \in DOMAIN pool' :
                 pool'[k] \notin inventory' /\ (Submitting => pool'[k] \notin skip)
           /\ offered' \in SUBSET Expressions
<1>1. total < MaxTotal /\ total \in Nat
  BY Limits DEF Design, TopReason, TypeInv, TypeOK, CountersOK
<1>2. PICK offer \in Offers :
        LET known == IF Submitting THEN active ELSE inventory \cup Recorded
            candidates == Designed(offer, known)
        IN /\ offered' = ToSet(offer)
           /\ pool' = First(Limit, IF Submitting /\ skip = {} THEN candidates
                                   ELSE Filtered(candidates, known))
  BY DEF Design
<1> DEFINE known == IF Submitting THEN active ELSE inventory \cup Recorded
           candidates == Designed(offer, known)
           kept == IF Submitting /\ skip = {} THEN candidates ELSE Filtered(candidates, known)
<1>3. pool' = First(Limit, kept) /\ offered' = ToSet(offer)
  BY <1>2
<1>4. Limit \in Nat /\ DesignLimit \in Nat
  BY <1>1, LimitBounds DEF TypeInv
<1>5. inventory' \subseteq known
  BY DEF Design
<1> HIDE DEF known
<1>6. /\ candidates \in Seq(Expressions) /\ IsInjective(candidates)
      /\ \A k \in DOMAIN candidates : Submitting => candidates[k] \notin known
  BY <1>4, DesignedProperties
<1>7. /\ kept \in Seq(Expressions) /\ IsInjective(kept)
      /\ \A k \in DOMAIN kept : kept[k] \notin known /\ (Submitting => kept[k] \notin skip)
  <2>1. CASE Submitting /\ skip = {}
    BY <1>6, <2>1
  <2>2. CASE ~(Submitting /\ skip = {})
    <3>1. kept = Filtered(candidates, known)
      BY <2>2
    <3> HIDE DEF candidates, kept
    <3>2. /\ Filtered(candidates, known) \in Seq(Expressions)
          /\ \A k \in DOMAIN Filtered(candidates, known) :
                Eligible(Filtered(candidates, known)[k], known)
          /\ IsInjective(Filtered(candidates, known))
      BY <1>6, FilteredProperties
    <3> QED
      BY <3>1, <3>2 DEF Eligible, Collides
  <2> QED
    BY <2>1, <2>2
<1> HIDE DEF candidates, kept
<1>8. /\ First(Limit, kept) \in Seq(Expressions) /\ IsInjective(First(Limit, kept))
      /\ Len(First(Limit, kept)) = IF Limit < Len(kept) THEN Limit ELSE Len(kept)
      /\ \A k \in 1..Len(First(Limit, kept)) :
            k \in DOMAIN kept /\ First(Limit, kept)[k] = kept[k]
  BY <1>4, <1>7, FirstProperties
<1>9. Len(pool') <= Limit
  <2>1. Len(kept) \in Nat
    BY <1>7
  <2> QED
    BY <1>3, <1>4, <1>8, <2>1
<1>10. \A k \in DOMAIN pool' : k \in DOMAIN kept /\ pool'[k] = kept[k]
  BY <1>3, <1>8
<1>11. offered' \in SUBSET Expressions
  BY <1>3, InputsAssumption, ElementsFinite
<1> QED
  BY <1>1, <1>3, <1>5, <1>7, <1>8, <1>9, <1>10, <1>11

\* The end of a cycle that simulated what is in rows.
LEMMA EndCycleTyped ==
    ASSUME TypeInv, pc \in {"submit", "account"}, selected = <<>>,
           NEW new \in Seq(Judged), NEW refused \in SUBSET Reviewed, EndCycle(new, refused),
           empty' \in Nat, failures' \in Nat
    PROVE  TypeInv'
<1>0. /\ rows \in Seq(Judged) /\ pool = <<>> /\ cycle \in Nat /\ cycle < MaxCycles
      /\ Len(log) = cycle /\ stop_reason = "running" /\ Len(records) < Target
      /\ records \in Seq(Judged) /\ log \in Seq(Accounts) /\ mode \in Modes /\ mode # "none"
  BY DEF TypeInv, TypeOK, SessionOK, WorkOK, CountersOK, HistoryOK, Flow, Within
<1>1. /\ records' = records \o new /\ skip' = skip \cup refused /\ total' = total + Len(rows)
      /\ cycle' = cycle + 1 /\ offered' = {} /\ rows' = <<>> /\ chosen' = FALSE
      /\ accepted' = <<>> /\ UNCHANGED <<mode, pool, selected, inventory, active, reviewing, sessions,
                                         posted, simulated>>
      /\ log' = Append(log, [simulated |-> Len(rows), chosen |-> chosen, new |-> Len(new)])
  BY DEF EndCycle, platform
<1>2. \/ /\ pc' = "ended" /\ stop_reason' \in {"target_reached", "max_total_simulations_reached"}
      \/ pc' = "loop" /\ stop_reason' = stop_reason /\ ~(Len(records') >= Target)
  BY DEF EndCycle
<1>3. records' \in Seq(Judged) /\ Len(records') = Len(records) + Len(new)
  BY <1>0, <1>1
<1>4. [simulated |-> Len(rows), chosen |-> chosen, new |-> Len(new)] \in Accounts
  BY <1>0 DEF Accounts, TypeInv, TypeOK, WorkOK
<1>5. log' \in Seq(Accounts) /\ Len(log') = cycle'
  BY <1>0, <1>1, <1>4
<1>6. /\ Reviewed \in SUBSET Expressions /\ IsFiniteSet(Reviewed)
  <2>0. \A i \in DOMAIN rows : rows[i] \in Judged
    BY <1>0
  <2>1. \A i \in DOMAIN rows : rows[i].expr \in Expressions
    BY <2>0 DEF Judged
  <2>2. Len(rows) \in Nat /\ DOMAIN rows = 1..Len(rows)
    BY <1>0
  <2> QED
    BY <2>1, <2>2, ExpressionsOf DEF Reviewed
<1>7. skip' \in SUBSET Expressions /\ IsFiniteSet(skip')
  BY <1>1, <1>6, FS_Subset, FS_Union DEF TypeInv, TypeOK, CountersOK, PlatformOK
<1>8. SessionOK'
  BY <1>0, <1>1, <1>2 DEF TypeInv, TypeOK, SessionOK, Stages, StopReasons
<1>9. WorkOK'
  BY <1>0, <1>1, <1>2 DEF TypeInv, TypeOK, WorkOK
<1>10. CountersOK' /\ PlatformOK'
  BY <1>0, <1>1, <1>3, <1>7 DEF TypeInv, TypeOK, CountersOK, PlatformOK
<1>11. HistoryOK'
  BY <1>1, <1>5 DEF TypeInv, TypeOK, HistoryOK
<1>12. Len(records') \in Nat /\ MaxCycles \in Nat /\ Target \in Nat
  BY <1>3, Limits
<1>13. Flow'
  <2>1. cycle' <= MaxCycles
    BY <1>0, <1>1, <1>12
  <2>2. pc' \notin {"off", "ended"} => stop_reason' = "running" /\ Len(records') < Target
    BY <1>0, <1>2, <1>12
  <2> QED
    BY <1>0, <1>1, <1>2, <1>5, <2>1, <2>2 DEF TypeInv, Flow, Within
<1> QED
  BY <1>8, <1>9, <1>10, <1>11, <1>13 DEF TypeInv, TypeOK

LEMMA FreshTyped ==
    ASSUME TypeInv, Fresh, pc' \in {"off", "loop"}, mode' \in Modes \cup {"none"},
           pc' = "off" <=> mode' = "none", stop_reason' = IF pc' = "off" THEN "none" ELSE "running",
           sessions' \in 0..MaxSessions, UNCHANGED platform, inventory' \in {{}, active}
    PROVE  TypeInv'
<1>1. /\ cycle' = 0 /\ offered' = {} /\ pool' = <<>> /\ rows' = <<>> /\ selected' = <<>>
      /\ chosen' = FALSE /\ accepted' = <<>> /\ skip' = {} /\ records' = <<>> /\ total' = 0
      /\ empty' = 0 /\ failures' = 0 /\ posted' = <<>> /\ simulated' = 0 /\ log' = <<>>
  BY DEF Fresh
<1>2. SessionOK' /\ WorkOK' /\ CountersOK' /\ HistoryOK'
  <2>1. SessionOK'
    BY <1>1 DEF SessionOK, Stages, StopReasons
  <2>2. WorkOK'
    <3>e. <<>> \in Seq(Judged) /\ <<>> \in Seq(Expressions) /\ {} \in SUBSET Expressions
      BY EmptySeq
    <3>1. rows' \in Seq(Judged) /\ pc' # "simulate"
      BY <1>1, <3>e
    <3>2. offered' \in SUBSET Expressions /\ pool' \in Seq(Expressions) /\ chosen' \in BOOLEAN
      BY <1>1, <3>e
    <3>3. selected' \in Seq(Judged) /\ accepted' \in Seq(Judged)
      BY <1>1, <3>e
    <3> QED
      BY <3>1, <3>2, <3>3 DEF WorkOK
  <2>3. CountersOK' /\ HistoryOK'
    BY <1>1 DEF CountersOK, HistoryOK
  <2> QED
    BY <2>1, <2>2, <2>3
<1>3. IsFiniteSet({}) /\ IsFiniteSet(active) /\ active \in SUBSET Expressions
  BY FS_EmptySet DEF TypeInv, TypeOK, PlatformOK
<1>4. PlatformOK'
  BY <1>1, <1>3 DEF TypeInv, TypeOK, PlatformOK, platform
<1>5. Flow'
  BY <1>1, Limits DEF Flow, Within
<1> QED
  BY <1>2, <1>4, <1>5 DEF TypeInv, TypeOK

LEMMA TypeInit == Init => TypeInv
<1> SUFFICES ASSUME Init PROVE TypeInv
  OBVIOUS
<1> USE DEF Init
<1>1. SessionOK /\ WorkOK /\ CountersOK /\ HistoryOK
  <2>1. SessionOK
    BY Limits DEF SessionOK, Stages, StopReasons
  <2>2. WorkOK
    <3>e. <<>> \in Seq(Judged) /\ <<>> \in Seq(Expressions) /\ {} \in SUBSET Expressions
      BY EmptySeq
    <3>1. rows \in Seq(Judged) /\ pc # "simulate"
      BY <3>e
    <3>2. offered \in SUBSET Expressions /\ pool \in Seq(Expressions) /\ chosen \in BOOLEAN
      BY <3>e
    <3>3. selected \in Seq(Judged) /\ accepted \in Seq(Judged)
      BY <3>e
    <3> QED
      BY <3>1, <3>2, <3>3 DEF WorkOK
  <2>3. CountersOK /\ HistoryOK
    BY DEF CountersOK, HistoryOK
  <2> QED
    BY <2>1, <2>2, <2>3
<1>2. PlatformOK
  BY FS_EmptySet DEF PlatformOK
<1>3. Flow
  BY Limits, InputsAssumption DEF Flow, Within
<1> QED
  BY <1>1, <1>2, <1>3 DEF TypeInv, TypeOK

\* The rows after a simulation, and after the review.
LEMMA SimulateRows ==
    ASSUME TypeInv, Simulate
    PROVE  /\ rows' \in Seq(Simulated) /\ pool \in Seq(Expressions) /\ pool # <<>>
           /\ Len(rows') = Len(rows) + 1 /\ rows'[Len(rows) + 1].expr = pool[1]
           /\ \A i \in 1..Len(rows) : rows'[i] = rows[i]
           /\ pool' \in Seq(Expressions) /\ Len(pool') = Len(pool) - 1
           /\ \A i \in 1..Len(pool') : pool'[i] = pool[i + 1]
<1>1. rows \in Seq(Simulated) /\ pool \in Seq(Expressions) /\ pool # <<>> /\ pool' = Tail(pool)
  BY DEF Simulate, TypeInv, TypeOK, WorkOK
<1>2. PICK sim \in SimResults : rows' = Append(rows, [expr |-> Head(pool), sim |-> sim])
  BY DEF Simulate
<1>3. Head(pool) = pool[1] /\ Head(pool) \in Expressions
  BY <1>1
<1>4. [expr |-> Head(pool), sim |-> sim] \in Simulated
  BY <1>3, InputsAssumption DEF Simulated
<1>5. /\ Len(pool') = Len(pool) - 1 /\ pool' \in Seq(Expressions)
      /\ \A i \in 1..Len(pool') : pool'[i] = pool[i + 1]
  BY <1>1
<1> QED
  BY <1>1, <1>2, <1>3, <1>4, <1>5

LEMMA ReviewedRows ==
    ASSUME TypeInv, ReviewRows
    PROVE  /\ rows' \in Seq(Judged) /\ Len(rows') = Len(rows) /\ rows \in Seq(Simulated)
           /\ \A i \in 1..Len(rows) : rows'[i].expr = rows[i].expr
           /\ Reviewed' = Reviewed
<1>1. rows \in Seq(Simulated)
  BY DEF ReviewRows, TypeInv, TypeOK, WorkOK
<1>2. PICK answer \in [DOMAIN rows -> Answers \cup {Unchecked}] :
        rows' = [i \in DOMAIN rows |-> Review(rows[i].expr, rows[i].sim, answer[i])]
  BY DEF ReviewRows
<1>3. Answers \cup {Unchecked} \subseteq CheckAnswers
  <2>1. Unchecked \in CheckAnswers
    BY DEF Unchecked, CheckAnswers, Results
  <2>2. Answers \subseteq CheckAnswers
    BY InputsAssumption
  <2> QED
    BY <2>1, <2>2
<1>4. ASSUME NEW i \in DOMAIN rows
      PROVE  /\ Review(rows[i].expr, rows[i].sim, answer[i]) \in Judged
             /\ Review(rows[i].expr, rows[i].sim, answer[i]).expr = rows[i].expr
  <2>0. rows[i] \in Simulated
    BY <1>1
  <2>1. rows[i].expr \in Expressions /\ rows[i].sim \in Simulations
    BY <2>0 DEF Simulated
  <2>2. answer[i] \in CheckAnswers
    BY <1>3
  <2> QED
    BY <2>1, <2>2, ReviewJudges
<1>5. PICK n \in Nat : n = Len(rows) /\ DOMAIN rows = 1..n
  BY <1>1
<1>6. rows' \in [1..n -> Judged]
  BY <1>2, <1>4, <1>5
<1>7. rows' \in Seq(Judged) /\ Len(rows') = n
  BY <1>6, SeqDef
<1>8. \A i \in 1..n : rows'[i].expr = rows[i].expr
  BY <1>2, <1>4, <1>5
<1>9. Reviewed' = Reviewed
  BY <1>5, <1>6, <1>8 DEF Reviewed
<1> QED
  BY <1>1, <1>5, <1>7, <1>8, <1>9

\* The alphas to submit: rows, each once, no more than are wanted.
LEMMA SelectRows ==
    ASSUME TypeInv, Select
    PROVE  /\ selected' \in Seq(Judged) /\ rows \in Seq(Judged) /\ IsInjective(selected')
           /\ Len(selected') <= Target - Len(records)
           /\ \A i \in DOMAIN selected' : selected'[i] \in ToSet(rows)
<1>1. rows \in Seq(Judged) /\ Len(records) \in Nat /\ Len(records) < Target
  BY DEF Select, TypeInv, TypeOK, WorkOK, CountersOK, Flow
<1> DEFINE T == {row \in ToSet(rows) : Submittable(row)}
<1>2. PICK order \in SetToSeqs(T) : selected' = First(Wanted, order)
  BY DEF Select
<1>3. IsFiniteSet(ToSet(rows)) /\ ToSet(rows) \in SUBSET Judged
  BY <1>1, ElementsFinite
<1>4. T \in SUBSET Judged /\ T \in SUBSET ToSet(rows)
  BY <1>3
<1> HIDE DEF T
<1>5. IsFiniteSet(T)
  BY <1>3, <1>4, FS_Subset
<1>6. order \in Seq(Judged) /\ order \in Seq(T) /\ IsInjective(order)
  BY <1>4, <1>5, Orders
<1>7. Wanted \in Nat /\ Wanted = Target - Len(records)
  BY <1>1, Limits DEF Wanted
<1>8. /\ selected' \in Seq(Judged) /\ IsInjective(selected')
      /\ Len(selected') = IF Wanted < Len(order) THEN Wanted ELSE Len(order)
      /\ \A i \in 1..Len(selected') : i \in DOMAIN order /\ selected'[i] = order[i]
  BY <1>2, <1>6, <1>7, FirstProperties
<1>9. Len(selected') <= Wanted
  <2>1. Len(order) \in Nat
    BY <1>6
  <2> QED
    BY <1>7, <1>8, <2>1
<1>10. \A i \in DOMAIN selected' : selected'[i] \in ToSet(rows)
  BY <1>4, <1>6, <1>8
<1> QED
  BY <1>1, <1>7, <1>8, <1>9, <1>10

-----------------------------------------------------------------------------
(* The invariant.                                                          *)

\* What a cycle has yet to simulate is within the budget, and what was simulated is counted.
Budgeted ==
    /\ total + Len(rows) + Len(pool) <= MaxTotal
    /\ simulated = total + Len(rows)

Untried(e) == e \notin inventory /\ (Submitting => e \notin skip)

\* The candidates of a cycle are each in one place, none was ACTIVE when the platform was
\* read, and none that is to be submitted was tried in an earlier cycle.
Apart ==
    /\ IsInjective(pool)
    /\ \A i, j \in DOMAIN rows : rows[i].expr = rows[j].expr => i = j
    /\ \A i \in DOMAIN pool, j \in DOMAIN rows : pool[i] # rows[j].expr
    /\ \A i \in DOMAIN pool : Untried(pool[i])
    /\ \A j \in DOMAIN rows : Untried(rows[j].expr)

\* What was submitted is skipped, or is of this cycle and not to be submitted again.
Submissions ==
    /\ IsInjective(posted)
    /\ \A i \in DOMAIN posted : posted[i] \in skip \/ (pc = "submit" /\ posted[i] \in Reviewed)
    /\ IsInjective(selected) /\ \A i \in DOMAIN selected : selected[i] \in ToSet(rows)
    /\ \A i \in DOMAIN posted, j \in DOMAIN selected : posted[i] # selected[j].expr
    /\ \A i \in DOMAIN accepted : accepted[i] \in ToSet(rows)
    /\ Submitting => /\ Len(records) + Len(accepted) + Len(selected) <= Target
                     /\ Recorded \subseteq skip

\* The counters are what the cycles came to.
Failed == {i \in DOMAIN log : log[i].chosen /\ \A j \in i..Len(log) : log[j].new = 0}

Counted ==
    /\ empty <= Len(log)
    /\ \A i \in (Len(log) - empty + 1)..Len(log) :
           IF Submitting THEN log[i].simulated = 0 ELSE log[i].new = 0
    /\ Submitting => failures <= Cardinality(Failed)

Inv == TypeInv /\ Budgeted /\ Apart /\ Submissions /\ ReadyFit /\ NotStarved /\ Counted /\ ReasonIsTrue

-----------------------------------------------------------------------------
(* What the steps do.                                                      *)

\* One submission: the first of those selected is gone from them.
LEMMA SubmitMoves ==
    ASSUME TypeInv, Submit
    PROVE  /\ pc = "submit" /\ Submitting /\ selected \in Seq(Judged) /\ selected # <<>>
           /\ 1 \in DOMAIN selected /\ selected[1] \in Judged /\ selected[1].expr \in Expressions
           /\ selected' \in Seq(Judged) /\ Len(selected') = Len(selected) - 1
           /\ \A i \in DOMAIN selected' : i + 1 \in DOMAIN selected /\ selected'[i] = selected[i + 1]
           /\ posted \in Seq(Expressions) /\ posted' = Append(posted, selected[1].expr)
           /\ accepted \in Seq(Judged)
           /\ accepted' = accepted \/ accepted' = Append(accepted, selected[1])
           /\ active' = active \/ active' = active \cup {selected[1].expr}
           /\ reviewing' \subseteq reviewing \cup {selected[1].expr}
<1>1. /\ pc = "submit" /\ selected \in Seq(Judged) /\ selected # <<>> /\ posted \in Seq(Expressions)
      /\ accepted \in Seq(Judged) /\ mode = "run-submit"
  BY DEF Submit, TypeInv, TypeOK, WorkOK, HistoryOK, Flow
<1>2. Head(selected) = selected[1] /\ 1 \in DOMAIN selected /\ selected[1] \in Judged
  BY <1>1
<1>3. selected[1].expr \in Expressions
  BY <1>2 DEF Judged
<1>4. /\ selected' = Tail(selected)
      /\ posted' = Append(posted, selected[1].expr)
      /\ accepted' = accepted \/ accepted' = Append(accepted, selected[1])
      /\ active' = active \/ active' = active \cup {selected[1].expr}
      /\ reviewing' \subseteq reviewing \cup {selected[1].expr}
  BY <1>2 DEF Submit
<1>5. /\ selected' \in Seq(Judged) /\ Len(selected') = Len(selected) - 1
      /\ \A i \in DOMAIN selected' : i + 1 \in DOMAIN selected /\ selected'[i] = selected[i + 1]
  BY <1>1, <1>4
<1> QED
  BY <1>1, <1>2, <1>3, <1>4, <1>5 DEF Submitting

\* The account of a cycle: what it adds to the records and to what is skipped.
LEMMA AccountMoves ==
    ASSUME TypeInv, AccountSubmit \/ AccountPresubmit
    PROVE  \E new \in Seq(Judged), refused \in SUBSET Reviewed :
             /\ pc \in {"submit", "account"} /\ selected = <<>> /\ EndCycle(new, refused)
             /\ Submitting =>
                   /\ pc = "submit" /\ new = accepted /\ refused = Reviewed /\ AccountSubmit
                   /\ empty' = IF rows = <<>> THEN empty + 1 ELSE 0
                   /\ failures' = IF accepted # <<>> THEN 0
                                  ELSE IF chosen THEN failures + 1 ELSE failures
             /\ ~Submitting =>
                   /\ pc = "account" /\ failures' = failures
                   /\ \/ new = <<>> /\ empty' = empty + 1
                      \/ /\ empty' = 0
                         /\ \E row \in ToSet(rows) :
                              new = <<row>> /\ Acceptable(row, inventory \cup Recorded)
<1>1. CASE AccountSubmit
  <2>1. pc = "submit" /\ Submitting /\ accepted \in Seq(Judged)
    BY <1>1 DEF AccountSubmit, TypeInv, TypeOK, WorkOK, Flow, Submitting
  <2>2. Reviewed \in SUBSET Reviewed
    OBVIOUS
  <2>3. /\ selected = <<>> /\ EndCycle(accepted, Reviewed)
        /\ empty' = IF rows = <<>> THEN empty + 1 ELSE 0
        /\ failures' = IF accepted # <<>> THEN 0 ELSE IF chosen THEN failures + 1 ELSE failures
    BY <1>1 DEF AccountSubmit
  <2> QED
    BY <1>1, <2>1, <2>2, <2>3
<1>2. CASE AccountPresubmit
  <2>1. pc = "account" /\ ~Submitting /\ rows \in Seq(Judged) /\ selected = <<>> /\ failures' = failures
    BY <1>2 DEF AccountPresubmit, TypeInv, TypeOK, WorkOK, Flow, Submitting
  <2> DEFINE refused(passing) == {row.expr : row \in {r \in ToSet(rows) \ passing : ~Deferred(r)}}
  <2>2. PICK passing \in SUBSET {row \in ToSet(rows) : Acceptable(row, inventory \cup Recorded)} :
           \/ passing = {} /\ empty' = empty + 1 /\ EndCycle(<<>>, refused(passing))
           \/ \E row \in passing : empty' = 0 /\ EndCycle(<<row>>, refused(passing))
    BY <1>2 DEF AccountPresubmit
  <2>3. refused(passing) \in SUBSET Reviewed
    BY DEF ToSet, Reviewed
  <2> HIDE DEF refused
  <2>4. <<>> \in Seq(Judged)
    BY EmptySeq
  <2>5. CASE passing = {} /\ empty' = empty + 1 /\ EndCycle(<<>>, refused(passing))
    BY <2>1, <2>3, <2>4, <2>5
  <2>6. ASSUME NEW row \in passing, empty' = 0, EndCycle(<<row>>, refused(passing))
        PROVE  \E new \in Seq(Judged), r \in SUBSET Reviewed :
                 /\ EndCycle(new, r) /\ empty' = 0
                 /\ \E w \in ToSet(rows) : new = <<w>> /\ Acceptable(w, inventory \cup Recorded)
    <3>1. row \in ToSet(rows) /\ Acceptable(row, inventory \cup Recorded)
      OBVIOUS
    <3>2. row \in Judged
      BY <2>1, <3>1, ElementsFinite
    <3>3. <<row>> \in Seq(Judged)
      BY <3>2
    <3> QED
      BY <2>3, <2>6, <3>1, <3>3
  <2> QED
    BY <2>1, <2>2, <2>5, <2>6
<1> QED
  BY <1>1, <1>2

LEMMA Steps ==
    ASSUME [Next]_vars
    PROVE  \/ \E m \in Modes : Start(m)
           \/ Stop \/ Design \/ Simulate \/ ReviewRows \/ Select \/ Submit
           \/ AccountSubmit \/ AccountPresubmit \/ Crash
           \/ \E e \in Expressions : Decide(e)
           \/ UNCHANGED vars
  BY DEF Next, Step

LEMMA TopReasons ==
    ASSUME TypeInv
    PROVE  /\ TopReason \in StopReasons
           /\ TopReason = "running" =>
                 Len(records) < Target /\ total < MaxTotal /\ cycle < MaxCycles
<1>1. TopReason \in StopReasons
  BY DEF TopReason, StopReasons
<1>2. Len(records) \in Nat /\ total \in Nat /\ cycle \in Nat
  BY DEF TypeInv, TypeOK, SessionOK, CountersOK
<1>3. TopReason = "running" => ~(Len(records) >= Target) /\ ~(total >= MaxTotal) /\ ~(cycle >= MaxCycles)
  BY DEF TopReason
<1> QED
  BY <1>1, <1>2, <1>3, Limits

\* A step keeps the types, and stages and their contents go together.
LEMMA TypeStep ==
    ASSUME TypeInv, [Next]_vars
    PROVE  TypeInv'
<1> USE DEF TypeInv, TypeOK
<1>1. ASSUME NEW m \in Modes, Start(m) PROVE TypeInv'
  <2>1. /\ Fresh /\ pc' = "loop" /\ mode' = m /\ stop_reason' = "running"
        /\ inventory' \in {{}, active} /\ UNCHANGED platform
        /\ sessions < MaxSessions /\ sessions' = sessions + 1
    BY <1>1 DEF Start
  <2>2. m # "none"
    BY InputsAssumption
  <2>3. sessions' \in 0..MaxSessions
    BY <2>1, Limits DEF SessionOK
  <2> QED
    BY <2>1, <2>2, <2>3, FreshTyped
<1>2. CASE Stop
  <2>1. /\ pc = "loop" /\ pc' = "ended" /\ stop_reason' \in StopReasons
        /\ UNCHANGED <<mode, cycle, work, counters, inventory, platform, sessions, history>>
    BY <1>2, TopReasons DEF Stop
  <2>2. SessionOK' /\ WorkOK'
    BY <2>1 DEF SessionOK, WorkOK, work, Stages
  <2>3. CountersOK' /\ PlatformOK' /\ HistoryOK'
    BY <2>1 DEF CountersOK, PlatformOK, HistoryOK, counters, platform, history
  <2>4. Flow'
    BY <2>1 DEF Flow, Within, work, counters, history
  <2> QED
    BY <2>2, <2>3, <2>4
<1>3. CASE Design
  <2>1. /\ pc = "loop" /\ pc' = "simulate" /\ TopReason = "running"
        /\ inventory' \in {active, inventory}
        /\ UNCHANGED <<mode, cycle, rows, selected, chosen, accepted, counters, stop_reason, platform,
                       sessions, history>>
    BY <1>3 DEF Design
  <2>2. pool' \in Seq(Expressions) /\ offered' \in SUBSET Expressions
    BY <1>3, DesignedPool
  <2>3. SessionOK'
    BY <2>1 DEF SessionOK, Stages
  <2>4. WorkOK'
    <3>1. rows' \in Seq(Simulated)
      BY <2>1, EmptySeq DEF Flow
    <3> QED
      BY <2>1, <2>2, <3>1 DEF WorkOK
  <2>5. CountersOK' /\ HistoryOK'
    BY <2>1 DEF CountersOK, HistoryOK, counters, history
  <2>6. PlatformOK'
    BY <2>1 DEF PlatformOK, counters, platform
  <2>7. Flow'
    BY <2>1, TopReasons DEF Flow, Within, counters, history
  <2> QED
    BY <2>3, <2>4, <2>5, <2>6, <2>7
<1>4. CASE Simulate
  <2>1. /\ pc = "simulate" /\ simulated' = simulated + 1
        /\ UNCHANGED <<mode, pc, cycle, offered, selected, chosen, accepted, counters, inventory,
                       stop_reason, platform, sessions, posted, log>>
    BY <1>4 DEF Simulate
  <2>2. rows' \in Seq(Simulated) /\ pool' \in Seq(Expressions)
    BY <1>4, SimulateRows
  <2>3. SessionOK' /\ WorkOK'
    BY <2>1, <2>2 DEF SessionOK, WorkOK
  <2>4. CountersOK' /\ PlatformOK' /\ HistoryOK'
    BY <2>1 DEF CountersOK, PlatformOK, HistoryOK, counters, platform
  <2>5. Flow'
    BY <2>1 DEF Flow, Within, counters
  <2> QED
    BY <2>3, <2>4, <2>5
<1>5. CASE ReviewRows
  <2>1. /\ pc = "simulate" /\ pool = <<>> /\ pc' = IF Submitting THEN "select" ELSE "account"
        /\ UNCHANGED <<mode, cycle, offered, pool, selected, chosen, accepted, counters, inventory,
                       stop_reason, platform, sessions, history>>
    BY <1>5 DEF ReviewRows
  <2>2. rows' \in Seq(Judged)
    BY <1>5, ReviewedRows
  <2>3. SessionOK'
    BY <2>1 DEF SessionOK, Stages
  <2>4. WorkOK'
    BY <2>1, <2>2 DEF WorkOK
  <2>5. CountersOK' /\ PlatformOK' /\ HistoryOK'
    BY <2>1 DEF CountersOK, PlatformOK, HistoryOK, counters, platform, history
  <2>6. Flow'
    <3>1. mode \in {"run-submit", "presubmit-sequential"}
      BY <2>1, InputsAssumption DEF SessionOK, Flow
    <3> QED
      BY <2>1, <3>1 DEF Flow, Within, counters, history, Submitting
  <2> QED
    BY <2>3, <2>4, <2>5, <2>6
<1>6. CASE Select
  <2>1. /\ pc = "select" /\ pc' = "submit" /\ chosen' \in BOOLEAN
        /\ UNCHANGED <<mode, cycle, offered, pool, rows, accepted, counters, inventory, stop_reason,
                       platform, sessions, history>>
    BY <1>6 DEF Select
  <2>2. selected' \in Seq(Judged)
    BY <1>6, SelectRows
  <2>3. SessionOK' /\ WorkOK'
    BY <2>1, <2>2 DEF SessionOK, WorkOK, Stages
  <2>4. CountersOK' /\ PlatformOK' /\ HistoryOK'
    BY <2>1 DEF CountersOK, PlatformOK, HistoryOK, counters, platform, history
  <2>5. Flow'
    BY <2>1 DEF Flow, Within, counters, history
  <2> QED
    BY <2>3, <2>4, <2>5
<1>7. CASE Submit
  <2>1. /\ pc = "submit"
        /\ UNCHANGED <<mode, pc, cycle, offered, pool, rows, chosen, counters, inventory, stop_reason,
                       sessions, simulated, log>>
    BY <1>7 DEF Submit
  <2>2. /\ selected' \in Seq(Judged) /\ selected[1] \in Judged /\ selected[1].expr \in Expressions
        /\ posted \in Seq(Expressions) /\ posted' = Append(posted, selected[1].expr)
        /\ accepted \in Seq(Judged)
        /\ accepted' = accepted \/ accepted' = Append(accepted, selected[1])
        /\ active' = active \/ active' = active \cup {selected[1].expr}
        /\ reviewing' \subseteq reviewing \cup {selected[1].expr}
    BY <1>7, SubmitMoves
  <2>3. SessionOK'
    BY <2>1 DEF SessionOK
  <2>4. WorkOK'
    <3>0. Append(accepted, selected[1]) \in Seq(Judged)
      BY <2>2
    <3>1. accepted' \in Seq(Judged)
      BY <2>2, <3>0, Zenon
    <3> QED
      BY <2>1, <2>2, <3>1 DEF WorkOK
  <2>5. CountersOK' /\ HistoryOK'
    BY <2>1, <2>2 DEF CountersOK, HistoryOK, counters
  <2>6. PlatformOK'
    <3>1. /\ active' \in SUBSET Expressions /\ IsFiniteSet(active')
          /\ reviewing' \in SUBSET Expressions
      <4>1. /\ active \in SUBSET Expressions /\ IsFiniteSet(active)
            /\ reviewing \in SUBSET Expressions
        BY DEF PlatformOK
      <4>2. IsFiniteSet(active \cup {selected[1].expr})
        BY <4>1, FS_AddElement
      <4>3. active' \in SUBSET Expressions
        BY <2>2, <4>1
      <4>4. IsFiniteSet(active')
        BY <2>2, <4>1, <4>2, Zenon
      <4>5. reviewing' \in SUBSET Expressions
        BY <2>2, <4>1
      <4> QED
        BY <4>3, <4>4, <4>5
    <3> QED
      BY <2>1, <3>1 DEF PlatformOK, counters
  <2>7. Flow'
    BY <2>1 DEF Flow, Within, counters
  <2> QED
    BY <2>3, <2>4, <2>5, <2>6, <2>7
<1>8. CASE AccountSubmit \/ AccountPresubmit
  <2>1. PICK new \in Seq(Judged), refused \in SUBSET Reviewed :
          /\ pc \in {"submit", "account"} /\ selected = <<>> /\ EndCycle(new, refused)
          /\ Submitting => /\ empty' = IF rows = <<>> THEN empty + 1 ELSE 0
                           /\ failures' = IF accepted # <<>> THEN 0
                                          ELSE IF chosen THEN failures + 1 ELSE failures
          /\ ~Submitting => failures' = failures /\ empty' \in {empty + 1, 0}
    BY <1>8, AccountMoves
  <2>2. empty' \in Nat /\ failures' \in Nat
    BY <2>1 DEF CountersOK
  <2> QED
    BY <2>1, <2>2, EndCycleTyped
<1>9. CASE Crash
  BY <1>9, FreshTyped DEF Crash, SessionOK
<1>10. ASSUME NEW e \in Expressions, Decide(e) PROVE TypeInv'
  <2>1. /\ active' \in {active, active \cup {e}} /\ reviewing' \subseteq reviewing
        /\ UNCHANGED <<mode, pc, cycle, work, counters, inventory, stop_reason, sessions, history>>
    BY <1>10 DEF Decide
  <2>2. SessionOK' /\ WorkOK'
    BY <2>1 DEF SessionOK, WorkOK, work
  <2>3. CountersOK' /\ HistoryOK'
    BY <2>1 DEF CountersOK, HistoryOK, counters, history
  <2>4. PlatformOK'
    BY <2>1, FS_AddElement DEF PlatformOK, counters
  <2>5. Flow'
    BY <2>1 DEF Flow, Within, work, counters, history
  <2> QED
    BY <2>2, <2>3, <2>4, <2>5
<1>11. CASE UNCHANGED vars
  BY <1>11
  DEF vars, work, counters, platform, history, SessionOK, WorkOK, CountersOK, PlatformOK, HistoryOK, Flow
<1> QED
  BY <1>1, <1>2, <1>3, <1>4, <1>5, <1>6, <1>7, <1>8, <1>9, <1>10, <1>11, Steps

\* Whatever the platform, the model and the reviews answer, every variable of the workflow
\* stays in its type, the contents of a cycle are gone when it is, and a session that goes
\* on is below its target and its cycles.
THEOREM TypeCorrect == Spec => []TypeInv
<1> QED
  BY TypeInit, TypeStep, PTL DEF Spec

-----------------------------------------------------------------------------
(* The budget of simulations.                                              *)

LEMMA BudgetedStep ==
    ASSUME TypeInv, Budgeted, [Next]_vars
    PROVE  Budgeted'
<1>0. /\ total \in Nat /\ simulated \in Nat /\ Len(rows) \in Nat /\ Len(pool) \in Nat
  BY DEF TypeInv, TypeOK, WorkOK, CountersOK, HistoryOK
<1> USE DEF Budgeted
<1>1. CASE Fresh
  BY <1>1, Limits DEF Fresh
<1>2. CASE Design
  <2>1. /\ rows = <<>> /\ rows' = rows /\ total' = total /\ simulated' = simulated
    BY <1>2 DEF Design, counters, history, TypeInv, Flow
  <2>2. Limit \in Nat /\ Limit <= MaxTotal - total /\ Len(pool') <= Limit /\ Len(pool') \in Nat
    BY <1>2, DesignedPool, LimitBounds DEF TypeInv
  <2> QED
    BY <1>0, <2>1, <2>2, Limits
<1>3. CASE Simulate
  <2>1. total' = total /\ simulated' = simulated + 1
    BY <1>3 DEF Simulate, counters
  <2>2. Len(rows') = Len(rows) + 1 /\ Len(pool') = Len(pool) - 1
    BY <1>3, SimulateRows
  <2> QED
    BY <1>0, <2>1, <2>2, Limits
<1>4. CASE ReviewRows
  <2>1. UNCHANGED <<total, simulated, pool>>
    BY <1>4 DEF ReviewRows, counters, history
  <2> QED
    BY <1>4, <2>1, ReviewedRows
<1>5. CASE AccountSubmit \/ AccountPresubmit
  <2>1. PICK new \in Seq(Judged), refused \in SUBSET Reviewed : EndCycle(new, refused)
    BY <1>5, AccountMoves
  <2>2. total' = total + Len(rows) /\ rows' = <<>> /\ pool' = pool /\ simulated' = simulated
    BY <2>1 DEF EndCycle
  <2> QED
    BY <1>0, <2>2, Limits
<1>6. CASE Stop \/ Select \/ Submit \/ (\E e \in Expressions : Decide(e)) \/ UNCHANGED vars
  <2>1. UNCHANGED <<total, rows, pool, simulated>>
    BY <1>6 DEF Stop, Select, Submit, Decide, vars, work, counters, history
  <2> QED
    BY <2>1
<1> QED
  BY <1>1, <1>2, <1>3, <1>4, <1>5, <1>6, Steps DEF Start, Crash

\* A session never simulates more than max_total_simulations, at no point of a cycle
\* either, although the counter is brought up to date only after the cycle: what a cycle
\* is given is cut to what is left (_run_submit_cycle_limit).
THEOREM SimulationBudget == Spec => []SimulationsKept
<1>1. Init => Budgeted
  BY Limits DEF Init, Budgeted
<1>2. TypeInv /\ Budgeted /\ [Next]_vars => Budgeted'
  BY BudgetedStep
<1>3. Budgeted => SimulationsKept
  BY DEF Budgeted, SimulationsKept
<1> QED
  BY <1>1, <1>2, <1>3, TypeCorrect, PTL DEF Spec

-----------------------------------------------------------------------------
(* Submissions.                                                            *)

LEMMA ApartStep ==
    ASSUME TypeInv, Apart, [Next]_vars
    PROVE  Apart'
<1> USE DEF Apart
<1>1. CASE Fresh
  <2>1. pool' = <<>> /\ rows' = <<>>
    BY <1>1 DEF Fresh
  <2> QED
    BY <2>1 DEF IsInjective
<1>2. CASE Design
  <2>1. rows' = <<>> /\ mode' = mode /\ skip' = skip
    BY <1>2 DEF Design, counters, TypeInv, Flow
  <2>2. /\ IsInjective(pool')
        /\ \A k \in DOMAIN pool' :
              pool'[k] \notin inventory' /\ (Submitting => pool'[k] \notin skip)
    BY <1>2, DesignedPool
  <2> QED
    BY <2>1, <2>2 DEF Untried, Submitting, IsInjective
<1>3. CASE Simulate
  <2>1. UNCHANGED <<mode, skip, inventory>>
    BY <1>3 DEF Simulate, counters
  <2>2. /\ rows' \in Seq(Simulated) /\ pool \in Seq(Expressions) /\ pool # <<>>
        /\ Len(rows') = Len(rows) + 1 /\ rows'[Len(rows) + 1].expr = pool[1]
        /\ \A i \in 1..Len(rows) : rows'[i] = rows[i]
        /\ pool' \in Seq(Expressions) /\ Len(pool') = Len(pool) - 1
        /\ \A i \in 1..Len(pool') : pool'[i] = pool[i + 1]
        /\ rows \in Seq(Simulated)
    BY <1>3, SimulateRows DEF Simulate, TypeInv, TypeOK, WorkOK
  <2>3. PICK n \in Nat, m \in Nat : n = Len(rows) /\ m + 1 = Len(pool)
    <3>1. Len(rows) \in Nat /\ Len(pool) \in Nat /\ Len(pool) # 0
      BY <2>2
    <3>2. Len(pool) - 1 \in Nat /\ Len(pool) - 1 + 1 = Len(pool)
      BY <3>1
    <3> QED
      BY <3>1, <3>2
  <2>4. /\ DOMAIN rows = 1..n /\ DOMAIN rows' = 1..(n + 1)
        /\ DOMAIN pool = 1..(m + 1) /\ DOMAIN pool' = 1..m
    BY <2>2, <2>3
  <2>5. \A i \in 1..m : i + 1 \in 1..(m + 1) /\ i + 1 # 1 /\ pool'[i] = pool[i + 1]
    <3>1. Len(pool') = m
      BY <2>2, <2>3
    <3>2. \A i \in 1..m : pool'[i] = pool[i + 1]
      BY <2>2, <3>1
    <3>3. \A i \in 1..m : i + 1 \in 1..(m + 1) /\ i + 1 # 1
      OBVIOUS
    <3> QED
      BY <3>2, <3>3
  <2>6. \A j \in 1..(n + 1) : \/ j \in 1..n /\ rows'[j].expr = rows[j].expr
                              \/ j = n + 1 /\ rows'[j].expr = pool[1]
    <3>1. \A j \in 1..(n + 1) : j \in 1..n \/ j = n + 1
      BY <2>3
    <3>2. \A j \in 1..n : rows'[j] = rows[j]
      BY <2>2, <2>3
    <3>3. rows'[n + 1].expr = pool[1]
      BY <2>2, <2>3
    <3> QED
      BY <3>1, <3>2, <3>3
  <2>7. 1 \in 1..(m + 1)
    OBVIOUS
  <2>8. IsInjective(pool')
    <3> SUFFICES ASSUME NEW i \in 1..m, NEW j \in 1..m, pool'[i] = pool'[j] PROVE i = j
      BY <2>4 DEF IsInjective
    <3>0. /\ i + 1 \in DOMAIN pool /\ j + 1 \in DOMAIN pool
          /\ pool[i + 1] = pool[j + 1]
      BY <2>4, <2>5
    <3>1. i + 1 = j + 1
      BY <3>0 DEF IsInjective
    <3> QED
      BY <3>1
  <2>9. \A i, j \in DOMAIN rows' : rows'[i].expr = rows'[j].expr => i = j
    BY <2>4, <2>6, <2>7
  <2>10. \A i \in DOMAIN pool', j \in DOMAIN rows' : pool'[i] # rows'[j].expr
    <3> SUFFICES ASSUME NEW i \in 1..m, NEW j \in 1..(n + 1) PROVE pool'[i] # rows'[j].expr
      BY <2>4
    <3>1. /\ i + 1 \in DOMAIN pool /\ 1 \in DOMAIN pool /\ i + 1 # 1
          /\ pool'[i] = pool[i + 1]
      BY <2>4, <2>5, <2>7
    <3>2. pool[i + 1] # pool[1]
      BY <3>1 DEF IsInjective
    <3>3. (j \in DOMAIN rows /\ rows'[j].expr = rows[j].expr) \/ rows'[j].expr = pool[1]
      BY <2>4, <2>6
    <3> QED
      BY <3>1, <3>2, <3>3
  <2>11. /\ \A i \in DOMAIN pool' : Untried(pool[i + 1]) /\ pool'[i] = pool[i + 1]
         /\ \A j \in DOMAIN rows' : Untried(rows'[j].expr)
    BY <2>4, <2>5, <2>6, <2>7
  <2> QED
    BY <2>1, <2>8, <2>9, <2>10, <2>11 DEF Untried, Submitting
<1>4. CASE ReviewRows
  <2>1. UNCHANGED <<mode, skip, inventory, pool>>
    BY <1>4 DEF ReviewRows, counters
  <2>2. DOMAIN rows' = DOMAIN rows /\ \A i \in DOMAIN rows : rows'[i].expr = rows[i].expr
    BY <1>4, ReviewedRows
  <2> QED
    BY <2>1, <2>2 DEF Untried, Submitting
<1>5. CASE AccountSubmit \/ AccountPresubmit
  <2>1. PICK new \in Seq(Judged), refused \in SUBSET Reviewed : EndCycle(new, refused)
    BY <1>5, AccountMoves
  <2>2. rows' = <<>> /\ pool' = <<>>
    BY <1>5, <2>1 DEF EndCycle, AccountSubmit, AccountPresubmit, TypeInv, Flow
  <2> QED
    BY <2>2 DEF IsInjective
<1>6. CASE Stop \/ Select \/ Submit \/ (\E e \in Expressions : Decide(e)) \/ UNCHANGED vars
  <2>1. UNCHANGED <<mode, skip, inventory, pool, rows>>
    BY <1>6 DEF Stop, Select, Submit, Decide, vars, work, counters
  <2> QED
    BY <2>1 DEF Untried, Submitting
<1> QED
  BY <1>1, <1>2, <1>3, <1>4, <1>5, <1>6, Steps DEF Start, Crash

LEMMA AppendedTo ==
    ASSUME NEW S, NEW s \in Seq(S), NEW e \in S
    PROVE  /\ DOMAIN Append(s, e) = 1..(Len(s) + 1) /\ Len(s) \in Nat
           /\ \A i \in DOMAIN Append(s, e) :
                 \/ i \in DOMAIN s /\ Append(s, e)[i] = s[i]
                 \/ i = Len(s) + 1 /\ Append(s, e)[i] = e
           /\ ~(Len(s) + 1 \in DOMAIN s)
<1>1. /\ DOMAIN Append(s, e) = 1..(Len(s) + 1) /\ Len(s) \in Nat /\ DOMAIN s = 1..Len(s)
      /\ Append(s, e)[Len(s) + 1] = e /\ \A i \in 1..Len(s) : Append(s, e)[i] = s[i]
  OBVIOUS
<1>2. \A i \in 1..(Len(s) + 1) : i \in 1..Len(s) \/ i = Len(s) + 1
  BY <1>1
<1> QED
  BY <1>1, <1>2

\* A submission is of an alpha that was not submitted, and is not selected twice.
LEMMA SubmitKeeps ==
    ASSUME TypeInv, Apart, Submissions, Submit
    PROVE  Submissions'
<1> USE DEF Submissions
<1>1. /\ pc = "submit" /\ Submitting /\ selected \in Seq(Judged) /\ selected # <<>>
      /\ 1 \in DOMAIN selected /\ selected[1].expr \in Expressions
      /\ selected' \in Seq(Judged) /\ Len(selected') = Len(selected) - 1
      /\ \A i \in DOMAIN selected' : i + 1 \in DOMAIN selected /\ selected'[i] = selected[i + 1]
      /\ posted \in Seq(Expressions) /\ posted' = Append(posted, selected[1].expr)
      /\ accepted \in Seq(Judged) /\ selected[1] \in Judged
      /\ accepted' = accepted \/ accepted' = Append(accepted, selected[1])
  BY SubmitMoves
<1>2. UNCHANGED <<mode, pc, rows, skip, records>>
  BY DEF Submit, counters
<1>p. /\ \A i \in DOMAIN posted' : \/ i \in DOMAIN posted /\ posted'[i] = posted[i]
                                   \/ i = Len(posted) + 1 /\ posted'[i] = selected[1].expr
      /\ ~(Len(posted) + 1 \in DOMAIN posted)
  BY <1>1, AppendedTo
<1>s. \A i \in DOMAIN selected' : i \in Nat /\ i # 0
  BY <1>1
<1>3. \A i, j \in DOMAIN selected : selected[i].expr = selected[j].expr => i = j
  <2> SUFFICES ASSUME NEW i \in DOMAIN selected, NEW j \in DOMAIN selected,
                      selected[i].expr = selected[j].expr
               PROVE  i = j
    OBVIOUS
  <2>1. PICK k \in DOMAIN rows : selected[i] = rows[k]
    BY DEF ToSet
  <2>2. PICK l \in DOMAIN rows : selected[j] = rows[l]
    BY DEF ToSet
  <2>3. k = l
    BY <2>1, <2>2 DEF Apart
  <2> QED
    BY <2>1, <2>2, <2>3 DEF IsInjective
<1>4. \A i \in DOMAIN selected' : selected'[i].expr # selected[1].expr
  <2> TAKE i \in DOMAIN selected'
  <2>1. i + 1 \in DOMAIN selected /\ selected'[i] = selected[i + 1] /\ i + 1 # 1
    BY <1>1, <1>s
  <2> QED
    BY <1>1, <1>3, <2>1
<1>5. IsInjective(posted')
  <2>1. \A i \in DOMAIN posted : posted[i] # selected[1].expr
    BY <1>1
  <2> QED
    BY <1>p, <2>1 DEF IsInjective
<1>6. selected[1].expr \in Reviewed
  BY <1>1 DEF ToSet, Reviewed
<1>7. \A i \in DOMAIN posted' : posted'[i] \in skip' \/ (pc' = "submit" /\ posted'[i] \in Reviewed')
  <2>1. Reviewed' = Reviewed
    BY <1>2 DEF Reviewed
  <2>2. \A i \in DOMAIN posted' : posted'[i] \in skip \/ posted'[i] \in Reviewed
    BY <1>6, <1>p
  <2> QED
    BY <1>1, <1>2, <2>1, <2>2
<1>8. IsInjective(selected') /\ \A i \in DOMAIN selected' : selected'[i] \in ToSet(rows)
  <2>1. IsInjective(selected')
    <3> SUFFICES ASSUME NEW i \in DOMAIN selected', NEW j \in DOMAIN selected',
                        selected'[i] = selected'[j]
                 PROVE  i = j
      BY DEF IsInjective
    <3>1. /\ i + 1 \in DOMAIN selected /\ j + 1 \in DOMAIN selected
          /\ selected[i + 1] = selected[j + 1]
      BY <1>1
    <3>2. i + 1 = j + 1
      BY <3>1 DEF IsInjective
    <3> QED
      BY <1>s, <3>2
  <2> QED
    BY <1>1, <2>1
<1>9. \A i \in DOMAIN posted', j \in DOMAIN selected' : posted'[i] # selected'[j].expr
  BY <1>1, <1>4, <1>p
<1>10. \A i \in DOMAIN accepted' : accepted'[i] \in ToSet(rows)
  <2>1. selected[1] \in ToSet(rows)
    BY <1>1
  <2>2. CASE accepted' = accepted
    BY <2>2
  <2>3. CASE accepted' = Append(accepted, selected[1])
    <3>1. \A i \in DOMAIN accepted' : \/ i \in DOMAIN accepted /\ accepted'[i] = accepted[i]
                                      \/ accepted'[i] = selected[1]
      BY <1>1, <2>3, AppendedTo
    <3> QED
      BY <2>1, <3>1
  <2> QED
    BY <1>1, <2>2, <2>3
<1>11. /\ Len(records') + Len(accepted') + Len(selected') <= Target
       /\ (Recorded \subseteq skip)'
  <2>1. Len(records) \in Nat /\ Len(accepted) \in Nat /\ Len(selected) \in Nat
    BY <1>1 DEF TypeInv, TypeOK, CountersOK
  <2>2. Len(accepted') = Len(accepted) \/ Len(accepted') = Len(accepted) + 1
    BY <1>1
  <2>3. Len(records) + Len(accepted) + Len(selected) <= Target
    BY <1>1
  <2> QED
    BY <1>1, <1>2, <2>1, <2>2, <2>3, Limits DEF Recorded
<1>12. ToSet(rows)' = ToSet(rows)
  BY <1>2 DEF ToSet
<1> QED
  BY <1>1, <1>5, <1>7, <1>8, <1>9, <1>10, <1>11, <1>12

LEMMA Joined ==
    ASSUME NEW S, NEW s \in Seq(S), NEW t \in Seq(S)
    PROVE  /\ s \o t \in Seq(S)
           /\ \A i \in DOMAIN (s \o t) : \/ \E j \in DOMAIN s : (s \o t)[i] = s[j]
                                         \/ \E j \in DOMAIN t : (s \o t)[i] = t[j]
<1>1. PICK n \in Nat, m \in Nat : n = Len(s) /\ m = Len(t)
  OBVIOUS
<1>2. /\ s \o t \in Seq(S) /\ DOMAIN (s \o t) = 1..(n + m) /\ DOMAIN s = 1..n /\ DOMAIN t = 1..m
      /\ \A i \in 1..(n + m) : (s \o t)[i] = IF i <= n THEN s[i] ELSE t[i - n]
  BY <1>1, ConcatProperties
<1>3. \A i \in 1..(n + m) : i \in 1..n \/ (~(i <= n) /\ i - n \in 1..m)
  OBVIOUS
<1> QED
  BY <1>2, <1>3

LEMMA SubmissionsStep ==
    ASSUME TypeInv, Apart, Submissions, [Next]_vars
    PROVE  Submissions'
<1> USE DEF Submissions
<1>1. CASE Fresh
  <2>1. posted' = <<>> /\ selected' = <<>> /\ accepted' = <<>> /\ records' = <<>>
    BY <1>1 DEF Fresh
  <2>2. DOMAIN posted' = {} /\ DOMAIN selected' = {} /\ DOMAIN accepted' = {} /\ DOMAIN records' = {}
        /\ Len(records') = 0 /\ Len(accepted') = 0 /\ Len(selected') = 0
    BY <2>1
  <2>3. Recorded' = {}
    BY <2>2 DEF Recorded
  <2>4. IsInjective(posted') /\ IsInjective(selected')
    BY <2>2 DEF IsInjective
  <2>5. Len(records') + Len(accepted') + Len(selected') <= Target
    BY <2>2, Limits
  <2> QED
    BY <2>2, <2>3, <2>4, <2>5
<1>2. CASE Stop \/ Design \/ Simulate \/ ReviewRows
  <2>1. /\ pc # "submit" /\ pc' # "submit" /\ selected = <<>> /\ accepted = <<>>
        /\ UNCHANGED <<mode, skip, records, selected, accepted, posted>>
    BY <1>2
    DEF Stop, Design, Simulate, ReviewRows, counters, history, work, TypeInv, Flow, Submitting
  <2>2. DOMAIN selected' = {} /\ DOMAIN accepted' = {}
    BY <2>1
  <2>3. IsInjective(selected')
    BY <2>2 DEF IsInjective
  <2>4. Recorded' = Recorded
    BY <2>1 DEF Recorded
  <2>5. Submitting' = Submitting
    BY <2>1 DEF Submitting
  <2> QED
    BY <2>1, <2>2, <2>3, <2>4, <2>5
<1>3. CASE Select
  <2>1. /\ pc = "select" /\ accepted = <<>> /\ Submitting /\ pc' = "submit"
        /\ UNCHANGED <<mode, rows, skip, records, accepted, posted>>
    BY <1>3 DEF Select, counters, history, TypeInv, Flow, Submitting
  <2>2. /\ selected' \in Seq(Judged) /\ IsInjective(selected')
        /\ Len(selected') <= Target - Len(records)
        /\ \A i \in DOMAIN selected' : selected'[i] \in ToSet(rows)
    BY <1>3, SelectRows
  <2>3. \A i \in DOMAIN posted', j \in DOMAIN selected' : posted'[i] # selected'[j].expr
    <3> SUFFICES ASSUME NEW i \in DOMAIN posted, NEW j \in DOMAIN selected'
                 PROVE  posted[i] # selected'[j].expr
      BY <2>1
    <3>1. posted[i] \in skip
      BY <2>1
    <3>2. PICK k \in DOMAIN rows : selected'[j] = rows[k]
      BY <2>2 DEF ToSet
    <3>3. rows[k].expr \notin skip
      BY <2>1 DEF Apart, Untried
    <3> QED
      BY <3>1, <3>2, <3>3
  <2>4. Len(records') + Len(accepted') + Len(selected') <= Target
    <3>1. Len(records) \in Nat /\ Len(selected') \in Nat /\ Len(accepted') = 0
      BY <2>1, <2>2 DEF TypeInv, TypeOK, CountersOK
    <3> QED
      BY <2>1, <2>2, <3>1, Limits
  <2>5. Recorded' = Recorded /\ ToSet(rows)' = ToSet(rows) /\ Submitting' = Submitting
    BY <2>1 DEF Recorded, ToSet, Submitting
  <2>6. DOMAIN accepted' = {}
    BY <2>1
  <2> QED
    BY <2>1, <2>2, <2>3, <2>4, <2>5, <2>6
<1>4. CASE Submit
  BY <1>4, SubmitKeeps
<1>5. CASE AccountSubmit \/ AccountPresubmit
  <2>1. PICK new \in Seq(Judged), refused \in SUBSET Reviewed :
          /\ pc \in {"submit", "account"} /\ selected = <<>> /\ EndCycle(new, refused)
          /\ Submitting => pc = "submit" /\ new = accepted /\ refused = Reviewed
          /\ ~Submitting => pc = "account"
    BY <1>5, AccountMoves
  <2>2. /\ records' = records \o new /\ skip' = skip \cup refused /\ accepted' = <<>>
        /\ pc' \in {"loop", "ended"} /\ UNCHANGED <<mode, selected, posted>>
    BY <2>1 DEF EndCycle
  <2>3. \A i \in DOMAIN posted : posted[i] \in skip'
    BY <2>1, <2>2
  <2>4. DOMAIN selected' = {} /\ DOMAIN accepted' = {} /\ Len(accepted') = 0
    BY <2>1, <2>2
  <2>5. ASSUME Submitting PROVE Len(records') + Len(accepted') + Len(selected') <= Target
    <3>1. Len(records) \in Nat /\ Len(accepted) \in Nat /\ Len(selected) = 0
          /\ records \in Seq(Judged)
      BY <2>1 DEF TypeInv, TypeOK, CountersOK, WorkOK
    <3>2. Len(records') = Len(records) + Len(accepted)
      BY <2>1, <2>2, <2>5, <3>1
    <3>3. Len(records) + Len(accepted) + Len(selected) <= Target
      BY <2>5
    <3> QED
      BY <2>2, <2>4, <3>1, <3>2, <3>3, Limits
  <2>6. ASSUME Submitting PROVE Recorded' \subseteq skip'
    <3>1. records \in Seq(Judged) /\ records' = records \o accepted /\ accepted \in Seq(Judged)
      BY <2>1, <2>2, <2>6 DEF TypeInv, TypeOK, CountersOK, WorkOK
    <3>2. \A i \in DOMAIN records' : \/ \E j \in DOMAIN records : records'[i] = records[j]
                                     \/ \E j \in DOMAIN accepted : records'[i] = accepted[j]
      <4>1. \A i \in DOMAIN (records \o accepted) :
               \/ \E j \in DOMAIN records : (records \o accepted)[i] = records[j]
               \/ \E j \in DOMAIN accepted : (records \o accepted)[i] = accepted[j]
        <5>1. records \in Seq(Judged) /\ accepted \in Seq(Judged)
          BY <3>1
        <5> QED
          BY <5>1, Joined
      <4> QED
        BY <3>1, <4>1
    <3>3. \A j \in DOMAIN accepted : accepted[j].expr \in Reviewed
      BY DEF ToSet, Reviewed
    <3>4. \A j \in DOMAIN records : records[j].expr \in skip
      BY <2>6 DEF Recorded
    <3> QED
      BY <2>1, <2>2, <2>6, <3>2, <3>3, <3>4 DEF Recorded
  <2>7. IsInjective(selected') /\ Submitting' = Submitting
    BY <2>2, <2>4 DEF IsInjective, Submitting
  <2> QED
    BY <2>2, <2>3, <2>4, <2>5, <2>6, <2>7
<1>6. CASE (\E e \in Expressions : Decide(e)) \/ UNCHANGED vars
  <2>1. UNCHANGED <<mode, pc, rows, skip, records, selected, accepted, posted>>
    BY <1>6 DEF Decide, vars, work, counters, history
  <2> QED
    BY <2>1 DEF ToSet, Recorded, Reviewed, Submitting
<1> QED
  BY <1>1, <1>2, <1>3, <1>4, <1>5, <1>6, Steps DEF Start, Crash

\* Nothing is submitted twice: in a session, whatever the platform answered the first time
\* (what was reviewed is skipped from then on), nor what the platform showed ACTIVE when
\* it was last read, whoever submitted it; and no more are accepted than the target.
THEOREM Once == Spec => []SubmittedOnce
<1>1. Init => Apart /\ Submissions
  BY Limits DEF Init, Apart, Submissions, IsInjective, Recorded
<1>2. TypeInv /\ Apart /\ Submissions /\ [Next]_vars => Apart' /\ Submissions'
  BY ApartStep, SubmissionsStep
<1>3. Apart /\ Submissions => SubmittedOnce
  BY DEF Apart, Submissions, SubmittedOnce, Untried, ToSet
<1> QED
  BY <1>1, <1>2, <1>3, TypeCorrect, PTL DEF Spec

-----------------------------------------------------------------------------
(* The ready records.                                                      *)

\* A record that fits is taken, beside those that fit.
LEMMA FitsBeside ==
    ASSUME TypeInv, ReadyFit, mode = "presubmit-sequential", NEW row \in Judged,
           Acceptable(row, inventory \cup Recorded), records' = Append(records, row),
           UNCHANGED <<mode, inventory>>
    PROVE  ReadyFit'
<1> DEFINE known == inventory \cup Recorded
           Alike(S, e) == {a \in S : Signature[a] = Signature[e]}
<1>1. records \in Seq(Judged) /\ IsFiniteSet(inventory)
  BY DEF TypeInv, TypeOK, CountersOK, PlatformOK
<1>2. IsFiniteSet(known)
  <2>1. Len(records) \in Nat /\ DOMAIN records = 1..Len(records)
    BY <1>1
  <2>2. IsFiniteSet(Recorded)
    BY <2>1, ExpressionsOf DEF Recorded
  <2> QED
    BY <1>1, <2>2, FS_Union
<1>3. /\ \A i \in DOMAIN records' : \/ i \in DOMAIN records /\ records'[i] = records[i]
                                    \/ i = Len(records) + 1 /\ records'[i] = row
      /\ DOMAIN records \subseteq DOMAIN records' /\ Len(records) + 1 \in DOMAIN records'
      /\ \A i \in DOMAIN records : records'[i] = records[i]
      /\ records'[Len(records) + 1] = row
  BY <1>1, AppendedTo
<1>4. Recorded' = Recorded \cup {row.expr}
  BY <1>3 DEF Recorded
<1>5. ~Collides(row.expr, known) /\ ~Crowded(row.expr, known)
  BY DEF Acceptable
<1>6. \A i, j \in DOMAIN records' :
         i # j => ~Collides(records'[i].expr, {records'[j].expr})
  <2>1. \A e \in Recorded : e # row.expr /\ {e, row.expr} \notin Similar
    BY <1>5 DEF Collides
  <2>2. \A i \in DOMAIN records : records[i].expr \in Recorded
    BY DEF Recorded
  <2>3. \A e \in Recorded : ~Collides(e, {row.expr}) /\ ~Collides(row.expr, {e})
    <3> SUFFICES ASSUME NEW e \in Recorded
                 PROVE  ~Collides(e, {row.expr}) /\ ~Collides(row.expr, {e})
      OBVIOUS
    <3>1. {e, row.expr} = {row.expr, e}
      OBVIOUS
    <3> QED
      BY <2>1, <3>1 DEF Collides
  <2> SUFFICES ASSUME NEW i \in DOMAIN records', NEW j \in DOMAIN records', i # j
               PROVE  ~Collides(records'[i].expr, {records'[j].expr})
    OBVIOUS
  <2>4. CASE i \in DOMAIN records /\ j \in DOMAIN records
    BY <1>3, <2>4 DEF ReadyFit
  <2>5. CASE i \in DOMAIN records /\ j \notin DOMAIN records
    BY <1>3, <2>2, <2>3, <2>5
  <2>6. CASE i \notin DOMAIN records /\ j \in DOMAIN records
    BY <1>3, <2>2, <2>3, <2>6
  <2> QED
    BY <1>3, <2>4, <2>5, <2>6
<1>7. \A e \in Recorded' : ~Collides(e, inventory')
  <2>1. ~Collides(row.expr, inventory)
    BY <1>5 DEF Collides
  <2>2. \A e \in Recorded : ~Collides(e, inventory)
    BY DEF ReadyFit
  <2> QED
    BY <1>4, <2>1, <2>2
<1>8. ASSUME NEW e \in Recorded'
      PROVE  Cardinality(Alike(known \cup {row.expr}, e)) <= MaxSignature
  <2>1. Alike(known, e) \in SUBSET known
    OBVIOUS
  <2> HIDE DEF known
  <2>2. IsFiniteSet(Alike(known, e)) /\ Cardinality(Alike(known, e)) \in Nat
    BY <1>2, <2>1, FS_Subset, FS_CardinalityType
  <2>3. CASE Signature[e] # Signature[row.expr]
    <3>1. Alike(known \cup {row.expr}, e) = Alike(known, e)
      BY <2>3
    <3>2. e \in Recorded
      BY <1>4, <2>3
    <3>3. Cardinality(Alike(known, e)) <= MaxSignature
      BY <3>2 DEF ReadyFit, known
    <3> QED
      BY <3>1, <3>3
  <2>4. CASE Signature[e] = Signature[row.expr]
    <3>1. Alike(known \cup {row.expr}, e) = Alike(known, e) \cup {row.expr}
      BY <2>4
    <3>2. PICK n \in Nat : n = Cardinality(Alike(known, e))
      BY <2>2
    <3>3. Alike(known, e) = Alike(known, row.expr)
      BY <2>4
    <3>4. ~(Cardinality(Alike(known, row.expr)) >= MaxSignature)
      BY <1>5 DEF Crowded
    <3> HIDE DEF Alike
    <3>5. ~(n >= MaxSignature)
      BY <3>2, <3>3, <3>4
    <3>6. n + 1 <= MaxSignature /\ n <= MaxSignature
      BY <3>5, Limits
    <3>7. Cardinality(Alike(known, e) \cup {row.expr}) = n
          \/ Cardinality(Alike(known, e) \cup {row.expr}) = n + 1
      BY <2>2, <3>2, FS_AddElement
    <3> QED
      BY <3>1, <3>6, <3>7
  <2> QED
    BY <2>3, <2>4
<1>9. inventory' \cup Recorded' = known \cup {row.expr}
  BY <1>4
<1>10. \A e \in Recorded' :
          Cardinality({a \in inventory' \cup Recorded' : Signature[a] = Signature[e]}) <= MaxSignature
  BY <1>8, <1>9
<1> HIDE DEF known, Alike
<1> QED
  BY <1>6, <1>7, <1>10 DEF ReadyFit

LEMMA ReadyFitStep ==
    ASSUME TypeInv, ReadyFit, [Next]_vars
    PROVE  ReadyFit'
<1>1. CASE records' = <<>>
  <2>1. DOMAIN records' = {}
    BY <1>1
  <2>2. Recorded' = {}
    BY <2>1 DEF Recorded
  <2> QED
    BY <2>1, <2>2 DEF ReadyFit
<1>2. CASE mode' # "presubmit-sequential"
  BY <1>2 DEF ReadyFit
<1>3. CASE UNCHANGED <<mode, records, inventory>>
  <2>1. Recorded' = Recorded
    BY <1>3 DEF Recorded
  <2> QED
    BY <1>3, <2>1 DEF ReadyFit, Collides
<1>4. CASE AccountSubmit \/ AccountPresubmit
  <2>1. PICK new \in Seq(Judged), refused \in SUBSET Reviewed :
          /\ EndCycle(new, refused)
          /\ ~Submitting => \/ new = <<>>
                            \/ \E row \in ToSet(rows) :
                                  new = <<row>> /\ Acceptable(row, inventory \cup Recorded)
          /\ ~Submitting => pc = "account"
    BY <1>4, AccountMoves
  <2>2. records' = records \o new /\ UNCHANGED <<mode, inventory>>
    BY <2>1 DEF EndCycle
  <2>3. records \in Seq(Judged)
    BY DEF TypeInv, TypeOK, CountersOK
  <2>4. CASE Submitting
    BY <1>2, <2>2, <2>4 DEF Submitting
  <2>5. CASE ~Submitting /\ new = <<>>
    BY <1>3, <2>2, <2>3, <2>5, ConcatEmptySeq
  <2>6. ASSUME ~Submitting, NEW row \in ToSet(rows), new = <<row>>,
               Acceptable(row, inventory \cup Recorded)
        PROVE  ReadyFit'
    <3>1. pc = "account"
      BY <2>1, <2>6
    <3>2. rows \in Seq(Judged) /\ mode = "presubmit-sequential"
      BY <3>1 DEF TypeInv, TypeOK, WorkOK, Flow
    <3>3. row \in Judged
      BY <3>2, ElementsFinite
    <3>4. records' = Append(records, row)
      BY <2>2, <2>3, <2>6, <3>3, AppendIsConcat
    <3> QED
      BY <2>2, <2>6, <3>2, <3>3, <3>4, FitsBeside
  <2> QED
    BY <2>1, <2>4, <2>5, <2>6
<1>5. CASE Design
  BY <1>2, <1>3, <1>5 DEF Design, counters, Submitting
<1>6. CASE \/ Stop \/ Simulate \/ ReviewRows \/ Select \/ Submit
           \/ (\E e \in Expressions : Decide(e)) \/ UNCHANGED vars
  <2>1. UNCHANGED <<mode, records, inventory>>
    BY <1>6 DEF Stop, Simulate, ReviewRows, Select, Submit, Decide, vars, counters
  <2> QED
    BY <1>3, <2>1
<1> QED
  BY <1>1, <1>4, <1>5, <1>6, Steps DEF Start, Crash, Fresh

\* The ready records together fit beside the ACTIVE inventory: select_presubmit_ready_candidate
\* takes one a cycle, and the gate weighs it against the records it took before
\* (build_virtual_active_inventory).
THEOREM Ready == Spec => []ReadyFit
<1>1. Init => ReadyFit
  BY DEF Init, ReadyFit
<1>2. TypeInv /\ ReadyFit /\ [Next]_vars => ReadyFit'
  BY ReadyFitStep
<1> QED
  BY <1>1, <1>2, TypeCorrect, PTL DEF Spec

-----------------------------------------------------------------------------
(* Places for new candidates.                                              *)

\* The sources have something new, and the designer is asked for more than what is old:
\* one of its candidates is new.
LEMMA DesignFinds ==
    ASSUME TypeInv, Submissions, total < MaxTotal, NEW offer \in Offers, NEW known, NEW old,
           skip \subseteq old, Recorded \subseteq old, Submitting => known \subseteq old,
           \A e \in old : e \in skip \/ e \in Recorded \/ (Submitting /\ e \in known),
           NEW new \in ToSet(offer), new \notin old
    PROVE  \E k \in DOMAIN Designed(offer, known) : Designed(offer, known)[k] \notin old
<1> DEFINE candidates == Designed(offer, known)
           tried == skip \cup (IF Submitting THEN {} ELSE Recorded)
<1>1. /\ Limit \in Nat /\ Limit > 0 /\ Cardinality(skip) \in Nat /\ DesignLimit \in Nat
      /\ DesignLimit = Limit + Cardinality(skip) + (IF Submitting THEN 0 ELSE Len(records))
  BY LimitBounds DEF TypeInv
<1>2. /\ candidates \in Seq(Expressions) /\ IsInjective(candidates)
      /\ \A k \in DOMAIN candidates : Submitting => candidates[k] \notin known
      /\ \/ Len(candidates) = DesignLimit
         \/ \A e \in ToSet(offer) : \/ Submitting /\ e \in known
                                    \/ \E k \in DOMAIN candidates : candidates[k] = e
  BY <1>1, DesignedProperties
<1> HIDE DEF candidates
<1>3. IsFiniteSet(tried) /\ Cardinality(tried) \in Nat /\ Cardinality(tried) < DesignLimit
  <2>1. IsFiniteSet(skip) /\ records \in Seq(Judged)
    BY DEF TypeInv, TypeOK, CountersOK, PlatformOK
  <2>2. Len(records) \in Nat /\ DOMAIN records = 1..Len(records)
    BY <2>1
  <2>3. IsFiniteSet(Recorded) /\ Cardinality(Recorded) \in Nat /\ Cardinality(Recorded) <= Len(records)
    BY <2>2, ExpressionsOf DEF Recorded
  <2>4. CASE Submitting
    <3>1. tried = skip
      BY <2>4
    <3> HIDE DEF tried
    <3> QED
      BY <1>1, <2>1, <2>4, <3>1
  <2>5. CASE ~Submitting
    <3>1. tried = skip \cup Recorded
      BY <2>5
    <3> HIDE DEF tried
    <3>2. PICK s \in Nat, r \in Nat : s = Cardinality(skip) /\ r = Cardinality(Recorded)
      BY <1>1, <2>3
    <3>3. IsFiniteSet(tried) /\ Cardinality(tried) = s + r - Cardinality(skip \cap Recorded)
      BY <2>1, <2>3, <3>1, <3>2, FS_Union
    <3>4. Cardinality(tried) \in Nat /\ Cardinality(skip \cap Recorded) \in Nat
      BY <2>1, <3>3, FS_Intersection, FS_CardinalityType
    <3>5. DesignLimit = Limit + s + Len(records) /\ r <= Len(records)
      BY <1>1, <2>3, <2>5, <3>2
    <3> QED
      BY <1>1, <2>2, <3>3, <3>4, <3>5
  <2> QED
    BY <2>4, <2>5
<1>4. ASSUME \A k \in DOMAIN candidates : candidates[k] \in old PROVE FALSE
  <2>1. \A k \in DOMAIN candidates : candidates[k] \in tried
    BY <1>2, <1>4 DEF Submissions
  <2>2. CASE Len(candidates) = DesignLimit
    <3>1. DOMAIN candidates = 1..DesignLimit
      BY <1>2, <2>2
    <3> HIDE DEF tried
    <3>2. candidates \in [1..DesignLimit -> tried]
      BY <1>2, <2>1, <3>1
    <3>3. candidates \in Injection(1..DesignLimit, tried)
      BY <1>2, <3>2 DEF Injection
    <3>4. Cardinality(1..DesignLimit) <= Cardinality(tried)
      BY <1>3, <3>3, FS_Injection
    <3>5. PICK n \in Nat : n = DesignLimit
      BY <1>1
    <3>6. Cardinality(1..n) = n
      BY FS_Interval
    <3>7. Cardinality(1..DesignLimit) = DesignLimit
      BY <3>5, <3>6
    <3> QED
      BY <1>1, <1>3, <3>4, <3>7
  <2>3. CASE Len(candidates) # DesignLimit
    BY <1>2, <1>4, <2>3
  <2> QED
    BY <2>2, <2>3
<1> QED
  BY <1>4 DEF candidates

LEMMA DesignFeeds ==
    ASSUME TypeInv, Submissions, Design
    PROVE  NotStarved'
<1>1. PICK offer \in Offers :
        LET known == IF Submitting THEN active ELSE inventory \cup Recorded
            candidates == Designed(offer, known)
        IN /\ offered' = ToSet(offer)
           /\ pool' = First(Limit, IF Submitting /\ skip = {} THEN candidates
                                   ELSE Filtered(candidates, known))
  BY DEF Design
<1> DEFINE known == IF Submitting THEN active ELSE inventory \cup Recorded
           candidates == Designed(offer, known)
           kept == IF Submitting /\ skip = {} THEN candidates ELSE Filtered(candidates, known)
           old == skip \cup Recorded \cup (IF Submitting THEN active ELSE {})
<1>2. /\ inventory' = IF Submitting THEN active ELSE inventory
      /\ mode' = mode /\ skip' = skip /\ records' = records
  BY DEF Design, counters
<1>3. Recorded' = Recorded /\ Submitting' = Submitting
  BY <1>2 DEF Recorded, Submitting
<1>4. /\ (skip \cup Recorded \cup (IF Submitting THEN inventory ELSE {}))' = old
      /\ (IF Submitting THEN inventory ELSE inventory \cup Recorded)' = known
  BY <1>2, <1>3
<1>5. pool' = First(Limit, kept) /\ offered' = ToSet(offer)
  BY <1>1
<1>o. /\ skip \subseteq old /\ Recorded \subseteq old /\ (Submitting => known \subseteq old)
      /\ \A e \in old : e \in skip \/ e \in Recorded \/ (Submitting /\ e \in known)
      /\ \A e : e \notin skip /\ e \notin known => e \notin old
  BY DEF Submissions
<1>6. total < MaxTotal /\ Limit \in Nat /\ Limit > 0 /\ DesignLimit \in Nat
  BY DesignedPool, LimitBounds DEF TypeInv
<1> HIDE DEF known, old
<1>7. ASSUME pool' = <<>>, NEW new \in offered' \ old,
             \A e \in offered' \ old : ~Collides(e, known) /\ ~Crowded(e, known)
      PROVE  FALSE
  <2>1. PICK k \in DOMAIN candidates : candidates[k] \notin old
    <3>1. new \in ToSet(offer) /\ new \notin old
      BY <1>5, <1>7
    <3> QED
      BY <1>o, <1>6, <3>1, DesignFinds
  <2>2. candidates \in Seq(Expressions) /\ \A l \in DOMAIN candidates : candidates[l] \in offered'
    BY <1>5, <1>6, DesignedProperties
  <2>3. kept # <<>> /\ kept \in Seq(Expressions)
    <3>1. CASE Submitting /\ skip = {}
      BY <2>1, <2>2, <3>1
    <3>2. CASE ~(Submitting /\ skip = {})
      <4>1. kept = Filtered(candidates, known)
        BY <3>2
      <4> HIDE DEF candidates, kept
      <4>2. Eligible(candidates[k], known)
        BY <1>o, <1>7, <2>1, <2>2 DEF Eligible
      <4>3. \A l \in DOMAIN candidates :
               Eligible(candidates[l], known) => ~Crowded(candidates[l], known)
        BY <1>o, <1>7, <2>2 DEF Eligible, Collides
      <4>4. Filtered(candidates, known) # <<>>
        BY <2>1, <2>2, <4>2, <4>3, FilteredKeeps
      <4>5. Filtered(candidates, known) \in Seq(Expressions)
        BY <2>2, FilteredProperties
      <4> QED
        BY <4>1, <4>4, <4>5
    <3> QED
      BY <3>1, <3>2
  <2> HIDE DEF kept, candidates
  <2>4. Len(kept) \in Nat /\ Len(kept) # 0
    BY <2>3
  <2>5. Len(First(Limit, kept)) = IF Limit < Len(kept) THEN Limit ELSE Len(kept)
    BY <1>6, <2>3, FirstProperties
  <2>6. Len(pool') = 0
    BY <1>7
  <2> QED
    BY <1>5, <1>6, <2>4, <2>5, <2>6
<1> QED
  BY <1>4, <1>7 DEF NotStarved

LEMMA NotStarvedStep ==
    ASSUME TypeInv, Submissions, NotStarved, [Next]_vars
    PROVE  NotStarved'
<1>1. CASE Design
  BY <1>1, DesignFeeds
<1>2. CASE Simulate
  <2>1. Len(rows') = Len(rows) + 1 /\ rows \in Seq(Simulated) /\ rows' \in Seq(Simulated)
    BY <1>2, SimulateRows DEF Simulate, TypeInv, TypeOK, WorkOK
  <2>2. rows' # <<>>
    BY <2>1
  <2> QED
    BY <2>2 DEF NotStarved
<1>3. CASE pc' # "simulate"
  BY <1>3 DEF NotStarved
<1>4. CASE (\E e \in Expressions : Decide(e)) \/ UNCHANGED vars
  <2>1. UNCHANGED <<mode, pc, offered, pool, rows, skip, records, inventory>>
    BY <1>4 DEF Decide, vars, work, counters
  <2>2. Recorded' = Recorded /\ Submitting' = Submitting
    BY <2>1 DEF Recorded, Submitting
  <2> QED
    BY <2>1, <2>2 DEF NotStarved
<1>5. CASE AccountSubmit \/ AccountPresubmit
  BY <1>3, <1>5 DEF AccountSubmit, AccountPresubmit, EndCycle
<1>6. CASE Stop \/ ReviewRows \/ Select \/ Submit \/ Crash \/ \E m \in Modes : Start(m)
  BY <1>3, <1>6 DEF Stop, ReviewRows, Select, Submit, Crash, Start
<1> QED
  BY <1>1, <1>2, <1>4, <1>5, <1>6, Steps

\* What earlier cycles tried does not use up the places of what is new: a cycle is without
\* candidates only when its sources hold nothing new that the platform has room for, since
\* the designer is asked for as many more as are to be skipped.
THEOREM Fed == Spec => []NotStarved
<1>1. Init => NotStarved /\ Submissions /\ Apart
  BY Limits DEF Init, NotStarved, Apart, Submissions, IsInjective, Recorded
<1>2. TypeInv /\ Apart /\ Submissions /\ NotStarved /\ [Next]_vars
        => Apart' /\ Submissions' /\ NotStarved'
  BY ApartStep, SubmissionsStep, NotStarvedStep
<1> QED
  BY <1>1, <1>2, TypeCorrect, PTL DEF Spec

-----------------------------------------------------------------------------
(* The reason a session ends with.                                         *)

\* A step that leaves the counters and the log alone.
LEMMA CountedKept ==
    ASSUME Counted, UNCHANGED <<mode, empty, failures, log>>
    PROVE  Counted'
<1>1. Submitting' = Submitting /\ Failed' = Failed
  BY DEF Submitting, Failed
<1> QED
  BY <1>1 DEF Counted

\* One more cycle: it continues what was counted, or ends it.
LEMMA AccountCounted ==
    ASSUME TypeInv, Counted, AccountSubmit \/ AccountPresubmit
    PROVE  Counted'
<1>1. PICK new \in Seq(Judged), refused \in SUBSET Reviewed :
         /\ EndCycle(new, refused)
         /\ Submitting =>
               /\ new = accepted
               /\ empty' = IF rows = <<>> THEN empty + 1 ELSE 0
               /\ failures' = IF accepted # <<>> THEN 0
                              ELSE IF chosen THEN failures + 1 ELSE failures
         /\ ~Submitting => \/ new = <<>> /\ empty' = empty + 1
                           \/ empty' = 0
  BY AccountMoves
<1> DEFINE n == Len(log)
           entry == [simulated |-> Len(rows), chosen |-> chosen, new |-> Len(new)]
<1>2. /\ log \in Seq(Accounts) /\ n \in Nat /\ DOMAIN log = 1..n
      /\ empty \in Nat /\ failures \in Nat
  BY DEF TypeInv, TypeOK, HistoryOK, CountersOK
<1>3. log' = Append(log, entry) /\ mode' = mode
  BY <1>1 DEF EndCycle
<1>4. /\ Len(log') = n + 1 /\ DOMAIN log' = 1..(n + 1)
      /\ \A i \in 1..n : log'[i] = log[i]
      /\ log'[n + 1] = entry
  <2> HIDE DEF entry
  <2> QED
    BY <1>2, <1>3
<1>5. Submitting' = Submitting
  BY <1>3 DEF Submitting
<1>6. /\ entry.simulated = Len(rows) /\ entry.chosen = chosen /\ entry.new = Len(new)
      /\ rows = <<>> => entry.simulated = 0
      /\ new = <<>> => entry.new = 0
  OBVIOUS
<1> HIDE DEF entry, n
<1>7. \/ empty' = 0
      \/ /\ empty' = empty + 1
         /\ IF Submitting THEN entry.simulated = 0 ELSE entry.new = 0
  BY <1>1, <1>6
<1>8. /\ empty <= n
      /\ \A i \in (n - empty + 1)..n : IF Submitting THEN log[i].simulated = 0 ELSE log[i].new = 0
  BY DEF Counted, n
<1>9. /\ empty' <= Len(log')
      /\ \A i \in (Len(log') - empty' + 1)..Len(log') :
             IF Submitting' THEN log'[i].simulated = 0 ELSE log'[i].new = 0
  <2>1. CASE empty' = 0
    BY <1>2, <1>4, <2>1
  <2>2. CASE empty' = empty + 1 /\ IF Submitting THEN entry.simulated = 0 ELSE entry.new = 0
    <3>1. empty' <= Len(log') /\ Len(log') - empty' + 1 = n - empty + 1
      BY <1>2, <1>4, <1>8, <2>2
    <3>2. ASSUME NEW i \in (n - empty + 1)..(n + 1)
          PROVE  IF Submitting THEN log'[i].simulated = 0 ELSE log'[i].new = 0
      <4>1. CASE i = n + 1
        BY <1>4, <2>2, <4>1
      <4>2. CASE i # n + 1
        <5>1. i \in 1..n /\ i \in (n - empty + 1)..n
          BY <1>2, <1>8, <4>2
        <5>2. log'[i] = log[i]
          BY <1>4, <5>1
        <5> QED
          BY <1>8, <5>1, <5>2
      <4> QED
        BY <4>1, <4>2
    <3> QED
      BY <1>4, <1>5, <3>1, <3>2
  <2> QED
    BY <1>7, <2>1, <2>2
<1>10. ASSUME Submitting PROVE failures' <= Cardinality(Failed')
  <2>1. /\ new = accepted
        /\ failures' = IF accepted # <<>> THEN 0 ELSE IF chosen THEN failures + 1 ELSE failures
    BY <1>1, <1>10
  <2>2. /\ Failed = {i \in 1..n : log[i].chosen /\ \A j \in i..n : log[j].new = 0}
        /\ Failed' = {i \in 1..(n + 1) : log'[i].chosen /\ \A j \in i..(n + 1) : log'[j].new = 0}
    BY <1>2, <1>4 DEF Failed, n
  <2>3. IsFiniteSet(1..n) /\ IsFiniteSet(1..(n + 1))
    BY <1>2, FS_Interval
  <2>4. /\ IsFiniteSet(Failed) /\ Cardinality(Failed) \in Nat
        /\ IsFiniteSet(Failed') /\ Cardinality(Failed') \in Nat
    <3>1. Failed \subseteq 1..n /\ Failed' \subseteq 1..(n + 1)
      BY <2>2
    <3> QED
      BY <2>3, <3>1, FS_Subset, FS_CardinalityType
  <2>5. failures <= Cardinality(Failed)
    BY <1>10 DEF Counted
  <2>6. CASE accepted # <<>>
    BY <2>1, <2>4, <2>6
  <2>7. CASE accepted = <<>>
    <3>1. entry.new = 0 /\ entry.chosen = chosen
      BY <1>6, <2>1, <2>7
    <3>2. Failed \subseteq Failed'
      <4>1. ASSUME NEW i \in Failed PROVE i \in Failed'
        <5>1. i \in 1..n /\ log[i].chosen /\ \A j \in i..n : log[j].new = 0
          BY <2>2
        <5>2. i \in 1..(n + 1) /\ log'[i].chosen
          BY <1>2, <1>4, <5>1
        <5>3. ASSUME NEW j \in i..(n + 1) PROVE log'[j].new = 0
          <6>1. CASE j = n + 1
            BY <1>4, <3>1, <6>1
          <6>2. CASE j # n + 1
            <7>1. j \in 1..n /\ j \in i..n
              BY <1>2, <5>1, <6>2
            <7> QED
              BY <1>4, <5>1, <7>1
          <6> QED
            BY <6>1, <6>2
        <5> QED
          BY <2>2, <5>2, <5>3
      <4> QED
        BY <4>1
    <3>3. CASE ~chosen
      <4>1. Cardinality(Failed) <= Cardinality(Failed')
        BY <2>4, <3>2, FS_Subset
      <4> QED
        BY <1>2, <2>1, <2>4, <2>5, <2>7, <3>3, <4>1
    <3>4. CASE chosen
      <4>1. n + 1 \in Failed'
        <5>1. log'[n + 1].chosen /\ n + 1 \in 1..(n + 1)
          BY <1>2, <1>4, <3>1, <3>4
        <5>2. \A j \in (n + 1)..(n + 1) : log'[j].new = 0
          BY <1>2, <1>4, <3>1
        <5> QED
          BY <2>2, <5>1, <5>2
      <4>2. n + 1 \notin Failed
        BY <1>2, <2>2
      <4>3. Failed \cup {n + 1} \subseteq Failed'
        BY <3>2, <4>1
      <4>4. Cardinality(Failed \cup {n + 1}) = Cardinality(Failed) + 1
        BY <2>4, <4>2, FS_AddElement
      <4>5. Cardinality(Failed \cup {n + 1}) <= Cardinality(Failed')
        BY <2>4, <4>3, FS_Subset
      <4> QED
        BY <1>2, <2>1, <2>4, <2>5, <2>7, <3>4, <4>4, <4>5
    <3> QED
      BY <3>3, <3>4
  <2> QED
    BY <2>6, <2>7
<1> QED
  BY <1>5, <1>9, <1>10 DEF Counted

LEMMA CountedStep ==
    ASSUME TypeInv, Counted, [Next]_vars
    PROVE  Counted'
<1>1. CASE Fresh
  <2>1. log' = <<>> /\ empty' = 0 /\ failures' = 0
    BY <1>1 DEF Fresh
  <2>2. Failed' = {}
    BY <2>1 DEF Failed
  <2>3. Cardinality(Failed') = 0
    BY <2>2, FS_EmptySet
  <2> QED
    BY <2>1, <2>3 DEF Counted
<1>2. CASE AccountSubmit \/ AccountPresubmit
  BY <1>2, AccountCounted
<1>3. CASE \/ Stop \/ Design \/ Simulate \/ ReviewRows \/ Select \/ Submit
           \/ \E e \in Expressions : Decide(e)
           \/ UNCHANGED vars
  <2>1. UNCHANGED <<mode, empty, failures, log>>
    BY <1>3 DEF Stop, Design, Simulate, ReviewRows, Select, Submit, Decide,
                vars, work, counters, history
  <2> QED
    BY <2>1, CountedKept
<1> QED
  BY <1>1, <1>2, <1>3, Steps DEF Start, Crash

\* The head of the loop stops for what the counters say, and so for what the cycles were.
LEMMA StopReasonTrue ==
    ASSUME TypeInv, Budgeted, Counted, Stop
    PROVE  ReasonIsTrue'
<1>1. /\ stop_reason' = TopReason
      /\ UNCHANGED <<mode, records, total, cycle, simulated, log>>
  BY DEF Stop, counters, history
<1>2. /\ Len(records) \in Nat /\ total \in Nat /\ cycle \in Nat /\ empty \in Nat /\ failures \in Nat
      /\ simulated \in Nat /\ Len(log) = cycle /\ cycle <= MaxCycles /\ rows = <<>> /\ Len(pool) \in Nat
  BY DEF Stop, TypeInv, TypeOK, SessionOK, WorkOK, CountersOK, HistoryOK, Flow
<1>3. simulated = total /\ total <= MaxTotal
  <2>1. Len(rows) = 0
    BY <1>2
  <2> QED
    BY <1>2, <2>1, Limits DEF Budgeted
<1>4. Submitting' = Submitting
  BY <1>1 DEF Submitting
<1>5. CASE TopReason = "target_reached"
  <2>1. Len(records) >= Target
    BY <1>5 DEF TopReason
  <2> QED
    BY <1>1, <1>5, <2>1 DEF ReasonIsTrue
<1>6. CASE TopReason = "max_total_simulations_reached"
  <2>1. ~(Len(records) >= Target) /\ total >= MaxTotal
    BY <1>6 DEF TopReason
  <2>2. Len(records) < Target /\ simulated = MaxTotal
    BY <1>2, <1>3, <2>1, Limits
  <2> QED
    BY <1>1, <1>6, <2>2 DEF ReasonIsTrue
<1>7. CASE TopReason = "max_cycles_reached"
  <2>1. cycle >= MaxCycles
    BY <1>7 DEF TopReason
  <2>2. Len(log) = MaxCycles
    BY <1>2, <2>1, Limits
  <2> QED
    BY <1>1, <1>7, <2>2 DEF ReasonIsTrue
<1>8. CASE TopReason = "max_consecutive_empty_cycles_reached"
  <2>1. empty >= MaxEmpty
    BY <1>8 DEF TopReason
  <2>2. ASSUME NEW i \in (Len(log) - MaxEmpty + 1)..Len(log)
        PROVE  i > 0 /\ IF Submitting THEN log[i].simulated = 0 ELSE log[i].new = 0
    <3>1. i > 0 /\ i \in (Len(log) - empty + 1)..Len(log)
      BY <1>2, <2>1, Limits DEF Counted
    <3> QED
      BY <3>1 DEF Counted
  <2> QED
    BY <1>1, <1>4, <1>8, <2>2 DEF ReasonIsTrue
<1>9. CASE TopReason = "max_consecutive_submit_failures_reached"
  <2>1. Submitting /\ failures >= MaxFailures
    BY <1>9 DEF TopReason
  <2>2. Cardinality(Failed) \in Nat
    <3>1. Failed \subseteq 1..Len(log)
      BY DEF Failed, TypeInv, TypeOK, HistoryOK
    <3>2. PICK n \in Nat : n = Len(log)
      BY <1>2
    <3>3. IsFiniteSet(1..n)
      BY FS_Interval
    <3>4. IsFiniteSet(Failed)
      BY <3>1, <3>2, <3>3, FS_Subset
    <3> QED
      BY <3>4, FS_CardinalityType
  <2>3. Cardinality(Failed) >= MaxFailures
    BY <1>2, <2>1, <2>2, Limits DEF Counted
  <2> QED
    BY <1>1, <1>9, <2>3 DEF ReasonIsTrue, Failed
<1>10. TopReason \in StopReasons /\ (TopReason \in {"none", "running"} => ReasonIsTrue')
  BY <1>1, TopReasons DEF ReasonIsTrue
<1> QED
  BY <1>5, <1>6, <1>7, <1>8, <1>9, <1>10 DEF StopReasons

LEMMA ReasonStep ==
    ASSUME TypeInv, Budgeted, Counted, ReasonIsTrue, [Next]_vars
    PROVE  ReasonIsTrue'
<1>1. CASE stop_reason' \in {"none", "running"}
  BY <1>1 DEF ReasonIsTrue
<1>2. CASE Stop
  BY <1>2, StopReasonTrue
<1>3. CASE AccountSubmit \/ AccountPresubmit
  <2>1. PICK new \in Seq(Judged), refused \in SUBSET Reviewed :
           pc \in {"submit", "account"} /\ EndCycle(new, refused)
    BY <1>3, AccountMoves
  <2>2. /\ total' = total + Len(rows) /\ simulated' = simulated /\ records' = records \o new
        /\ IF Len(records') >= Target \/ total' >= MaxTotal
           THEN stop_reason' = IF Len(records') >= Target THEN "target_reached"
                               ELSE "max_total_simulations_reached"
           ELSE stop_reason' = stop_reason
    BY <2>1 DEF EndCycle
  <2>3. /\ Len(records') \in Nat /\ total \in Nat /\ Len(rows) \in Nat /\ Len(pool) \in Nat
        /\ simulated \in Nat /\ stop_reason = "running"
    BY <2>1, <2>2 DEF TypeInv, TypeOK, WorkOK, CountersOK, HistoryOK, Flow
  <2>4. simulated' = total' /\ total' <= MaxTotal
    BY <2>2, <2>3, Limits DEF Budgeted
  <2>5. CASE Len(records') >= Target
    BY <2>2, <2>5 DEF ReasonIsTrue
  <2>6. CASE ~(Len(records') >= Target) /\ total' >= MaxTotal
    <3>1. Len(records') < Target /\ simulated' = MaxTotal
      BY <2>2, <2>3, <2>4, <2>6, Limits
    <3>2. stop_reason' = "max_total_simulations_reached"
      BY <2>2, <2>6
    <3> QED
      BY <3>1, <3>2 DEF ReasonIsTrue
  <2>7. CASE ~(Len(records') >= Target) /\ ~(total' >= MaxTotal)
    BY <1>1, <2>2, <2>3, <2>7
  <2> QED
    BY <2>5, <2>6, <2>7
<1>4. CASE Design \/ Simulate \/ ReviewRows \/ Select \/ Submit
  <2>1. stop_reason' = stop_reason /\ pc \notin {"off", "ended"}
    BY <1>4 DEF Design, Simulate, ReviewRows, Select, Submit
  <2> QED
    BY <1>1, <2>1 DEF TypeInv, Flow
<1>5. CASE (\E e \in Expressions : Decide(e)) \/ UNCHANGED vars
  <2>1. UNCHANGED <<mode, stop_reason, records, simulated, log>>
    BY <1>5 DEF Decide, vars, counters, history
  <2>2. Submitting' = Submitting
    BY <2>1 DEF Submitting
  <2> QED
    BY <2>1, <2>2 DEF ReasonIsTrue
<1>6. CASE Crash \/ \E m \in Modes : Start(m)
  BY <1>1, <1>6 DEF Crash, Start
<1> QED
  BY <1>2, <1>3, <1>4, <1>5, <1>6, Steps

\* The reason a session ends with is what its cycles came to: an "empty" session ends
\* with as many cycles in a row that were, failures are counted since the last success,
\* and the budget that is said to be used up was simulated, whatever was submitted,
\* accepted, refused or left pending in between.
THEOREM Reasons == Spec => []ReasonIsTrue
<1>1. Init => Budgeted /\ Counted /\ ReasonIsTrue
  <2> SUFFICES ASSUME Init PROVE Budgeted /\ Counted /\ ReasonIsTrue
    OBVIOUS
  <2>1. log = <<>> /\ empty = 0 /\ failures = 0 /\ stop_reason = "none"
    BY DEF Init
  <2>2. Failed = {}
    BY <2>1 DEF Failed
  <2>3. Cardinality(Failed) = 0
    BY <2>2, FS_EmptySet
  <2>4. Budgeted
    BY Limits DEF Init, Budgeted
  <2> QED
    BY <2>1, <2>3, <2>4 DEF Counted, ReasonIsTrue
<1>2. TypeInv /\ Budgeted /\ Counted /\ ReasonIsTrue /\ [Next]_vars
        => Budgeted' /\ Counted' /\ ReasonIsTrue'
  BY BudgetedStep, CountedStep, ReasonStep
<1> QED
  BY <1>1, <1>2, TypeCorrect, PTL DEF Spec

-----------------------------------------------------------------------------
(* All together.                                                           *)

\* The invariant of a session holds in all its states, and is inductive as it stands: the
\* budget, what was submitted, what is ready, what is offered and the reasons are kept
\* together, through every crash and rerun.
THEOREM Invariant == Spec => []Inv
<1>1. Init => Budgeted /\ Apart /\ Submissions /\ ReadyFit /\ NotStarved /\ Counted /\ ReasonIsTrue
  <2> SUFFICES ASSUME Init
               PROVE  Budgeted /\ Apart /\ Submissions /\ ReadyFit /\ NotStarved /\ Counted /\ ReasonIsTrue
    OBVIOUS
  <2>1. Budgeted /\ Apart /\ Submissions /\ ReadyFit /\ NotStarved
    BY Limits DEF Init, Budgeted, Apart, Submissions, IsInjective, Recorded, ReadyFit, NotStarved
  <2>2. log = <<>> /\ empty = 0 /\ failures = 0 /\ stop_reason = "none"
    BY DEF Init
  <2>3. Failed = {}
    BY <2>2 DEF Failed
  <2>4. Cardinality(Failed) = 0
    BY <2>3, FS_EmptySet
  <2> QED
    BY <2>1, <2>2, <2>4 DEF Counted, ReasonIsTrue
<1>2. Init => Inv
  BY <1>1, TypeInit DEF Inv
<1>3. Inv /\ [Next]_vars => Inv'
  BY TypeStep, BudgetedStep, ApartStep, SubmissionsStep, ReadyFitStep, NotStarvedStep, CountedStep,
     ReasonStep DEF Inv
<1> QED
  BY <1>2, <1>3, PTL DEF Spec
=============================================================================
