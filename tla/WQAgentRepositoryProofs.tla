----------------------- MODULE WQAgentRepositoryProofs -----------------------
(***************************************************************************)
(* What holds of SqlAgentRepository for any number of processes, events,   *)
(* candidates and rebuilds.                                                *)
(***************************************************************************)
EXTENDS WQAgentRepository, FiniteSetTheorems, WellFoundedInduction, TLAPS

-----------------------------------------------------------------------------
(* Sets of events.                                                         *)

\* A set of events that is not empty has a latest one.
LEMMA LatestIn ==
    ASSUME NEW S \in SUBSET Events, S # {}
    PROVE  Latest(S) \in S
<1> DEFINE ago == {NumEvents - e : e \in S}
<1>1. ago \subseteq Nat /\ ago # {}
  BY EventsAssumption DEF Events
<1>2. PICK x \in ago : \A y \in ago : <<y, x>> \notin OpToRel(<, Nat)
  BY <1>1, NatLessThanWellFounded, WFMin
<1>3. \A y \in ago : ~(y < x)
  BY <1>1, <1>2 DEF OpToRel
<1>4. PICK e \in S : x = NumEvents - e
  OBVIOUS
<1>5. \A f \in S : f <= e
  <2> TAKE f \in S
  <2>1. ~(NumEvents - f < NumEvents - e)
    BY <1>3, <1>4
  <2> QED
    BY <2>1, EventsAssumption DEF Events
<1> QED
  BY <1>4, <1>5 DEF Latest

\* Events are finitely many.
LEMMA Finite ==
    ASSUME NEW S \in SUBSET Events
    PROVE  IsFiniteSet(S) /\ Cardinality(S) \in Nat
<1>1. IsFiniteSet(Events)
  BY FS_Interval, EventsAssumption DEF Events
<1> QED
  BY <1>1, FS_Subset, FS_CardinalityType

\* A larger log has at least as many events of a candidate, and of a lesson.
LEMMA MoreEvents ==
    ASSUME NEW S \in SUBSET Events, NEW T \in SUBSET Events, S \subseteq T,
           NEW c \in Candidates, NEW k \in Kinds
    PROVE  /\ Of(S, c) \subseteq Of(T, c) /\ Teaching(S, c, k) \subseteq Teaching(T, c, k)
           /\ Concluding(S, c) \subseteq Concluding(T, c)
           /\ Cardinality(Of(S, c)) <= Cardinality(Of(T, c))
           /\ Cardinality(Teaching(S, c, k)) <= Cardinality(Teaching(T, c, k))
<1>1. /\ Of(S, c) \subseteq Of(T, c) /\ Teaching(S, c, k) \subseteq Teaching(T, c, k)
      /\ Concluding(S, c) \subseteq Concluding(T, c)
      /\ Of(T, c) \subseteq Events /\ Teaching(T, c, k) \subseteq Events
  BY DEF Of, Teaching, Concluding
<1>2. IsFiniteSet(Of(T, c)) /\ IsFiniteSet(Teaching(T, c, k))
  BY <1>1, Finite
<1> QED
  BY <1>1, <1>2, FS_Subset

\* New events are counted beside those that are there.
LEMMA CountsAdd ==
    ASSUME NEW S \in SUBSET Events, NEW T \in SUBSET Events, S \cap T = {},
           NEW c \in Candidates, NEW k \in Kinds
    PROVE  /\ Cardinality(Of(S \cup T, c)) = Cardinality(Of(S, c)) + Cardinality(Of(T, c))
           /\ Cardinality(Teaching(S \cup T, c, k)) =
                  Cardinality(Teaching(S, c, k)) + Cardinality(Teaching(T, c, k))
<1>1. /\ Of(S \cup T, c) = Of(S, c) \cup Of(T, c) /\ Of(S, c) \cap Of(T, c) = {}
      /\ Teaching(S \cup T, c, k) = Teaching(S, c, k) \cup Teaching(T, c, k)
      /\ Teaching(S, c, k) \cap Teaching(T, c, k) = {}
      /\ Of(S, c) \subseteq Events /\ Of(T, c) \subseteq Events
      /\ Teaching(S, c, k) \subseteq Events /\ Teaching(T, c, k) \subseteq Events
  BY DEF Of, Teaching
<1>2. \A X, Y \in SUBSET Events :
        X \cap Y = {} => Cardinality(X \cup Y) = Cardinality(X) + Cardinality(Y)
  <2> TAKE X, Y \in SUBSET Events
  <2> HAVE X \cap Y = {}
  <2>1. /\ IsFiniteSet(X) /\ Cardinality(X) \in Nat
        /\ IsFiniteSet(Y) /\ Cardinality(Y) \in Nat
    BY Finite
  <2>2. Cardinality(X \cup Y) = Cardinality(X) + Cardinality(Y) - Cardinality(X \cap Y)
    BY <2>1, FS_Union, Zenon
  <2>3. Cardinality(X \cap Y) = 0
    BY FS_EmptySet
  <2> QED
    BY <2>1, <2>2, <2>3
<1>3. Cardinality(Of(S \cup T, c)) = Cardinality(Of(S, c)) + Cardinality(Of(T, c))
  BY <1>1, <1>2, Zenon
<1>4. Cardinality(Teaching(S \cup T, c, k)) =
          Cardinality(Teaching(S, c, k)) + Cardinality(Teaching(T, c, k))
  BY <1>1, <1>2, Zenon
<1> QED
  BY <1>3, <1>4

-----------------------------------------------------------------------------
(* What events make of a row.                                              *)

\* The events whose status is active are those that conclude.
LEMMA ActiveStatus ==
    ASSUME NEW e \in Events
    PROVE  /\ Status(e) \in Statuses
           /\ Status(e) = "active" <=> TypeOf[e] \in ActiveTypes
<1>1. TypeOf[e] \in EventTypes
  BY TypesAssumption
<1> QED
  BY <1>1 DEF Status, Statuses, EVENT_STATUS, EventTypes, ActiveTypes

LEMMA OutcomeStatus ==
    ASSUME NEW status \in Statuses, NEW S \in SUBSET Events
    PROVE  /\ Outcome(status, S) \in Statuses
           /\ Outcome(status, S) = "active" <=>
                 status = "active" \/ \E e \in S : TypeOf[e] \in ActiveTypes
<1>1. \A e \in S : Status(e) \in Statuses /\ (Status(e) = "active" <=> TypeOf[e] \in ActiveTypes)
  BY ActiveStatus
<1>2. CASE status = "active" \/ \E e \in S : Status(e) = "active"
  BY <1>1, <1>2 DEF Outcome
<1>3. CASE ~(status = "active" \/ \E e \in S : Status(e) = "active")
  BY <1>1, <1>3, LatestIn DEF Outcome
<1> QED
  BY <1>2, <1>3

LessonStates == {"absent", "active", "superseded"}

LEMMA LessonStateStates ==
    ASSUME NEW state \in LessonStates, NEW S \in SUBSET Events, NEW c \in Candidates, NEW k \in Kinds
    PROVE  /\ LessonState(state, S, c, k) \in LessonStates
           /\ LessonState(state, S, c, k) = "superseded" =>
                 state = "superseded" \/ Concluding(S, c) # {}
  BY Zenon DEF LessonState, LessonStates

-----------------------------------------------------------------------------
(* Type correctness.                                                       *)

LEMMA NoneTyped ==
    /\ NoRow \in RowType /\ NoLesson \in LessonType
    /\ NoRows \in [Candidates -> RowType]
    /\ NoLessons \in [Candidates -> [Kinds -> LessonType]]
<1>1. NoRow \in RowType
  BY DEF NoRow, RowType, Statuses, EVENT_STATUS, EventTypes
<1>2. NoLesson \in LessonType
  BY DEF NoLesson, LessonType
<1> QED
  BY <1>1, <1>2 DEF NoRows, NoLessons

\* Rows that a transaction writes have their type.
LEMMA WritesTyped ==
    ASSUME TypeOK, NEW w \in Workers, NEW S \in SUBSET Events,
           NEW c \in Candidates, NEW k \in Kinds
    PROVE  /\ WrittenRow(c, tx[w].rows[c], Of(S, c)) \in RowType
           /\ WrittenLesson(c, k, tx[w].lessons[c][k], S) \in LessonType
<1> DEFINE row == tx[w].rows[c]
           lesson == tx[w].lessons[c][k]
<1>1. /\ row \in RowType /\ lesson \in LessonType
      /\ candidates[c] \in RowType /\ memory[c][k] \in LessonType /\ generation \in Nat
  BY DEF TypeOK
<1>2. /\ Of(S, c) \in SUBSET Events /\ Teaching(S, c, k) \in SUBSET Events
  BY DEF Of, Teaching
<1>3. /\ Cardinality(Of(S, c)) \in Nat /\ Cardinality(Teaching(S, c, k)) \in Nat
  BY <1>2, Finite
<1> HIDE DEF row, lesson
<1>4. WrittenRow(c, row, Of(S, c)) \in RowType
  <2>1. Outcome(row.status, Of(S, c)) \in Statuses
    BY <1>1, <1>2, OutcomeStatus DEF RowType
  <2> QED
    BY <1>1, <1>3, <2>1 DEF WrittenRow, RowType, Changed
<1>5. WrittenLesson(c, k, lesson, S) \in LessonType
  <2>1. LessonState(lesson.state, S, c, k) \in LessonStates
    BY <1>1, LessonStateStates DEF LessonType, LessonStates
  <2> QED
    BY <1>1, <1>3, <2>1 DEF WrittenLesson, LessonType, LessonStates, Changed
<1> QED
  BY <1>4, <1>5 DEF row, lesson

\* A transaction, and what its session has loaded.
TxType == [step : Steps, new : SUBSET Events, rows : [Candidates -> RowType],
           lessons : [Candidates -> [Kinds -> LessonType]]]

LEMMA SetTyped ==
    ASSUME tx \in [Workers -> TxType], NEW w \in Workers, NEW t \in TxType, Set(w, t)
    PROVE  tx' \in [Workers -> TxType]
  BY DEF Set

\* Whatever is loaded has its type.
LEMMA LoadsTyped ==
    ASSUME TypeOK, NEW C
    PROVE  /\ RowsOf(C) \in [Candidates -> RowType]
           /\ LessonsOf(C) \in [Candidates -> [Kinds -> LessonType]]
  BY NoneTyped DEF TypeOK, RowsOf, LessonsOf, NoLessons

LEMMA TypeInit == Init => TypeOK
<1> SUFFICES ASSUME Init PROVE TypeOK
  OBVIOUS
<1>1. Idle \in TxType
  BY NoneTyped DEF Idle, TxType, Steps
<1> QED
  BY <1>1, NoneTyped DEF Init, TypeOK, TxType

LEMMA WriteTyped ==
    ASSUME TypeOK, NEW w \in Workers, WriteProjections(w, tx[w].new)
    PROVE  /\ candidates' \in [Candidates -> RowType]
           /\ memory' \in [Candidates -> [Kinds -> LessonType]]
<1>1. tx[w].new \in SUBSET Events
  BY DEF TypeOK
<1>2. candidates' \in [Candidates -> RowType]
  <2>1. \A c \in Candidates : WrittenRow(c, tx[w].rows[c], Of(tx[w].new, c)) \in RowType
    <3>1. Kinds # {}
      BY DEF Kinds, Positive
    <3> QED
      BY <1>1, <3>1, WritesTyped
  <2>2. \A c \in Candidates : candidates[c] \in RowType
    BY DEF TypeOK
  <2> QED
    BY <2>1, <2>2 DEF WriteProjections
<1>3. memory' \in [Candidates -> [Kinds -> LessonType]]
  BY <1>1, WritesTyped DEF WriteProjections, TypeOK
<1> QED
  BY <1>2, <1>3

LEMMA TypeStep == TypeOK /\ [Next]_vars => TypeOK'
<1> SUFFICES ASSUME TypeOK, [Next]_vars PROVE TypeOK'
  OBVIOUS
<1> DEFINE TablesTyped == /\ events \subseteq Events
                          /\ candidates \in [Candidates -> RowType]
                          /\ memory \in [Candidates -> [Kinds -> LessonType]]
                          /\ generation \in Nat \ {0}
<1>a. TablesTyped /\ tx \in [Workers -> TxType]
  BY DEF TypeOK, TxType
<1>b. Idle \in TxType
  BY NoneTyped DEF Idle, TxType, Steps
<1>c. ASSUME TablesTyped', tx' \in [Workers -> TxType] PROVE TypeOK'
  BY <1>c DEF TypeOK, TxType
<1>d. ASSUME UNCHANGED tables PROVE TablesTyped'
  BY <1>a, <1>d DEF tables
<1> HIDE DEF TablesTyped
<1>1. ASSUME NEW w \in Workers, NEW e \in Events, AppendChecks(w, e) PROVE TypeOK'
  <2>1. [Idle EXCEPT !.step = "checked", !.new = {e}] \in TxType
    BY <1>b DEF TxType, Steps
  <2> QED
    BY <1>1, <2>1, <1>a, <1>c, <1>d, SetTyped DEF AppendChecks
<1>2. ASSUME NEW w \in Workers, AppendInserts(w) PROVE TypeOK'
  <2>1. [tx[w] EXCEPT !.step = "inserted", !.rows = RowsOf(Subjects(tx[w].new))] \in TxType
    BY <1>a, LoadsTyped DEF TxType, Steps
  <2> QED
    BY <1>2, <2>1, <1>a, <1>c, <1>d, SetTyped DEF AppendInserts
<1>3. ASSUME NEW w \in Workers, AppendLocks(w) PROVE TypeOK'
  <2>1. [tx[w] EXCEPT !.step = "locked", !.lessons = LessonsOf(Subjects(tx[w].new))] \in TxType
    BY <1>a, LoadsTyped DEF TxType, Steps
  <2> QED
    BY <1>3, <2>1, <1>a, <1>c, <1>d, SetTyped DEF AppendLocks
<1>4. ASSUME NEW w \in Workers, Write(w, tx[w].new), Set(w, Idle) PROVE TypeOK'
  <2>1. TablesTyped'
    BY <1>4, <1>a, WriteTyped DEF Write, TablesTyped, TxType
  <2> QED
    BY <1>4, <2>1, <1>a, <1>b, <1>c, SetTyped
<1>5. ASSUME NEW w \in Workers, Set(w, Idle), UNCHANGED tables PROVE TypeOK'
  BY <1>5, <1>a, <1>b, <1>c, <1>d, SetTyped
<1>6. ASSUME NEW w \in Workers, NEW S \in SUBSET Events, BatchReads(w, S) PROVE TypeOK'
  <2>1. [Idle EXCEPT !.step = "read", !.new = S \ events] \in TxType
    BY <1>b DEF TxType, Steps
  <2> QED
    BY <1>6, <2>1, <1>a, <1>c, <1>d, SetTyped DEF BatchReads
<1>7. ASSUME NEW w \in Workers, BatchLoads(w) PROVE TypeOK'
  <2> DEFINE C == Subjects(tx[w].new)
  <2>1. [tx[w] EXCEPT !.step = "loaded", !.rows = RowsOf(C), !.lessons = LessonsOf(C)] \in TxType
    BY <1>a, LoadsTyped DEF TxType, Steps
  <2> QED
    BY <1>7, <2>1, <1>a, <1>c, <1>d, SetTyped DEF BatchLoads
<1>8. ASSUME NEW w \in Workers, RebuildIdentifies(w) PROVE TypeOK'
  <2>1. [Idle EXCEPT !.step = "identified", !.rows = RowsOf(Candidates)] \in TxType
    BY <1>b, LoadsTyped DEF TxType, Steps
  <2> QED
    BY <1>8, <2>1, <1>a, <1>c, <1>d, SetTyped DEF RebuildIdentifies
<1>9. ASSUME NEW w \in Workers, RebuildReads(w) PROVE TypeOK'
  <2>1. PICK kept \in SUBSET events : Set(w, [Idle EXCEPT !.step = "replaying", !.new = kept])
    BY <1>9 DEF RebuildReads
  <2>2. [Idle EXCEPT !.step = "replaying", !.new = kept] \in TxType
    BY <1>b, <1>a DEF TxType, Steps, TablesTyped
  <2> QED
    BY <1>9, <2>1, <2>2, <1>a, <1>c, <1>d, SetTyped DEF RebuildReads
<1>10. ASSUME NEW w \in Workers, RebuildEmpties(w) PROVE TypeOK'
  <2>1. [tx[w] EXCEPT !.step = "emptied", !.lessons = memory] \in TxType
    BY <1>a DEF TxType, Steps, TablesTyped
  <2> QED
    BY <1>10, <2>1, <1>a, <1>c, <1>d, SetTyped DEF RebuildEmpties
<1>11. ASSUME NEW w \in Workers, RebuildCommits(w) PROVE TypeOK'
  <2> DEFINE S == tx[w].new
  <2>1. S \in SUBSET Events
    BY <1>a DEF TxType
  <2>2. \A c \in Candidates : candidates'[c] \in RowType
    <3> SUFFICES ASSUME NEW c \in Candidates PROVE candidates'[c] \in RowType
      OBVIOUS
    <3>1. Of(S, c) \in SUBSET Events
      BY <2>1 DEF Of
    <3>2. "candidate" \in Statuses
      BY DEF Statuses, EVENT_STATUS, EventTypes
    <3>3. Outcome("candidate", Of(S, c)) \in Statuses /\ Cardinality(Of(S, c)) \in Nat
      BY <3>1, <3>2, OutcomeStatus, Finite
    <3> QED
      BY <1>11, <3>3, <1>a, NoneTyped DEF RebuildCommits, RowType, TablesTyped
  <2>3. \A c \in Candidates, k \in Kinds : memory'[c][k] \in LessonType
    <3> SUFFICES ASSUME NEW c \in Candidates, NEW k \in Kinds PROVE memory'[c][k] \in LessonType
      OBVIOUS
    <3>1. Teaching(S, c, k) \in SUBSET Events
      BY <2>1 DEF Teaching, Of
    <3>2. LessonState("absent", S, c, k) \in LessonStates /\ Cardinality(Teaching(S, c, k)) \in Nat
      BY <3>1, <2>1, LessonStateStates, Finite DEF LessonStates
    <3> QED
      BY <1>11, <3>2, <1>a DEF RebuildCommits, LessonType, LessonStates, TablesTyped
  <2>4. TablesTyped'
    BY <1>11, <2>2, <2>3, <1>a DEF RebuildCommits, TablesTyped
  <2> QED
    BY <1>11, <2>4, <1>a, <1>b, <1>c, SetTyped DEF RebuildCommits
<1>12. CASE UNCHANGED vars
  BY <1>12, <1>a, <1>c, <1>d DEF vars
<1> QED
  BY <1>1, <1>2, <1>3, <1>4, <1>5, <1>6, <1>7, <1>8, <1>9, <1>10, <1>11, <1>12
  DEF Next, Append, AppendMany, Rebuild, Fail, AppendCommits, AppendRefuses, BatchCommits

\* The types of the repository's variables.
THEOREM TypeCorrect == Spec => []TypeOK
  BY TypeInit, TypeStep, PTL DEF Spec

-----------------------------------------------------------------------------
(* What rows say.                                                          *)

\* The events E account for a row of a candidate, and for one of its lessons.
RowKnown(row, E, c) ==
    /\ row.revision <= Cardinality(Of(E, c))
    /\ row.id # 0 => Of(E, c) # {}
    /\ row.status = "active" => Concluding(E, c) # {}

LessonKnown(lesson, E, c, k) ==
    /\ lesson.support <= Cardinality(Teaching(E, c, k))
    /\ lesson.state = "superseded" => Concluding(E, c) # {}

AllKnown(rows, lessons, E) ==
    \A c \in Candidates : RowKnown(rows[c], E, c) /\ \A k \in Kinds : LessonKnown(lessons[c][k], E, c, k)

\* The log accounts for the projections and for all that a session has loaded.
Known ==
    /\ AllKnown(candidates, memory, events)
    /\ \A w \in Workers : AllKnown(tx[w].rows, tx[w].lessons, events)

\* An event that is inserted and not committed is in no log and in no other transaction.
Inserting(w) == tx[w].step \in {"inserted", "locked"}
InsertedIsNew ==
    /\ \A w \in Workers : Inserting(w) => tx[w].new \cap events = {}
    /\ \A v, w \in Workers :
          v # w /\ Inserting(v) /\ Inserting(w) => tx[v].new \cap tx[w].new = {}

\* A rebuild replays what is in the log.
ReplayedIsKnown ==
    \A w \in Workers : tx[w].step \in {"replaying", "emptied"} => tx[w].new \subseteq events

KnownInv == TypeOK /\ Known /\ InsertedIsNew /\ ReplayedIsKnown

LEMMA NoneKnown == AllKnown(NoRows, NoLessons, {})
<1> SUFFICES ASSUME NEW c \in Candidates, NEW k \in Kinds
             PROVE  RowKnown(NoRow, {}, c) /\ LessonKnown(NoLesson, {}, c, k)
  <2>1. Kinds # {}
    BY DEF Kinds, Positive
  <2> QED
    BY <2>1 DEF AllKnown, NoRows, NoLessons
<1>1. Of({}, c) = {} /\ Teaching({}, c, k) = {}
  BY DEF Of, Teaching
<1> QED
  BY <1>1, FS_EmptySet DEF RowKnown, LessonKnown, NoRow, NoLesson

\* What is known stays known when the log grows.
LEMMA StillKnown ==
    ASSUME NEW S \in SUBSET Events, NEW T \in SUBSET Events, S \subseteq T,
           NEW rows \in [Candidates -> RowType],
           NEW lessons \in [Candidates -> [Kinds -> LessonType]],
           AllKnown(rows, lessons, S)
    PROVE  AllKnown(rows, lessons, T)
<1> SUFFICES ASSUME NEW c \in Candidates, NEW k \in Kinds
             PROVE  RowKnown(rows[c], T, c) /\ LessonKnown(lessons[c][k], T, c, k)
  <2>1. Kinds # {}
    BY DEF Kinds, Positive
  <2> QED
    BY <2>1 DEF AllKnown
<1>1. RowKnown(rows[c], S, c) /\ LessonKnown(lessons[c][k], S, c, k)
  BY DEF AllKnown
<1>2. rows[c].revision \in Nat /\ lessons[c][k].support \in Nat
  BY DEF RowType, LessonType
<1>3. \A X \in {S, T} : Cardinality(Of(X, c)) \in Nat /\ Cardinality(Teaching(X, c, k)) \in Nat
  <2> TAKE X \in {S, T}
  <2>1. Of(X, c) \in SUBSET Events /\ Teaching(X, c, k) \in SUBSET Events
    BY DEF Of, Teaching
  <2> QED
    BY <2>1, Finite
<1>4. /\ Of(S, c) \subseteq Of(T, c) /\ Concluding(S, c) \subseteq Concluding(T, c)
      /\ Cardinality(Of(S, c)) <= Cardinality(Of(T, c))
      /\ Cardinality(Teaching(S, c, k)) <= Cardinality(Teaching(T, c, k))
  BY MoreEvents
<1>5. /\ Cardinality(Of(S, c)) \in Nat /\ Cardinality(Of(T, c)) \in Nat
      /\ Cardinality(Teaching(S, c, k)) \in Nat /\ Cardinality(Teaching(T, c, k)) \in Nat
  BY <1>3
<1>6. RowKnown(rows[c], T, c)
  BY <1>1, <1>2, <1>4, <1>5 DEF RowKnown
<1>7. LessonKnown(lessons[c][k], T, c, k)
  BY <1>1, <1>2, <1>4, <1>5 DEF LessonKnown
<1> QED
  BY <1>6, <1>7

\* Nothing is known of what was not loaded, and what was is known.
LEMMA LoadsKnown ==
    ASSUME TypeOK, AllKnown(candidates, memory, events), NEW C
    PROVE  /\ AllKnown(RowsOf(C), NoLessons, events)
           /\ AllKnown(NoRows, LessonsOf(C), events)
<1>1. AllKnown(NoRows, NoLessons, events)
  BY NoneKnown, NoneTyped, StillKnown DEF TypeOK
<1> QED
  BY <1>1 DEF AllKnown, RowsOf, LessonsOf, NoRows, NoLessons

\* Rows and lessons that are known apart are known together.
LEMMA KnownTogether ==
    ASSUME NEW r, NEW l, NEW r2, NEW l2, NEW E, AllKnown(r, l, E), AllKnown(r2, l2, E)
    PROVE  AllKnown(r, l2, E)
  BY DEF AllKnown

\* What is written is known to the log that holds the new events.
LEMMA WritesKnown ==
    ASSUME TypeOK, Known, NEW w \in Workers, tx[w].new \cap events = {}, Write(w, tx[w].new)
    PROVE  AllKnown(candidates', memory', events')
<1> DEFINE S == tx[w].new
<1>0. S \in SUBSET Events /\ events \in SUBSET Events
  BY DEF TypeOK
<1>1. events' = events \cup S
  BY DEF Write
<1> SUFFICES ASSUME NEW c \in Candidates, NEW k \in Kinds
             PROVE  RowKnown(candidates'[c], events', c) /\ LessonKnown(memory'[c][k], events', c, k)
  <2>1. Kinds # {}
    BY DEF Kinds, Positive
  <2> QED
    BY <2>1 DEF AllKnown
<1> DEFINE row == tx[w].rows[c]
           lesson == tx[w].lessons[c][k]
<1>2. CASE c \notin Subjects(S)
  <2>1. candidates'[c] = candidates[c] /\ memory'[c][k] = memory[c][k]
    BY <1>2 DEF Write, WriteProjections
  <2>2. AllKnown(candidates, memory, events')
    BY <1>0, <1>1, StillKnown DEF Known, TypeOK
  <2> QED
    BY <2>1, <2>2 DEF AllKnown
<1>3. CASE c \in Subjects(S)
  <2>1. /\ candidates'[c] = WrittenRow(c, row, Of(S, c))
        /\ memory'[c][k] = WrittenLesson(c, k, lesson, S)
    BY <1>3 DEF Write, WriteProjections
  <2>2. /\ RowKnown(row, events, c) /\ LessonKnown(lesson, events, c, k)
        /\ RowKnown(candidates[c], events, c) /\ LessonKnown(memory[c][k], events, c, k)
    BY DEF Known, AllKnown
  <2>3. /\ row \in RowType /\ lesson \in LessonType
        /\ candidates[c] \in RowType /\ memory[c][k] \in LessonType
    BY DEF TypeOK
  <2>4. /\ Of(S, c) \in SUBSET Events /\ Teaching(S, c, k) \in SUBSET Events
        /\ Of(events, c) \in SUBSET Events /\ Teaching(events, c, k) \in SUBSET Events
    BY <1>0 DEF Of, Teaching
  <2>5. /\ Cardinality(Of(S, c)) \in Nat /\ Cardinality(Teaching(S, c, k)) \in Nat
        /\ Cardinality(Of(events, c)) \in Nat /\ Cardinality(Teaching(events, c, k)) \in Nat
    BY <2>4, Finite
  <2>6. /\ Cardinality(Of(events', c)) = Cardinality(Of(events, c)) + Cardinality(Of(S, c))
        /\ Cardinality(Teaching(events', c, k)) =
               Cardinality(Teaching(events, c, k)) + Cardinality(Teaching(S, c, k))
    BY <1>0, <1>1, CountsAdd
  <2>7. /\ Of(S, c) # {} /\ Of(S, c) \subseteq Of(events', c)
        /\ Concluding(events, c) \subseteq Concluding(events', c)
        /\ Concluding(S, c) \subseteq Concluding(events', c)
    BY <1>1, <1>3 DEF Subjects, Of, Concluding
  <2>8. /\ Outcome(row.status, Of(S, c)) = "active" => Concluding(events', c) # {}
        /\ LessonState(lesson.state, S, c, k) = "superseded" => Concluding(events', c) # {}
    <3>1. Outcome(row.status, Of(S, c)) = "active" =>
              row.status = "active" \/ \E e \in Of(S, c) : TypeOf[e] \in ActiveTypes
      BY <2>3, <2>4, OutcomeStatus DEF RowType
    <3>2. (\E e \in Of(S, c) : TypeOf[e] \in ActiveTypes) => Concluding(S, c) # {}
      BY DEF Concluding
    <3>3. lesson.state \in LessonStates
      BY <2>3 DEF LessonType, LessonStates
    <3>4. LessonState(lesson.state, S, c, k) = "superseded" =>
              lesson.state = "superseded" \/ Concluding(S, c) # {}
      BY <1>0, <3>3, LessonStateStates
    <3> QED
      BY <3>1, <3>2, <3>4, <2>2, <2>7 DEF RowKnown, LessonKnown
  <2> HIDE DEF row, lesson, S
  <2>9. RowKnown(candidates'[c], events', c)
    <3>1. candidates'[c].revision = row.revision + Cardinality(Of(S, c))
      BY <2>1 DEF WrittenRow
    <3>2. candidates'[c].status = "active" => Concluding(events', c) # {}
      BY <2>1, <2>2, <2>7, <2>8 DEF WrittenRow, Changed, RowKnown
    <3>3. row.revision \in Nat /\ row.revision <= Cardinality(Of(events, c))
      BY <2>2, <2>3 DEF RowType, RowKnown
    <3>4. candidates'[c].revision <= Cardinality(Of(events', c))
      BY <3>1, <3>3, <2>5, <2>6
    <3> QED
      BY <3>2, <3>4, <2>7 DEF RowKnown
  <2>10. LessonKnown(memory'[c][k], events', c, k)
    <3>1. memory'[c][k].state = "superseded" => Concluding(events', c) # {}
      BY <2>1, <2>2, <2>7, <2>8 DEF WrittenLesson, Changed, LessonKnown
    <3>2. /\ lesson.support \in Nat /\ lesson.support <= Cardinality(Teaching(events, c, k))
          /\ memory[c][k].support \in Nat /\ memory[c][k].support <= Cardinality(Teaching(events, c, k))
      BY <2>2, <2>3 DEF LessonType, LessonKnown
    <3>3. memory'[c][k].support \in
             {memory[c][k].support, lesson.support + Cardinality(Teaching(S, c, k))}
      BY <2>1 DEF WrittenLesson
    <3>4. memory'[c][k].support <= Cardinality(Teaching(events', c, k))
      BY <3>2, <3>3, <2>5, <2>6
    <3> QED
      BY <3>1, <3>4 DEF LessonKnown
  <2> QED
    BY <2>9, <2>10
<1> QED
  BY <1>2, <1>3

\* So is what a rebuild writes.
LEMMA RebuildKnown ==
    ASSUME TypeOK, Known, NEW w \in Workers, tx[w].new \subseteq events, RebuildCommits(w)
    PROVE  AllKnown(candidates', memory', events)
<1> DEFINE S == tx[w].new
<1>0. S \in SUBSET Events /\ events \in SUBSET Events /\ generation \in Nat
  BY DEF TypeOK
<1> SUFFICES ASSUME NEW c \in Candidates, NEW k \in Kinds
             PROVE  RowKnown(candidates'[c], events, c) /\ LessonKnown(memory'[c][k], events, c, k)
  <2>1. Kinds # {}
    BY DEF Kinds, Positive
  <2> QED
    BY <2>1 DEF AllKnown
<1>1. /\ Of(S, c) \subseteq Of(events, c) /\ Concluding(S, c) \subseteq Concluding(events, c)
      /\ Cardinality(Of(S, c)) <= Cardinality(Of(events, c))
      /\ Cardinality(Teaching(S, c, k)) <= Cardinality(Teaching(events, c, k))
  BY <1>0, MoreEvents
<1>2. RowKnown(NoRow, events, c)
  BY NoneKnown, NoneTyped, StillKnown, <1>0 DEF AllKnown, NoRows
<1>3. RowKnown(candidates'[c], events, c)
  <2>1. CASE Of(S, c) = {}
    BY <2>1, <1>2 DEF RebuildCommits
  <2>2. CASE Of(S, c) # {}
    <3>1. candidates'[c] = [id |-> generation + 1, status |-> Outcome("candidate", Of(S, c)),
                            revision |-> Cardinality(Of(S, c))]
      BY <2>2 DEF RebuildCommits
    <3>2. "candidate" \in Statuses /\ Of(S, c) \in SUBSET Events
      BY <1>0 DEF Statuses, EVENT_STATUS, EventTypes, Of
    <3>3. Outcome("candidate", Of(S, c)) = "active" => Concluding(events, c) # {}
      BY <3>2, <1>1, OutcomeStatus DEF Concluding
    <3> QED
      BY <3>1, <3>3, <2>2, <1>1 DEF RowKnown
  <2> QED
    BY <2>1, <2>2
<1>4. LessonKnown(memory'[c][k], events, c, k)
  <2>1. CASE memory'[c][k] = memory[c][k]
    BY <2>1 DEF Known, AllKnown
  <2>2. CASE memory'[c][k] = [support |-> Cardinality(Teaching(S, c, k)),
                              state |-> LessonState("absent", S, c, k)]
    <3>1. LessonState("absent", S, c, k) = "superseded" => Concluding(S, c) # {}
      BY <1>0, LessonStateStates DEF LessonStates
    <3> QED
      BY <2>2, <3>1, <1>1 DEF LessonKnown
  <2> QED
    BY <2>1, <2>2 DEF RebuildCommits
<1> QED
  BY <1>3, <1>4

LEMMA SetSets ==
    ASSUME TypeOK, NEW w \in Workers, NEW t, Set(w, t)
    PROVE  tx'[w] = t /\ \A v \in Workers : v # w => tx'[v] = tx[v]
  BY DEF TypeOK, Set

\* A step that leaves the tables alone sets a transaction, which is not inserting, or
\* inserts what no other has, or goes on inserting it.
LEMMA QuietStep ==
    ASSUME KnownInv, UNCHANGED tables, NEW w \in Workers, NEW t, Set(w, t),
           AllKnown(t.rows, t.lessons, events),
           t.step \in {"inserted", "locked"} =>
               /\ t.new \cap events = {}
               /\ \A v \in Workers : v # w /\ Inserting(v) => tx[v].new \cap t.new = {},
           t.step \in {"replaying", "emptied"} => t.new \subseteq events
    PROVE  (Known /\ InsertedIsNew /\ ReplayedIsKnown)'
<1>1. events' = events /\ candidates' = candidates /\ memory' = memory
  BY DEF tables
<1>2. tx'[w] = t /\ \A v \in Workers : v # w => tx'[v] = tx[v]
  BY SetSets DEF KnownInv
<1>3. Known'
  BY <1>1, <1>2 DEF KnownInv, Known, AllKnown
<1>4. InsertedIsNew'
  BY <1>1, <1>2 DEF KnownInv, InsertedIsNew, Inserting
<1>5. ReplayedIsKnown'
  BY <1>1, <1>2 DEF KnownInv, ReplayedIsKnown
<1> QED
  BY <1>3, <1>4, <1>5

\* A transaction commits events that are in no log and in no other transaction.
LEMMA CommitStep ==
    ASSUME KnownInv, TypeOK', NEW w \in Workers, Write(w, tx[w].new), Set(w, Idle),
           tx[w].new \cap events = {},
           \A v \in Workers : v # w /\ Inserting(v) => tx[v].new \cap tx[w].new = {}
    PROVE  (Known /\ InsertedIsNew /\ ReplayedIsKnown)'
<1>1. events' = events \cup tx[w].new /\ events \in SUBSET Events /\ events' \in SUBSET Events
  BY DEF Write, KnownInv, TypeOK
<1>2. tx'[w] = Idle /\ \A v \in Workers : v # w => tx'[v] = tx[v]
  BY SetSets DEF KnownInv
<1>3. Known'
  <2>1. AllKnown(candidates', memory', events')
    BY WritesKnown DEF KnownInv
  <2>2. AllKnown(NoRows, NoLessons, events')
    BY <1>1, NoneKnown, NoneTyped, StillKnown
  <2>3. ASSUME NEW v \in Workers PROVE AllKnown(tx[v].rows, tx[v].lessons, events')
    <3>1. /\ tx[v].rows \in [Candidates -> RowType]
          /\ tx[v].lessons \in [Candidates -> [Kinds -> LessonType]]
          /\ AllKnown(tx[v].rows, tx[v].lessons, events)
      BY DEF KnownInv, TypeOK, Known
    <3> QED
      BY <3>1, <1>1, StillKnown
  <2> QED
    BY <1>2, <2>1, <2>2, <2>3 DEF Known, Idle
<1>4. InsertedIsNew'
  BY <1>1, <1>2 DEF KnownInv, InsertedIsNew, Inserting, Idle
<1>5. ReplayedIsKnown'
  BY <1>1, <1>2 DEF KnownInv, ReplayedIsKnown, Idle
<1> QED
  BY <1>3, <1>4, <1>5

LEMMA KnownInit == Init => KnownInv
<1> SUFFICES ASSUME Init PROVE KnownInv
  OBVIOUS
<1>1. TypeOK
  BY TypeInit
<1>2. Known
  BY NoneKnown DEF Init, Known, Idle
<1>3. InsertedIsNew /\ ReplayedIsKnown
  BY DEF Init, InsertedIsNew, ReplayedIsKnown, Inserting, Idle
<1> QED
  BY <1>1, <1>2, <1>3 DEF KnownInv

LEMMA KnownStep == KnownInv /\ [Next]_vars => KnownInv'
<1> SUFFICES ASSUME KnownInv, [Next]_vars PROVE KnownInv'
  OBVIOUS
<1>a. TypeOK /\ TypeOK'
  BY TypeStep DEF KnownInv
<1>b. SUFFICES (Known /\ InsertedIsNew /\ ReplayedIsKnown)'
  BY <1>a DEF KnownInv
<1>c. /\ AllKnown(candidates, memory, events) /\ AllKnown(NoRows, NoLessons, events)
      /\ \A w \in Workers : AllKnown(tx[w].rows, tx[w].lessons, events)
  BY <1>a, NoneKnown, NoneTyped, StillKnown DEF KnownInv, Known, TypeOK
<1>d. \A C : AllKnown(RowsOf(C), NoLessons, events) /\ AllKnown(NoRows, LessonsOf(C), events)
  BY <1>a, <1>c, LoadsKnown
<1>e. \A w \in Workers : tx[w] \in TxType
  BY <1>a DEF TypeOK, TxType
<1>1. ASSUME NEW w \in Workers, NEW e \in Events, AppendChecks(w, e)
      PROVE  (Known /\ InsertedIsNew /\ ReplayedIsKnown)'
  <2> DEFINE t == [Idle EXCEPT !.step = "checked", !.new = {e}]
  <2>1. t.step = "checked" /\ t.rows = NoRows /\ t.lessons = NoLessons
    BY DEF Idle
  <2>2. Set(w, t) /\ UNCHANGED tables
    BY <1>1 DEF AppendChecks
  <2> HIDE DEF t
  <2> QED
    BY <2>1, <2>2, <1>c, QuietStep
<1>2. ASSUME NEW w \in Workers, AppendInserts(w)
      PROVE  (Known /\ InsertedIsNew /\ ReplayedIsKnown)'
  <2> DEFINE t == [tx[w] EXCEPT !.step = "inserted", !.rows = RowsOf(Subjects(tx[w].new))]
  <2>1. /\ t.step = "inserted" /\ t.new = tx[w].new /\ t.rows = RowsOf(Subjects(tx[w].new))
        /\ t.lessons = tx[w].lessons
    BY <1>e DEF TxType
  <2>2. Set(w, t) /\ UNCHANGED tables
    BY <1>2 DEF AppendInserts
  <2>3. /\ t.new \cap events = {}
        /\ \A v \in Workers : v # w /\ Inserting(v) => tx[v].new \cap t.new = {}
    BY <1>2, <2>1 DEF AppendInserts, InsertedByOther, Others, Inserting
  <2>4. AllKnown(t.rows, t.lessons, events)
    BY <2>1, <1>c, <1>d, KnownTogether
  <2> HIDE DEF t
  <2> QED
    BY <2>1, <2>2, <2>3, <2>4, QuietStep
<1>3. ASSUME NEW w \in Workers, AppendLocks(w)
      PROVE  (Known /\ InsertedIsNew /\ ReplayedIsKnown)'
  <2> DEFINE t == [tx[w] EXCEPT !.step = "locked", !.lessons = LessonsOf(Subjects(tx[w].new))]
  <2>1. /\ t.step = "locked" /\ t.new = tx[w].new /\ t.rows = tx[w].rows
        /\ t.lessons = LessonsOf(Subjects(tx[w].new))
    BY <1>e DEF TxType
  <2>2. Set(w, t) /\ UNCHANGED tables
    BY <1>3 DEF AppendLocks
  <2>3. /\ t.new \cap events = {}
        /\ \A v \in Workers : v # w /\ Inserting(v) => tx[v].new \cap t.new = {}
    BY <1>3, <2>1 DEF AppendLocks, At, Inserting, KnownInv, InsertedIsNew
  <2>4. AllKnown(t.rows, t.lessons, events)
    BY <2>1, <1>c, <1>d, KnownTogether
  <2> HIDE DEF t
  <2> QED
    BY <2>1, <2>2, <2>3, <2>4, QuietStep
<1>4. ASSUME NEW w \in Workers, AppendCommits(w)
      PROVE  (Known /\ InsertedIsNew /\ ReplayedIsKnown)'
  <2>1. /\ tx[w].new \cap events = {}
        /\ \A v \in Workers : v # w /\ Inserting(v) => tx[v].new \cap tx[w].new = {}
    BY <1>4 DEF AppendCommits, At, Inserting, KnownInv, InsertedIsNew
  <2>2. Write(w, tx[w].new) /\ Set(w, Idle)
    BY <1>4 DEF AppendCommits
  <2> QED
    BY <2>1, <2>2, <1>a, CommitStep
<1>5. ASSUME NEW w \in Workers, Set(w, Idle), UNCHANGED tables
      PROVE  (Known /\ InsertedIsNew /\ ReplayedIsKnown)'
  <2>1. Idle.step = "idle" /\ Idle.rows = NoRows /\ Idle.lessons = NoLessons
    BY DEF Idle
  <2> QED
    BY <2>1, <1>5, <1>c, QuietStep
<1>6. ASSUME NEW w \in Workers, NEW S \in SUBSET Events, BatchReads(w, S)
      PROVE  (Known /\ InsertedIsNew /\ ReplayedIsKnown)'
  <2> DEFINE t == [Idle EXCEPT !.step = "read", !.new = S \ events]
  <2>1. t.step = "read" /\ t.rows = NoRows /\ t.lessons = NoLessons
    BY DEF Idle
  <2>2. Set(w, t) /\ UNCHANGED tables
    BY <1>6 DEF BatchReads
  <2> HIDE DEF t
  <2> QED
    BY <2>1, <2>2, <1>c, QuietStep
<1>7. ASSUME NEW w \in Workers, BatchLoads(w)
      PROVE  (Known /\ InsertedIsNew /\ ReplayedIsKnown)'
  <2> DEFINE C == Subjects(tx[w].new)
             t == [tx[w] EXCEPT !.step = "loaded", !.rows = RowsOf(C), !.lessons = LessonsOf(C)]
  <2>1. t.step = "loaded" /\ t.rows = RowsOf(C) /\ t.lessons = LessonsOf(C)
    BY <1>e DEF TxType
  <2>2. Set(w, t) /\ UNCHANGED tables
    BY <1>7 DEF BatchLoads
  <2>3. AllKnown(t.rows, t.lessons, events)
    BY <2>1, <1>d, KnownTogether
  <2> HIDE DEF t
  <2> QED
    BY <2>1, <2>2, <2>3, QuietStep
<1>8. ASSUME NEW w \in Workers, BatchCommits(w)
      PROVE  (Known /\ InsertedIsNew /\ ReplayedIsKnown)'
  <2>1. /\ tx[w].new \cap events = {}
        /\ \A v \in Workers : v # w /\ Inserting(v) => tx[v].new \cap tx[w].new = {}
    BY <1>8 DEF BatchCommits, InsertedByOther, Others, Inserting
  <2>2. Write(w, tx[w].new) /\ Set(w, Idle)
    BY <1>8 DEF BatchCommits
  <2> QED
    BY <2>1, <2>2, <1>a, CommitStep
<1>9. ASSUME NEW w \in Workers, RebuildIdentifies(w)
      PROVE  (Known /\ InsertedIsNew /\ ReplayedIsKnown)'
  <2> DEFINE t == [Idle EXCEPT !.step = "identified", !.rows = RowsOf(Candidates)]
  <2>1. t.step = "identified" /\ t.rows = RowsOf(Candidates) /\ t.lessons = NoLessons
    BY DEF Idle
  <2>2. Set(w, t) /\ UNCHANGED tables
    BY <1>9 DEF RebuildIdentifies
  <2>3. AllKnown(t.rows, t.lessons, events)
    BY <2>1, <1>d
  <2> HIDE DEF t
  <2> QED
    BY <2>1, <2>2, <2>3, QuietStep
<1>10. ASSUME NEW w \in Workers, RebuildReads(w)
       PROVE  (Known /\ InsertedIsNew /\ ReplayedIsKnown)'
  <2>1. PICK kept \in SUBSET events : Set(w, [Idle EXCEPT !.step = "replaying", !.new = kept])
    BY <1>10 DEF RebuildReads
  <2> DEFINE t == [Idle EXCEPT !.step = "replaying", !.new = kept]
  <2>2. t.step = "replaying" /\ t.new = kept /\ t.rows = NoRows /\ t.lessons = NoLessons
    BY DEF Idle
  <2>3. Set(w, t) /\ UNCHANGED tables
    BY <1>10, <2>1 DEF RebuildReads
  <2> HIDE DEF t
  <2> QED
    BY <2>2, <2>3, <1>c, QuietStep
<1>11. ASSUME NEW w \in Workers, RebuildEmpties(w)
       PROVE  (Known /\ InsertedIsNew /\ ReplayedIsKnown)'
  <2> DEFINE t == [tx[w] EXCEPT !.step = "emptied", !.lessons = memory]
  <2>1. t.step = "emptied" /\ t.new = tx[w].new /\ t.rows = tx[w].rows /\ t.lessons = memory
    BY <1>e DEF TxType
  <2>2. Set(w, t) /\ UNCHANGED tables /\ tx[w].new \subseteq events
    BY <1>11 DEF RebuildEmpties, At, KnownInv, ReplayedIsKnown
  <2>3. AllKnown(t.rows, t.lessons, events)
    BY <2>1, <1>c, KnownTogether
  <2> HIDE DEF t
  <2> QED
    BY <2>1, <2>2, <2>3, QuietStep
<1>12. ASSUME NEW w \in Workers, RebuildCommits(w)
       PROVE  (Known /\ InsertedIsNew /\ ReplayedIsKnown)'
  <2>1. tx[w].new \subseteq events
    BY <1>12 DEF RebuildCommits, At, KnownInv, ReplayedIsKnown
  <2>2. AllKnown(candidates', memory', events)
    BY <2>1, <1>12, <1>a, RebuildKnown DEF KnownInv
  <2>3. events' = events /\ tx'[w] = Idle /\ \A v \in Workers : v # w => tx'[v] = tx[v]
    BY <1>12, <1>a, SetSets DEF RebuildCommits
  <2>4. Known'
    BY <2>2, <2>3, <1>c DEF Known, Idle
  <2>5. InsertedIsNew' /\ ReplayedIsKnown'
    BY <2>3 DEF KnownInv, InsertedIsNew, ReplayedIsKnown, Inserting, Idle
  <2> QED
    BY <2>4, <2>5
<1>13. CASE UNCHANGED vars
  BY <1>13 DEF vars, tables, KnownInv, Known, AllKnown, InsertedIsNew, ReplayedIsKnown, Inserting
<1> QED
  BY <1>1, <1>2, <1>3, <1>4, <1>5, <1>6, <1>7, <1>8, <1>9, <1>10, <1>11, <1>12, <1>13
  DEF Next, Append, AppendMany, Rebuild, Fail, AppendRefuses

LEMMA KnownAlways == Spec => []KnownInv
  BY KnownInit, KnownStep, PTL DEF Spec

\* However transactions of append, append_many and rebuild_projections overlap and fail, no
\* event is counted twice.
THEOREM Counted == Spec => []CountedOnce
<1>1. KnownInv => CountedOnce
  BY DEF KnownInv, Known, AllKnown, RowKnown, LessonKnown, CountedOnce
<1> QED
  BY <1>1, KnownAlways, PTL

\* The projections claim nothing that no committed event says.
THEOREM Grounds == Spec => []Grounded
<1>1. KnownInv => Grounded
  <2> SUFFICES ASSUME KnownInv, NEW c \in Candidates, NEW k \in Kinds
               PROVE  /\ candidates[c].id # 0 => Of(events, c) # {}
                      /\ candidates[c].status = "active" => Concluding(events, c) # {}
                      /\ memory[c][k].support > 0 => Teaching(events, c, k) # {}
                      /\ memory[c][k].state = "superseded" => Concluding(events, c) # {}
    <3>1. Kinds # {}
      BY DEF Kinds, Positive
    <3> QED
      BY <3>1 DEF Grounded
  <2>1. RowKnown(candidates[c], events, c) /\ LessonKnown(memory[c][k], events, c, k)
    BY DEF KnownInv, Known, AllKnown
  <2>2. memory[c][k].support \in Nat
    BY DEF KnownInv, TypeOK, LessonType
  <2>3. Cardinality({}) = 0
    BY FS_EmptySet
  <2> QED
    BY <2>1, <2>2, <2>3 DEF RowKnown, LessonKnown
<1> QED
  BY <1>1, KnownAlways, PTL

-----------------------------------------------------------------------------
(* What the lock on the candidate's row is good for.                       *)

\* append writes one event.
AppendsOne ==
    \A w \in Workers : tx[w].step \in {"checked", "inserted", "locked"} => \E e \in Events : tx[w].new = {e}

\* No two transactions have the row of one candidate.
LocksDisjoint ==
    \A v, w \in Workers :
        v # w /\ At(v, "locked") /\ At(w, "locked") => Subjects(tx[v].new) \cap Subjects(tx[w].new) = {}

\* Who has it has loaded the candidate's lessons as they are.
LockedIsCurrent ==
    \A w \in Workers : At(w, "locked") =>
        \A c \in Subjects(tx[w].new) : tx[w].lessons[c] = memory[c]

LockInv == TypeOK /\ AppendsOne /\ LocksDisjoint /\ LockedIsCurrent

\* A transaction that is set without the tables keeps this, if it is not locked.
LEMMA UnlockedStep ==
    ASSUME LockInv, UNCHANGED memory, NEW w \in Workers, NEW t, Set(w, t), t.step # "locked",
           t.step \in {"checked", "inserted"} => \E e \in Events : t.new = {e}
    PROVE  (AppendsOne /\ LocksDisjoint /\ LockedIsCurrent)'
<1>1. tx'[w] = t /\ \A v \in Workers : v # w => tx'[v] = tx[v]
  BY SetSets DEF LockInv
<1> QED
  BY <1>1 DEF LockInv, AppendsOne, LocksDisjoint, LockedIsCurrent, At

\* Lessons are written of candidates that no other transaction has locked.
LEMMA UnlockedWrite ==
    ASSUME LockInv, NEW w \in Workers, Set(w, Idle),
           \A v \in Workers, c \in Candidates :
               v # w /\ At(v, "locked") /\ c \in Subjects(tx[v].new) => memory'[c] = memory[c]
    PROVE  (AppendsOne /\ LocksDisjoint /\ LockedIsCurrent)'
<1>1. tx'[w] = Idle /\ \A v \in Workers : v # w => tx'[v] = tx[v]
  BY SetSets DEF LockInv
<1>2. AppendsOne' /\ LocksDisjoint'
  BY <1>1 DEF LockInv, AppendsOne, LocksDisjoint, At, Idle
<1>3. LockedIsCurrent'
  <2> SUFFICES ASSUME NEW v \in Workers, At(v, "locked")', NEW c \in Subjects(tx'[v].new)
               PROVE  tx'[v].lessons[c] = memory'[c]
    BY DEF LockedIsCurrent
  <2>1. v # w /\ tx'[v] = tx[v] /\ At(v, "locked")
    BY <1>1 DEF At, Idle
  <2>2. c \in Candidates
    BY <2>1, CandidatesAssumption DEF Subjects, LockInv, TypeOK
  <2> QED
    BY <2>1, <2>2 DEF LockInv, LockedIsCurrent
<1> QED
  BY <1>2, <1>3

LEMMA WriteLeavesOthers ==
    ASSUME NEW w \in Workers, Write(w, tx[w].new), TypeOK,
           NEW c \in Candidates, c \notin Subjects(tx[w].new)
    PROVE  memory'[c] = memory[c]
<1>1. memory[c] = [k \in Kinds |-> memory[c][k]]
  BY DEF TypeOK
<1> QED
  BY <1>1 DEF Write, WriteProjections

LEMMA LockInit == Init => LockInv
  BY TypeInit DEF Init, LockInv, AppendsOne, LocksDisjoint, LockedIsCurrent, At, Idle

LEMMA LockStep == LockInv /\ [Next]_vars => LockInv'
<1> SUFFICES ASSUME LockInv, [Next]_vars PROVE LockInv'
  OBVIOUS
<1>a. TypeOK /\ TypeOK'
  BY TypeStep DEF LockInv
<1>b. SUFFICES (AppendsOne /\ LocksDisjoint /\ LockedIsCurrent)'
  BY <1>a DEF LockInv
<1>e. \A w \in Workers : tx[w] \in TxType
  BY <1>a DEF TypeOK, TxType
<1>1. ASSUME NEW w \in Workers, NEW e \in Events, AppendChecks(w, e)
      PROVE  (AppendsOne /\ LocksDisjoint /\ LockedIsCurrent)'
  <2> DEFINE t == [Idle EXCEPT !.step = "checked", !.new = {e}]
  <2>1. t.step = "checked" /\ t.new = {e} /\ Set(w, t) /\ UNCHANGED memory
    BY <1>1 DEF Idle, AppendChecks, tables
  <2> HIDE DEF t
  <2> QED
    BY <2>1, UnlockedStep
<1>2. ASSUME NEW w \in Workers, AppendInserts(w)
      PROVE  (AppendsOne /\ LocksDisjoint /\ LockedIsCurrent)'
  <2> DEFINE t == [tx[w] EXCEPT !.step = "inserted", !.rows = RowsOf(Subjects(tx[w].new))]
  <2>1. t.step = "inserted" /\ t.new = tx[w].new
    BY <1>e DEF TxType
  <2>2. Set(w, t) /\ UNCHANGED memory /\ \E e \in Events : tx[w].new = {e}
    BY <1>2 DEF AppendInserts, tables, At, LockInv, AppendsOne
  <2> HIDE DEF t
  <2> QED
    BY <2>1, <2>2, UnlockedStep
<1>3. ASSUME NEW w \in Workers, AppendLocks(w)
      PROVE  (AppendsOne /\ LocksDisjoint /\ LockedIsCurrent)'
  <2> DEFINE t == [tx[w] EXCEPT !.step = "locked", !.lessons = LessonsOf(Subjects(tx[w].new))]
  <2>1. /\ t.step = "locked" /\ t.new = tx[w].new
        /\ t.lessons = LessonsOf(Subjects(tx[w].new))
    BY <1>e DEF TxType
  <2>2. Set(w, t) /\ memory' = memory
    BY <1>3 DEF AppendLocks, tables
  <2>3. tx'[w] = t /\ \A v \in Workers : v # w => tx'[v] = tx[v]
    BY <2>2, <1>a, SetSets
  <2>4. \A v \in Workers : v # w /\ At(v, "locked") =>
            Subjects(tx[v].new) \cap Subjects(tx[w].new) = {}
    BY <1>3 DEF AppendLocks, LockedByOther, Others
  <2> HIDE DEF t
  <2>5. AppendsOne'
    <3>1. tx[w].step = "inserted"
      BY <1>3 DEF AppendLocks, At
    <3> QED
      BY <3>1, <2>1, <2>3 DEF LockInv, AppendsOne
  <2>6. LocksDisjoint'
    BY <2>1, <2>3, <2>4 DEF LockInv, LocksDisjoint, At
  <2>7. LockedIsCurrent'
    <3>1. \A c \in Subjects(tx[w].new) : LessonsOf(Subjects(tx[w].new))[c] = memory[c]
      BY <1>e, CandidatesAssumption DEF LessonsOf, Subjects, TxType
    <3> QED
      BY <3>1, <2>1, <2>2, <2>3 DEF LockInv, LockedIsCurrent, At
  <2> QED
    BY <2>5, <2>6, <2>7
<1>4. ASSUME NEW w \in Workers, AppendCommits(w)
      PROVE  (AppendsOne /\ LocksDisjoint /\ LockedIsCurrent)'
  <2>1. Write(w, tx[w].new) /\ Set(w, Idle) /\ At(w, "locked")
    BY <1>4 DEF AppendCommits
  <2>2. \A v \in Workers, c \in Candidates :
          v # w /\ At(v, "locked") /\ c \in Subjects(tx[v].new) => memory'[c] = memory[c]
    BY <2>1, <1>a, WriteLeavesOthers DEF LockInv, LocksDisjoint
  <2> QED
    BY <2>1, <2>2, UnlockedWrite
<1>5. ASSUME NEW w \in Workers, NEW t, Set(w, t), UNCHANGED memory,
             t.step \notin {"checked", "inserted", "locked"}
      PROVE  (AppendsOne /\ LocksDisjoint /\ LockedIsCurrent)'
  BY <1>5, UnlockedStep
<1>6. ASSUME NEW w \in Workers, BatchCommits(w)
      PROVE  (AppendsOne /\ LocksDisjoint /\ LockedIsCurrent)'
  <2>1. Write(w, tx[w].new) /\ Set(w, Idle)
    BY <1>6 DEF BatchCommits
  <2>2. \A v \in Workers, c \in Candidates :
          v # w /\ At(v, "locked") /\ c \in Subjects(tx[v].new) => memory'[c] = memory[c]
    BY <2>1, <1>6, <1>a, WriteLeavesOthers DEF BatchCommits, LockedByOther, Others
  <2> QED
    BY <2>1, <2>2, UnlockedWrite
<1>7. ASSUME NEW w \in Workers, RebuildCommits(w)
      PROVE  (AppendsOne /\ LocksDisjoint /\ LockedIsCurrent)'
  BY <1>7, UnlockedWrite DEF RebuildCommits, Others
<1>8. ASSUME NEW w \in Workers, NEW S \in SUBSET Events, BatchReads(w, S)
      PROVE  (AppendsOne /\ LocksDisjoint /\ LockedIsCurrent)'
  <2>1. [Idle EXCEPT !.step = "read", !.new = S \ events].step = "read"
    BY DEF Idle
  <2> QED
    BY <1>5, <1>8, <2>1 DEF BatchReads, tables
<1>9. ASSUME NEW w \in Workers, BatchLoads(w)
      PROVE  (AppendsOne /\ LocksDisjoint /\ LockedIsCurrent)'
  <2> DEFINE C == Subjects(tx[w].new)
             t == [tx[w] EXCEPT !.step = "loaded", !.rows = RowsOf(C), !.lessons = LessonsOf(C)]
  <2>1. t.step = "loaded" /\ Set(w, t) /\ UNCHANGED memory
    BY <1>9, <1>e DEF TxType, BatchLoads, tables
  <2> HIDE DEF t
  <2> QED
    BY <1>5, <2>1
<1>10. ASSUME NEW w \in Workers, RebuildIdentifies(w) \/ RebuildReads(w) \/ RebuildEmpties(w)
       PROVE  (AppendsOne /\ LocksDisjoint /\ LockedIsCurrent)'
  <2>1. UNCHANGED memory
    BY <1>10 DEF RebuildIdentifies, RebuildReads, RebuildEmpties, tables
  <2>2. CASE RebuildIdentifies(w)
    <3> DEFINE t == [Idle EXCEPT !.step = "identified", !.rows = RowsOf(Candidates)]
    <3>1. t.step = "identified" /\ Set(w, t)
      BY <2>2 DEF RebuildIdentifies, Idle
    <3> HIDE DEF t
    <3> QED
      BY <3>1, <2>1, <1>5
  <2>3. CASE RebuildReads(w)
    <3>1. PICK kept : Set(w, [Idle EXCEPT !.step = "replaying", !.new = kept])
      BY <2>3 DEF RebuildReads
    <3> DEFINE t == [Idle EXCEPT !.step = "replaying", !.new = kept]
    <3>2. t.step = "replaying" /\ Set(w, t)
      BY <3>1 DEF Idle
    <3> HIDE DEF t
    <3> QED
      BY <3>2, <2>1, <1>5
  <2>4. CASE RebuildEmpties(w)
    <3> DEFINE t == [tx[w] EXCEPT !.step = "emptied", !.lessons = memory]
    <3>1. t.step = "emptied" /\ Set(w, t)
      BY <2>4, <1>e DEF RebuildEmpties, TxType
    <3> HIDE DEF t
    <3> QED
      BY <3>1, <2>1, <1>5
  <2> QED
    BY <1>10, <2>2, <2>3, <2>4
<1>11. ASSUME NEW w \in Workers, Fail(w) \/ AppendRefuses(w)
       PROVE  (AppendsOne /\ LocksDisjoint /\ LockedIsCurrent)'
  BY <1>5, <1>11 DEF Fail, AppendRefuses, tables, Idle
<1>12. CASE UNCHANGED vars
  BY <1>12 DEF vars, tables, LockInv, AppendsOne, LocksDisjoint, LockedIsCurrent, At
<1> QED
  BY <1>1, <1>2, <1>3, <1>4, <1>6, <1>7, <1>8, <1>9, <1>10, <1>11, <1>12
  DEF Next, Append, AppendMany, Rebuild

LEMMA LockAlways == Spec => []LockInv
  BY LockInit, LockStep, PTL DEF Spec

\* What an append writes of a lesson, given that it has loaded it as it is.
LEMMA AppendedLesson ==
    ASSUME LockInv, NEW w \in Workers, AppendCommits(w),
           NEW c \in Candidates, NEW k \in Kinds
    PROVE  \/ /\ c \notin Subjects(tx[w].new) /\ memory'[c] = memory[c]
              /\ Of(tx[w].new, c) = {}
           \/ memory'[c][k] = WrittenLesson(c, k, memory[c][k], tx[w].new)
<1>1. Write(w, tx[w].new) /\ At(w, "locked")
  BY DEF AppendCommits
<1>2. CASE c \notin Subjects(tx[w].new)
  BY <1>1, <1>2, WriteLeavesOthers DEF LockInv, Subjects, Of
<1>3. CASE c \in Subjects(tx[w].new)
  <2>1. tx[w].lessons[c] = memory[c]
    BY <1>1, <1>3 DEF LockInv, LockedIsCurrent
  <2>2. memory'[c][k] = WrittenLesson(c, k, tx[w].lessons[c][k], tx[w].new)
    BY <1>1, <1>3 DEF Write, WriteProjections
  <2> QED
    BY <2>1, <2>2
<1> QED
  BY <1>2, <1>3

\* An append adds its own evidence to all that is there when it commits.
THEOREM SupportKept == Spec => AppendKeepsSupport
<1>1. ASSUME LockInv, NEW w \in Workers, AppendCommits(w), NEW c \in Candidates, NEW k \in Kinds
      PROVE  memory'[c][k].support = memory[c][k].support + Cardinality(Teaching(tx[w].new, c, k))
  <2>1. memory[c][k].support \in Nat
    BY <1>1 DEF LockInv, TypeOK, LessonType
  <2>2. Of(tx[w].new, c) = {} => Teaching(tx[w].new, c, k) = {}
    BY DEF Teaching
  <2>3. Cardinality({}) = 0
    BY FS_EmptySet
  <2>4. CASE c \notin Subjects(tx[w].new) /\ memory'[c] = memory[c] /\ Of(tx[w].new, c) = {}
    <3>1. Cardinality(Teaching(tx[w].new, c, k)) = 0
      BY <2>2, <2>3, <2>4
    <3> QED
      BY <2>1, <2>4, <3>1
  <2>5. CASE memory'[c][k] = WrittenLesson(c, k, memory[c][k], tx[w].new)
    <3>1. memory'[c][k].support =
              IF Teaching(tx[w].new, c, k) = {} THEN memory[c][k].support
              ELSE memory[c][k].support + Cardinality(Teaching(tx[w].new, c, k))
      BY <2>5 DEF WrittenLesson
    <3>2. CASE Teaching(tx[w].new, c, k) = {}
      <4>1. Cardinality(Teaching(tx[w].new, c, k)) = 0
        BY <2>3, <3>2
      <4> QED
        BY <3>1, <3>2, <4>1, <2>1
    <3> QED
      BY <3>1, <3>2
  <2> QED
    BY <1>1, <2>4, <2>5, AppendedLesson
<1>2. LockInv /\ [Next]_vars => [\A w \in Workers : AppendCommits(w) =>
         \A c \in Candidates, k \in Kinds :
            memory'[c][k].support =
                memory[c][k].support + Cardinality(Teaching(tx[w].new, c, k))]_vars
  BY <1>1
<1> QED
  BY <1>2, LockAlways, PTL DEF Spec, AppendKeepsSupport

\* An ACTIVE outcome that is appended leaves no negative lesson of its candidate active.
THEOREM Superseded == Spec => ActiveSupersedes
<1>1. ASSUME LockInv, NEW w \in Workers, AppendCommits(w), NEW c \in Candidates,
             NEW k \in FailureKinds, Concluding(tx[w].new, c) # {}
      PROVE  memory'[c][k].state # "active"
  <2> DEFINE S == tx[w].new
  <2>1. k \in Kinds /\ k \notin Positive /\ k # "active"
    BY FailuresAssumption DEF Kinds, Positive
  <2>2. PICK e \in Events : S = {e}
    BY <1>1 DEF AppendCommits, At, LockInv, AppendsOne
  <2>3. CandidateOf[e] = c /\ TypeOf[e] \in ActiveTypes
    BY <1>1, <2>2 DEF Concluding, Of
  <2>4. Lesson(e) = "active"
    BY <2>3 DEF Lesson, ActiveTypes, MEMORY_EVENTS
  <2>5. Teaching(S, c, k) = {} /\ Of(S, c) # {}
    BY <2>1, <2>2, <2>3, <2>4 DEF Teaching, Of
  <2>6. memory'[c][k] = WrittenLesson(c, k, memory[c][k], S)
    BY <1>1, <2>1, <2>5, AppendedLesson
  <2> HIDE DEF S
  <2>7. LessonState(memory[c][k].state, S, c, k) =
            IF memory[c][k].state = "active" THEN "superseded" ELSE memory[c][k].state
    BY <1>1, <2>1, <2>5, Zenon DEF LessonState, S
  <2>8. memory'[c][k].state =
            IF memory[c][k].state = "active" THEN "superseded" ELSE memory[c][k].state
    BY <2>6, <2>7 DEF WrittenLesson, Changed
  <2> QED
    BY <2>8
<1>2. LockInv /\ [Next]_vars => [\A w \in Workers : AppendCommits(w) =>
         \A c \in Candidates, k \in FailureKinds :
            Concluding(tx[w].new, c) # {} => memory'[c][k].state # "active"]_vars
  BY <1>1
<1> QED
  BY <1>2, LockAlways, PTL DEF Spec, ActiveSupersedes

\* A rebuild that has read the whole log loses nothing of the projections.
THEOREM Rebuilt == Spec => RebuildLosesNothing
<1>1. ASSUME KnownInv, NEW w \in Workers, RebuildCommits(w), tx[w].new = events,
             NEW c \in Candidates
      PROVE  /\ candidates'[c].revision >= candidates[c].revision
             /\ candidates[c].status = "active" => candidates'[c].status = "active"
             /\ \A k \in Kinds : memory'[c][k].support >= memory[c][k].support
  <2>1. RowKnown(candidates[c], events, c) /\ \A k \in Kinds : LessonKnown(memory[c][k], events, c, k)
    BY <1>1 DEF KnownInv, Known, AllKnown
  <2>2. candidates[c].revision \in Nat /\ \A k \in Kinds : memory[c][k].support \in Nat
    BY <1>1 DEF KnownInv, TypeOK, RowType, LessonType
  <2>3. Of(events, c) \in SUBSET Events /\ \A k \in Kinds : Teaching(events, c, k) \in SUBSET Events
    BY <1>1 DEF KnownInv, TypeOK, Of, Teaching
  <2>4. Cardinality(Of(events, c)) \in Nat /\ \A k \in Kinds : Cardinality(Teaching(events, c, k)) \in Nat
    BY <2>3, Finite
  <2>5. /\ candidates'[c].revision >= candidates[c].revision
        /\ candidates[c].status = "active" => candidates'[c].status = "active"
    <3>1. CASE Of(events, c) = {}
      <4>1. candidates'[c] = NoRow
        BY <1>1, <3>1 DEF RebuildCommits
      <4>2. Cardinality(Of(events, c)) = 0 /\ Concluding(events, c) = {}
        BY <3>1, FS_EmptySet DEF Concluding
      <4> QED
        BY <4>1, <4>2, <2>1, <2>2 DEF RowKnown, NoRow
    <3>2. CASE Of(events, c) # {}
      <4>1. /\ candidates'[c].status = Outcome("candidate", Of(events, c))
            /\ candidates'[c].revision = Cardinality(Of(events, c))
        BY <1>1, <3>2 DEF RebuildCommits
      <4>2. "candidate" \in Statuses
        BY DEF Statuses, EVENT_STATUS, EventTypes
      <4>3. Concluding(events, c) # {} => Outcome("candidate", Of(events, c)) = "active"
        BY <4>2, <2>3, OutcomeStatus DEF Concluding
      <4> QED
        BY <4>1, <4>3, <2>1, <2>2, <2>4 DEF RowKnown
    <3> QED
      BY <3>1, <3>2
  <2>6. ASSUME NEW k \in Kinds PROVE memory'[c][k].support >= memory[c][k].support
    <3>1. memory'[c][k].support \in {memory[c][k].support, Cardinality(Teaching(events, c, k))}
      BY <1>1 DEF RebuildCommits
    <3> QED
      BY <3>1, <2>1, <2>2, <2>4 DEF LessonKnown
  <2> QED
    BY <2>5, <2>6
<1>2. KnownInv /\ [Next]_vars => [\A w \in Workers : RebuildCommits(w) /\ tx[w].new = events =>
         \A c \in Candidates :
            /\ candidates'[c].revision >= candidates[c].revision
            /\ candidates[c].status = "active" => candidates'[c].status = "active"
            /\ \A k \in Kinds : memory'[c][k].support >= memory[c][k].support]_vars
  BY <1>1
<1> QED
  BY <1>2, KnownAlways, PTL DEF Spec, RebuildLosesNothing

=============================================================================
