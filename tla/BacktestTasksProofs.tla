------------------------- MODULE BacktestTasksProofs -------------------------
(***************************************************************************)
(* What holds of the task table for any number of tasks and streams and    *)
(* any limits, wherever the handlers come between two steps of a thread.   *)
(***************************************************************************)
EXTENDS BacktestTasks, FiniteSetTheorems, TLAPS

-----------------------------------------------------------------------------
(* Types.                                                                  *)

LEMMA TypeInit == Init => TypeOK
  BY DEF Init, TypeOK, StatusNames, Rows, Places, NoStream

CreateSome(t) == \E k \in Kinds, p \in Tasks \cup {NoTask} : Create(t, k, p)

\* The handlers and the table's clock.
LEMMA HandlerType ==
    ASSUME TypeOK, NEW t \in Tasks, CreateSome(t) \/ Cancel(t) \/ Age(t) \/ PersistLate(t)
    PROVE  TypeOK'
<1>1. ASSUME NEW k \in Kinds, NEW p \in Tasks \cup {NoTask}, Create(t, k, p) PROVE TypeOK'
  BY <1>1 DEF Create, TypeOK, SetStatus, Move, client, StatusNames, Places, Working, Expired
<1>2. CASE CancelReads(t)
  BY <1>2 DEF CancelReads, TypeOK, made, entry, client
<1>3. CASE CancelFlags(t)
  BY <1>3 DEF CancelFlags, TypeOK, made, client
<1>4. CASE CancelAnswers(t)
  BY <1>4 DEF CancelAnswers, TypeOK, SetStatus, made, client, StatusNames, Ended
<1>5. CASE Age(t)
  BY <1>5 DEF Age, TypeOK, made, client
<1>6. CASE CancelReadsRow(t)
  BY <1>6 DEF CancelReadsRow, TypeOK, made, entry, client
<1>7. CASE CancelWritesRow(t)
  <2> DEFINE written == [row[t] EXCEPT !.status = "cancelled"]
  <2>a. row[t] \in Rows /\ "cancelled" \in StatusNames
    BY DEF TypeOK, StatusNames, Ended
  <2>b. written \in Rows
    BY <2>a DEF Rows
  <2>c. row' = [row EXCEPT ![t] = written]
    BY <1>7 DEF CancelWritesRow
  <2>d. row' \in [Tasks -> Rows]
    BY <2>b, <2>c DEF TypeOK
  <2>1. row' \in [Tasks -> Rows] /\ cancelling' \in [Tasks -> {"no", "read", "flagged", "row"}]
    BY <1>7, <2>d DEF CancelWritesRow, TypeOK
  <2>2. UNCHANGED <<made, entry, worker, late, client>>
    BY <1>7 DEF CancelWritesRow
  <2> QED
    BY <2>1, <2>2 DEF TypeOK, made, entry, client
<1>8. CASE PersistLate(t)
  <2>1. PICK r \in late[t] : row' = [row EXCEPT ![t] = r] /\ late' = [late EXCEPT ![t] = @ \ {r}]
    BY <1>8 DEF PersistLate
  <2>2. /\ row' \in [Tasks -> Rows]
        /\ late' \in [Tasks -> SUBSET Rows]
    BY <2>1 DEF TypeOK
  <2> QED
    BY <1>8, <2>2 DEF PersistLate, TypeOK, made, entry, client
<1> QED
  BY <1>1, <1>2, <1>3, <1>4, <1>5, <1>6, <1>7, <1>8 DEF Cancel, CreateSome

LEMMA WorkType ==
    ASSUME TypeOK, NEW t \in Tasks, Work(t)
    PROVE  TypeOK'
<1>1. CASE FinishStage(t)
  <2>1. PICK next \in Working \cup Closing : Move(t, At(t), next)
    BY <1>1 DEF FinishStage
  <2>2. At(t) \in Places
    BY <1>1 DEF FinishStage, Places
  <2>3. worker' \in [Tasks -> [at : Places, next : Working \cup Closing \cup {"none"}]]
    BY <2>1, <2>2 DEF TypeOK, Move
  <2> QED
    BY <1>1, <2>3 DEF FinishStage, TypeOK, made, entry, client
<1>2. CASE Announce(t)
  <2>1. worker[t].next \in Working \cup Closing
    BY <1>2 DEF Announce, TypeOK
  <2>2. worker' \in [Tasks -> [at : Places, next : Working \cup Closing \cup {"none"}]]
    BY <1>2, <2>1 DEF Announce, TypeOK, Move, Places
  <2>3. status' \in [Tasks -> StatusNames]
    BY <1>2, <2>1 DEF Announce, TypeOK, SetStatus, StatusNames, Ended
  <2> QED
    BY <1>2, <2>2, <2>3 DEF Announce, TypeOK, made, client
<1>3. CASE Stop(t)
  BY <1>3 DEF Stop, TypeOK, SetStatus, Move, made, client, StatusNames, Ended, Places
<1>4. CASE Fail(t)
  BY <1>4 DEF Fail, TypeOK, SetStatus, Move, made, client, StatusNames, Ended, Closing, Places
<1>5. CASE StoreResult(t)
  BY <1>5 DEF StoreResult, TypeOK, Move, made, client, Places
<1>6. CASE CleanReports(t)
  <2>1. status' \in [Tasks -> StatusNames]
    BY <1>6 DEF CleanReports, TypeOK, SetStatus, StatusNames, Ended, Closing
  <2>2. worker' \in [Tasks -> [at : Places, next : Working \cup Closing \cup {"none"}]]
    BY <1>6 DEF CleanReports, TypeOK, Move, Places
  <2>3. UNCHANGED <<made, table, cancelled, result, old, cancelling, row, late, client>>
    BY <1>6 DEF CleanReports
  <2> QED
    BY <2>1, <2>2, <2>3 DEF TypeOK, made, client
<1>7. CASE Persist(t)
  <2>1. RowOf(t) \in Rows /\ row \in [Tasks -> Rows]
    BY DEF RowOf, Rows, TypeOK
  <2>a. [row EXCEPT ![t] = RowOf(t)] \in [Tasks -> Rows]
    BY <2>1
  <2>2. row' \in [Tasks -> Rows]
    BY <1>7, <2>1, <2>a, Zenon DEF Persist
  <2>3. worker' \in [Tasks -> [at : Places, next : Working \cup Closing \cup {"none"}]]
    BY <1>7 DEF Persist, TypeOK, Move, Places
  <2>4. UNCHANGED <<made, entry, cancelling, late, client>>
    BY <1>7 DEF Persist
  <2> QED
    BY <2>2, <2>3, <2>4 DEF TypeOK, made, entry, client
<1>8. CASE FinishGuest(t)
  BY <1>8 DEF FinishGuest, TypeOK, Move, made, entry, client, Places
<1>9. CASE PersistEarly(t)
  <2>1. RowOf(t) \in Rows
    BY DEF RowOf, Rows, TypeOK
  <2>a. row \in [Tasks -> Rows] /\ late \in [Tasks -> SUBSET Rows]
    BY DEF TypeOK
  <2>b. /\ [row EXCEPT ![t] = RowOf(t)] \in [Tasks -> Rows]
        /\ [late EXCEPT ![t] = @ \cup {RowOf(t)}] \in [Tasks -> SUBSET Rows]
    BY <2>1, <2>a
  <2>2. row' \in [Tasks -> Rows] /\ late' \in [Tasks -> SUBSET Rows]
    BY <1>9, <2>a, <2>b, Zenon DEF PersistEarly
  <2>3. UNCHANGED <<made, entry, worker, cancelling, client>>
    BY <1>9 DEF PersistEarly
  <2> QED
    BY <2>2, <2>3 DEF TypeOK, made, entry, client
<1> QED
  BY <1>1, <1>2, <1>3, <1>4, <1>5, <1>6, <1>7, <1>8, <1>9 DEF Work, Thread

StreamStep(s) == Update(s) \/ End(s) \/ Lose(s) \/ \E t \in Tasks : Open(s, t)

LEMMA StreamType ==
    ASSUME TypeOK, NEW s \in Streams, StreamStep(s)
    PROVE  TypeOK'
<1> DEFINE StreamsOK ==
             /\ stream \in [Streams -> [task : Tasks \cup {NoTask}, last : StatusNames, open : BOOLEAN]]
             /\ connections \in Nat
<1>0. ASSUME StreamsOK', UNCHANGED <<made, entry, worker, cancelling, row, late>> PROVE TypeOK'
  BY <1>0 DEF TypeOK, made, entry
<1>s. StreamsOK /\ table \subseteq Tasks /\ status \in [Tasks -> StatusNames]
  BY DEF TypeOK
<1> USE <1>s
<1>1. ASSUME NEW last \in StatusNames, Close(s, last) PROVE StreamsOK'
  <2> DEFINE ended == [stream[s] EXCEPT !.last = last, !.open = FALSE]
  <2>1. ended \in [task : Tasks \cup {NoTask}, last : StatusNames, open : BOOLEAN]
    OBVIOUS
  <2>2. stream' = [stream EXCEPT ![s] = ended]
    BY <1>1 DEF Close
  <2>3. connections' \in Nat
    BY <1>1 DEF Close
  <2> QED
    BY <2>1, <2>2, <2>3
<1>2. CASE Update(s)
  <2>1. stream[s].task \in Tasks /\ status[stream[s].task] \in StatusNames
    BY <1>2 DEF Update
  <2>2. StreamsOK'
    BY <1>1, <1>2, <2>1 DEF Update
  <2> QED
    BY <1>0, <1>2, <2>2 DEF Update
<1>3. CASE End(s)
  <2>1. StreamsOK'
    BY <1>1, <1>3 DEF End
  <2> QED
    BY <1>0, <1>3, <2>1 DEF End
<1>4. CASE Lose(s)
  <2>1. StreamsOK'
    <3> DEFINE lost == [stream[s] EXCEPT !.open = FALSE]
    <3>1. lost \in [task : Tasks \cup {NoTask}, last : StatusNames, open : BOOLEAN]
      OBVIOUS
    <3>2. stream' = [stream EXCEPT ![s] = lost] /\ connections' = connections
      BY <1>4 DEF Lose
    <3> HIDE DEF lost
    <3> QED
      BY <3>1, <3>2
  <2> QED
    BY <1>0, <1>4, <2>1 DEF Lose
<1>5. ASSUME NEW t \in Tasks, Open(s, t) PROVE TypeOK'
  <2>1. StreamsOK'
    BY <1>5 DEF Open, StatusNames
  <2> QED
    BY <1>0, <1>5, <2>1 DEF Open
<1> QED
  BY <1>2, <1>3, <1>4, <1>5 DEF StreamStep

LEMMA TypeStep == TypeOK /\ [Next]_vars => TypeOK'
<1> SUFFICES ASSUME TypeOK, [Next]_vars PROVE TypeOK'
  OBVIOUS
<1>1. CASE UNCHANGED vars
  BY <1>1 DEF vars, made, entry, client, TypeOK
<1> QED
  BY <1>1, HandlerType, WorkType, StreamType DEF Next, StreamStep, CreateSome

\* The variables of the table have their types.
THEOREM TypeCorrect == Spec => []TypeOK
  BY TypeInit, TypeStep, PTL DEF Spec

(* What the status, the thread and the row of a task say of each other.    *)

\* A row that says how the thread ended, or that is only written then.
Final(t) == row[t].status \in Closing \/ (row[t].status # "none" /\ kind[t] \notin Early)

Consistent(t) ==
    /\ t \in table => status[t] # "none"
    /\ At(t) = "none" => status[t] = "none" /\ cancelling[t] = "no" /\ row[t].status = "none"
    /\ status[t] = "none" => At(t) = "none"
    /\ worker[t].next # "none" => At(t) \in Working
    /\ cancelling[t] = "flagged" => cancelled[t]
    /\ At(t) \in Working =>
         /\ t \in table
         /\ status[t] = At(t) \/ (cancelled[t] /\ status[t] = "cancelled")
    /\ At(t) \in Closing => status[t] \in Ended
    /\ At(t) \in {"reports", "finally", "done"} =>
         /\ status[t] \in Ended
         /\ status[t] \in Closing \ {"failed"} => result[t]
    /\ cancelling[t] = "row" => kind[t] \in Early
    /\ \A r \in late[t] : kind[t] \in Early /\ At(t) # "none" /\ r.status \notin Closing
    /\ Final(t) =>
         /\ At(t) = "done" /\ cancelling[t] \notin {"read", "flagged"}
         /\ row[t] = RowOf(t)

TasksInv == TypeOK /\ \A t \in Tasks : Consistent(t)

LEMMA TasksInit == Init => TasksInv
<1> SUFFICES ASSUME Init, NEW t \in Tasks PROVE Consistent(t)
  BY TypeInit DEF TasksInv
<1> QED
  BY DEF Init, Consistent, Final, At, Working, Closing, Ended

\* What is consistent for one task depends on that task's fields only.
LEMMA Elsewhere ==
    ASSUME NEW u \in Tasks, Consistent(u),
           u \in table' <=> u \in table, kind'[u] = kind[u],
           status'[u] = status[u], cancelled'[u] = cancelled[u], result'[u] = result[u],
           worker'[u] = worker[u], cancelling'[u] = cancelling[u], row'[u] = row[u],
           late'[u] = late[u]
    PROVE  Consistent(u)'
  BY DEF Consistent, Final, At, RowOf

LEMMA HandlerConsistent ==
    ASSUME TasksInv, NEW t \in Tasks, CreateSome(t) \/ Cancel(t) \/ Age(t) \/ PersistLate(t), NEW u \in Tasks
    PROVE  Consistent(u)'
<1> USE DEF TasksInv, TypeOK, Rows
<1>0. Consistent(u)
  OBVIOUS
<1>1. ASSUME NEW k \in Kinds, NEW p \in Tasks \cup {NoTask}, Create(t, k, p)
      PROVE  Consistent(u)'
  <2>1. CASE u = t
    <3>1. At(u) = "none" /\ cancelling[u] = "no" /\ row[u].status = "none"
      BY <1>0, <1>1, <2>1 DEF Create, Consistent, Working, Closing, At
    <3> QED
      BY <1>1, <2>1, <3>1 DEF Create, Consistent, Final, RowOf, At, SetStatus, Move, Working, Closing, Ended
  <2>2. CASE u # t
    <3>1. UNCHANGED <<cancelled, result, old, cancelling, row, late>>
      BY <1>1 DEF Create
    <3>2. kind'[u] = kind[u] /\ status'[u] = status[u] /\ worker'[u] = worker[u]
      BY <1>1, <2>2 DEF Create, SetStatus, Move
    <3>3. CASE u \in Expired
      <4>1. status[u] \in Closing /\ At(u) \notin Working
        BY <1>0, <3>3 DEF Expired, Consistent, Working, Closing
      <4> QED
        BY <1>0, <3>1, <3>2, <4>1 DEF Consistent, Final, RowOf, At, Closing
    <3>4. CASE u \notin Expired
      <4>1. u \in table' <=> u \in table
        BY <1>1, <2>2, <3>4 DEF Create
      <4> QED
        BY <3>1, <3>2, <4>1, Elsewhere
    <3> QED
      BY <3>3, <3>4
  <2> QED
    BY <2>1, <2>2
<1>2. CASE CancelReads(t)
  <2>1. CASE u = t
    BY <1>0, <1>2, <2>1 DEF CancelReads, Consistent, Final, RowOf, At, made, entry, Ended
  <2>2. CASE u # t
    BY <1>2, <2>2, Elsewhere DEF CancelReads, made, entry
  <2> QED
    BY <2>1, <2>2
<1>3. CASE CancelFlags(t)
  <2>1. CASE u = t
    BY <1>0, <1>3, <2>1 DEF CancelFlags, Consistent, Final, RowOf, At, made
  <2>2. CASE u # t
    BY <1>3, <2>2, Elsewhere DEF CancelFlags, made
  <2> QED
    BY <2>1, <2>2
<1>4. CASE CancelAnswers(t)
  <2>1. CASE u = t
    BY <1>0, <1>4, <2>1 DEF CancelAnswers, Consistent, Final, RowOf, At, SetStatus, made, Ended, Closing
  <2>2. CASE u # t
    BY <1>4, <2>2, Elsewhere DEF CancelAnswers, SetStatus, made
  <2> QED
    BY <2>1, <2>2
<1>5. CASE Age(t)
  <2>1. UNCHANGED <<made, table, status, cancelled, result, worker, cancelling, row, late>>
    BY <1>5 DEF Age
  <2> QED
    BY <2>1, Elsewhere DEF made
<1>6. CASE CancelReadsRow(t)
  <2>1. CASE u = t
    <3>1. kind[u] \in Early
      <4>1. u \notin table /\ row[u].status \notin {"none", "cancelled"} \cup Closing
        BY <1>6, <2>1 DEF CancelReadsRow, Ended
      <4>2. ASSUME Final(u) PROVE FALSE
        <5>1. At(u) = "done" /\ row[u].status = status[u]
          BY <1>0, <4>2 DEF Consistent, RowOf
        <5>2. status[u] \in Ended
          BY <1>0, <5>1 DEF Consistent
        <5> QED
          BY <4>1, <5>1, <5>2 DEF Ended
      <4> QED
        BY <4>1, <4>2 DEF Final
    <3>2. At(u) # "none"
      BY <1>0, <1>6, <2>1 DEF CancelReadsRow, Consistent
    <3>3. /\ cancelling'[u] = "row"
          /\ UNCHANGED <<made, entry, worker, row, late>>
      BY <1>6, <2>1 DEF CancelReadsRow
    <3>4. ~Final(u) /\ ~Final(u)'
      BY <1>6, <2>1, <3>1, <3>3 DEF CancelReadsRow, Final, Ended, made
    <3> QED
      BY <1>0, <3>1, <3>2, <3>3, <3>4 DEF Consistent, At, made, entry
  <2>2. CASE u # t
    BY <1>6, <2>2, Elsewhere DEF CancelReadsRow, made, entry
  <2> QED
    BY <2>1, <2>2
<1>7. CASE CancelWritesRow(t)
  <2>1. CASE u = t
    <3>1. kind[u] \in Early /\ At(u) # "none"
      BY <1>0, <1>7, <2>1 DEF CancelWritesRow, Consistent
    <3>2. row'[u].status = "cancelled" /\ cancelling'[u] = "no"
      BY <1>7, <2>1 DEF CancelWritesRow
    <3>3. UNCHANGED <<made, entry, worker, late>>
      BY <1>7 DEF CancelWritesRow
    <3>4. ~Final(u)'
      BY <3>1, <3>2, <3>3 DEF Final, Closing, made
    <3> QED
      BY <1>0, <3>1, <3>2, <3>3, <3>4 DEF Consistent, At, made, entry
  <2>2. CASE u # t
    BY <1>7, <2>2, Elsewhere DEF CancelWritesRow, made, entry
  <2> QED
    BY <2>1, <2>2
<1>8. CASE PersistLate(t)
  <2>1. CASE u = t
    <3>1. PICK r \in late[u] : row' = [row EXCEPT ![u] = r] /\ late' = [late EXCEPT ![u] = @ \ {r}]
      BY <1>8, <2>1 DEF PersistLate
    <3>2. kind[u] \in Early /\ At(u) # "none" /\ r.status \notin Closing
      BY <1>0, <3>1 DEF Consistent
    <3>3. UNCHANGED <<made, entry, worker, cancelling>>
      BY <1>8 DEF PersistLate
    <3>4. ~Final(u)'
      BY <3>1, <3>2, <3>3 DEF Final, made
    <3> QED
      BY <1>0, <3>1, <3>2, <3>3, <3>4 DEF Consistent, At, made, entry
  <2>2. CASE u # t
    BY <1>8, <2>2, Elsewhere DEF PersistLate, made, entry
  <2> QED
    BY <2>1, <2>2
<1> QED
  BY <1>1, <1>2, <1>3, <1>4, <1>5, <1>6, <1>7, <1>8 DEF Cancel, CreateSome

\* A thread touches no task but its own.
LEMMA WorkElsewhere ==
    ASSUME TasksInv, NEW t \in Tasks, Work(t), NEW u \in Tasks, u # t
    PROVE  Consistent(u)'
<1> USE DEF TasksInv, TypeOK, Rows
<1>1. /\ table' = table /\ cancelled' = cancelled /\ cancelling' = cancelling /\ kind' = kind
      /\ status'[u] = status[u] /\ result'[u] = result[u] /\ row'[u] = row[u]
      /\ late'[u] = late[u]
  BY DEF Work, Thread, FinishStage, Announce, Stop, Fail, StoreResult, CleanReports, PersistEarly, Persist,
         FinishGuest, SetStatus, made, entry
<1>2. worker'[u] = worker[u]
  BY DEF Work, Thread, FinishStage, Announce, Stop, Fail, StoreResult, CleanReports, PersistEarly, Persist,
         FinishGuest, Move
<1> QED
  BY <1>1, <1>2, Elsewhere

LEMMA WorkConsistent ==
    ASSUME TasksInv, NEW t \in Tasks, Work(t)
    PROVE  Consistent(t)'
<1> USE DEF TasksInv, TypeOK, Rows
<1>0. Consistent(t)
  OBVIOUS
<1>a. kind' = kind
  BY DEF Work, Thread, FinishStage, Announce, Stop, Fail, StoreResult, CleanReports, PersistEarly, Persist,
         FinishGuest, made
<1>1. CASE FinishStage(t)
  <2>1. PICK next \in Working \cup Closing : Move(t, At(t), next)
    BY <1>1 DEF FinishStage
  <2>2. worker'[t].at = worker[t].at /\ At(t) \in Working
    BY <1>1, <2>1 DEF FinishStage, Move, At
  <2> QED
    BY <1>0, <1>1, <2>2 DEF FinishStage, Consistent, Final, RowOf, At, made, entry, Working
<1>2. CASE Announce(t)
  <2>1. worker[t].next \in Working \cup Closing /\ At(t) \in Working
    BY <1>0, <1>2 DEF Announce, Consistent
  <2>2. worker'[t] = [at |-> worker[t].next, next |-> "none"] /\ status'[t] = worker[t].next
    BY <1>2 DEF Announce, Move, SetStatus
  <2>3. ~Final(t)
    BY <1>0, <2>1 DEF Consistent, Working
  <2> QED
    BY <1>0, <1>2, <1>a, <2>1, <2>2, <2>3
    DEF Announce, Consistent, Final, RowOf, At, Working, Closing, Ended
<1>3. CASE Stop(t)
  BY <1>0, <1>3, <1>a DEF Stop, Seen, Consistent, Final, RowOf, At, SetStatus, Move, Working, Closing, Ended
<1>4. CASE Fail(t)
  BY <1>0, <1>4, <1>a DEF Fail, Consistent, Final, RowOf, At, SetStatus, Move, Working, Closing, Ended
<1>5. CASE StoreResult(t)
  <2>1. worker'[t].at \in {"reports", "finally"} /\ worker'[t].next = "none" /\ result'[t]
    BY <1>5 DEF StoreResult, Move
  <2>2. UNCHANGED <<table, status, cancelled, cancelling, row, late>>
    BY <1>5 DEF StoreResult
  <2>3. status[t] \in Ended /\ At(t) \in Closing /\ ~Final(t)
    BY <1>0, <1>5 DEF StoreResult, Consistent, Closing
  <2> QED
    BY <1>0, <1>a, <2>1, <2>2, <2>3 DEF Consistent, Final, RowOf, At, Working, Closing, Ended
<1>6. CASE CleanReports(t)
  BY <1>0, <1>6, <1>a DEF CleanReports, Consistent, Final, RowOf, At, SetStatus, Move, Working, Closing, Ended
<1>7. CASE Persist(t)
  BY <1>0, <1>7, <1>a
  DEF Persist, Consistent, Final, RowOf, At, Move, LoopFree, made, entry, Working, Closing, Ended
<1>8. CASE FinishGuest(t)
  BY <1>0, <1>8, <1>a DEF FinishGuest, Consistent, Final, RowOf, At, Move, entry, Working, Closing, Ended
<1>9. CASE PersistEarly(t)
  <2>1. kind[t] \in Early /\ At(t) \in Working
    BY <1>9 DEF PersistEarly, Early, Working
  <2>2. status[t] \notin Closing
    BY <1>0, <2>1 DEF Consistent, Working, Closing
  <2>3. /\ row'[t] \in {row[t], RowOf(t)} /\ late'[t] \subseteq late[t] \cup {RowOf(t)}
        /\ UNCHANGED <<made, entry, worker, cancelling>>
    BY <1>9 DEF PersistEarly
  <2>4. RowOf(t).status \notin Closing /\ ~Final(t)
    BY <1>0, <2>1, <2>2 DEF RowOf, Consistent, Working
  <2>5. ~Final(t)'
    BY <1>a, <2>1, <2>3, <2>4 DEF Final
  <2> QED
    BY <1>0, <2>1, <2>3, <2>4, <2>5 DEF Consistent, At, made, entry, Working
<1> QED
  BY <1>1, <1>2, <1>3, <1>4, <1>5, <1>6, <1>7, <1>8, <1>9 DEF Work, Thread

LEMMA TasksStep == TasksInv /\ [Next]_vars => TasksInv'
<1> SUFFICES ASSUME TasksInv, [Next]_vars, NEW u \in Tasks PROVE Consistent(u)'
  BY TypeStep DEF TasksInv
<1>1. CASE UNCHANGED vars
  BY <1>1, Elsewhere DEF vars, made, entry, TasksInv
<1>2. ASSUME NEW t \in Tasks, Work(t) PROVE Consistent(u)'
  BY <1>2, WorkElsewhere, WorkConsistent
<1>3. ASSUME NEW t \in Tasks, CreateSome(t) \/ Cancel(t) \/ Age(t) \/ PersistLate(t) PROVE Consistent(u)'
  BY <1>3, HandlerConsistent
<1>4. ASSUME NEW s \in Streams, StreamStep(s) PROVE Consistent(u)'
  <2>1. UNCHANGED <<made, entry, worker, cancelling, row, late>>
    BY <1>4 DEF StreamStep, Update, End, Lose, Open
  <2> QED
    BY <2>1, Elsewhere DEF made, entry, TasksInv
<1> QED
  BY <1>1, <1>2, <1>3, <1>4 DEF Next, StreamStep, CreateSome

LEMMA TasksInvariant == Spec => []TasksInv
  BY TasksInit, TasksStep, PTL DEF Spec

\* However the cancel handler and the thread overwrite each other, the thread leaves
\* an ended status.
THEOREM Rest == Spec => []RestIsEnded
<1>1. TasksInv => RestIsEnded
  BY DEF TasksInv, Consistent, RestIsEnded
<1> QED
  BY <1>1, TasksInvariant, PTL

\* A row that says how the task ended says what the table says of it from then on, and
\* a completed task's row has its result.
THEOREM Row == Spec => []RowAgrees
<1>1. TasksInv => RowAgrees
  BY DEF TasksInv, TypeOK, Rows, Consistent, Final, RowAgrees, RowOf, At
<1> QED
  BY <1>1, TasksInvariant, PTL

\* The clean-up takes no task away from its thread.
THEOREM Kept == Spec => []WorkStaysInTable
<1>1. TasksInv => WorkStaysInTable
  BY DEF TasksInv, Consistent, WorkStaysInTable
<1> QED
  BY <1>1, TasksInvariant, PTL

-----------------------------------------------------------------------------
(* The limits.                                                             *)

\* A task at work is one that active_task_count counts.
LEMMA WorkIsCounted ==
    ASSUME TasksInv
    PROVE  /\ AtWork \subseteq {t \in table : status[t] \notin Ended}
           /\ IsFiniteSet(AtWork) /\ Cardinality(AtWork) \in Nat
           /\ Cardinality(AtWork) <= ActiveCount /\ ActiveCount \in Nat
<1> DEFINE active == {t \in table : status[t] \notin Ended}
<1>1. AtWork \subseteq active
  BY DEF AtWork, TasksInv, TypeOK, Consistent, Working, Closing, Ended
<1>2. IsFiniteSet(active)
  BY TasksAssumption, FS_Subset DEF TasksInv, TypeOK
<1> QED
  BY <1>1, <1>2, FS_Subset, FS_CardinalityType DEF ActiveCount

\* Only a creation puts a task to work.
LEMMA WorkShrinks ==
    ASSUME TasksInv, [Next]_vars, ~\E t \in Tasks : CreateSome(t)
    PROVE  AtWork' \subseteq AtWork
<1> SUFFICES ASSUME NEW u \in Tasks, At(u)' \in Working, ~cancelled'[u], kind'[u] \in Limited
             PROVE  At(u) \in Working /\ ~cancelled[u] /\ kind[u] \in Limited
  BY DEF AtWork
<1> USE DEF TasksInv, TypeOK, Rows
<1>0. kind' = kind
  BY DEF Next, vars, made, CreateSome, Cancel, CancelReads, CancelFlags, CancelAnswers,
         CancelReadsRow, CancelWritesRow, Age, PersistLate, Work, Thread, FinishStage, Announce, Stop, Fail,
         StoreResult, CleanReports, PersistEarly, Persist, FinishGuest, Update, End, Lose, Open
<1>1. CASE UNCHANGED vars
  BY <1>1 DEF vars, made, entry, At
<1>2. ASSUME NEW t \in Tasks, Work(t) PROVE At(u) \in Working /\ ~cancelled[u]
  <2>1. cancelled' = cancelled
    BY <1>2 DEF Work, Thread, FinishStage, Announce, Stop, Fail, StoreResult, CleanReports,
                PersistEarly, Persist, FinishGuest, entry
  <2>2. CASE u # t \/ PersistEarly(t)
    <3>1. worker'[u] = worker[u]
      BY <1>2, <2>2 DEF Work, Thread, FinishStage, Announce, Stop, Fail, StoreResult, CleanReports,
                        PersistEarly, Persist, FinishGuest, Move
    <3> QED
      BY <2>1, <3>1 DEF At
  <2>3. CASE u = t /\ (FinishStage(t) \/ Announce(t))
    BY <2>1, <2>3 DEF FinishStage, Announce, Consistent
  <2>4. CASE u = t /\ ~(FinishStage(t) \/ Announce(t) \/ PersistEarly(t))
    <3>1. worker'[t].at \in {"reports", "finally", "done"}
      BY <1>2, <2>4 DEF Work, Thread, Stop, Fail, StoreResult, CleanReports, Persist, FinishGuest, Move
    <3> QED
      BY <2>4, <3>1 DEF At, Working
  <2> QED
    BY <2>2, <2>3, <2>4
<1>3. ASSUME NEW t \in Tasks, Cancel(t) \/ Age(t) \/ PersistLate(t) PROVE At(u) \in Working /\ ~cancelled[u]
  BY <1>3 DEF Cancel, CancelReads, CancelFlags, CancelAnswers, CancelReadsRow, CancelWritesRow,
              Age, PersistLate, entry, At
<1>4. ASSUME NEW s \in Streams, StreamStep(s) PROVE At(u) \in Working /\ ~cancelled[u]
  BY <1>4 DEF StreamStep, Update, End, Lose, Open, entry, At
<1> QED
  BY <1>0, <1>1, <1>2, <1>3, <1>4 DEF Next, StreamStep, CreateSome

LEMMA WithinLimitStep == TasksInv /\ WithinLimit /\ [Next]_vars => WithinLimit'
<1> SUFFICES ASSUME TasksInv, WithinLimit, [Next]_vars PROVE WithinLimit'
  OBVIOUS
<1>0. ASSUME AtWork' \subseteq AtWork PROVE WithinLimit'
  <2>1. Cardinality(AtWork') <= Cardinality(AtWork) /\ Cardinality(AtWork') \in Nat
    BY <1>0, WorkIsCounted, FS_Subset, FS_CardinalityType
  <2> QED
    BY <2>1, WorkIsCounted, LimitsAssumption DEF WithinLimit
<1>1. ASSUME NEW t \in Tasks, NEW k \in Limited, NEW p, Create(t, k, p) PROVE WithinLimit'
  <2>1. AtWork' \subseteq AtWork \cup {t}
    BY <1>1 DEF Create, Move, AtWork, At, TasksInv, TypeOK
  <2>0. IsFiniteSet(AtWork) /\ Cardinality(AtWork) \in Nat
    BY WorkIsCounted
  <2>2. IsFiniteSet(AtWork \cup {t}) /\ Cardinality(AtWork \cup {t}) <= Cardinality(AtWork) + 1
    <3>1. /\ IsFiniteSet(AtWork \cup {t})
          /\ Cardinality(AtWork \cup {t}) = IF t \in AtWork THEN Cardinality(AtWork)
                                            ELSE Cardinality(AtWork) + 1
      BY <2>0, FS_AddElement
    <3> QED
      BY <2>0, <3>1
  <2>3. Cardinality(AtWork) + 1 <= MaxActive
    BY <1>1, WorkIsCounted, LimitsAssumption DEF Create
  <2>4. Cardinality(AtWork') <= Cardinality(AtWork \cup {t})
    BY <2>1, <2>2, FS_Subset
  <2>5. Cardinality(AtWork') \in Nat /\ Cardinality(AtWork \cup {t}) \in Nat
    BY <2>1, <2>2, FS_Subset, FS_CardinalityType
  <2> QED
    BY <2>2, <2>3, <2>4, <2>5, WorkIsCounted, LimitsAssumption DEF WithinLimit
<1>2. ASSUME NEW t \in Tasks, NEW k \in Kinds \ Limited, NEW p, Create(t, k, p) PROVE WithinLimit'
  <2>1. AtWork' \subseteq AtWork
    BY <1>2 DEF Create, Move, AtWork, At, TasksInv, TypeOK
  <2> QED
    BY <1>0, <2>1
<1>3. CASE ~\E t \in Tasks : CreateSome(t)
  BY <1>0, <1>3, WorkShrinks
<1> QED
  BY <1>1, <1>2, <1>3 DEF CreateSome

\* Never more than MAX_ACTIVE_TASKS threads work on tasks nobody cancelled, but those
\* of submissions by id.
THEOREM Limit == Spec => []WithinLimit
<1>1. Init => WithinLimit
  <2>1. Init => AtWork = {}
    BY DEF Init, AtWork, At, Working
  <2> QED
    BY <2>1, FS_EmptySet, LimitsAssumption DEF WithinLimit
<1> QED
  BY <1>1, WithinLimitStep, TasksInvariant, PTL DEF Spec

-----------------------------------------------------------------------------
(* The streams.                                                            *)

OpenStreams == {s \in Streams : stream[s].open}

\* A stream lost before its generator starts leaves the count too high, never too low.
StreamsInv ==
    /\ IsFiniteSet(OpenStreams)
    /\ Cardinality(OpenStreams) <= connections
    /\ connections <= MaxStreams

LEMMA CloseCounts ==
    ASSUME TypeOK, StreamsInv, NEW s \in Streams, stream[s].open, NEW last, Close(s, last)
    PROVE  StreamsInv'
<1>1. OpenStreams' = OpenStreams \ {s} /\ s \in OpenStreams
  BY DEF OpenStreams, Close, TypeOK
<1>2. /\ IsFiniteSet(OpenStreams')
      /\ Cardinality(OpenStreams') = Cardinality(OpenStreams) - 1
      /\ Cardinality(OpenStreams) \in Nat /\ Cardinality(OpenStreams') \in Nat
  BY <1>1, FS_RemoveElement, FS_CardinalityType DEF StreamsInv
<1>3. connections > 0 /\ connections' = connections - 1
  BY <1>2 DEF StreamsInv, TypeOK, Close
<1> QED
  BY <1>2, <1>3, LimitsAssumption DEF StreamsInv, TypeOK

LEMMA StreamsStep == TypeOK /\ StreamsInv /\ [Next]_vars => StreamsInv'
<1> SUFFICES ASSUME TypeOK, StreamsInv, [Next]_vars PROVE StreamsInv'
  OBVIOUS
<1>1. CASE UNCHANGED client
  BY <1>1 DEF client, StreamsInv, OpenStreams
<1>2. ASSUME NEW s \in Streams, Update(s) PROVE StreamsInv'
  <2> DEFINE current == status[stream[s].task]
  <2>1. CASE Close(s, current)
    BY <1>2, <2>1, CloseCounts DEF Update
  <2>2. CASE stream' = [stream EXCEPT ![s].last = current] /\ UNCHANGED connections
    <3>1. OpenStreams' = OpenStreams
      BY <2>2 DEF OpenStreams, TypeOK
    <3> QED
      BY <2>2, <3>1 DEF StreamsInv
  <2> QED
    BY <1>2, <2>1, <2>2 DEF Update
<1>3. ASSUME NEW s \in Streams, End(s) PROVE StreamsInv'
  BY <1>3, CloseCounts DEF End
<1>4. ASSUME NEW s \in Streams, Lose(s) PROVE StreamsInv'
  <2>1. OpenStreams' \subseteq OpenStreams /\ connections' = connections
    BY <1>4 DEF Lose, OpenStreams, TypeOK
  <2>2. /\ IsFiniteSet(OpenStreams') /\ Cardinality(OpenStreams') <= Cardinality(OpenStreams)
        /\ Cardinality(OpenStreams') \in Nat /\ Cardinality(OpenStreams) \in Nat
    BY <2>1, FS_Subset, FS_CardinalityType DEF StreamsInv
  <2> QED
    BY <2>1, <2>2 DEF StreamsInv, TypeOK
<1>5. ASSUME NEW s \in Streams, NEW t \in Tasks, Open(s, t) PROVE StreamsInv'
  <2>1. OpenStreams' = OpenStreams \cup {s} /\ connections' = connections + 1
    BY <1>5 DEF Open, OpenStreams, TypeOK
  <2>2. /\ IsFiniteSet(OpenStreams') /\ Cardinality(OpenStreams') <= Cardinality(OpenStreams) + 1
        /\ Cardinality(OpenStreams') \in Nat /\ Cardinality(OpenStreams) \in Nat
    BY <2>1, FS_AddElement, FS_CardinalityType DEF StreamsInv
  <2> QED
    BY <1>5, <2>1, <2>2, LimitsAssumption DEF Open, StreamsInv, TypeOK
<1>6. ASSUME NEW t \in Tasks, CreateSome(t) \/ Cancel(t) \/ Age(t) \/ PersistLate(t) \/ Work(t)
      PROVE  UNCHANGED client
  BY <1>6 DEF CreateSome, Create, Cancel, CancelReads, CancelFlags, CancelAnswers, CancelReadsRow,
              CancelWritesRow, Age, PersistLate, Work, Thread, FinishStage, Announce, Stop, Fail, StoreResult,
              CleanReports, PersistEarly, Persist, FinishGuest
<1> QED
  BY <1>1, <1>2, <1>3, <1>4, <1>5, <1>6 DEF Next, vars, CreateSome

\* Open streams are within MAX_SSE_CONNECTIONS, whatever becomes of their clients.
THEOREM StreamLimit == Spec => []StreamsWithinLimit
<1>1. Init => StreamsInv
  <2>1. Init => OpenStreams = {} /\ connections = 0
    BY DEF Init, OpenStreams, NoStream
  <2> QED
    BY <2>1, FS_EmptySet, LimitsAssumption DEF StreamsInv
<1>2. TypeOK /\ StreamsInv => StreamsWithinLimit
  BY FS_CardinalityType, LimitsAssumption DEF StreamsInv, OpenStreams, StreamsWithinLimit, TypeOK
<1> QED
  BY <1>1, <1>2, StreamsStep, TypeCorrect, PTL DEF Spec
=============================================================================
