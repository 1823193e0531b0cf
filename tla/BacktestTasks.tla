---------------------------- MODULE BacktestTasks ----------------------------
(***************************************************************************)
(* The in-memory table of tasks: one worker thread per task runs a local   *)
(* backtest, a composite, an iteration over a parent's expression, or one  *)
(* of three jobs on the platform, while the handlers of the event loop     *)
(* create, cancel, clean up, stream and persist tasks.                     *)
(*                                                                         *)
(* Handlers of the event loop exclude one another where they do not await; *)
(* nothing excludes the worker threads, which write their task without the *)
(* lock.  The tasks are those of one user, and those of the guest.         *)
(***************************************************************************)
EXTENDS Naturals, FiniteSets

CONSTANTS
    Tasks,        \* the tasks that may be created
    Guests,       \* those of them created without a user
    Streams,      \* the event streams that may be opened
    MaxActive,    \* MAX_ACTIVE_TASKS
    MaxStreams,   \* MAX_SSE_CONNECTIONS
    NoTask

ASSUME TasksAssumption == IsFiniteSet(Tasks) /\ Guests \subseteq Tasks /\ NoTask \notin Tasks
ASSUME LimitsAssumption == MaxActive \in Nat /\ MaxStreams \in Nat

VARIABLES
    table,       \* the ids in the table
    kind,        \* task["task_type"], "none" before the task is created
    parent,      \* task["parent_task_id"] of an iteration
    status,      \* task["status"], "none" before the task is created
    cancelled,   \* task["cancelled"]
    result,      \* whether task["result"] is there
    old,         \* whether the task is older than TASK_TTL_SECONDS
    worker,      \* where the thread is, and the stage it is about to announce
    cancelling,  \* how far the cancel handler of a task is: in the table, or with its row
    row,         \* the task's row in the database
    late,        \* the rows that early writes may still commit, after their thread's wait
    stream,      \* each stream: its task, what it sent last, whether it goes on
    connections  \* active_sse_count

made   == <<kind, parent>>
entry  == <<table, status, cancelled, result, old>>
client == <<stream, connections>>
vars   == <<made, entry, worker, cancelling, row, late, client>>

Kinds == {"backtest", "composite", "iteration", "submit", "batch", "by_id"}

Working == {"pending", "generating_expression", "validating", "fetching_data",
            "fetching_fundamentals", "backtesting", "analyzing", "generating_report",
            "iterating", "authenticating", "simulating", "running"}

\* The statuses that a result follows.
Closing == {"completed", "iteration_completed", "failed"}

\* active_task_count counts the others.
Ended == Closing \cup {"cancelled"}

\* The stages of each kind of task, and which may follow which.
BacktestStages ==
    {<<"pending", "generating_expression">>, <<"generating_expression", "validating">>,
     <<"validating", "fetching_data">>, <<"fetching_data", "fetching_fundamentals">>,
     <<"fetching_data", "backtesting">>, <<"fetching_fundamentals", "backtesting">>,
     <<"backtesting", "analyzing">>, <<"backtesting", "generating_report">>,
     <<"analyzing", "generating_report">>, <<"generating_report", "completed">>}

CompositeStages ==
    {<<"pending", "fetching_data">>, <<"fetching_data", "fetching_fundamentals">>,
     <<"fetching_data", "backtesting">>, <<"fetching_fundamentals", "backtesting">>,
     <<"backtesting", "generating_report">>, <<"generating_report", "completed">>}

IterationStages == {<<"pending", "iterating">>, <<"iterating", "iteration_completed">>}

SubmitStages ==
    {<<"pending", "authenticating">>, <<"authenticating", "simulating">>,
     <<"simulating", "completed">>}

ByIdStages ==
    {<<"pending", "authenticating">>, <<"authenticating", "running">>,
     <<"running", "completed">>}

\* A batch whose simulations all fail has a result, too.
BatchStages == ByIdStages \cup {<<"running", "failed">>}

Stages ==
    [backtest |-> BacktestStages, composite |-> CompositeStages, iteration |-> IterationStages,
     submit |-> SubmitStages, batch |-> BatchStages, by_id |-> ByIdStages]

\* Those that are announced only after a look at the cancelled flag.
Checked ==
    [backtest  |-> {"fetching_data", "fetching_fundamentals", "backtesting", "analyzing",
                    "generating_report"},
     composite |-> {}, iteration |-> {}, submit |-> {},
     batch     |-> {"completed", "failed"},
     by_id     |-> {"completed"}]

\* The kinds whose creation checks the limit, ...
Limited == Kinds \ {"by_id"}
\* ... whose creation cleans the table, ...
Cleaning == {"backtest", "composite", "iteration"}
\* ... whose thread writes reports, ...
Reporting == {"backtest", "composite"}
\* ... and whose row is written before the end, too.
Early == {"iteration", "by_id"}

At(t) == worker[t].at
Move(t, at, next) == worker' = [worker EXCEPT ![t] = [at |-> at, next |-> next]]
SetStatus(t, s) == status' = [status EXCEPT ![t] = s]

\* No handler is in the middle of its work: the event loop runs another one.
LoopFree == \A t \in Tasks : cancelling[t] \notin {"read", "flagged"}

ActiveCount == Cardinality({t \in table : status[t] \notin Ended})

\* The row that a write of this moment makes.
RowOf(t) == [status |-> status[t], result |-> result[t]]

NoStream == [task |-> NoTask, last |-> "none", open |-> FALSE]

Init ==
    /\ table = {}
    /\ kind = [t \in Tasks |-> "none"]
    /\ parent = [t \in Tasks |-> NoTask]
    /\ status = [t \in Tasks |-> "none"]
    /\ cancelled = [t \in Tasks |-> FALSE]
    /\ result = [t \in Tasks |-> FALSE]
    /\ old = [t \in Tasks |-> FALSE]
    /\ worker = [t \in Tasks |-> [at |-> "none", next |-> "none"]]
    /\ cancelling = [t \in Tasks |-> "no"]
    /\ row = [t \in Tasks |-> [status |-> "none", result |-> FALSE]]
    /\ late = [t \in Tasks |-> {}]
    /\ stream = [s \in Streams |-> NoStream]
    /\ connections = 0

-----------------------------------------------------------------------------
(* The handlers.                                                           *)

\* cleanup_tasks: finished tasks past their time; a cancelled one stays.
Expired_Cancelled ==   \* mutant: a cancelled one goes too, its thread at work or not
    {t \in table : old[t] /\ status[t] \in Ended}
Expired == {t \in table : old[t] /\ status[t] \in Closing}

\* What iterate_task wants of a parent, which is in the table or in the database.
CompletedFor(p) == IF p \in table THEN status[p] = "completed" ELSE row[p].status = "completed"

\* auto_backtest and its like: the limit, the clean-up, the new task and its thread.
Create_OffByOne(t, k, p) ==   \* mutant: the limit is checked too late
    /\ LoopFree
    /\ status[t] = "none"
    /\ (t \in Guests => k = "backtest")
    /\ (k \in Limited => ActiveCount <= MaxActive)
    /\ IF k = "iteration" THEN p \in Tasks \ Guests /\ CompletedFor(p) ELSE p = NoTask
    /\ table' = (IF k \in Cleaning THEN table \ Expired ELSE table) \cup {t}
    /\ kind' = [kind EXCEPT ![t] = k]
    /\ parent' = [parent EXCEPT ![t] = p]
    /\ SetStatus(t, "pending")
    /\ Move(t, "pending", "none")
    /\ UNCHANGED <<cancelled, result, old, cancelling, row, late, client>>

Create(t, k, p) ==
    /\ LoopFree
    /\ status[t] = "none"
    /\ (t \in Guests => k = "backtest")
    /\ (k \in Limited => ActiveCount < MaxActive)
    /\ IF k = "iteration" THEN p \in Tasks \ Guests /\ CompletedFor(p) ELSE p = NoTask
    /\ table' = (IF k \in Cleaning THEN table \ Expired ELSE table) \cup {t}
    /\ kind' = [kind EXCEPT ![t] = k]
    /\ parent' = [parent EXCEPT ![t] = p]
    /\ SetStatus(t, "pending")
    /\ Move(t, "pending", "none")
    /\ UNCHANGED <<cancelled, result, old, cancelling, row, late, client>>

\* cancel_task, as the threads see it: the status is read, then both fields are set.
CancelReads(t) ==
    /\ LoopFree
    /\ t \in table /\ status[t] \notin Ended /\ cancelling[t] = "no"
    /\ cancelling' = [cancelling EXCEPT ![t] = "read"]
    /\ UNCHANGED <<made, entry, worker, row, late, client>>

CancelFlags(t) ==
    /\ cancelling[t] = "read"
    /\ cancelled' = [cancelled EXCEPT ![t] = TRUE]
    /\ cancelling' = [cancelling EXCEPT ![t] = "flagged"]
    /\ UNCHANGED <<made, table, status, result, old, worker, row, late, client>>

CancelAnswers(t) ==
    /\ cancelling[t] = "flagged"
    /\ SetStatus(t, "cancelled")
    /\ cancelling' = [cancelling EXCEPT ![t] = "no"]
    /\ UNCHANGED <<made, table, cancelled, result, old, worker, row, late, client>>

\* cancel_task for a task that is not in the table: the row is read and, after an
\* await, its status is written.
CancelReadsRow(t) ==
    /\ LoopFree
    /\ t \notin table /\ row[t].status \notin Ended \cup {"none"} /\ cancelling[t] = "no"
    /\ cancelling' = [cancelling EXCEPT ![t] = "row"]
    /\ UNCHANGED <<made, entry, worker, row, late, client>>

CancelWritesRow(t) ==
    /\ LoopFree
    /\ cancelling[t] = "row"
    /\ row' = [row EXCEPT ![t].status = "cancelled"]
    /\ cancelling' = [cancelling EXCEPT ![t] = "no"]
    /\ UNCHANGED <<made, entry, worker, late, client>>

\* The table's clock: TASK_TTL_SECONDS pass after created_at.
Age(t) ==
    /\ status[t] # "none" /\ ~old[t]
    /\ old' = [old EXCEPT ![t] = TRUE]
    /\ UNCHANGED <<made, table, status, cancelled, result, worker, cancelling, row, late, client>>

-----------------------------------------------------------------------------
(* The worker thread.                                                      *)

\* check_cancelled looks the task up in the table; the batches look at their own.
Raises(t) == cancelled[t] /\ (kind[t] = "backtest" => t \in table)

\* The thread of an iteration finds its parent in the table, with an expression; its
\* query of the database never runs, for want of the event loop that it imported by value
\* before the server set it.
ParentFound(t) ==
    LET p == parent[t] IN p \in table /\ status[p] = "completed" /\ kind[p] # "by_id"

\* The work of a stage is done and the next stage is known; the flag is not set, or
\* nobody looks.
FinishStage(t) ==
    /\ At(t) \in Working /\ worker[t].next = "none"
    /\ (kind[t] = "iteration" /\ At(t) = "pending" => ParentFound(t))
    /\ \E next \in Working \cup Closing :
         /\ <<At(t), next>> \in Stages[kind[t]]
         /\ next \notin Checked[kind[t]] \/ ~Raises(t)
         /\ Move(t, At(t), next)
    /\ UNCHANGED <<made, entry, cancelling, row, late, client>>

\* A stage ends with a look at the flag, which is set.
Seen(t) ==
    /\ At(t) \in Working /\ worker[t].next = "none"
    /\ Raises(t)
    /\ \E next \in Checked[kind[t]] : <<At(t), next>> \in Stages[kind[t]]

\* The status is written whatever it has become meanwhile.
Announce(t) ==
    /\ worker[t].next # "none"
    /\ SetStatus(t, worker[t].next)
    /\ Move(t, worker[t].next, "none")
    /\ UNCHANGED <<made, table, cancelled, result, old, cancelling, row, late, client>>

\* check_cancelled raises, before the next stage or while the backtest is polled; a
\* batch stops at its next combination.
Stop_Silent(t) ==   \* mutant: the exception handler leaves the status
    /\ Seen(t)
    /\ Move(t, "finally", "none")
    /\ UNCHANGED <<made, entry, cancelling, row, late, client>>

Stop_Swallowed(t) ==   \* mutant: the poll loop catches the exception and polls on
    /\ Seen(t)
    /\ UNCHANGED vars

Stop(t) ==
    /\ Seen(t)
    /\ SetStatus(t, "cancelled")
    /\ Move(t, "finally", "none")
    /\ UNCHANGED <<made, table, cancelled, result, old, cancelling, row, late, client>>

\* An early return or an exception; the analysis catches its own.
Fail(t) ==
    /\ At(t) \in Working \ {"analyzing"} /\ worker[t].next = "none"
    /\ SetStatus(t, "failed")
    /\ Move(t, "finally", "none")
    /\ UNCHANGED <<made, table, cancelled, result, old, cancelling, row, late, client>>

StoreResult(t) ==
    /\ At(t) \in Closing
    /\ result' = [result EXCEPT ![t] = TRUE]
    /\ Move(t, IF kind[t] \in Reporting THEN "reports" ELSE "finally", "none")
    /\ UNCHANGED <<made, table, status, cancelled, old, cancelling, row, late, client>>

\* cleanup_reports.  A file that another task's clean-up of the same directory
\* unlinks between the listing and its stat is an exception here.
CleanReports(t) ==
    /\ At(t) = "reports"
    /\ Move(t, "finally", "none")
    /\ \/ UNCHANGED status
       \/ /\ \E u \in Tasks \ {t} : At(u) = "reports" /\ (u \in Guests <=> t \in Guests)
          /\ SetStatus(t, "failed")
    /\ UNCHANGED <<made, table, cancelled, result, old, cancelling, row, late, client>>

\* An iteration writes its row when it begins, a submission by id after each alpha.  The
\* thread waits for the commit, but no longer than 30 seconds.
PersistEarly(t) ==
    /\ LoopFree
    /\ worker[t].next = "none"
    /\ \/ kind[t] = "iteration" /\ At(t) = "pending" /\ row[t].status = "none" /\ late[t] = {}
       \/ kind[t] = "by_id" /\ At(t) = "running"
    /\ \/ row' = [row EXCEPT ![t] = RowOf(t)] /\ UNCHANGED late
       \/ late' = [late EXCEPT ![t] = @ \cup {RowOf(t)}] /\ UNCHANGED row
    /\ UNCHANGED <<made, entry, worker, cancelling, client>>

\* The commit comes after the wait, maybe after the row of the end.
PersistLate(t) ==
    /\ LoopFree
    /\ \E r \in late[t] :
         /\ row' = [row EXCEPT ![t] = r]
         /\ late' = [late EXCEPT ![t] = @ \ {r}]
    /\ UNCHANGED <<made, entry, worker, cancelling, client>>

\* persist_task_to_db runs on the event loop; its failure is logged, no more.
\* After this nothing writes the task: a commit of this row after the thread's 30
\* seconds of waiting is that of the same row.
Persist_InThread(t) ==   \* mutant: the row is written from the worker thread
    /\ At(t) = "finally" /\ t \notin Guests
    /\ \/ row' = [row EXCEPT ![t] = RowOf(t)]
       \/ UNCHANGED row
    /\ Move(t, "done", "none")
    /\ UNCHANGED <<made, entry, cancelling, late, client>>

Persist(t) ==
    /\ At(t) = "finally" /\ t \notin Guests
    /\ LoopFree
    /\ \/ row' = [row EXCEPT ![t] = RowOf(t)]
       \/ UNCHANGED row
    /\ Move(t, "done", "none")
    /\ UNCHANGED <<made, entry, cancelling, late, client>>

FinishGuest(t) ==
    /\ At(t) = "finally" /\ t \in Guests
    /\ Move(t, "done", "none")
    /\ UNCHANGED <<made, entry, cancelling, row, late, client>>

-----------------------------------------------------------------------------
(* Event streams.                                                          *)

\* stream_task, up to the response.
Open_Unlimited(s, t) ==   \* mutant: the limit is not checked
    /\ LoopFree
    /\ stream[s] = NoStream /\ t \in table
    /\ stream' = [stream EXCEPT ![s] = [task |-> t, last |-> "none", open |-> TRUE]]
    /\ connections' = connections + 1
    /\ UNCHANGED <<made, entry, worker, cancelling, row, late>>

Open(s, t) ==
    /\ LoopFree
    /\ stream[s] = NoStream /\ t \in table
    /\ connections < MaxStreams
    /\ stream' = [stream EXCEPT ![s] = [task |-> t, last |-> "none", open |-> TRUE]]
    /\ connections' = connections + 1
    /\ UNCHANGED <<made, entry, worker, cancelling, row, late>>

Close(s, last) ==
    /\ stream' = [stream EXCEPT ![s] = [@ EXCEPT !.last = last, !.open = FALSE]]
    /\ connections' = IF connections > 0 THEN connections - 1 ELSE 0

\* event_generator sees a new status: an update, and the end for some of them.
Update(s) ==
    LET current == status[stream[s].task] IN
    /\ LoopFree
    /\ stream[s].open /\ stream[s].task \in table
    /\ current # stream[s].last
    /\ IF current \in Closing
       THEN Close(s, current)
       ELSE stream' = [stream EXCEPT ![s].last = current] /\ UNCHANGED connections
    /\ UNCHANGED <<made, entry, worker, cancelling, row, late>>

\* The task is gone, the time is over, or the client is.
End(s) ==
    /\ LoopFree
    /\ stream[s].open
    /\ Close(s, stream[s].last)
    /\ UNCHANGED <<made, entry, worker, cancelling, row, late>>

\* The client is gone before the generator starts: its finally never runs.
Lose(s) ==
    /\ LoopFree
    /\ stream[s].open /\ stream[s].last = "none"
    /\ stream' = [stream EXCEPT ![s].open = FALSE]
    /\ UNCHANGED <<made, entry, worker, cancelling, row, late, connections>>

-----------------------------------------------------------------------------
Cancel(t) ==
    \/ CancelReads(t) \/ CancelFlags(t) \/ CancelAnswers(t)
    \/ CancelReadsRow(t) \/ CancelWritesRow(t)

Thread(t) ==
    \/ FinishStage(t) \/ Announce(t) \/ Stop(t) \/ Fail(t) \/ StoreResult(t)
    \/ CleanReports(t) \/ Persist(t) \/ FinishGuest(t)

Work(t) == Thread(t) \/ PersistEarly(t)

Next ==
    \/ \E t \in Tasks : Cancel(t) \/ Age(t) \/ PersistLate(t) \/ Work(t)
    \/ \E t \in Tasks, k \in Kinds, p \in Tasks \cup {NoTask} : Create(t, k, p)
    \/ \E s \in Streams : Update(s) \/ End(s) \/ Lose(s) \/ \E t \in Tasks : Open(s, t)

Spec == Init /\ [][Next]_vars

-----------------------------------------------------------------------------
(* Properties.                                                             *)

StatusNames == Working \cup Ended \cup {"none"}
Rows == [status : StatusNames, result : BOOLEAN]
Places == Working \cup Closing \cup {"none", "reports", "finally", "done"}

TypeOK ==
    /\ table \subseteq Tasks
    /\ kind \in [Tasks -> Kinds \cup {"none"}]
    /\ parent \in [Tasks -> Tasks \cup {NoTask}]
    /\ status \in [Tasks -> StatusNames]
    /\ cancelled \in [Tasks -> BOOLEAN]
    /\ result \in [Tasks -> BOOLEAN]
    /\ old \in [Tasks -> BOOLEAN]
    /\ worker \in [Tasks -> [at : Places, next : Working \cup Closing \cup {"none"}]]
    /\ cancelling \in [Tasks -> {"no", "read", "flagged", "row"}]
    /\ row \in [Tasks -> Rows] /\ late \in [Tasks -> SUBSET Rows]
    /\ stream \in [Streams -> [task : Tasks \cup {NoTask}, last : StatusNames, open : BOOLEAN]]
    /\ connections \in Nat

\* MAX_ACTIVE_TASKS bounds the threads at work on tasks nobody cancelled, but those of
\* submissions by id, which are counted and not limited.  (It does not bound the
\* threads: a cancelled task's one goes on, uncounted.)
AtWork == {t \in Tasks : At(t) \in Working /\ ~cancelled[t] /\ kind[t] \in Limited}
WithinLimit == Cardinality(AtWork) <= MaxActive

\* The clean-up takes no task away from its thread, cancelled or not: check_cancelled
\* finds nothing to stop for in a task that is not in the table.
WorkStaysInTable == \A t \in Tasks : At(t) \in Working => t \in table

\* When the thread is done the status is one that says so, whoever wrote it last.
RestIsEnded == \A t \in Tasks : At(t) = "done" => status[t] \in Ended

\* A row says what the table said, so an answer does not change when the clean-up
\* moves it from the table to the database; and a completed task has its result.  A row
\* that was written before the end may be left behind, or cancelled in the database
\* alone, but never says anything else of how the task ended.
RowAgrees ==
    \A t \in Tasks :
        row[t].status \in Closing \/ (row[t].status # "none" /\ kind[t] \notin Early) =>
            /\ row[t] = RowOf(t)
            /\ row[t].status \in Closing \ {"failed"} => row[t].result

\* Open streams are within MAX_SSE_CONNECTIONS, whatever becomes of their clients.
StreamsWithinLimit == Cardinality({s \in Streams : stream[s].open}) <= MaxStreams

-----------------------------------------------------------------------------
(* Liveness: threads run, and a handler that has begun goes on.            *)

Fairness ==
    \A t \in Tasks : WF_vars(Thread(t)) /\ WF_vars(CancelFlags(t)) /\ WF_vars(CancelAnswers(t))

LiveSpec == Spec /\ Fairness

\* A task comes to rest: a cancel may be overwritten by the thread, which may be
\* overwritten by a cancel, but the status ends for good.
TasksSettle == \A t \in Tasks : status[t] # "none" ~> [](status[t] \in Ended)
=============================================================================
