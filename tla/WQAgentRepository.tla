-------------------------- MODULE WQAgentRepository --------------------------
(***************************************************************************)
(* SqlAgentRepository: the event table and its two projections, written by *)
(* transactions of several processes at once: append, append_many and      *)
(* rebuild_projections.                                                    *)
(*                                                                         *)
(* The database commits reads at the statement (READ COMMITTED): a query   *)
(* sees what is committed when it runs, an INSERT or UPDATE waits for the  *)
(* transaction that wrote the row and keeps it until the end of its own.   *)
(* What a session has loaded it does not load again: it writes what it     *)
(* computes from that.                                                     *)
(***************************************************************************)
EXTENDS Naturals, FiniteSets

CONSTANTS
    Workers,        \* the processes that write
    NumEvents,      \* events, numbered in the order of occurred_at
    Candidates,     \* candidates of one scope
    CandidateOf,    \* the candidate of an event
    TypeOf,         \* its type
    FailureKinds,   \* what _projected_failure_kind may say
    FailureKindOf,  \* what it says of an event
    MaxRebuilds     \* rebuilds in a behaviour

Events == 1..NumEvents

EventTypes ==
    {"candidate_created", "validation_passed", "validation_rejected", "simulation_started",
     "simulation_succeeded", "simulation_failed", "check_started", "check_succeeded",
     "check_blocked", "ready", "submit_started", "submit_succeeded", "submit_failed",
     "submission_pending", "active_confirmed", "artifact_imported"}

ASSUME EventsAssumption == NumEvents \in Nat
ASSUME CandidatesAssumption == CandidateOf \in [Events -> Candidates]
ASSUME TypesAssumption == TypeOf \in [Events -> EventTypes]
ASSUME FailuresAssumption ==
    /\ FailureKindOf \in [Events -> FailureKinds]
    /\ FailureKinds \cap {"ready", "active", "none"} = {}
ASSUME RebuildsAssumption == MaxRebuilds \in Nat

VARIABLES
    events,      \* the committed rows of wq_agent_events
    candidates,  \* wq_candidate_states, by candidate
    memory,      \* wq_memory_items, by candidate and failure kind
    generation,  \* what tells the ids of rows inserted before and after a rebuild apart
    tx           \* each worker's transaction, and what its session has loaded

tables == <<events, candidates, memory, generation>>
vars == <<tables, tx>>

-----------------------------------------------------------------------------
(* What an event says.                                                     *)

EVENT_STATUS ==
    [candidate_created    |-> "candidate",
     validation_passed    |-> "validated",
     validation_rejected  |-> "validation_failed",
     simulation_started   |-> "simulating",
     simulation_succeeded |-> "simulated",
     simulation_failed    |-> "simulation_failed",
     check_started        |-> "checking",
     check_succeeded      |-> "checked",
     check_blocked        |-> "blocked",
     ready                |-> "ready",
     submit_started       |-> "submitting",
     submit_succeeded     |-> "active",
     submit_failed        |-> "submit_failed",
     submission_pending   |-> "submission_pending",
     active_confirmed     |-> "active",
     artifact_imported    |-> "imported"]

MEMORY_EVENTS ==
    {"validation_rejected", "simulation_failed", "check_blocked", "ready", "submit_failed",
     "submission_pending", "submit_succeeded", "active_confirmed"}

\* Positive ones of evidence class platform_submit.
ActiveTypes == {"submit_succeeded", "active_confirmed"}

Status(e) == EVENT_STATUS[TypeOf[e]]

\* _memory_spec: the failure kind, which with the candidate makes the memory key.
Lesson(e) ==
    IF TypeOf[e] \notin MEMORY_EVENTS THEN "none"
    ELSE IF TypeOf[e] \in ActiveTypes THEN "active"
    ELSE IF TypeOf[e] = "ready" THEN "ready"
    ELSE FailureKindOf[e]

Positive == {"ready", "active"}
Kinds == FailureKinds \cup Positive

Of(S, c) == {e \in S : CandidateOf[e] = c}
Teaching(S, c, k) == {e \in Of(S, c) : Lesson(e) = k}
Concluding(S, c) == {e \in Of(S, c) : TypeOf[e] \in ActiveTypes}
Subjects(S) == {CandidateOf[e] : e \in S}

-----------------------------------------------------------------------------
(* What events make of a row, applied in the order of occurrence.          *)

NoRow == [id |-> 0, status |-> "candidate", revision |-> 0]
NoLesson == [support |-> 0, state |-> "absent"]

Latest(S) == CHOOSE e \in S : \A f \in S : f <= e

\* _apply_event_to_state: an active candidate stays active.
Outcome_Latest(status, S) ==   \* mutant: the status of the last event
    IF S = {} THEN status ELSE Status(Latest(S))

Outcome(status, S) ==
    IF status = "active" \/ \E e \in S : Status(e) = "active" THEN "active"
    ELSE IF S = {} THEN status
    ELSE Status(Latest(S))

\* _project_memory: a lesson that is taught is active, and a negative one is superseded
\* by an ACTIVE outcome if it is active then.
LessonState_Alone(state, S, c, k) ==   \* mutant: only lessons of the same batch are superseded
    LET taught == Teaching(S, c, k)
        final  == IF k \in Positive THEN {} ELSE Concluding(S, c)
    IN IF \E e \in taught : \A f \in final : f < e THEN "active"
       ELSE IF final # {} /\ taught # {} THEN "superseded"
       ELSE state

LessonState(state, S, c, k) ==
    LET taught == Teaching(S, c, k)
        final  == IF k \in Positive THEN {} ELSE Concluding(S, c)
    IN IF \E e \in taught : \A f \in final : f < e THEN "active"
       ELSE IF final # {} /\ (taught # {} \/ state = "active") THEN "superseded"
       ELSE state

\* An UPDATE has the columns the session has changed.

Changed(now, loaded, new) == IF new = loaded THEN now ELSE new

WrittenRow(c, loaded, S) ==
    [id       |-> IF loaded.id = 0 THEN generation ELSE candidates[c].id,
     status   |-> Changed(candidates[c].status, loaded.status, Outcome(loaded.status, S)),
     revision |-> loaded.revision + Cardinality(S)]

WrittenLesson(c, k, loaded, S) ==
    LET state == LessonState(loaded.state, S, c, k) IN
    [support |-> IF Teaching(S, c, k) = {} THEN memory[c][k].support
                 ELSE loaded.support + Cardinality(Teaching(S, c, k)),
     state   |-> Changed(memory[c][k].state, loaded.state, state)]

-----------------------------------------------------------------------------
(* Transactions.                                                           *)

NoRows == [c \in Candidates |-> NoRow]
NoLessons == [c \in Candidates |-> [k \in Kinds |-> NoLesson]]

Idle == [step |-> "idle", new |-> {}, rows |-> NoRows, lessons |-> NoLessons]

Init ==
    /\ events = {}
    /\ candidates = NoRows
    /\ memory = NoLessons
    /\ generation = 1
    /\ tx = [w \in Workers |-> Idle]

\* The committed rows of some candidates.
RowsOf(C) == [c \in Candidates |-> IF c \in C THEN candidates[c] ELSE NoRow]
LessonsOf(C) == [c \in Candidates |-> IF c \in C THEN memory[c] ELSE NoLessons[c]]

At(w, step) == tx[w].step = step
Set(w, t) == tx' = [tx EXCEPT ![w] = t]
Others(w) == Workers \ {w}

\* Another transaction has inserted one of these events and not ended.
InsertedByOther(w, S) ==
    \E v \in Others(w) : tx[v].step \in {"inserted", "locked"} /\ tx[v].new \cap S # {}

\* Another transaction has written the row of one of these candidates and not ended.
LockedByOther(w, C) ==
    \E v \in Others(w) : At(v, "locked") /\ Subjects(tx[v].new) \cap C # {}

\* A rebuild has deleted lessons that are to be updated, and not ended.
DeletedByOther(w, S) ==
    \E v \in Others(w), e \in S, k \in Kinds :
        /\ At(v, "emptied") /\ Lesson(e) # "none"
        /\ tx[v].lessons[CandidateOf[e]][k].support # 0
        /\ \/ Lesson(e) = k
           \/ /\ tx[w].lessons[CandidateOf[e]][k].state = "active"
              /\ (Lesson(e) \in Positive) # (k \in Positive)

\* What a transaction writes, for the events S that are new.
WriteProjections(w, S) ==
    LET t == tx[w] IN
    /\ candidates' = [c \in Candidates |->
         IF c \in Subjects(S) THEN WrittenRow(c, t.rows[c], Of(S, c)) ELSE candidates[c]]
    /\ memory' = [c \in Candidates |-> [k \in Kinds |->
         IF c \in Subjects(S) THEN WrittenLesson(c, k, t.lessons[c][k], S) ELSE memory[c][k]]]

Write(w, S) ==
    /\ events' = events \cup S
    /\ WriteProjections(w, S)
    /\ UNCHANGED generation

\* An error or the end of the process at any point: the transaction is rolled back.
Fail_Partial(w) ==   \* mutant: the projections are not in the event's transaction
    /\ At(w, "locked")
    /\ WriteProjections(w, tx[w].new)
    /\ UNCHANGED <<events, generation>>
    /\ Set(w, Idle)

Fail(w) ==
    /\ ~At(w, "idle")
    /\ Set(w, Idle)
    /\ UNCHANGED tables

-----------------------------------------------------------------------------
(* append.                                                                 *)

\* session.get finds no such event (of a known one append returns False at once).
AppendChecks(w, e) ==
    /\ At(w, "idle") /\ e \notin events
    /\ Set(w, [Idle EXCEPT !.step = "checked", !.new = {e}])
    /\ UNCHANGED tables

\* The query for the candidate's row flushes the event first.
AppendInserts_Again(w) ==   \* mutant: an event that is there is written over
    /\ At(w, "checked") /\ ~InsertedByOther(w, tx[w].new)
    /\ Set(w, [tx[w] EXCEPT !.step = "inserted", !.rows = RowsOf(Subjects(tx[w].new))])
    /\ UNCHANGED tables

AppendInserts(w) ==
    /\ At(w, "checked") /\ ~InsertedByOther(w, tx[w].new)
    /\ tx[w].new \cap events = {}
    /\ Set(w, [tx[w] EXCEPT !.step = "inserted", !.rows = RowsOf(Subjects(tx[w].new))])
    /\ UNCHANGED tables

\* The rows that were loaded are still there, those that were not are not.
SameRows(w, C) == \A c \in C : tx[w].rows[c].id = candidates[c].id

\* The query for the lesson flushes the candidate's row first.  (A row that a rebuild
\* has replaced raises.)
AppendLocks_Unlocked(w) ==   \* mutant: the lesson is read before the row is written
    /\ At(w, "inserted")
    /\ SameRows(w, Subjects(tx[w].new))
    /\ Set(w, [tx[w] EXCEPT !.step = "locked", !.lessons = LessonsOf(Subjects(tx[w].new))])
    /\ UNCHANGED tables

AppendLocks(w) ==
    /\ At(w, "inserted")
    /\ ~LockedByOther(w, Subjects(tx[w].new))
    /\ SameRows(w, Subjects(tx[w].new))
    /\ Set(w, [tx[w] EXCEPT !.step = "locked", !.lessons = LessonsOf(Subjects(tx[w].new))])
    /\ UNCHANGED tables

\* The lesson and those it contradicts are written, and all of it is committed.
AppendCommits(w) ==
    /\ At(w, "locked") /\ ~DeletedByOther(w, tx[w].new)
    /\ Write(w, tx[w].new)
    /\ Set(w, Idle)

\* An IntegrityError, of the event or of the candidate's row: append returns False.
AppendRefuses(w) ==
    /\ \/ /\ At(w, "checked") /\ ~InsertedByOther(w, tx[w].new)
          /\ tx[w].new \cap events # {}
       \/ /\ At(w, "inserted") /\ ~LockedByOther(w, Subjects(tx[w].new))
          /\ \E c \in Subjects(tx[w].new) : tx[w].rows[c].id = 0 /\ candidates[c].id # 0
    /\ Set(w, Idle)
    /\ UNCHANGED tables

-----------------------------------------------------------------------------
(* append_many: everything is loaded first, and written in one flush.      *)

BatchReads(w, S) ==
    /\ At(w, "idle") /\ S \ events # {}
    /\ Set(w, [Idle EXCEPT !.step = "read", !.new = S \ events])
    /\ UNCHANGED tables

BatchLoads(w) ==
    LET C == Subjects(tx[w].new) IN
    /\ At(w, "read")
    /\ Set(w, [tx[w] EXCEPT !.step = "loaded", !.rows = RowsOf(C), !.lessons = LessonsOf(C)])
    /\ UNCHANGED tables

\* The lessons to be inserted are not there, those to be updated are.
SameLessons(w, C) ==
    \A c \in C, k \in Kinds :
        Teaching(tx[w].new, c, k) # {} =>
            (tx[w].lessons[c][k].support = 0 <=> memory[c][k].support = 0)

\* A conflict raises: no part of the batch is written.
BatchCommits(w) ==
    LET t == tx[w]
        C == Subjects(t.new)
    IN  /\ At(w, "loaded")
        /\ ~InsertedByOther(w, t.new) /\ ~LockedByOther(w, C)
        /\ ~DeletedByOther(w, t.new)
        /\ t.new \cap events = {} /\ SameRows(w, C) /\ SameLessons(w, C)
        /\ Write(w, t.new)
        /\ Set(w, Idle)

-----------------------------------------------------------------------------
(* rebuild_projections.                                                    *)

RebuildIdentifies(w) ==
    /\ At(w, "idle") /\ generation <= MaxRebuilds
    /\ Set(w, [Idle EXCEPT !.step = "identified", !.rows = RowsOf(Candidates)])
    /\ UNCHANGED tables

\* An event of a candidate that had no row is skipped if its payload has no expression.
RebuildReads(w) ==
    /\ At(w, "identified") /\ generation <= MaxRebuilds
    /\ \E kept \in SUBSET events :
         /\ \A e \in events : tx[w].rows[CandidateOf[e]].id # 0 => e \in kept
         /\ Set(w, [Idle EXCEPT !.step = "replaying", !.new = kept])
    /\ UNCHANGED tables

\* The lessons are deleted, which nobody sees yet.
RebuildEmpties(w) ==
    /\ At(w, "replaying") /\ \A v \in Others(w) : ~At(v, "emptied")
    /\ Set(w, [tx[w] EXCEPT !.step = "emptied", !.lessons = memory])
    /\ UNCHANGED tables

\* Then the candidates, and both are written anew from the events that were read.  A
\* lesson inserted since the lessons were deleted stays, or conflicts.
RebuildCommits(w) ==
    LET S == tx[w].new
        inserted(c, k) == tx[w].lessons[c][k].support = 0 /\ memory[c][k].support # 0
    IN
    /\ At(w, "emptied") /\ generation <= MaxRebuilds
    /\ \A v \in Others(w) : ~At(v, "locked")
    /\ \A c \in Candidates, k \in Kinds : Teaching(S, c, k) # {} => ~inserted(c, k)
    /\ generation' = generation + 1
    /\ candidates' = [c \in Candidates |->
         IF Of(S, c) = {} THEN NoRow
         ELSE [id |-> generation + 1, status |-> Outcome("candidate", Of(S, c)),
               revision |-> Cardinality(Of(S, c))]]
    /\ memory' = [c \in Candidates |-> [k \in Kinds |->
         IF inserted(c, k) THEN memory[c][k]
         ELSE [support |-> Cardinality(Teaching(S, c, k)),
               state |-> LessonState("absent", S, c, k)]]]
    /\ UNCHANGED events
    /\ Set(w, Idle)

-----------------------------------------------------------------------------
Append(w) ==
    \/ \E e \in Events : AppendChecks(w, e)
    \/ AppendInserts(w) \/ AppendLocks(w) \/ AppendCommits(w) \/ AppendRefuses(w)

AppendMany(w) == (\E S \in SUBSET Events : BatchReads(w, S)) \/ BatchLoads(w) \/ BatchCommits(w)

Rebuild(w) == RebuildIdentifies(w) \/ RebuildReads(w) \/ RebuildEmpties(w) \/ RebuildCommits(w)

Next == \E w \in Workers : Append(w) \/ AppendMany(w) \/ Rebuild(w) \/ Fail(w)

Spec == Init /\ [][Next]_vars

-----------------------------------------------------------------------------
(* Properties.                                                             *)

Statuses == {EVENT_STATUS[type] : type \in EventTypes}
RowType == [id : Nat, status : Statuses, revision : Nat]
LessonType == [support : Nat, state : {"absent", "active", "superseded"}]
Steps == {"idle", "checked", "inserted", "locked", "read", "loaded", "identified", "replaying",
          "emptied"}

TypeOK ==
    /\ events \subseteq Events
    /\ candidates \in [Candidates -> RowType]
    /\ memory \in [Candidates -> [Kinds -> LessonType]]
    /\ generation \in Nat \ {0}
    /\ tx \in [Workers -> [step : Steps, new : SUBSET Events,
                           rows : [Candidates -> RowType],
                           lessons : [Candidates -> [Kinds -> LessonType]]]]

\* Replaying an event does not increase revisions or support counts: however
\* transactions overlap, neither ever exceeds the number of different events.
CountedOnce ==
    \A c \in Candidates :
        /\ candidates[c].revision <= Cardinality(Of(events, c))
        /\ \A k \in Kinds : memory[c][k].support <= Cardinality(Teaching(events, c, k))

\* What the projections claim, an event in the log says: nothing of a transaction that
\* was rolled back, by an error or by a conflict, is left in them.
Grounded ==
    \A c \in Candidates :
        /\ candidates[c].id # 0 => Of(events, c) # {}
        /\ candidates[c].status = "active" => Concluding(events, c) # {}
        /\ \A k \in Kinds :
             /\ memory[c][k].support > 0 => Teaching(events, c, k) # {}
             /\ memory[c][k].state = "superseded" => Concluding(events, c) # {}

\* append loses no evidence to another append: the support that is there when it commits
\* grows by its own.  (append_many, which loads before it locks, may lose some.)
AppendKeepsSupport ==
    [][\A w \in Workers : AppendCommits(w) =>
         \A c \in Candidates, k \in Kinds :
            memory'[c][k].support =
                memory[c][k].support + Cardinality(Teaching(tx[w].new, c, k))]_vars

\* An ACTIVE outcome that is appended leaves no negative lesson of its candidate active,
\* also none that was committed after the transaction had begun.
ActiveSupersedes ==
    [][\A w \in Workers : AppendCommits(w) =>
         \A c \in Candidates, k \in FailureKinds :
            Concluding(tx[w].new, c) # {} => memory'[c][k].state # "active"]_vars

\* A rebuild that has read the whole log, whatever was committed since it began, lowers no
\* count and takes back no ACTIVE status.
RebuildLosesNothing ==
    [][\A w \in Workers : RebuildCommits(w) /\ tx[w].new = events =>
         \A c \in Candidates :
            /\ candidates'[c].revision >= candidates[c].revision
            /\ candidates[c].status = "active" => candidates'[c].status = "active"
            /\ \A k \in Kinds : memory'[c][k].support >= memory[c][k].support]_vars

\* append answers False only of an event that is in the log.
RefusedIsKnown ==
    [][\A w \in Workers : AppendRefuses(w) => tx[w].new \subseteq events]_vars
=============================================================================
