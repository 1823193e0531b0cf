----------------------- MODULE WQAgentEngineRefinement -----------------------
(***************************************************************************)
(* One worker implements the submission contract: for any retry budget,    *)
(* any check answers and any crashes, what it does to the platform is      *)
(* within the budget, settled one submission at a time, and over when the  *)
(* attempt is.  (Two workers do not: engine_pair_reconcile.)               *)
(***************************************************************************)
EXTENDS WQAgentEngineProofs

OneWorker == \A v, w \in Workers : v = w

-----------------------------------------------------------------------------
(* Where a worker may go.                                                  *)

After(step) ==
    CASE step = "idle" -> {"idle", "create", "reconcile"}
      [] step = "reconcile" -> {"idle", "create"}
      [] step = "create" -> {"idle", "validate", "sim_gate", "sim_start"}
      [] step = "validate" -> {"idle", "sim_gate", "sim_start"}
      [] step = "sim_start" -> {"idle", "simulate"}
      [] step = "simulate" -> {"idle", "sim_record"}
      [] step = "sim_record" -> {"idle", "sim_gate"}
      [] step = "sim_gate" -> {"idle", "passed", "check_start"}
      [] step = "check_start" -> {"idle", "check"}
      [] step = "check" -> {"idle", "passed"}
      [] step = "passed" -> {"idle", "post"}
      [] step = "post" -> {"idle", "reply"}
      [] step = "reply" -> {"idle"}

LEMMA IdleAfter ==
    /\ \A step \in Steps : "idle" \in After(step)
<1> SUFFICES ASSUME NEW step \in Steps PROVE "idle" \in After(step)
  OBVIOUS
<1> QED
  BY DEF Steps, After

LEMMA Successor ==
    ASSUME TypeInv, NEW w \in Workers, WorkerStep(w)
    PROVE  /\ pc'[w] \in After(pc[w])
           /\ pc[w] # "idle" /\ pc'[w] # "idle" => UNCHANGED seen
<1>1. CASE Leave(w)
  BY <1>1, LeaveMoves, IdleAfter DEF TypeInv, TypeOK
<1>2. CASE \E e \in SubmitModes : Begin(w, e)
  <2>1. pc[w] = "idle" /\ (Leave(w) \/ Goto(w, "create") \/ Goto(w, "reconcile"))
    BY <1>2 DEF Begin, Return
  <2> QED
    BY <1>1, <2>1, GotoMoves DEF After
<1>3. CASE CreateCandidate(w) \/ ValidationPasses(w)
  <2>1. /\ UNCHANGED seen
        /\ \/ /\ pc[w] = "create"
              /\ Goto(w, "validate") \/ Goto(w, "sim_gate") \/ Goto(w, "sim_start")
           \/ /\ pc[w] = "validate"
              /\ Goto(w, "sim_gate") \/ Goto(w, "sim_start")
    BY <1>3 DEF CreateCandidate, ValidationPasses, AfterValidation
  <2> QED
    BY <2>1, GotoMoves DEF After
<1>4. CASE RecordSimulation(w)
  <2>1. pc[w] = "sim_record" /\ (Leave(w) \/ (Goto(w, "sim_gate") /\ UNCHANGED seen))
    BY <1>4 DEF RecordSimulation, Return
  <2> QED
    BY <1>1, <2>1, GotoMoves DEF After
<1>5. CASE ReconcileRetry(w) \/ StartSimulation(w) \/ Simulate(w) \/ ReuseCheck(w)
  BY <1>5, GotoMoves DEF ReconcileRetry, StartSimulation, Simulate, ReuseCheck, After
<1>6. CASE NeedCheck(w) \/ StartCheck(w) \/ CheckPasses(w) \/ StartSubmit(w) \/ Post(w)
  BY <1>6, GotoMoves DEF NeedCheck, StartCheck, CheckPasses, StartSubmit, Post, After
<1>7. CASE \/ ReconcileUnknown(w) \/ ReconcileActive(w) \/ ReconcileOther(w)
           \/ ReconcileExhausted(w) \/ ValidationRejects(w) \/ SimulationBlocks(w)
           \/ Abandon(w) \/ CheckBlocks(w) \/ MarkReady(w) \/ ReplyActive(w)
           \/ ReplyPending(w) \/ ReplyFailed(w) \/ Crash(w)
  BY <1>1, <1>7
  DEF ReconcileUnknown, ReconcileActive, ReconcileOther, ReconcileExhausted,
      ValidationRejects, SimulationBlocks, Abandon, CheckBlocks, MarkReady, ReplyActive,
      ReplyPending, ReplyFailed, Crash, Return
<1> QED
  BY <1>2, <1>3, <1>4, <1>5, <1>6, <1>7 DEF WorkerStep, Step, Reconcile

\* The calls: all other steps leave what the platform was asked alone.
LEMMA Calls ==
    ASSUME NEW w \in Workers, WorkerStep(w)
    PROVE  \/ UNCHANGED <<submits, unsettled>>
           \/ /\ ReconcileRetry(w) \/ ReconcileExhausted(w)
              /\ pc[w] = "reconcile" /\ submits' = submits /\ unsettled' = FALSE
           \/ /\ Post(w) /\ pc[w] = "post" /\ UNCHANGED log
              /\ submits' = submits + 1 /\ unsettled' = TRUE
<1>1. CASE \/ ReconcileUnknown(w) \/ ReconcileActive(w) \/ ReconcileOther(w)
           \/ CreateCandidate(w) \/ ValidationPasses(w) \/ ValidationRejects(w)
           \/ StartSimulation(w) \/ RecordSimulation(w) \/ SimulationBlocks(w)
  BY <1>1
  DEF ReconcileUnknown, ReconcileActive, ReconcileOther, CreateCandidate, ValidationPasses,
      ValidationRejects, StartSimulation, RecordSimulation, SimulationBlocks, history
<1>2. CASE \/ ReuseCheck(w) \/ NeedCheck(w) \/ StartCheck(w) \/ Abandon(w) \/ CheckPasses(w)
           \/ CheckBlocks(w) \/ MarkReady(w) \/ StartSubmit(w) \/ ReplyActive(w)
           \/ ReplyPending(w) \/ ReplyFailed(w) \/ Crash(w) \/ \E e \in SubmitModes : Begin(w, e)
  BY <1>2
  DEF ReuseCheck, NeedCheck, StartCheck, Abandon, CheckPasses, CheckBlocks, MarkReady,
      StartSubmit, ReplyActive, ReplyPending, ReplyFailed, Crash, Begin, history
<1>3. CASE Simulate(w) \/ ReconcileRetry(w) \/ ReconcileExhausted(w) \/ Post(w)
  BY <1>3 DEF Simulate, ReconcileRetry, ReconcileExhausted, Post
<1> QED
  BY <1>1, <1>2, <1>3 DEF WorkerStep, Step, Reconcile

-----------------------------------------------------------------------------
(* When an attempt is open.                                                *)

Open ==
    /\ Of(Now, ActiveTypes) = {}
    /\ ~Occurs(Now, "validation_rejected") /\ ~Occurs(Now, "simulation_failed")
    /\ ~HardBlocked(Now) /\ ~RefusedSubmission(Now)

Phase == IF ActiveRecorded THEN "active"
         ELSE IF Closed THEN "closed"
         ELSE IF unsettled THEN "unsettled" ELSE "open"

LEMMA OpenPhase == Open <=> ~ActiveRecorded /\ ~Closed
<1>1. RefusedSubmission(Now) => Submitted(Now)
  BY DEF RefusedSubmission, IsLatest, Submitted
<1>2. Open => ~Closed
  BY DEF Open, Closed, Resume
<1>3. ~ActiveRecorded /\ ~Closed => Open
  BY <1>1 DEF Open, Closed, Resume, ActiveRecorded
<1> QED
  BY <1>2, <1>3 DEF Open, ActiveRecorded

LEMMA ResumesOpen ==
    ASSUME NEW e \in BOOLEAN, Resume(Now, e) \in {"run", "reconcile"}
    PROVE  Open /\ (Resume(Now, e) = "run" => ~Submitted(Now))
<1>1. RefusedSubmission(Now) => Submitted(Now)
  BY DEF RefusedSubmission, IsLatest, Submitted
<1> QED
  BY <1>1 DEF Open, Resume

\* What one more event does to an open attempt.
LEMMA AppendedOpen ==
    ASSUME TypeInv, Open, Len(log') = Len(log) + 1, \A i \in 1..Len(log) : log'[i] = log[i],
           NEW t \in EventTypes, log'[Len(log) + 1].type = t
    PROVE  /\ t \in Continuing => Open'
           /\ t \in ActiveTypes => ActiveRecorded'
           /\ t \notin ActiveTypes => ~ActiveRecorded'
<1>1. PICK n \in Nat : n = Len(log)
  BY DEF TypeInv, TypeOK
<1>2. Now' = n + 1 /\ Now = n
  BY <1>1 DEF Now
<1>3. \A i \in 1..(n + 1) : i \in 1..n \/ i = n + 1
  BY <1>1
<1>4. \A i \in 1..n : log'[i] = log[i]
  BY <1>1
<1>5. log'[n + 1].type = t /\ n + 1 \in 1..(n + 1)
  BY <1>1
<1>6. \A i \in 1..n : log[i].type \notin ActiveTypes \cup {"validation_rejected", "simulation_failed"}
  BY <1>2 DEF Open, Of, Occurs
<1>7. ActiveRecorded' <=> t \in ActiveTypes
  BY <1>2, <1>3, <1>4, <1>5, <1>6 DEF ActiveRecorded, Of
<1>8. ASSUME t \in Continuing PROVE Open'
  <2>1. t \notin ActiveTypes \cup {"validation_rejected", "simulation_failed"}
    BY <1>8 DEF Continuing, ActiveTypes
  <2>2. (Of(Now, ActiveTypes) = {})' /\ ~Occurs(Now, "validation_rejected")'
        /\ ~Occurs(Now, "simulation_failed")'
    BY <1>2, <1>3, <1>4, <1>5, <1>6, <2>1 DEF Of, Occurs
  <2>3. ~HardBlocked(Now)'
    <3> SUFFICES ASSUME NEW i \in 1..(n + 1), IsLatest(i, n + 1, CheckTypes)',
                        log'[i].type = "check_blocked", ~Recheckable(log'[i].kind)
                 PROVE  FALSE
      BY <1>2 DEF HardBlocked
    <3>1. i \in 1..n
      BY <1>3, <1>5, <1>8 DEF Continuing
    <3>2. \A j \in 1..n : log[j].type \in CheckTypes => j <= i
      BY <1>3, <1>4 DEF IsLatest, Of
    <3>3. IsLatest(i, n, CheckTypes)
      BY <1>4, <3>1, <3>2 DEF IsLatest, Of, CheckTypes
    <3> QED
      BY <1>2, <1>4, <3>1, <3>3 DEF Open, HardBlocked
  <2>4. ~RefusedSubmission(Now)'
    <3> SUFFICES ASSUME NEW i \in 1..(n + 1), IsLatest(i, n + 1, SubmitTypes)',
                        log'[i].type = "submit_failed", log'[i].kind = "settled"
                 PROVE  FALSE
      BY <1>2 DEF RefusedSubmission
    <3>1. i \in 1..n
      BY <1>3, <1>5, <1>8 DEF Continuing
    <3>2. \A j \in 1..n : log[j].type \in SubmitTypes => j <= i
      BY <1>3, <1>4 DEF IsLatest, Of
    <3>3. IsLatest(i, n, SubmitTypes)
      BY <1>4, <3>1, <3>2 DEF IsLatest, Of, SubmitTypes
    <3> QED
      BY <1>2, <1>4, <3>1, <3>3 DEF Open, RefusedSubmission
  <2> QED
    BY <2>2, <2>3, <2>4 DEF Open
<1> QED
  BY <1>7, <1>8

LEMMA LogUnchanged ==
    ASSUME UNCHANGED log
    PROVE  /\ Open' <=> Open
           /\ ActiveRecorded' <=> ActiveRecorded
           /\ Closed' <=> Closed
           /\ \A types : Holds(types)' <=> Holds(types)
           /\ Count(Now, "submit_started")' = Count(Now, "submit_started")
  BY DEF Open, ActiveRecorded, Closed, Now, Resume, Of, Occurs, HardBlocked, IsLatest,
         Submitted, RefusedSubmission, Holds, Count

-----------------------------------------------------------------------------
(* The one worker.  Its log is what it read and what it added, so the attempt  *)
(* it works on is open, and it asks for a submission only when the last one is *)
(* settled and a try is left.                                                  *)

Posted == Holds({"submit_started"})

Asked ==
    /\ unsettled => Posted
    /\ submits <= Count(Now, "submit_started")
    /\ status # "UNSUBMITTED" \/ reviewing => submits > 0

Working ==
    \A w \in Workers :
        /\ pc[w] # "idle" => Open
        /\ pc[w] = "reply" => submits > 0
        /\ pc[w] \notin {"idle", "reconcile", "reply"} => ~unsettled
        /\ pc[w] \notin {"idle", "post", "reply"} =>
              Of(seen[w], {"submit_started"}) = Of(Now, {"submit_started"})
        /\ pc[w] = "post" => submits < Count(Now, "submit_started")

EngineInv == TypeInv /\ CausalInv /\ BudgetInv /\ RetryInv /\ TruthInv

LEMMA EngineAlways == Spec => []EngineInv
<1>1. Init => TypeInv /\ CausalInv /\ BudgetInv /\ RetryInv /\ TruthInv
  BY TypeInit, CausalInit, BudgetInit, RetryInit, TruthInit
<1>2. TypeInv /\ CausalInv /\ BudgetInv /\ RetryInv /\ TruthInv /\ [Next]_vars
        => (TypeInv /\ CausalInv /\ BudgetInv /\ RetryInv /\ TruthInv)'
  BY TypeStep, CausalStep, ProgressStep, WorkersInBudgetStep, KeysInBudgetStep,
     NoDuplicatesStep, NumberedStep, CheckedStep, RecheckStep, TruthStep
  DEF CausalInv, BudgetInv, RetryInv
<1> QED
  BY <1>1, <1>2, PTL DEF Spec, EngineInv

LEMMA CountGrows ==
    ASSUME TypeInv, AppendsAtMost
    PROVE  /\ Count(Now, "submit_started") \in Nat /\ Count(Now, "submit_started")' \in Nat
           /\ Count(Now, "submit_started") <= Count(Now, "submit_started")'
<1>1. Len(log) \in Nat /\ Count(Len(log), "submit_started") \in Nat
  BY CountNat DEF TypeInv, TypeOK
<1>2. CASE UNCHANGED log
  BY <1>1, <1>2, LogUnchanged DEF Now
<1>3. CASE Len(log') = Len(log) + 1 /\ \A i \in 1..Len(log) : log'[i] = log[i]
  <2>1. \/ Count(Len(log), "submit_started")' = Count(Len(log), "submit_started")
        \/ Count(Len(log), "submit_started")' = Count(Len(log), "submit_started") + 1
    BY <1>3, Appended
  <2> QED
    BY <1>1, <2>1 DEF Now
<1> QED
  BY <1>2, <1>3 DEF AppendsAtMost

LEMMA AskedStep ==
    ASSUME EngineInv, Asked, Working, [Next]_vars
    PROVE  Asked'
<1> USE DEF EngineInv
<1>a. AppendsAtMost /\ TypeInv'
  BY TypeStep
<1>n. submits \in Nat /\ status \in {"UNSUBMITTED", "OTHER", "ACTIVE"}
      /\ unsettled \in BOOLEAN /\ reviewing \in BOOLEAN
  BY TypeInvParts DEF RestOK
<1>b. /\ Count(Now, "submit_started") \in Nat /\ Count(Now, "submit_started")' \in Nat
      /\ Count(Now, "submit_started") <= Count(Now, "submit_started")'
  BY <1>a, CountGrows
<1>c. Posted => Posted'
  BY <1>a, HoldsStays DEF Posted
<1>1. ASSUME NEW w \in Workers, WorkerStep(w) PROVE Asked'
  <2>0. Post(w) \/ UNCHANGED platform
    BY <1>1, RecordStep DEF SomeRecord, Records
  <2>1. CASE UNCHANGED <<submits, unsettled>>
    <3>1. UNCHANGED platform
      BY <1>n, <2>0, <2>1 DEF Post
    <3> QED
      BY <1>b, <1>c, <1>n, <2>1, <3>1 DEF Asked, platform
  <2>2. CASE pc[w] = "reconcile" /\ submits' = submits /\ unsettled' = FALSE
    <3>1. UNCHANGED platform
      BY <2>0, <2>2 DEF Post
    <3> QED
      BY <1>b, <1>c, <1>n, <2>2, <3>1 DEF Asked, platform
  <2>3. CASE pc[w] = "post" /\ UNCHANGED log /\ submits' = submits + 1 /\ unsettled' = TRUE
    <3>1. Posted
      BY <2>3 DEF CausalInv, Progress, Needs, Posted
    <3>2. submits < Count(Now, "submit_started")
      BY <2>3 DEF Working
    <3> QED
      BY <1>b, <1>c, <1>n, <2>3, <3>1, <3>2 DEF Asked
  <2> QED
    BY <1>1, <2>1, <2>2, <2>3, Calls
<1>2. CASE Platform
  BY <1>2, <1>b, <1>c, <1>n
  DEF Platform, PlatformActivates, PlatformReturns, PlatformHolds, history, Asked
<1>3. CASE UNCHANGED vars
  BY <1>3, <1>b, <1>c, <1>n DEF vars, history, platform, Asked
<1> QED
  BY <1>1, <1>2, <1>3 DEF Next, WorkerStep

\* What a record of a running worker does to an open attempt.
LEMMA RecordOpen ==
    ASSUME TypeInv, Open, NEW w \in Workers, NEW t \in EventTypes, NEW key \in Keys,
           NEW kind \in Kinds, Records(w, t, key, kind)
    PROVE  \/ UNCHANGED log
           \/ /\ t \in Continuing => Open'
              /\ t \in ActiveTypes => ActiveRecorded'
              /\ t \notin ActiveTypes => ~ActiveRecorded'
<1>1. \/ log' = log
      \/ /\ Len(log') = Len(log) + 1
         /\ \A i \in 1..Len(log) : log'[i] = log[i]
         /\ log'[Len(log) + 1] = [type |-> t, key |-> key, kind |-> kind]
  BY EmitAppends DEF Records, TypeInv, TypeOK
<1>2. CASE log' = log
  BY <1>2
<1>3. CASE /\ Len(log') = Len(log) + 1
           /\ \A i \in 1..Len(log) : log'[i] = log[i]
           /\ log'[Len(log) + 1] = [type |-> t, key |-> key, kind |-> kind]
  <2>1. log'[Len(log) + 1].type = t
    BY <1>3
  <2> QED
    BY <1>3, <2>1, AppendedOpen
<1> QED
  BY <1>1, <1>2, <1>3

\* While a worker runs and is not about to record a submission, nobody else does.
LEMMA SubmissionsSeen ==
    ASSUME EngineInv, NEW w \in Workers, WorkerStep(w), pc[w] # "passed"
    PROVE  Of(Now, {"submit_started"})' = Of(Now, {"submit_started"})
<1>0. TypeInv
  BY DEF EngineInv
<1>1. CASE UNCHANGED log
  BY <1>1 DEF Of, Now
<1>2. CASE SomeRecord(w)
  <2>1. PICK t \in EventTypes, key \in Keys, kind \in Kinds : Records(w, t, key, kind)
    BY <1>2 DEF SomeRecord
  <2>2. t # "submit_started"
    BY <2>1 DEF Records, Writers
  <2>3. \/ log' = log
        \/ /\ Len(log') = Len(log) + 1
           /\ \A i \in 1..Len(log) : log'[i] = log[i]
           /\ log'[Len(log) + 1] = [type |-> t, key |-> key, kind |-> kind]
    BY <1>0, <2>1, EmitAppends DEF Records, TypeInv, TypeOK
  <2>4. CASE /\ Len(log') = Len(log) + 1
             /\ \A i \in 1..Len(log) : log'[i] = log[i]
             /\ log'[Len(log) + 1] = [type |-> t, key |-> key, kind |-> kind]
    <3>1. log'[Len(log) + 1].type # "submit_started"
      BY <2>2, <2>4
    <3> QED
      BY <1>0, <2>4, <3>1, Appended DEF Now
  <2> QED
    BY <1>1, <2>3, <2>4
<1> QED
  BY <1>0, <1>1, <1>2, RecordStep

\* A worker that has read all submissions records a new one, never a duplicate.
LEMMA SubmissionAppended ==
    ASSUME EngineInv, NEW w \in Workers, StartSubmit(w),
           Of(seen[w], {"submit_started"}) = Of(Now, {"submit_started"})
    PROVE  Count(Now, "submit_started")' = Count(Now, "submit_started") + 1
<1> DEFINE key == Try(Count(seen[w], "submit_started") + 1)
<1>0. TypeInv /\ Numbered("submit_started")
  BY DEF EngineInv, RetryInv, TriesNumbered, Tries
<1>1. Len(log) \in Nat /\ Count(Len(log), "submit_started") \in Nat
      /\ Count(seen[w], "submit_started") = Count(Len(log), "submit_started")
  <2>1. Len(log) \in Nat
    BY <1>0 DEF TypeInv, TypeOK
  <2>2. Count(Len(log), "submit_started") \in Nat
    BY <2>1, CountNat
  <2>3. Count(seen[w], "submit_started") = Count(Len(log), "submit_started")
    BY DEF Count, Now
  <2> QED
    BY <2>1, <2>2, <2>3
<1>2. ASSUME Recorded("submit_started", key) PROVE FALSE
  <2>1. PICK i \in 1..Len(log) : log[i].type = "submit_started" /\ log[i].key = key
    BY <1>2 DEF Recorded
  <2>2. key = Try(Count(i, "submit_started"))
    BY <1>0, <2>1 DEF Numbered, Of
  <2>3. Count(i, "submit_started") = Count(seen[w], "submit_started") + 1
    BY <2>2 DEF Try
  <2>4. i \in Nat /\ i <= Len(log)
    BY <1>1, <2>1
  <2>5. Count(i, "submit_started") <= Count(Len(log), "submit_started")
        /\ Count(i, "submit_started") \in Nat
    BY <1>1, <2>4, CountMonotone, CountNat
  <2> QED
    BY <1>1, <2>3, <2>5
<1>3. Emit("submit_started", key, "retriable") /\ key \in Keys
  BY <1>0, TryKeys DEF StartSubmit, ThisSubmit
<1>4. /\ Len(log') = Len(log) + 1
      /\ \A i \in 1..Len(log) : log'[i] = log[i]
      /\ log'[Len(log) + 1] = [type |-> "submit_started", key |-> key, kind |-> "retriable"]
  <2>1. "submit_started" \in EventTypes /\ "retriable" \in Kinds
    BY DEF EventTypes, Kinds
  <2> HIDE DEF key
  <2> QED
    BY <1>0, <1>2, <1>3, <2>1, EmitAppends DEF TypeInv, TypeOK
<1>5. log'[Len(log) + 1].type = "submit_started"
  BY <1>4
<1> QED
  BY <1>0, <1>4, <1>5, Appended DEF Now

LEMMA WorkingStep ==
    ASSUME OneWorker, EngineInv, Asked, Working, [Next]_vars
    PROVE  Working'
<1>0. TypeInv /\ AppendsAtMost
  BY TypeStep DEF EngineInv
<1>n. submits \in Nat /\ submits' \in Nat /\ unsettled \in BOOLEAN
  <2>1. TypeInv'
    BY TypeStep DEF EngineInv
  <2> QED
    BY <1>0, <2>1 DEF TypeInv, TypeOK
<1>b. /\ Count(Now, "submit_started") \in Nat /\ Count(Now, "submit_started")' \in Nat
      /\ Count(Now, "submit_started") <= Count(Now, "submit_started")'
  BY <1>0, CountGrows
<1>1. ASSUME NEW w \in Workers, WorkerStep(w) PROVE Working'
  <2> SUFFICES /\ pc'[w] # "idle" => Open'
               /\ pc'[w] = "reply" => submits' > 0
               /\ pc'[w] \notin {"idle", "reconcile", "reply"} => ~unsettled'
               /\ pc'[w] \notin {"idle", "post", "reply"} =>
                     Of(seen[w], {"submit_started"})' = Of(Now, {"submit_started"})'
               /\ pc'[w] = "post" => submits' < Count(Now, "submit_started")'
    BY DEF Working, OneWorker
  <2>1. CASE pc'[w] = "idle"
    BY <2>1
  <2>2. CASE \E e \in SubmitModes : Begin(w, e) /\ pc'[w] # "idle"
    <3>1. PICK e \in SubmitModes : Begin(w, e)
      BY <2>2
    <3>2. /\ pc'[w] \in {"create", "reconcile"} /\ seen'[w] = Len(log) /\ UNCHANGED <<log, history>>
          /\ Resume(Len(log), e) = IF pc'[w] = "create" THEN "run" ELSE "reconcile"
      BY <1>0, <2>2, <3>1, GotoMoves, LeaveMoves DEF Begin, Return, TypeInv, TypeOK
    <3>3. Open /\ (pc'[w] = "create" => ~Submitted(Now))
      BY <3>2, ResumesOpen, ModesAssumption DEF Now
    <3>4. pc'[w] = "create" => ~unsettled
      BY <3>3 DEF Asked, Posted, Holds, Submitted, Of, Now, SubmitTypes
    <3>5. Of(seen[w], {"submit_started"})' = Of(Now, {"submit_started"})'
      BY <3>2 DEF Of, Now
    <3> QED
      BY <1>n, <3>2, <3>3, <3>4, <3>5, LogUnchanged DEF history
  <2>3. CASE pc[w] # "idle" /\ pc'[w] # "idle"
    <3>1. UNCHANGED seen /\ pc'[w] \in After(pc[w]) /\ pc[w] \in Steps
      BY <1>0, <1>1, <2>3, Successor DEF TypeInv, TypeOK
    <3>2. Open'
      <4>1. Open
        BY <2>3 DEF Working
      <4>2. CASE UNCHANGED log
        BY <4>1, <4>2, LogUnchanged
      <4>3. CASE SomeRecord(w)
        <5>1. PICK t \in EventTypes, key \in Keys, kind \in Kinds : Records(w, t, key, kind)
          BY <4>3 DEF SomeRecord
        <5>2. t \in Continuing
          BY <1>0, <2>3, <5>1, LeaveMoves DEF Records
        <5> QED
          BY <1>0, <4>1, <4>2, <5>1, <5>2, RecordOpen
      <4> QED
        BY <1>0, <1>1, <4>2, <4>3, RecordStep
    <3>3. pc'[w] = "reply" => submits' > 0
      <4>1. pc'[w] = "reply" => pc[w] = "post"
        BY <2>3, <3>1 DEF After, Steps
      <4>2. pc[w] = "post" => Post(w) \/ Crash(w)
        BY <1>1, <2>3
        DEF WorkerStep, Step, Reconcile, ReconcileUnknown, ReconcileActive, ReconcileOther,
            ReconcileExhausted, ReconcileRetry, CreateCandidate, ValidationPasses,
            ValidationRejects, StartSimulation, Simulate, RecordSimulation, SimulationBlocks,
            ReuseCheck, NeedCheck, StartCheck, Abandon, CheckPasses, CheckBlocks, MarkReady,
            StartSubmit, ReplyActive, ReplyPending, ReplyFailed, Begin
      <4>3. ~Crash(w)
        BY <1>0, <2>3, LeaveMoves DEF Crash
      <4> QED
        BY <1>n, <4>1, <4>2, <4>3 DEF Post
    <3>4. pc'[w] \notin {"idle", "reconcile", "reply"} => ~unsettled'
      <4>1. pc[w] \notin {"reply", "post"} \/ pc'[w] = "reply"
        BY <2>3, <3>1 DEF After, Steps
      <4>2. pc[w] \notin {"idle", "reconcile", "reply"} => ~unsettled
        BY DEF Working
      <4>3. pc[w] = "reconcile" => unsettled' = FALSE
        <5>1. pc[w] = "reconcile" => ReconcileRetry(w) \/ Leave(w)
          BY <1>1
          DEF WorkerStep, Step, Reconcile, ReconcileUnknown, ReconcileActive, ReconcileOther,
              ReconcileExhausted, CreateCandidate, ValidationPasses, Return, Crash,
              ValidationRejects, StartSimulation, Simulate, RecordSimulation, SimulationBlocks,
              ReuseCheck, NeedCheck, StartCheck, Abandon, CheckPasses, CheckBlocks, MarkReady,
              StartSubmit, Post, ReplyActive, ReplyPending, ReplyFailed, Begin
        <5> QED
          BY <1>0, <2>3, <5>1, LeaveMoves DEF ReconcileRetry
      <4> QED
        BY <1>1, <2>3, <4>1, <4>2, <4>3, Calls
    <3>5. pc'[w] \notin {"idle", "post", "reply"} =>
             Of(seen[w], {"submit_started"})' = Of(Now, {"submit_started"})'
      <4> SUFFICES ASSUME pc'[w] \notin {"idle", "post", "reply"}
                   PROVE  Of(seen[w], {"submit_started"})' = Of(Now, {"submit_started"})'
        OBVIOUS
      <4>1. pc[w] \notin {"idle", "post", "reply", "passed"}
        BY <2>3, <3>1 DEF After, Steps
      <4>2. Of(seen[w], {"submit_started"}) = Of(Now, {"submit_started"})
        BY <4>1 DEF Working
      <4>3. Of(seen[w], {"submit_started"})' = Of(seen[w], {"submit_started"})
        BY <1>0, <3>1, PrefixKept
      <4> QED
        BY <1>1, <4>1, <4>2, <4>3, SubmissionsSeen
    <3>6. pc'[w] = "post" => submits' < Count(Now, "submit_started")'
      <4> SUFFICES ASSUME pc'[w] = "post" PROVE submits' < Count(Now, "submit_started")'
        OBVIOUS
      <4>1. pc[w] = "passed"
        BY <2>3, <3>1 DEF After, Steps
      <4>2. StartSubmit(w) \/ Leave(w)
        BY <1>1, <4>1
        DEF WorkerStep, Step, Reconcile, ReconcileUnknown, ReconcileActive, ReconcileOther,
            ReconcileExhausted, ReconcileRetry, CreateCandidate, ValidationPasses, Return,
            Crash, ValidationRejects, StartSimulation, Simulate, RecordSimulation,
            SimulationBlocks, ReuseCheck, NeedCheck, StartCheck, Abandon, CheckPasses,
            CheckBlocks, MarkReady, Post, ReplyActive, ReplyPending, ReplyFailed, Begin
      <4>3. StartSubmit(w)
        BY <1>0, <2>3, <4>2, LeaveMoves
      <4>4. Of(seen[w], {"submit_started"}) = Of(Now, {"submit_started"})
        BY <4>1 DEF Working
      <4>5. Count(Now, "submit_started")' = Count(Now, "submit_started") + 1
        BY <4>3, <4>4, SubmissionAppended
      <4>6. submits' = submits
        BY <4>3 DEF StartSubmit, history
      <4> QED
        BY <1>b, <1>n, <4>5, <4>6 DEF Asked
    <3> QED
      BY <3>2, <3>3, <3>4, <3>5, <3>6
  <2>4. pc[w] # "idle" \/ \E e \in SubmitModes : Begin(w, e)
    BY <1>1
    DEF WorkerStep, Step, Reconcile, ReconcileUnknown, ReconcileActive, ReconcileOther,
        ReconcileExhausted, ReconcileRetry, CreateCandidate, ValidationPasses,
        Crash, ValidationRejects, StartSimulation, Simulate, RecordSimulation,
        SimulationBlocks, ReuseCheck, NeedCheck, StartCheck, Abandon, CheckPasses,
        CheckBlocks, MarkReady, StartSubmit, Post, ReplyActive, ReplyPending, ReplyFailed
  <2> QED
    BY <2>1, <2>2, <2>3, <2>4
<1>2. CASE Platform \/ UNCHANGED vars
  <2>1. UNCHANGED <<log, pc, seen, submits, unsettled>>
    BY <1>2
    DEF Platform, PlatformActivates, PlatformReturns, PlatformHolds, vars, locals, history
  <2>2. ASSUME NEW w \in Workers
        PROVE  /\ Of(seen[w], {"submit_started"})' = Of(seen[w], {"submit_started"})
               /\ Of(Now, {"submit_started"})' = Of(Now, {"submit_started"})
    BY <2>1 DEF Of, Now
  <2> QED
    BY <2>1, <2>2, LogUnchanged DEF Working
<1> QED
  BY <1>1, <1>2 DEF Next, WorkerStep

-----------------------------------------------------------------------------
(* The refinement.                                                         *)

LEMMA StepRefines ==
    ASSUME OneWorker, EngineInv, Asked, Working, [Next]_vars
    PROVE  [Contract!Next]_<<Phase, submits>>
<1>0. TypeInv /\ SubmitBudget
  BY BudgetCounts DEF EngineInv
<1>n. submits \in Nat /\ unsettled \in BOOLEAN
  BY TypeInvParts DEF EngineInv, RestOK
<1> DEFINE C == [Contract!Next]_<<Phase, submits>>
<1>q. ASSUME UNCHANGED <<log, submits, unsettled>> PROVE C
  BY <1>q, LogUnchanged DEF Phase
<1>1. ASSUME NEW w \in Workers, WorkerStep(w), pc[w] # "idle" PROVE C
  <2>1. Open /\ ~ActiveRecorded /\ ~Closed
    BY <1>1, OpenPhase DEF Working
  <2>2. Phase = IF unsettled THEN "unsettled" ELSE "open"
    BY <2>1 DEF Phase
  <2>3. CASE Post(w)
    <3>1. /\ pc[w] = "post" /\ UNCHANGED log /\ submits' = submits + 1 /\ unsettled' = TRUE
      BY <2>3 DEF Post
    <3>2. Phase = "open" /\ Phase' = "unsettled"
      BY <2>1, <2>2, <3>1, LogUnchanged DEF Working, Phase
    <3>3. submits < SubmitAttempts
      <4>1. /\ Count(Now, "submit_started") \in Nat /\ submits < Count(Now, "submit_started")
            /\ Count(Now, "submit_started") <= SubmitAttempts
        BY <1>0, <3>1, CountNat DEF Working, SubmitBudget, Now, TypeInv, TypeOK
      <4> QED
        BY <1>n, <4>1, AttemptsPositive
    <3> QED
      BY <3>1, <3>2, <3>3 DEF Contract!Next, Contract!Post, Phase
  <2>4. CASE ~Post(w)
    <3>1. submits' = submits /\ unsettled' \in {unsettled, FALSE}
      BY <1>1, <2>4, Calls
    <3>r. (unsettled' <=> unsettled) \/ ~unsettled'
      BY <3>1, Zenon
    <3>2. CASE UNCHANGED log
      <4>1. Phase' = IF unsettled' THEN "unsettled" ELSE "open"
        BY <2>1, <3>2, LogUnchanged DEF Phase
      <4>2. CASE Phase' = Phase
        BY <3>1, <4>2 DEF Phase
      <4>3. CASE Phase = "unsettled" /\ Phase' = "open"
        BY <3>1, <4>3 DEF Contract!Next, Contract!Reopen, Phase
      <4>4. Phase' = Phase \/ (Phase = "unsettled" /\ Phase' = "open")
        BY <2>2, <3>r, <4>1
      <4> QED
        BY <4>2, <4>3, <4>4
    <3>3. CASE SomeRecord(w)
      <4>1. PICK t \in EventTypes, key \in Keys, kind \in Kinds : Records(w, t, key, kind)
        BY <3>3 DEF SomeRecord
      <4>2. CASE /\ t \in Continuing => Open'
                 /\ t \in ActiveTypes => ActiveRecorded'
                 /\ t \notin ActiveTypes => ~ActiveRecorded'
        <5>1. CASE t \in ActiveTypes
          <6>1. Phase' = "active"
            BY <4>2, <5>1 DEF Phase
          <6>2. submits > 0
            BY <4>1, <5>1 DEF Records, Asked
          <6> QED
            BY <2>2, <3>1, <6>1, <6>2 DEF Contract!Next, Contract!Confirm, Phase
        <5>2. CASE t \notin ActiveTypes
          <6>1. Phase' = IF Closed' THEN "closed" ELSE IF unsettled' THEN "unsettled" ELSE "open"
            BY <4>2, <5>2 DEF Phase
          <6>2. CASE Closed'
            BY <2>2, <3>1, <6>1, <6>2 DEF Contract!Next, Contract!Close, Phase
          <6>3. CASE ~Closed'
            <7>1. CASE Phase' = Phase
              BY <3>1, <7>1 DEF Phase
            <7>2. CASE Phase = "unsettled" /\ Phase' = "open"
              BY <3>1, <7>2 DEF Contract!Next, Contract!Reopen, Phase
            <7>3. Phase' = Phase \/ (Phase = "unsettled" /\ Phase' = "open")
              BY <2>2, <3>r, <6>1, <6>3
            <7> QED
              BY <7>1, <7>2, <7>3
          <6> QED
            BY <6>2, <6>3
        <5> QED
          BY <5>1, <5>2
      <4> QED
        BY <1>0, <2>1, <3>2, <4>1, <4>2, RecordOpen
    <3> QED
      BY <1>0, <1>1, <3>2, <3>3, RecordStep
  <2> QED
    BY <2>3, <2>4
<1>2. ASSUME NEW w \in Workers, WorkerStep(w), pc[w] = "idle" PROVE C
  <2>1. UNCHANGED log
    BY <1>2, RecordStep, <1>0 DEF SomeRecord, Records, Writers, EventTypes
  <2>2. UNCHANGED <<submits, unsettled>>
    BY <1>2, Calls
  <2> QED
    BY <1>q, <2>1, <2>2
<1>3. CASE Platform \/ UNCHANGED vars
  BY <1>3, <1>q DEF Platform, PlatformActivates, PlatformReturns, PlatformHolds, vars, history
<1> QED
  BY <1>1, <1>2, <1>3 DEF Next, WorkerStep

\* One worker implements the submission contract, whatever the platform answers and
\* wherever it crashes: never more submissions than the budget, never one while an earlier
\* is unsettled, never one after the attempt has ended.
THEOREM Promise ==
    ASSUME OneWorker
    PROVE  Spec => SubmitsAsPromised
<1>1. Init => Asked /\ Working
  <2> SUFFICES ASSUME Init PROVE Asked /\ Working
    OBVIOUS
  <2>1. /\ Len(log) = 0 /\ \A w \in Workers : pc[w] = "idle"
        /\ submits = 0 /\ ~unsettled /\ status = "UNSUBMITTED" /\ ~reviewing
    BY DEF Init
  <2>2. Count(Now, "submit_started") \in Nat
    BY <2>1, CountNat DEF Now
  <2> QED
    BY <2>1, <2>2 DEF Asked, Working
<1>2. EngineInv /\ Asked /\ Working /\ [Next]_vars => Asked' /\ Working'
  BY OneWorker, AskedStep, WorkingStep
<1>3. Init => Contract!Init
  <2> SUFFICES ASSUME Init PROVE Phase = "open" /\ submits = 0
    BY DEF Contract!Init, Phase
  <2>1. Len(log) = 0 /\ submits = 0 /\ ~unsettled
    BY DEF Init
  <2>2. Open
    BY <2>1 DEF Open, Of, Now, Occurs, HardBlocked, RefusedSubmission
  <2> QED
    BY <2>1, <2>2, OpenPhase DEF Phase
<1>4. EngineInv /\ Asked /\ Working /\ [Next]_vars
        => [Contract!Next]_<<IF ActiveRecorded THEN "active"
                             ELSE IF Closed THEN "closed"
                             ELSE IF unsettled THEN "unsettled" ELSE "open", submits>>
  BY OneWorker, StepRefines DEF Phase
<1> QED
  BY <1>1, <1>2, <1>3, <1>4, EngineAlways, PTL DEF Spec, SubmitsAsPromised, Contract!Spec
=============================================================================
