------------------------- MODULE WQAgentEngineProofs -------------------------
(***************************************************************************)
(* What holds of ExecutionEngine for any number of workers, any retry      *)
(* budget, any set of check answers and any number of crashes.             *)
(***************************************************************************)
EXTENDS WQAgentEngine, FiniteSetTheorems, TLAPS

-----------------------------------------------------------------------------
(* The log.                                                                *)

\* Appending the event (type, key, kind), unless it is there already.
LEMMA EmitAppends ==
    ASSUME log \in Seq(Event),
           NEW type \in EventTypes, NEW key \in Keys, NEW kind \in Kinds,
           Emit(type, key, kind)
    PROVE  /\ log' \in Seq(Event)
           /\ \/ log' = log /\ Recorded(type, key)
              \/ /\ ~Recorded(type, key)
                 /\ Len(log') = Len(log) + 1
                 /\ \A i \in 1..Len(log) : log'[i] = log[i]
                 /\ log'[Len(log) + 1] = [type |-> type, key |-> key, kind |-> kind]
<1> DEFINE e == [type |-> type, key |-> key, kind |-> kind]
<1>1. e \in Event
  BY DEF Event
<1>2. CASE Recorded(type, key)
  BY <1>2 DEF Emit
<1>3. CASE ~Recorded(type, key)
  <2>1. log' = Append(log, e)
    BY <1>3 DEF Emit
  <2> HIDE DEF e
  <2>2. /\ log' \in Seq(Event) /\ Len(log') = Len(log) + 1
        /\ \A i \in 1..Len(log) : log'[i] = log[i]
        /\ log'[Len(log) + 1] = e
    BY <2>1, <1>1
  <2> QED
    BY <2>2, <1>3 DEF e
<1> QED
  BY <1>2, <1>3

\* What a step may do to the log: nothing, or append one event that is new.
AppendsAtMost ==
    \/ log' = log
    \/ /\ Len(log') = Len(log) + 1
       /\ \A i \in 1..Len(log) :
            /\ log'[i] = log[i]
            /\ ~(/\ log[i].type = log'[Len(log) + 1].type
                 /\ log[i].key = log'[Len(log) + 1].key)

\* The indices of a prefix that hold an event of some types are finitely many.
LEMMA OfFinite ==
    ASSUME NEW n \in Nat, NEW types
    PROVE  IsFiniteSet(Of(n, types)) /\ Cardinality(Of(n, types)) \in Nat
<1>1. IsFiniteSet(1..n)
  BY FS_Interval
<1>2. Of(n, types) \subseteq 1..n
  BY DEF Of
<1> QED
  BY <1>1, <1>2, FS_Subset, FS_CardinalityType

LEMMA CountNat ==
    ASSUME NEW n \in Nat, NEW type
    PROVE  Count(n, type) \in Nat
  BY OfFinite DEF Count

LEMMA KeysKnown ==
    /\ Once \in Keys /\ <<"exhausted", 0>> \in Keys
    /\ \A k \in Nat : Try(k) \in Keys
    /\ \A reply \in Checks : Fingerprint(CheckRecord(reply)) \in Keys
<1>1. \A k \in Nat : Try(k) \in Keys
  BY DEF Try, Keys
<1>2. Once \in Keys /\ <<"exhausted", 0>> \in Keys
  BY DEF Once, Keys
<1>3. \A reply \in Checks : Fingerprint(CheckRecord(reply)) \in Keys
  BY DEF Keys
<1> QED
  BY <1>1, <1>2, <1>3

-----------------------------------------------------------------------------
(* Type correctness.  A worker's prefix is a prefix of the log, and the    *)
(* record of a simulation is one: both are needed to type what it reads.   *)

SeenInLog == \A w \in Workers : seen[w] <= Len(log)

SimulationKinds ==
    \A i \in 1..Len(log) :
        log[i].type = "simulation_succeeded" => log[i].kind \in SimulationRows \cup {"none"}

TypeInv == TypeOK /\ SeenInLog /\ SimulationKinds

LEMMA TypeInit == Init => TypeInv
<1> SUFFICES ASSUME Init PROVE TypeInv
  OBVIOUS
<1>1. log \in Seq(Event) /\ Len(log) = 0
  BY DEF Init
<1>2. TypeOK
  BY <1>1 DEF Init, TypeOK, Steps, Statuses
<1>3. SeenInLog /\ SimulationKinds
  BY <1>1 DEF Init, SeenInLog, SimulationKinds
<1> QED
  BY <1>2, <1>3 DEF TypeInv

\* The log part of TypeInv survives an append of a well-typed event.
LEMMA EmitTypes ==
    ASSUME TypeInv,
           NEW type \in EventTypes, NEW key \in Keys, NEW kind \in Kinds,
           type = "simulation_succeeded" => kind \in SimulationRows \cup {"none"},
           Emit(type, key, kind)
    PROVE  /\ log' \in Seq(Event) /\ SimulationKinds'
           /\ Len(log) <= Len(log')
           /\ AppendsAtMost
<1>1. /\ log' \in Seq(Event)
      /\ \/ log' = log /\ Recorded(type, key)
         \/ /\ ~Recorded(type, key)
            /\ Len(log') = Len(log) + 1
            /\ \A i \in 1..Len(log) : log'[i] = log[i]
            /\ log'[Len(log) + 1] = [type |-> type, key |-> key, kind |-> kind]
  BY EmitAppends DEF TypeInv, TypeOK
<1>2. Len(log) \in Nat
  BY DEF TypeInv, TypeOK
<1>3. CASE log' = log
  BY <1>1, <1>2, <1>3 DEF TypeInv, SimulationKinds, AppendsAtMost
<1>4. CASE /\ ~Recorded(type, key)
           /\ Len(log') = Len(log) + 1
           /\ \A i \in 1..Len(log) : log'[i] = log[i]
           /\ log'[Len(log) + 1] = [type |-> type, key |-> key, kind |-> kind]
  <2>1. AppendsAtMost /\ Len(log) <= Len(log')
    BY <1>4, <1>2 DEF AppendsAtMost, Recorded
  <2>2. ASSUME NEW i \in 1..Len(log'), log'[i].type = "simulation_succeeded"
        PROVE  log'[i].kind \in SimulationRows \cup {"none"}
    <3>1. CASE i \in 1..Len(log)
      BY <3>1, <2>2, <1>4 DEF TypeInv, SimulationKinds
    <3>2. CASE i = Len(log) + 1
      BY <3>2, <2>2, <1>4
    <3> QED
      BY <3>1, <3>2, <1>4, <1>2
  <2> QED
    BY <2>1, <2>2, <1>1 DEF SimulationKinds
<1> QED
  BY <1>1, <1>3, <1>4

\* What a step leaves to show once the log is dealt with.
LocalsOK ==
    /\ pc \in [Workers -> Steps]
    /\ seen \in [Workers -> Nat]
    /\ enabled \in [Workers -> BOOLEAN]
    /\ sim \in [Workers -> SimulationRows \cup {"none"}]
    /\ result \in [Workers -> Statuses]

LEMMA LeaveOK ==
    ASSUME TypeInv, NEW w \in Workers, Leave(w), Len(log') \in Nat, Len(log) <= Len(log'),
           result' \in [Workers -> Statuses]
    PROVE  LocalsOK' /\ SeenInLog'
<1>1. Len(log) \in Nat
  BY DEF TypeInv, TypeOK
<1>2. LocalsOK'
  BY DEF Leave, Goto, LocalsOK, TypeInv, TypeOK, Steps
<1>3. SeenInLog'
  BY <1>1 DEF Leave, SeenInLog, TypeInv, TypeOK
<1> QED
  BY <1>2, <1>3

LEMMA ReturnOK ==
    ASSUME TypeInv, NEW w \in Workers, NEW value \in Statuses, Return(w, value),
           Len(log') \in Nat, Len(log) <= Len(log')
    PROVE  LocalsOK' /\ SeenInLog'
<1>1. result' \in [Workers -> Statuses]
  BY DEF Return, TypeInv, TypeOK
<1> QED
  BY <1>1, LeaveOK DEF Return

LEMMA GotoOK ==
    ASSUME TypeInv, NEW w \in Workers, NEW step \in Steps, Goto(w, step),
           Len(log') \in Nat, Len(log) <= Len(log'),
           UNCHANGED <<seen, enabled, result>>,
           sim' \in [Workers -> SimulationRows \cup {"none"}]
    PROVE  LocalsOK' /\ SeenInLog'
<1>1. Len(log) \in Nat
  BY DEF TypeInv, TypeOK
<1>2. LocalsOK'
  BY DEF Goto, LocalsOK, TypeInv, TypeOK
<1>3. SeenInLog'
  BY <1>1 DEF SeenInLog, TypeInv, TypeOK
<1> QED
  BY <1>2, <1>3

RestOK ==
    /\ status \in {"UNSUBMITTED", "OTHER", "ACTIVE"} /\ reviewing \in BOOLEAN
    /\ submits \in Nat /\ late \in Nat /\ unsettled \in BOOLEAN /\ simulations \in Nat
    /\ crashes \in Nat

LogOK == log \in Seq(Event) /\ SimulationKinds

LEMMA TypeInvParts == TypeInv <=> LogOK /\ LocalsOK /\ SeenInLog /\ RestOK
  BY DEF TypeInv, TypeOK, LogOK, LocalsOK, RestOK

\* The three shapes of a worker's step: an event and the end of the execution, an
\* event and the next step, no event.
LEMMA EmitReturn ==
    ASSUME TypeInv, RestOK', NEW w \in Workers, NEW value \in Statuses, Return(w, value),
           NEW type \in EventTypes, NEW key \in Keys, NEW kind \in Kinds,
           type # "simulation_succeeded", Emit(type, key, kind)
    PROVE  TypeInv' /\ AppendsAtMost
<1>1. /\ log' \in Seq(Event) /\ SimulationKinds' /\ Len(log) <= Len(log')
      /\ AppendsAtMost
  BY EmitTypes
<1>2. LocalsOK' /\ SeenInLog'
  BY <1>1, ReturnOK
<1> QED
  BY <1>1, <1>2, TypeInvParts DEF LogOK, TypeInv, TypeOK, LocalsOK, RestOK

LEMMA EmitGoto ==
    ASSUME TypeInv, RestOK', NEW w \in Workers, NEW step \in Steps, Goto(w, step),
           NEW type \in EventTypes, NEW key \in Keys, NEW kind \in Kinds,
           type = "simulation_succeeded" => kind \in SimulationRows \cup {"none"},
           Emit(type, key, kind), UNCHANGED <<seen, enabled, result>>,
           sim' \in [Workers -> SimulationRows \cup {"none"}]
    PROVE  TypeInv' /\ AppendsAtMost
<1>1. /\ log' \in Seq(Event) /\ SimulationKinds' /\ Len(log) <= Len(log')
      /\ AppendsAtMost
  BY EmitTypes
<1>2. LocalsOK' /\ SeenInLog'
  BY <1>1, GotoOK
<1> QED
  BY <1>1, <1>2, TypeInvParts DEF LogOK, TypeInv, TypeOK, LocalsOK, RestOK

LEMMA QuietStep ==
    ASSUME TypeInv, RestOK', UNCHANGED log, LocalsOK', SeenInLog'
    PROVE  TypeInv' /\ AppendsAtMost
  BY DEF TypeInv, TypeOK, LocalsOK, RestOK, SimulationKinds, AppendsAtMost

\* The row an execution takes over from the log is a simulation row.
LEMMA AfterValidationOK ==
    ASSUME TypeInv, NEW w \in Workers, AfterValidation(w)
    PROVE  /\ sim' \in [Workers -> SimulationRows \cup {"none"}]
           /\ \E step \in {"sim_gate", "sim_start"} : Goto(w, step)
<1>1. CASE Occurs(seen[w], "simulation_succeeded")
  <2>1. PICK i \in 1..seen[w] :
            /\ IsLatest(i, seen[w], {"simulation_succeeded"})
            /\ sim' = [sim EXCEPT ![w] = log[i].kind]
    BY <1>1 DEF AfterValidation
  <2>2. i \in 1..Len(log) /\ log[i].type = "simulation_succeeded"
    BY <2>1 DEF IsLatest, Of, TypeInv, TypeOK, SeenInLog
  <2>3. log[i].kind \in SimulationRows \cup {"none"}
    BY <2>2 DEF TypeInv, SimulationKinds
  <2> QED
    BY <1>1, <2>1, <2>3 DEF AfterValidation, TypeInv, TypeOK
<1>2. CASE ~Occurs(seen[w], "simulation_succeeded")
  BY <1>2 DEF AfterValidation, TypeInv, TypeOK
<1> QED
  BY <1>1, <1>2

LEMMA TryKeys == ASSUME TypeInv, NEW w \in Workers
                 PROVE  Try(ThisCheck(w)) \in Keys /\ Try(ThisSubmit(w)) \in Keys
<1>1. seen[w] \in Nat
  BY DEF TypeInv, TypeOK
<1>2. ThisCheck(w) \in Nat /\ ThisSubmit(w) \in Nat
  BY <1>1, CountNat DEF ThisCheck, ThisSubmit
<1> QED
  BY <1>2, KeysKnown

LEMMA TypeStep ==
    ASSUME TypeInv, [Next]_vars
    PROVE  TypeInv' /\ AppendsAtMost
<1>1. ASSUME NEW w \in Workers, ReconcileActive(w) PROVE TypeInv' /\ AppendsAtMost
  <2>1. RestOK'
    BY <1>1, TypeInvParts DEF ReconcileActive, RestOK, platform, history
  <2> QED
    BY <1>1, <2>1, KeysKnown, EmitReturn DEF ReconcileActive, EventTypes, Kinds, Statuses
<1>2. ASSUME NEW w \in Workers, ReconcileOther(w) PROVE TypeInv' /\ AppendsAtMost
  <2>1. RestOK'
    BY <1>2, TypeInvParts DEF ReconcileOther, RestOK, platform, history
  <2> QED
    BY <1>2, <2>1, KeysKnown, EmitReturn DEF ReconcileOther, EventTypes, Kinds, Statuses
<1>3. ASSUME NEW w \in Workers, ValidationRejects(w) PROVE TypeInv' /\ AppendsAtMost
  <2>1. RestOK'
    BY <1>3, TypeInvParts DEF ValidationRejects, RestOK, platform, history
  <2> QED
    BY <1>3, <2>1, KeysKnown, EmitReturn DEF ValidationRejects, EventTypes, Kinds, Statuses
<1>4. ASSUME NEW w \in Workers, SimulationBlocks(w) PROVE TypeInv' /\ AppendsAtMost
  <2>1. RestOK'
    BY <1>4, TypeInvParts DEF SimulationBlocks, RestOK, platform, history
  <2> QED
    BY <1>4, <2>1, KeysKnown, EmitReturn DEF SimulationBlocks, EventTypes, Kinds, Statuses
<1>5. ASSUME NEW w \in Workers, MarkReady(w) PROVE TypeInv' /\ AppendsAtMost
  <2>1. RestOK'
    BY <1>5, TypeInvParts DEF MarkReady, RestOK, platform, history
  <2> QED
    BY <1>5, <2>1, KeysKnown, EmitReturn DEF MarkReady, EventTypes, Kinds, Statuses
<1>6. ASSUME NEW w \in Workers, StartSimulation(w) PROVE TypeInv' /\ AppendsAtMost
  <2>1. RestOK'
    BY <1>6, TypeInvParts DEF StartSimulation, RestOK, platform, history
  <2>2. sim' \in [Workers -> SimulationRows \cup {"none"}]
    BY <1>6 DEF StartSimulation, TypeInv, TypeOK
  <2> QED
    BY <1>6, <2>1, <2>2, KeysKnown, EmitGoto DEF StartSimulation, EventTypes, Kinds, Steps
<1>7. ASSUME NEW w \in Workers, ReplyActive(w) PROVE TypeInv' /\ AppendsAtMost
  <2>1. RestOK'
    BY <1>7, TypeInvParts DEF ReplyActive, RestOK, platform, history
  <2> QED
    BY <1>7, <2>1, TryKeys, EmitReturn DEF ReplyActive, EventTypes, Kinds, Statuses
<1>8. ASSUME NEW w \in Workers, ReplyPending(w) PROVE TypeInv' /\ AppendsAtMost
  <2>1. RestOK'
    BY <1>8, TypeInvParts DEF ReplyPending, RestOK, platform, history
  <2> QED
    BY <1>8, <2>1, TryKeys, EmitReturn DEF ReplyPending, EventTypes, Kinds, Statuses
<1>9. ASSUME NEW w \in Workers, ReplyFailed(w) PROVE TypeInv' /\ AppendsAtMost
  <2>1. RestOK'
    BY <1>9, TypeInvParts DEF ReplyFailed, RestOK, platform, history
  <2> QED
    BY <1>9, <2>1, TryKeys, EmitReturn DEF ReplyFailed, EventTypes, Kinds, Statuses
<1>10. ASSUME NEW w \in Workers, StartCheck(w) PROVE TypeInv' /\ AppendsAtMost
  <2>1. RestOK'
    BY <1>10, TypeInvParts DEF StartCheck, RestOK, platform, history
  <2>2. sim' \in [Workers -> SimulationRows \cup {"none"}]
    BY <1>10 DEF StartCheck, TypeInv, TypeOK
  <2> QED
    BY <1>10, <2>1, <2>2, TryKeys, EmitGoto DEF StartCheck, EventTypes, Kinds, Steps
<1>11. ASSUME NEW w \in Workers, StartSubmit(w) PROVE TypeInv' /\ AppendsAtMost
  <2>1. RestOK'
    BY <1>11, TypeInvParts DEF StartSubmit, RestOK, platform, history
  <2>2. sim' \in [Workers -> SimulationRows \cup {"none"}]
    BY <1>11 DEF StartSubmit, TypeInv, TypeOK
  <2> QED
    BY <1>11, <2>1, <2>2, TryKeys, EmitGoto DEF StartSubmit, EventTypes, Kinds, Steps
<1>12. ASSUME NEW w \in Workers, ReconcileExhausted(w) PROVE TypeInv' /\ AppendsAtMost
  <2>1. RestOK'
    BY <1>12, TypeInvParts DEF ReconcileExhausted, RestOK, platform
  <2>2. PICK i \in 1..seen[w] : Emit("submit_failed", <<"exhausted", 0>>, log[i].kind)
    BY <1>12 DEF ReconcileExhausted
  <2>3. i \in 1..Len(log)
    BY <2>2 DEF TypeInv, TypeOK, SeenInLog
  <2>4. log[i] \in Event
    BY <2>3 DEF TypeInv, TypeOK
  <2>5. log[i].kind \in Kinds
    BY <2>4 DEF Event
  <2> QED
    BY <1>12, <2>1, <2>2, <2>5, KeysKnown, EmitReturn
    DEF ReconcileExhausted, EventTypes, Statuses
<1>13. ASSUME NEW w \in Workers, CreateCandidate(w) PROVE TypeInv' /\ AppendsAtMost
  <2>1. RestOK'
    BY <1>13, TypeInvParts DEF CreateCandidate, RestOK, platform, history
  <2>2. /\ sim' \in [Workers -> SimulationRows \cup {"none"}]
        /\ \E step \in {"sim_gate", "sim_start", "validate"} : Goto(w, step)
    BY <1>13, AfterValidationOK DEF CreateCandidate, TypeInv, TypeOK
  <2>3. PICK step \in Steps : Goto(w, step)
    BY <2>2 DEF Steps
  <2> QED
    BY <1>13, <2>1, <2>2, <2>3, KeysKnown, EmitGoto DEF CreateCandidate, EventTypes, Kinds
<1>14. ASSUME NEW w \in Workers, ValidationPasses(w) PROVE TypeInv' /\ AppendsAtMost
  <2>1. RestOK'
    BY <1>14, TypeInvParts DEF ValidationPasses, RestOK, platform, history
  <2>2. /\ sim' \in [Workers -> SimulationRows \cup {"none"}]
        /\ \E step \in {"sim_gate", "sim_start"} : Goto(w, step)
    BY <1>14, AfterValidationOK DEF ValidationPasses
  <2>3. PICK step \in Steps : Goto(w, step)
    BY <2>2 DEF Steps
  <2> QED
    BY <1>14, <2>1, <2>2, <2>3, KeysKnown, EmitGoto DEF ValidationPasses, EventTypes, Kinds
<1>15. ASSUME NEW w \in Workers, RecordSimulation(w) PROVE TypeInv' /\ AppendsAtMost
  <2>1. RestOK'
    BY <1>15, TypeInvParts DEF RecordSimulation, RestOK, platform, history
  <2>2. sim[w] \in SimulationRows \cup {"none"} /\ sim[w] \in Kinds
    BY DEF TypeInv, TypeOK, Kinds
  <2>3. CASE sim[w] = "failed"
    BY <1>15, <2>1, <2>3, KeysKnown, EmitReturn
    DEF RecordSimulation, EventTypes, Kinds, Statuses
  <2>4. CASE sim[w] # "failed"
    <3>1. sim' \in [Workers -> SimulationRows \cup {"none"}]
      BY <1>15, <2>4 DEF RecordSimulation, TypeInv, TypeOK
    <3> QED
      BY <1>15, <2>1, <2>2, <2>4, <3>1, KeysKnown, EmitGoto
      DEF RecordSimulation, EventTypes, Steps
  <2> QED
    BY <2>3, <2>4
<1>16. ASSUME NEW w \in Workers, CheckPasses(w) PROVE TypeInv' /\ AppendsAtMost
  <2>1. RestOK'
    BY <1>16, TypeInvParts DEF CheckPasses, RestOK, platform, history
  <2>2. sim' \in [Workers -> SimulationRows \cup {"none"}]
    BY <1>16 DEF CheckPasses, TypeInv, TypeOK
  <2>3. PICK reply \in Checks :
            Emit("check_succeeded", Fingerprint(CheckRecord(reply)), "none")
    BY <1>16 DEF CheckPasses
  <2> QED
    BY <1>16, <2>1, <2>2, <2>3, KeysKnown, EmitGoto DEF CheckPasses, EventTypes, Kinds, Steps
<1>17. ASSUME NEW w \in Workers, CheckBlocks(w) PROVE TypeInv' /\ AppendsAtMost
  <2>1. RestOK'
    BY <1>17, TypeInvParts DEF CheckBlocks, RestOK, platform, history
  <2>2. PICK reply \in Checks :
            LET row == CheckRecord(reply) IN
            /\ Emit("check_blocked", Fingerprint(row), StoredFailureKind(row))
            /\ Return(w, RefusedStatus(row))
    BY <1>17 DEF CheckBlocks
  <2>3. /\ StoredFailureKind(CheckRecord(reply)) \in Kinds
        /\ RefusedStatus(CheckRecord(reply)) \in Statuses
    BY DEF Kinds, RefusedStatus, Statuses
  <2> QED
    BY <2>1, <2>2, <2>3, KeysKnown, EmitReturn DEF EventTypes
<1>18. ASSUME NEW w \in Workers, NEW e \in BOOLEAN, Begin(w, e)
       PROVE  TypeInv' /\ AppendsAtMost
  <2>1. RestOK' /\ UNCHANGED log
    BY <1>18, TypeInvParts DEF Begin, RestOK, platform, history
  <2>2. Len(log) \in Nat
    BY DEF TypeInv, TypeOK
  <2>3. CASE Resume(Len(log), e) \in {"reconcile", "run"}
    <3> DEFINE step == IF Resume(Len(log), e) = "run" THEN "create" ELSE "reconcile"
    <3>3. /\ Goto(w, step) /\ step \in Steps
          /\ seen' = [seen EXCEPT ![w] = Len(log)]
          /\ enabled' = [enabled EXCEPT ![w] = e]
          /\ UNCHANGED <<sim, result>>
      BY <1>18, <2>3 DEF Begin, Steps
    <3> HIDE DEF step
    <3>1. LocalsOK'
      BY <2>2, <3>3 DEF Goto, LocalsOK, TypeInv, TypeOK
    <3>2. SeenInLog'
      BY <2>1, <2>2, <3>3 DEF SeenInLog, TypeInv, TypeOK
    <3> QED
      BY <2>1, <3>1, <3>2, QuietStep
  <2>4. CASE Resume(Len(log), e) \notin {"reconcile", "run"}
    <3>1. Resume(Len(log), e) \in Statuses
      BY <2>4 DEF Resume, Statuses
    <3>2. Return(w, Resume(Len(log), e))
      BY <1>18, <2>4 DEF Begin
    <3> QED
      BY <2>1, <2>2, <3>1, <3>2, ReturnOK, QuietStep
  <2> QED
    BY <2>3, <2>4
<1>19. ASSUME NEW w \in Workers, ReconcileUnknown(w) PROVE TypeInv' /\ AppendsAtMost
  <2>1. RestOK' /\ UNCHANGED log /\ Len(log) \in Nat
    BY <1>19, TypeInvParts DEF ReconcileUnknown, RestOK, platform, history, TypeInv, TypeOK
  <2> QED
    BY <1>19, <2>1, ReturnOK, QuietStep DEF ReconcileUnknown, Statuses
<1>20. ASSUME NEW w \in Workers, Abandon(w) \/ Crash(w) PROVE TypeInv' /\ AppendsAtMost
  <2>1. RestOK' /\ UNCHANGED log /\ Len(log) \in Nat
    BY <1>20, TypeInvParts DEF Abandon, Crash, RestOK, platform, history, TypeInv, TypeOK
  <2>2. Leave(w) /\ result' \in [Workers -> Statuses]
    BY <1>20 DEF Abandon, Crash, TypeInv, TypeOK
  <2> QED
    BY <2>1, <2>2, LeaveOK, QuietStep
<1>21. ASSUME NEW w \in Workers,
              ReconcileRetry(w) \/ Simulate(w) \/ ReuseCheck(w) \/ NeedCheck(w) \/ Post(w)
       PROVE  TypeInv' /\ AppendsAtMost
  <2>1. UNCHANGED <<log, seen, enabled, result>>
    BY <1>21 DEF ReconcileRetry, Simulate, ReuseCheck, NeedCheck, Post
  <2>2. Len(log) \in Nat /\ Len(log') = Len(log)
    BY <2>1 DEF TypeInv, TypeOK
  <2>3. RestOK'
    <3>1. CASE ReuseCheck(w) \/ NeedCheck(w)
      BY <3>1, TypeInvParts DEF ReuseCheck, NeedCheck, RestOK, platform, history
    <3>2. CASE ReconcileRetry(w)
      BY <3>2, TypeInvParts DEF ReconcileRetry, RestOK, platform
    <3>3. CASE Simulate(w)
      BY <3>3, TypeInvParts DEF Simulate, RestOK, platform
    <3>4. CASE Post(w)
      <4>1. reviewing' \in BOOLEAN
        BY <3>4, TypeInvParts DEF Post, RestOK
      <4>2. /\ submits' \in Nat /\ late' \in Nat /\ unsettled' \in BOOLEAN /\ simulations' \in Nat
            /\ crashes' \in Nat /\ status' = status
        BY <3>4, TypeInvParts DEF Post, RestOK
      <4> QED
        BY <4>1, <4>2, TypeInvParts DEF RestOK
    <3> QED
      BY <1>21, <3>1, <3>2, <3>3, <3>4
  <2>4. sim' \in [Workers -> SimulationRows \cup {"none"}]
    BY <1>21 DEF ReconcileRetry, Simulate, ReuseCheck, NeedCheck, Post, TypeInv, TypeOK
  <2>5. PICK step \in Steps : Goto(w, step)
    BY <1>21 DEF ReconcileRetry, Simulate, ReuseCheck, NeedCheck, Post, Steps
  <2>6. LocalsOK' /\ SeenInLog'
    BY <2>1, <2>2, <2>4, <2>5, GotoOK
  <2> QED
    BY <2>1, <2>3, <2>6, QuietStep
<1>22. CASE Platform \/ UNCHANGED vars
  <2>1. UNCHANGED <<log, locals>>
    BY <1>22 DEF Platform, PlatformActivates, PlatformReturns, PlatformHolds, vars
  <2>2. RestOK'
    BY <1>22, TypeInvParts
    DEF Platform, PlatformActivates, PlatformReturns, PlatformHolds, vars, RestOK,
        platform, history
  <2>3. LocalsOK' /\ SeenInLog'
    BY <2>1 DEF TypeInv, TypeOK, SeenInLog, LocalsOK, locals
  <2> QED
    BY <2>1, <2>2, <2>3, QuietStep
<1> QED
  BY <1>1, <1>2, <1>3, <1>4, <1>5, <1>6, <1>7, <1>8, <1>9, <1>10, <1>11, <1>12, <1>13,
     <1>14, <1>15, <1>16, <1>17, <1>18, <1>19, <1>20, <1>21, <1>22, ModesAssumption
  DEF Next, Step, Reconcile

\* The variables of the specification keep their types: in particular every
\* event an execution appends is one the log can hold, every status it returns
\* is one of ExecutionResult's.
THEOREM TypeCorrect == Spec => []TypeOK
<1>1. Init => TypeInv
  BY TypeInit
<1>2. TypeInv /\ [Next]_vars => TypeInv'
  BY TypeStep
<1>3. TypeInv => TypeOK
  BY DEF TypeInv
<1> QED
  BY <1>1, <1>2, <1>3, PTL DEF Spec

-----------------------------------------------------------------------------
(* What an execution records, and when; ACTIVE only when it is true.       *)

\* Some event of these types is recorded.
Holds(types) == \E i \in 1..Len(log) : log[i].type \in types

LEMMA EmitHolds ==
    ASSUME TypeInv, NEW types,
           NEW type \in EventTypes, NEW key \in Keys, NEW kind \in Kinds,
           Emit(type, key, kind)
    PROVE  Holds(types)' <=> Holds(types) \/ type \in types
<1>1. /\ log' \in Seq(Event) /\ Len(log) \in Nat
      /\ \/ log' = log /\ Recorded(type, key)
         \/ /\ Len(log') = Len(log) + 1
            /\ \A i \in 1..Len(log) : log'[i] = log[i]
            /\ log'[Len(log) + 1] = [type |-> type, key |-> key, kind |-> kind]
  BY EmitAppends DEF TypeInv, TypeOK
<1>2. CASE log' = log /\ Recorded(type, key)
  BY <1>2 DEF Holds, Recorded
<1>3. CASE /\ Len(log') = Len(log) + 1
           /\ \A i \in 1..Len(log) : log'[i] = log[i]
           /\ log'[Len(log) + 1] = [type |-> type, key |-> key, kind |-> kind]
  <2>1. \A i \in 1..Len(log') : i \in 1..Len(log) \/ i = Len(log) + 1
    BY <1>1, <1>3
  <2>2. log'[Len(log) + 1].type = type /\ Len(log) + 1 \in 1..Len(log')
    BY <1>1, <1>3
  <2>3. 1..Len(log) \subseteq 1..Len(log')
    BY <1>1, <1>3
  <2> QED
    BY <1>3, <2>1, <2>2, <2>3 DEF Holds
<1> QED
  BY <1>1, <1>2, <1>3

\* Where a worker stands when it records an event of some type.
Writers(type) ==
    CASE type = "candidate_created" -> {"create"}
      [] type \in {"validation_passed", "validation_rejected"} -> {"validate"}
      [] type = "simulation_started" -> {"sim_start"}
      [] type \in {"simulation_succeeded", "simulation_failed"} -> {"sim_record"}
      [] type = "check_started" -> {"check_start"}
      [] type = "check_succeeded" -> {"check"}
      [] type = "check_blocked" -> {"sim_gate", "check"}
      [] type \in {"ready", "submit_started"} -> {"passed"}
      [] type = "submit_succeeded" -> {"reply"}
      [] type = "active_confirmed" -> {"reconcile"}
      [] type \in {"submit_failed", "submission_pending"} -> {"reconcile", "reply"}

\* The events after which an execution goes on, or returns with the attempt still open.
Continuing ==
    {"candidate_created", "validation_passed", "simulation_started", "simulation_succeeded",
     "check_started", "check_succeeded", "ready", "submit_started", "submission_pending"}

\* Worker w records such an event: the one way its log grows.
Records(w, type, key, kind) ==
    /\ Emit(type, key, kind)
    /\ pc[w] \in Writers(type)
    /\ type = "submit_started" => key = Try(ThisSubmit(w))
    /\ type = "check_started" => key = Try(ThisCheck(w))
    /\ type \in ActiveTypes => status = "ACTIVE"
    /\ type \in Continuing \/ Leave(w)
    /\ UNCHANGED platform

SomeRecord(w) ==
    \E type \in EventTypes, key \in Keys, kind \in Kinds : Records(w, type, key, kind)

WorkerStep(w) == Step(w) \/ Crash(w) \/ \E e \in SubmitModes : Begin(w, e)

LEMMA RecordStep ==
    ASSUME TypeInv, NEW w \in Workers, WorkerStep(w)
    PROVE  (UNCHANGED log /\ UNCHANGED status /\ (Post(w) \/ UNCHANGED platform)) \/ SomeRecord(w)
<1> USE DEF Records, SomeRecord, Continuing, Return
<1>1. CASE ReconcileUnknown(w) \/ ReconcileRetry(w) \/ Simulate(w) \/ ReuseCheck(w)
           \/ NeedCheck(w) \/ Abandon(w) \/ Post(w) \/ Crash(w)
           \/ \E e \in SubmitModes : Begin(w, e)
  BY <1>1 DEF ReconcileUnknown, ReconcileRetry, Simulate, ReuseCheck, NeedCheck, Abandon,
              Post, Crash, Begin, platform
<1>2. CASE ReconcileActive(w)
  BY <1>2, KeysKnown DEF ReconcileActive, EventTypes, Kinds, Writers, ActiveTypes
<1>3. CASE ReconcileOther(w)
  BY <1>3, KeysKnown DEF ReconcileOther, EventTypes, Kinds, Writers, ActiveTypes
<1>4. CASE ReconcileExhausted(w)
  <2>1. PICK i \in 1..seen[w] : Emit("submit_failed", <<"exhausted", 0>>, log[i].kind)
    BY <1>4 DEF ReconcileExhausted
  <2>2. i \in 1..Len(log)
    BY <2>1 DEF TypeInv, TypeOK, SeenInLog
  <2>3. log[i] \in Event
    BY <2>2 DEF TypeInv, TypeOK
  <2>4. log[i].kind \in Kinds
    BY <2>3 DEF Event
  <2> QED
    BY <1>4, <2>1, <2>4, KeysKnown DEF ReconcileExhausted, EventTypes, Writers, ActiveTypes
<1>5. CASE CreateCandidate(w) \/ ValidationPasses(w) \/ ValidationRejects(w)
           \/ StartSimulation(w)
  BY <1>5, KeysKnown
  DEF CreateCandidate, ValidationPasses, ValidationRejects, StartSimulation, EventTypes,
      Kinds, Writers, ActiveTypes
<1>6. CASE RecordSimulation(w)
  <2>1. sim[w] \in Kinds
    BY DEF TypeInv, TypeOK, Kinds
  <2> QED
    BY <1>6, <2>1, KeysKnown DEF RecordSimulation, EventTypes, Kinds, Writers, ActiveTypes
<1>7. CASE SimulationBlocks(w) \/ MarkReady(w)
  BY <1>7, KeysKnown
  DEF SimulationBlocks, MarkReady, EventTypes, Kinds, Writers, ActiveTypes
<1>8. CASE StartCheck(w) \/ StartSubmit(w)
  BY <1>8, TryKeys DEF StartCheck, StartSubmit, EventTypes, Kinds, Writers, ActiveTypes
<1>9. CASE CheckPasses(w)
  <2>1. PICK reply \in Checks :
            Emit("check_succeeded", Fingerprint(CheckRecord(reply)), "none")
    BY <1>9 DEF CheckPasses
  <2> QED
    BY <1>9, <2>1, KeysKnown DEF CheckPasses, EventTypes, Kinds, Writers, ActiveTypes
<1>10. CASE CheckBlocks(w)
  <2>1. PICK reply \in Checks :
            Emit("check_blocked", Fingerprint(CheckRecord(reply)),
                 StoredFailureKind(CheckRecord(reply)))
    BY <1>10 DEF CheckBlocks
  <2>2. StoredFailureKind(CheckRecord(reply)) \in Kinds
    BY DEF Kinds
  <2> QED
    BY <1>10, <2>1, <2>2, KeysKnown DEF CheckBlocks, EventTypes, Writers, ActiveTypes
<1>11. CASE ReplyActive(w) \/ ReplyPending(w) \/ ReplyFailed(w)
  BY <1>11, TryKeys
  DEF ReplyActive, ReplyPending, ReplyFailed, EventTypes, Kinds, Writers, ActiveTypes
<1> QED
  BY <1>1, <1>2, <1>3, <1>4, <1>5, <1>6, <1>7, <1>8, <1>9, <1>10, <1>11
  DEF WorkerStep, Step, Reconcile

\* An ACTIVE alpha is in no review, so nothing takes the status back.
TruthInv == (status = "ACTIVE" => ~reviewing) /\ (Holds(ActiveTypes) => status = "ACTIVE")

LEMMA TruthStep ==
    ASSUME TypeInv, TruthInv, [Next]_vars
    PROVE  TruthInv'
<1> USE DEF TruthInv
<1>1. CASE Platform
  BY <1>1 DEF Platform, PlatformActivates, PlatformReturns, PlatformHolds, Holds, TypeInv, TypeOK
<1>2. ASSUME NEW w \in Workers, WorkerStep(w) PROVE TruthInv'
  <2>1. CASE UNCHANGED log /\ UNCHANGED status /\ (Post(w) \/ UNCHANGED platform)
    BY <2>1 DEF Post, Holds, platform
  <2>2. CASE SomeRecord(w)
    <3>1. PICK type \in EventTypes, key \in Keys, kind \in Kinds : Records(w, type, key, kind)
      BY <2>2 DEF SomeRecord
    <3> QED
      BY <3>1, EmitHolds DEF Records, platform
  <2> QED
    BY <1>2, <2>1, <2>2, RecordStep
<1>3. CASE UNCHANGED vars
  BY <1>3 DEF vars, platform, Holds
<1> QED
  BY <1>1, <1>2, <1>3 DEF Next, WorkerStep

LEMMA TruthInit == Init => TruthInv
  BY DEF Init, TruthInv, Holds

-----------------------------------------------------------------------------
(* The log is one lifecycle.                                               *)

\* What is recorded for a worker to stand at a step, whoever recorded it.
Needs(step) ==
    CASE step \in {"reconcile", "post", "reply"} -> {"submit_started"}
      [] step = "validate" -> {"candidate_created"}
      [] step = "sim_start" -> {"validation_passed"}
      [] step \in {"simulate", "sim_record"} -> {"simulation_started"}
      [] step \in {"sim_gate", "check_start"} -> {"simulation_succeeded"}
      [] step = "check" -> {"simulation_succeeded", "check_started"}
      [] step = "passed" -> {"check_succeeded"}
      [] OTHER -> {}

Progress == \A w \in Workers : \A type \in Needs(pc[w]) : Holds({type})

CausalInv == CausalOrder /\ Progress

LEMMA HoldsStays ==
    ASSUME TypeInv, AppendsAtMost, NEW types, Holds(types)
    PROVE  Holds(types)'
<1>1. Len(log) \in Nat
  BY DEF TypeInv, TypeOK
<1> QED
  BY <1>1 DEF AppendsAtMost, Holds

\* What a worker read when it began is recorded.
LEMMA SeenHolds ==
    ASSUME TypeInv, NEW w \in Workers, NEW types, Of(seen[w], types) # {}
    PROVE  Holds(types)
  BY DEF TypeInv, TypeOK, SeenInLog, Of, Holds

LEMMA NeededToRecord ==
    ASSUME Progress, NEW w \in Workers, NEW type \in EventTypes, pc[w] \in Writers(type)
    PROVE  type # "candidate_created" => Holds({Prerequisite(type)})
<1>1. ASSUME type # "candidate_created" PROVE Prerequisite(type) \in Needs(pc[w])
  <2>1. CASE type = "validation_passed"
    BY <1>1, <2>1 DEF Writers, Prerequisite, Needs, ActiveTypes
  <2>2. CASE type = "validation_rejected"
    BY <1>1, <2>2 DEF Writers, Prerequisite, Needs, ActiveTypes
  <2>3. CASE type = "simulation_started"
    BY <1>1, <2>3 DEF Writers, Prerequisite, Needs, ActiveTypes
  <2>4. CASE type = "simulation_succeeded"
    BY <1>1, <2>4 DEF Writers, Prerequisite, Needs, ActiveTypes
  <2>5. CASE type = "simulation_failed"
    BY <1>1, <2>5 DEF Writers, Prerequisite, Needs, ActiveTypes
  <2>6. CASE type = "check_started"
    BY <1>1, <2>6 DEF Writers, Prerequisite, Needs, ActiveTypes
  <2>7. CASE type = "check_blocked"
    BY <1>1, <2>7 DEF Writers, Prerequisite, Needs, ActiveTypes
  <2>8. CASE type = "check_succeeded"
    BY <1>1, <2>8 DEF Writers, Prerequisite, Needs, ActiveTypes
  <2>9. CASE type = "ready"
    BY <1>1, <2>9 DEF Writers, Prerequisite, Needs, ActiveTypes
  <2>10. CASE type = "submit_started"
    BY <1>1, <2>10 DEF Writers, Prerequisite, Needs, ActiveTypes
  <2>11. CASE type = "submit_succeeded"
    BY <1>1, <2>11 DEF Writers, Prerequisite, Needs, ActiveTypes
  <2>12. CASE type = "active_confirmed"
    BY <1>1, <2>12 DEF Writers, Prerequisite, Needs, ActiveTypes
  <2>13. CASE type = "submit_failed"
    BY <1>1, <2>13 DEF Writers, Prerequisite, Needs, ActiveTypes
  <2>14. CASE type = "submission_pending"
    BY <1>1, <2>14 DEF Writers, Prerequisite, Needs, ActiveTypes
  <2> QED
    BY <1>1, <2>1, <2>2, <2>3, <2>4, <2>5, <2>6, <2>7, <2>8, <2>9, <2>10, <2>11, <2>12, <2>13, <2>14 DEF EventTypes
<1> QED
  BY <1>1 DEF Progress

LEMMA CausalStep ==
    ASSUME TypeInv, CausalInv, [Next]_vars
    PROVE  CausalOrder'
<1>1. CASE UNCHANGED log
  BY <1>1 DEF CausalInv, CausalOrder, Now, Occurs, Of
<1>2. ASSUME NEW w \in Workers, SomeRecord(w) PROVE CausalOrder'
  <2>1. PICK type \in EventTypes, key \in Keys, kind \in Kinds : Records(w, type, key, kind)
    BY <1>2 DEF SomeRecord
  <2>2. type # "candidate_created" => Holds({Prerequisite(type)})
    BY <2>1, NeededToRecord DEF Records, CausalInv
  <2>3. Len(log) \in Nat
    BY DEF TypeInv, TypeOK
  <2>4. CASE /\ Len(log') = Len(log) + 1
             /\ \A i \in 1..Len(log) : log'[i] = log[i]
             /\ log'[Len(log) + 1].type = type
    <3>1. ASSUME NEW i \in 1..Len(log'), log'[i].type # "candidate_created"
          PROVE  Occurs(i - 1, Prerequisite(log[i].type))'
      <4>1. CASE i \in 1..Len(log)
        <5>1. Occurs(i - 1, Prerequisite(log[i].type))
          BY <2>4, <3>1, <4>1 DEF CausalInv, CausalOrder, Now
        <5> QED
          BY <2>3, <2>4, <4>1, <5>1 DEF Occurs, Of
      <4>2. CASE i = Len(log) + 1
        BY <2>2, <2>3, <2>4, <3>1, <4>2 DEF Holds, Occurs, Of
      <4> QED
        BY <2>3, <2>4, <4>1, <4>2
    <3> QED
      BY <3>1 DEF CausalOrder, Now
  <2>5. log \in Seq(Event) /\ Emit(type, key, kind)
    BY <2>1 DEF Records, TypeInv, TypeOK
  <2>6. \/ log' = log
        \/ /\ Len(log') = Len(log) + 1
           /\ \A i \in 1..Len(log) : log'[i] = log[i]
           /\ log'[Len(log) + 1] = [type |-> type, key |-> key, kind |-> kind]
    BY <2>5, EmitAppends
  <2> QED
    BY <1>1, <2>4, <2>6
<1>3. CASE Platform \/ UNCHANGED vars
  BY <1>1, <1>3 DEF Platform, PlatformActivates, PlatformReturns, PlatformHolds, vars
<1> QED
  BY <1>1, <1>2, <1>3, RecordStep DEF Next, WorkerStep

\* Where an execution goes after the validation, what it needs there is recorded.
LEMMA AfterValidationNeeds ==
    ASSUME TypeInv, NEW w \in Workers, AfterValidation(w), Holds({"validation_passed"})'
    PROVE  \E step \in {"sim_gate", "sim_start"} :
               /\ Goto(w, step)
               /\ step = "sim_gate" => Holds({"simulation_succeeded"})
  BY SeenHolds DEF AfterValidation, Occurs

LEMMA GotoProgress ==
    ASSUME TypeInv, Progress, AppendsAtMost, NEW w \in Workers, NEW step \in Steps,
           Goto(w, step), \A type \in Needs(step) : Holds({type})'
    PROVE  Progress'
<1> SUFFICES ASSUME NEW v \in Workers, NEW type \in Needs(pc'[v]) PROVE Holds({type})'
  BY DEF Progress
<1>1. CASE v = w
  BY <1>1 DEF Goto, TypeInv, TypeOK
<1>2. CASE v # w
  BY <1>2, HoldsStays DEF Goto, TypeInv, TypeOK, Progress
<1> QED
  BY <1>1, <1>2

LEMMA LeaveProgress ==
    ASSUME TypeInv, Progress, AppendsAtMost, NEW w \in Workers, Leave(w)
    PROVE  Progress'
  BY GotoProgress DEF Leave, Steps, Needs

LEMMA ProgressStep ==
    ASSUME TypeInv, CausalInv, [Next]_vars
    PROVE  Progress'
<1> USE DEF CausalInv
<1>a. AppendsAtMost
  BY TypeStep
<1>1. ASSUME NEW w \in Workers, Leave(w) PROVE Progress'
  BY <1>1, <1>a, LeaveProgress
<1>2. ASSUME NEW w \in Workers, NEW e \in SubmitModes, Begin(w, e) PROVE Progress'
  <2>1. CASE Resume(Len(log), e) = "reconcile"
    <3>1. Holds(SubmitTypes)
      BY <2>1 DEF Resume, Submitted, Of, Holds
    <3>2. PICK i \in 1..Len(log) : log[i].type \in SubmitTypes
      BY <3>1 DEF Holds
    <3>3. log[i].type = "submit_started" \/ Prerequisite(log[i].type) = "submit_started"
      BY <3>2 DEF SubmitTypes, Prerequisite, ActiveTypes
    <3>4. Holds({"submit_started"})
      <4>1. CASE log[i].type = "submit_started"
        BY <4>1 DEF Holds
      <4>2. CASE log[i].type # "submit_started"
        <5>1. Occurs(i - 1, "submit_started")
          BY <3>2, <3>3, <4>2 DEF CausalOrder, Now, SubmitTypes
        <5> QED
          BY <3>2, <5>1 DEF Occurs, Of, Holds, TypeInv, TypeOK
      <4> QED
        BY <4>1, <4>2
    <3>5. Goto(w, "reconcile")
      BY <1>2, <2>1 DEF Begin
    <3>6. \A type \in Needs("reconcile") : Holds({type})'
      BY <1>a, <3>4, HoldsStays DEF Needs
    <3> QED
      BY <1>a, <3>5, <3>6, GotoProgress DEF Steps
  <2>2. CASE Resume(Len(log), e) = "run"
    <3>1. Goto(w, "create")
      BY <1>2, <2>2 DEF Begin
    <3> QED
      BY <1>a, <3>1, GotoProgress DEF Steps, Needs
  <2>3. CASE Resume(Len(log), e) \notin {"reconcile", "run"}
    BY <1>1, <1>2, <2>3 DEF Begin, Return
  <2> QED
    BY <2>1, <2>2, <2>3
<1>3. ASSUME NEW w \in Workers, ReconcileRetry(w) PROVE Progress'
  BY <1>a, <1>3, GotoProgress DEF ReconcileRetry, Steps, Needs
<1>4. ASSUME NEW w \in Workers, CreateCandidate(w) PROVE Progress'
  <2>1. CASE Occurs(seen[w], "validation_passed")
    <3>1. Holds({"validation_passed"})'
      BY <1>a, <2>1, SeenHolds, HoldsStays DEF Occurs
    <3>2. PICK step \in {"sim_gate", "sim_start"} :
              Goto(w, step) /\ (step = "sim_gate" => Holds({"simulation_succeeded"}))
      BY <1>4, <2>1, <3>1, AfterValidationNeeds DEF CreateCandidate
    <3>3. \A type \in Needs(step) : Holds({type})'
      BY <1>a, <3>1, <3>2, HoldsStays DEF Needs
    <3> QED
      BY <1>a, <3>2, <3>3, GotoProgress DEF Steps
  <2>2. CASE ~Occurs(seen[w], "validation_passed")
    <3>1. Goto(w, "validate") /\ Emit("candidate_created", Once, "none")
      BY <1>4, <2>2 DEF CreateCandidate
    <3>2. Holds({"candidate_created"})'
      BY <3>1, EmitHolds, KeysKnown DEF EventTypes, Kinds
    <3>3. \A type \in Needs("validate") : Holds({type})'
      BY <3>2 DEF Needs
    <3> QED
      BY <1>a, <3>1, <3>3, GotoProgress DEF Steps
  <2> QED
    BY <2>1, <2>2
<1>5. ASSUME NEW w \in Workers, ValidationPasses(w) PROVE Progress'
  <2>1. Holds({"validation_passed"})'
    BY <1>5, EmitHolds, KeysKnown DEF ValidationPasses, EventTypes, Kinds
  <2>2. PICK step \in {"sim_gate", "sim_start"} :
            Goto(w, step) /\ (step = "sim_gate" => Holds({"simulation_succeeded"}))
    BY <1>5, <2>1, AfterValidationNeeds DEF ValidationPasses
  <2>3. \A type \in Needs(step) : Holds({type})'
    BY <1>a, <2>1, <2>2, HoldsStays DEF Needs
  <2> QED
    BY <1>a, <2>2, <2>3, GotoProgress DEF Steps
<1>6. ASSUME NEW w \in Workers, StartSimulation(w) PROVE Progress'
  <2>1. Holds({"simulation_started"})'
    BY <1>6, EmitHolds, KeysKnown DEF StartSimulation, EventTypes, Kinds
  <2>2. \A type \in Needs("simulate") : Holds({type})'
    BY <2>1 DEF Needs
  <2> QED
    BY <1>a, <1>6, <2>2, GotoProgress DEF StartSimulation, Steps
<1>7. ASSUME NEW w \in Workers, Simulate(w) PROVE Progress'
  <2>1. Holds({"simulation_started"})
    BY <1>7 DEF Simulate, Progress, Needs
  <2>2. \A type \in Needs("sim_record") : Holds({type})'
    BY <1>a, <2>1, HoldsStays DEF Needs
  <2> QED
    BY <1>a, <1>7, <2>2, GotoProgress DEF Simulate, Steps
<1>8. ASSUME NEW w \in Workers, RecordSimulation(w) PROVE Progress'
  <2>1. CASE sim[w] = "failed"
    BY <1>1, <1>8, <2>1 DEF RecordSimulation, Return
  <2>2. CASE sim[w] # "failed"
    <3>1. Emit("simulation_succeeded", Once, sim[w]) /\ Goto(w, "sim_gate")
      BY <1>8, <2>2 DEF RecordSimulation
    <3>2. sim[w] \in Kinds
      BY DEF TypeInv, TypeOK, Kinds
    <3>3. Holds({"simulation_succeeded"})'
      BY <3>1, <3>2, EmitHolds, KeysKnown DEF EventTypes
    <3>4. \A type \in Needs("sim_gate") : Holds({type})'
      BY <3>3 DEF Needs
    <3> QED
      BY <1>a, <3>1, <3>4, GotoProgress DEF Steps
  <2> QED
    BY <2>1, <2>2
<1>9. ASSUME NEW w \in Workers, ReuseCheck(w) PROVE Progress'
  <2>1. Of(seen[w], {"check_succeeded"}) # {}
    BY <1>9 DEF ReuseCheck, CheckCached, IsLatest, Of
  <2>2. \A type \in Needs("passed") : Holds({type})'
    BY <1>a, <2>1, SeenHolds, HoldsStays DEF Needs
  <2> QED
    BY <1>a, <1>9, <2>2, GotoProgress DEF ReuseCheck, Steps
<1>10. ASSUME NEW w \in Workers, NeedCheck(w) PROVE Progress'
  <2>1. Holds({"simulation_succeeded"})
    BY <1>10 DEF NeedCheck, Progress, Needs
  <2>2. \A type \in Needs("check_start") : Holds({type})'
    BY <1>a, <2>1, HoldsStays DEF Needs
  <2> QED
    BY <1>a, <1>10, <2>2, GotoProgress DEF NeedCheck, Steps
<1>11. ASSUME NEW w \in Workers, StartCheck(w) PROVE Progress'
  <2>1. Holds({"simulation_succeeded"})
    BY <1>11 DEF StartCheck, Progress, Needs
  <2>2. Holds({"check_started"})'
    BY <1>11, EmitHolds, TryKeys DEF StartCheck, EventTypes, Kinds
  <2>3. \A type \in Needs("check") : Holds({type})'
    BY <1>a, <2>1, <2>2, HoldsStays DEF Needs
  <2> QED
    BY <1>a, <1>11, <2>3, GotoProgress DEF StartCheck, Steps
<1>12. ASSUME NEW w \in Workers, CheckPasses(w) PROVE Progress'
  <2>1. PICK reply \in Checks :
            Emit("check_succeeded", Fingerprint(CheckRecord(reply)), "none")
    BY <1>12 DEF CheckPasses
  <2>2. Holds({"check_succeeded"})'
    BY <2>1, EmitHolds, KeysKnown DEF EventTypes, Kinds
  <2>3. \A type \in Needs("passed") : Holds({type})'
    BY <2>2 DEF Needs
  <2> QED
    BY <1>a, <1>12, <2>3, GotoProgress DEF CheckPasses, Steps
<1>13. ASSUME NEW w \in Workers, StartSubmit(w) PROVE Progress'
  <2>1. Holds({"submit_started"})'
    BY <1>13, EmitHolds, TryKeys DEF StartSubmit, EventTypes, Kinds
  <2>2. \A type \in Needs("post") : Holds({type})'
    BY <2>1 DEF Needs
  <2> QED
    BY <1>a, <1>13, <2>2, GotoProgress DEF StartSubmit, Steps
<1>14. ASSUME NEW w \in Workers, Post(w) PROVE Progress'
  <2>1. Holds({"submit_started"})
    BY <1>14 DEF Post, Progress, Needs
  <2>2. \A type \in Needs("reply") : Holds({type})'
    BY <1>a, <2>1, HoldsStays DEF Needs
  <2> QED
    BY <1>a, <1>14, <2>2, GotoProgress DEF Post, Steps
<1>15. ASSUME NEW w \in Workers,
              \/ ReconcileUnknown(w) \/ ReconcileActive(w) \/ ReconcileOther(w)
              \/ ReconcileExhausted(w) \/ ValidationRejects(w) \/ SimulationBlocks(w)
              \/ Abandon(w) \/ CheckBlocks(w) \/ MarkReady(w) \/ ReplyActive(w)
              \/ ReplyPending(w) \/ ReplyFailed(w) \/ Crash(w)
       PROVE  Progress'
  <2>1. Leave(w)
    BY <1>15
    DEF ReconcileUnknown, ReconcileActive, ReconcileOther, ReconcileExhausted,
        ValidationRejects, SimulationBlocks, Abandon, CheckBlocks, MarkReady, ReplyActive,
        ReplyPending, ReplyFailed, Crash, Return
  <2> QED
    BY <1>1, <2>1
<1>16. CASE Platform \/ UNCHANGED vars
  BY <1>16, <1>a, HoldsStays
  DEF Platform, PlatformActivates, PlatformReturns, PlatformHolds, vars, locals, Progress
<1> QED
  BY <1>2, <1>3, <1>4, <1>5, <1>6, <1>7, <1>8, <1>9, <1>10, <1>11, <1>12, <1>13, <1>14,
     <1>15, <1>16 DEF Next, Step, Reconcile

LEMMA CausalInit == Init => CausalInv
  BY DEF Init, CausalInv, CausalOrder, Progress, Now, Needs

\* However many executions overlap, crash and resume, nothing is recorded before the
\* event that had to come first.
THEOREM Lifecycle == Spec => []CausalOrder
<1>1. Init => TypeInv /\ CausalInv
  BY TypeInit, CausalInit
<1>2. TypeInv /\ CausalInv /\ [Next]_vars => TypeInv' /\ CausalInv'
  BY TypeStep, CausalStep, ProgressStep DEF CausalInv
<1>3. CausalInv => CausalOrder
  BY DEF CausalInv
<1> QED
  BY <1>1, <1>2, <1>3, PTL DEF Spec

-----------------------------------------------------------------------------
(* The budget of submissions.                                              *)

\* A worker past the reconciliation read fewer submissions than the budget allows.
\* It need not be alone in this, so it is the key that keeps the log in budget:
\* each submit_started carries a key of its own, one of as many as there are tries.
WorkersInBudget ==
    \A w \in Workers : pc[w] \notin {"idle", "reconcile"} => ThisSubmit(w) <= SubmitAttempts

KeysInBudget ==
    \A i \in 1..Len(log) :
        log[i].type = "submit_started" => \E k \in 1..SubmitAttempts : log[i].key = Try(k)

NoDuplicates ==
    \A i, j \in 1..Len(log) : log[i].type = log[j].type /\ log[i].key = log[j].key => i = j

BudgetInv == WorkersInBudget /\ KeysInBudget /\ NoDuplicates

LEMMA AttemptsPositive == SubmitAttempts \in Nat /\ SubmitAttempts >= 1
  BY RetriesAssumption DEF SubmitAttempts

LEMMA PrefixStays ==
    ASSUME TypeInv, AppendsAtMost, NEW n \in Nat, n <= Len(log), NEW types
    PROVE  Of(n, types)' = Of(n, types)
<1>1. \A i \in 1..n : log'[i] = log[i]
  BY DEF AppendsAtMost, TypeInv, TypeOK
<1> QED
  BY <1>1 DEF Of

LEMMA EmptyCount ==
    ASSUME NEW n \in Nat, NEW type, Of(n, {type}) = {}
    PROVE  Count(n, type) = 0
  BY FS_EmptySet DEF Count

\* No event is recorded twice, whoever appends it.
LEMMA NoDuplicatesStep ==
    ASSUME TypeInv, NoDuplicates, AppendsAtMost
    PROVE  NoDuplicates'
<1>1. Len(log) \in Nat
  BY DEF TypeInv, TypeOK
<1>2. CASE log' = log
  BY <1>2 DEF NoDuplicates
<1>3. CASE /\ Len(log') = Len(log) + 1
           /\ \A i \in 1..Len(log) :
                /\ log'[i] = log[i]
                /\ ~(/\ log[i].type = log'[Len(log) + 1].type
                     /\ log[i].key = log'[Len(log) + 1].key)
  <2>1. ASSUME NEW i \in 1..Len(log'), NEW j \in 1..Len(log'),
               log'[i].type = log'[j].type, log'[i].key = log'[j].key
        PROVE  i = j
    <3>1. i \in 1..Len(log) \/ i = Len(log) + 1
      BY <1>1, <1>3
    <3>2. j \in 1..Len(log) \/ j = Len(log) + 1
      BY <1>1, <1>3
    <3> QED
      BY <1>3, <2>1, <3>1, <3>2 DEF NoDuplicates
  <2> QED
    BY <2>1 DEF NoDuplicates
<1> QED
  BY <1>2, <1>3 DEF AppendsAtMost

LEMMA KeysInBudgetStep ==
    ASSUME TypeInv, BudgetInv, [Next]_vars
    PROVE  KeysInBudget'
<1>1. CASE UNCHANGED log
  BY <1>1 DEF BudgetInv, KeysInBudget
<1>2. ASSUME NEW w \in Workers, SomeRecord(w) PROVE KeysInBudget'
  <2>1. PICK type \in EventTypes, key \in Keys, kind \in Kinds : Records(w, type, key, kind)
    BY <1>2 DEF SomeRecord
  <2>2. log \in Seq(Event) /\ Len(log) \in Nat /\ Emit(type, key, kind)
    BY <2>1 DEF Records, TypeInv, TypeOK
  <2>3. ASSUME type = "submit_started" PROVE \E k \in 1..SubmitAttempts : key = Try(k)
    <3>1. pc[w] = "passed" /\ key = Try(ThisSubmit(w))
      BY <2>1, <2>3 DEF Records, Writers
    <3>2. seen[w] \in Nat
      BY DEF TypeInv, TypeOK
    <3>3. ThisSubmit(w) \in Nat /\ ThisSubmit(w) >= 1
      BY <3>2, CountNat DEF ThisSubmit
    <3>4. ThisSubmit(w) <= SubmitAttempts
      BY <3>1 DEF BudgetInv, WorkersInBudget
    <3> QED
      BY <3>1, <3>3, <3>4, AttemptsPositive
  <2>4. CASE /\ Len(log') = Len(log) + 1
             /\ \A i \in 1..Len(log) : log'[i] = log[i]
             /\ log'[Len(log) + 1] = [type |-> type, key |-> key, kind |-> kind]
    <3>1. \A i \in 1..Len(log') : i \in 1..Len(log) \/ i = Len(log) + 1
      BY <2>2, <2>4
    <3>2. log'[Len(log) + 1].type = type /\ log'[Len(log) + 1].key = key
      BY <2>4
    <3> QED
      BY <2>3, <2>4, <3>1, <3>2 DEF BudgetInv, KeysInBudget
  <2> QED
    BY <1>1, <2>2, <2>4, EmitAppends
<1>3. CASE Platform \/ UNCHANGED vars
  BY <1>1, <1>3 DEF Platform, PlatformActivates, PlatformReturns, PlatformHolds, vars
<1> QED
  BY <1>1, <1>2, <1>3, RecordStep DEF Next, WorkerStep

LEMMA WorkersInBudgetStep ==
    ASSUME TypeInv, WorkersInBudget, [Next]_vars
    PROVE  WorkersInBudget'
<1>a. AppendsAtMost
  BY TypeStep
\* Nothing a worker read changes under it.
<1>b. ASSUME NEW v \in Workers, seen'[v] = seen[v]
      PROVE  ThisSubmit(v)' = ThisSubmit(v)
  <2>1. seen[v] \in Nat /\ seen[v] <= Len(log)
    BY DEF TypeInv, TypeOK, SeenInLog
  <2>2. Of(seen[v], {"submit_started"})' = Of(seen[v], {"submit_started"})
    <3>1. \A n \in Nat : n <= Len(log) =>
            Of(n, {"submit_started"})' = Of(n, {"submit_started"})
      BY <1>a, PrefixStays
    <3> QED
      BY <1>b, <2>1, <3>1 DEF Of
  <2> QED
    BY <2>2 DEF ThisSubmit, Count
<1> SUFFICES ASSUME NEW v \in Workers, pc'[v] \notin {"idle", "reconcile"}
             PROVE  ThisSubmit(v)' <= SubmitAttempts
  BY DEF WorkersInBudget, SubmitAttempts
<1>1. CASE pc[v] \notin {"idle", "reconcile"} /\ seen'[v] = seen[v]
  BY <1>1, <1>b DEF WorkersInBudget
<1>2. CASE pc'[v] = pc[v] /\ seen'[v] = seen[v]
  BY <1>1, <1>2
<1>3. ASSUME NEW w \in Workers, Leave(w) PROVE ThisSubmit(v)' <= SubmitAttempts
  BY <1>2, <1>3 DEF Leave, Goto, TypeInv, TypeOK
<1>4. ASSUME NEW w \in Workers, NEW e \in SubmitModes, Begin(w, e)
      PROVE  ThisSubmit(v)' <= SubmitAttempts
  <2>1. CASE v # w
    BY <1>2, <1>4, <2>1 DEF Begin, Return, Leave, Goto, TypeInv, TypeOK
  <2>2. CASE v = w
    <3>1. Resume(Len(log), e) = "run"
      BY <1>4, <2>2 DEF Begin, Return, Leave, Goto, TypeInv, TypeOK
    <3>2. seen'[v] = Len(log) /\ UNCHANGED log /\ Len(log) \in Nat
      BY <1>4, <2>2, <3>1 DEF Begin, TypeInv, TypeOK
    <3>3. Of(Len(log), {"submit_started"}) = {}
      BY <3>1 DEF Resume, Submitted, Of, SubmitTypes
    <3>4. Count(Len(log), "submit_started") = 0
      BY <3>2, <3>3, EmptyCount
    <3>5. ThisSubmit(v)' = 1
      BY <3>2, <3>4 DEF ThisSubmit, Count, Of
    <3> QED
      BY <3>5, AttemptsPositive
  <2> QED
    BY <2>1, <2>2
<1>5. ASSUME NEW w \in Workers, ReconcileRetry(w) PROVE ThisSubmit(v)' <= SubmitAttempts
  <2>1. CASE v # w
    BY <1>2, <1>5, <2>1 DEF ReconcileRetry, Goto, TypeInv, TypeOK
  <2>2. CASE v = w
    <3>1. Count(seen[v], "submit_started") < SubmitAttempts /\ UNCHANGED seen
      BY <1>5, <2>2 DEF ReconcileRetry
    <3>2. Count(seen[v], "submit_started") \in Nat
      BY CountNat DEF TypeInv, TypeOK
    <3>3. ThisSubmit(v) <= SubmitAttempts
      BY <3>1, <3>2, AttemptsPositive DEF ThisSubmit
    <3> QED
      BY <1>b, <3>1, <3>3
  <2> QED
    BY <2>1, <2>2
<1>6. ASSUME NEW w \in Workers, pc[w] \notin {"idle", "reconcile"}, UNCHANGED seen,
             NEW step \in Steps, Goto(w, step)
      PROVE  ThisSubmit(v)' <= SubmitAttempts
  BY <1>1, <1>2, <1>6 DEF Goto, TypeInv, TypeOK
<1>7. ASSUME NEW w \in Workers,
             \/ CreateCandidate(w) \/ ValidationPasses(w)
             \/ RecordSimulation(w) /\ ~Leave(w)
      PROVE  ThisSubmit(v)' <= SubmitAttempts
  <2>1. pc[w] \notin {"idle", "reconcile"} /\ UNCHANGED seen
    BY <1>7 DEF CreateCandidate, ValidationPasses, RecordSimulation, Return
  <2>2. \E step \in {"sim_gate", "sim_start", "validate"} : Goto(w, step)
    BY <1>7, AfterValidationOK
    DEF CreateCandidate, ValidationPasses, RecordSimulation, Return
  <2>3. PICK step \in Steps : Goto(w, step)
    BY <2>2 DEF Steps
  <2> QED
    BY <1>6, <2>1, <2>3
<1>8. ASSUME NEW w \in Workers,
             \/ StartSimulation(w) \/ Simulate(w) \/ ReuseCheck(w) \/ NeedCheck(w)
             \/ StartCheck(w) \/ CheckPasses(w) \/ StartSubmit(w) \/ Post(w)
      PROVE  ThisSubmit(v)' <= SubmitAttempts
  <2>1. pc[w] \notin {"idle", "reconcile"} /\ UNCHANGED seen
    BY <1>8 DEF StartSimulation, Simulate, ReuseCheck, NeedCheck, StartCheck, CheckPasses,
                StartSubmit, Post
  <2>2. PICK step \in Steps : Goto(w, step)
    BY <1>8 DEF StartSimulation, Simulate, ReuseCheck, NeedCheck, StartCheck, CheckPasses,
                StartSubmit, Post, Steps
  <2> QED
    BY <1>6, <2>1, <2>2
<1>9. ASSUME NEW w \in Workers,
             \/ ReconcileUnknown(w) \/ ReconcileActive(w) \/ ReconcileOther(w)
             \/ ReconcileExhausted(w) \/ ValidationRejects(w) \/ SimulationBlocks(w)
             \/ Abandon(w) \/ CheckBlocks(w) \/ MarkReady(w) \/ ReplyActive(w)
             \/ ReplyPending(w) \/ ReplyFailed(w) \/ Crash(w)
       PROVE ThisSubmit(v)' <= SubmitAttempts
  <2>1. Leave(w)
    BY <1>9
    DEF ReconcileUnknown, ReconcileActive, ReconcileOther, ReconcileExhausted,
        ValidationRejects, SimulationBlocks, Abandon, CheckBlocks, MarkReady, ReplyActive,
        ReplyPending, ReplyFailed, Crash, Return
  <2> QED
    BY <1>3, <2>1
<1>10. CASE Platform \/ UNCHANGED vars
  BY <1>2, <1>10
  DEF Platform, PlatformActivates, PlatformReturns, PlatformHolds, vars, locals
<1> QED
  BY <1>3, <1>4, <1>5, <1>7, <1>8, <1>9, <1>10 DEF Next, Step, Reconcile

\* Distinct tries are at most as many as the budget allows.
LEMMA BudgetCounts == ASSUME TypeInv, BudgetInv PROVE SubmitBudget
<1> DEFINE S == Of(Now, {"submit_started"})
           f == [i \in S |-> log[i].key[2]]
<1>1. S \subseteq 1..Len(log) /\ \A i \in S : log[i].type = "submit_started"
  BY DEF Of, Now
<1>2. \A i \in S : f[i] \in 1..SubmitAttempts /\ log[i].key = Try(f[i])
  BY <1>1 DEF BudgetInv, KeysInBudget, Try
<1>3. \A i, j \in S : f[i] = f[j] => i = j
  <2>1. \A i, j \in S : f[i] = f[j] => log[i].key = log[j].key
    BY <1>2
  <2> HIDE DEF f, S
  <2> QED
    BY <1>1, <2>1 DEF BudgetInv, NoDuplicates
<1>4. f \in Injection(S, 1..SubmitAttempts)
  <2>1. f \in [S -> 1..SubmitAttempts]
    BY <1>2
  <2> QED
    BY <1>3, <2>1 DEF Injection, IsInjective
<1>5. IsFiniteSet(1..SubmitAttempts) /\ Cardinality(1..SubmitAttempts) = SubmitAttempts
  <2>1. 1 \in Int /\ SubmitAttempts \in Int /\ SubmitAttempts >= 1
    BY AttemptsPositive
  <2> QED
    BY <2>1, FS_Interval
<1>6. Cardinality(S) <= SubmitAttempts
  <2> HIDE DEF f, S
  <2> QED
    BY <1>4, <1>5, FS_Injection
<1> QED
  BY <1>6 DEF SubmitBudget, Count

LEMMA BudgetInit == Init => BudgetInv
  BY DEF Init, BudgetInv, WorkersInBudget, KeysInBudget, NoDuplicates

\* Any number of overlapping executions record no more submissions than the budget
\* of the policy.
THEOREM Budget == Spec => []SubmitBudget
<1>1. Init => TypeInv /\ BudgetInv
  BY TypeInit, BudgetInit
<1>2. TypeInv /\ BudgetInv /\ [Next]_vars => TypeInv' /\ BudgetInv'
  BY TypeStep, WorkersInBudgetStep, KeysInBudgetStep, NoDuplicatesStep DEF BudgetInv
<1>3. TypeInv /\ BudgetInv => SubmitBudget
  BY BudgetCounts
<1> QED
  BY <1>1, <1>2, <1>3, PTL DEF Spec
-----------------------------------------------------------------------------
(* What a step does to the place and the prefix of workers.                *)

LEMMA Moves ==
    ASSUME TypeInv, NEW w \in Workers, WorkerStep(w)
    PROVE  \/ Leave(w)
           \/ \E step \in Steps : Goto(w, step) /\ UNCHANGED seen
           \/ \E step \in Steps : /\ Goto(w, step) /\ UNCHANGED log
                                  /\ seen' = [seen EXCEPT ![w] = Len(log)]
<1>1. CASE \E e \in SubmitModes : Begin(w, e)
  BY <1>1 DEF Begin, Return, Steps
<1>2. CASE \/ ReconcileUnknown(w) \/ ReconcileActive(w) \/ ReconcileOther(w)
           \/ ReconcileExhausted(w) \/ ValidationRejects(w) \/ SimulationBlocks(w)
           \/ Abandon(w) \/ CheckBlocks(w) \/ MarkReady(w) \/ ReplyActive(w)
           \/ ReplyPending(w) \/ ReplyFailed(w) \/ Crash(w)
  BY <1>2
  DEF ReconcileUnknown, ReconcileActive, ReconcileOther, ReconcileExhausted,
      ValidationRejects, SimulationBlocks, Abandon, CheckBlocks, MarkReady, ReplyActive,
      ReplyPending, ReplyFailed, Crash, Return
<1>3. CASE CreateCandidate(w) \/ ValidationPasses(w)
  <2>1. \E step \in {"sim_gate", "sim_start", "validate"} : Goto(w, step)
    BY <1>3, AfterValidationOK DEF CreateCandidate, ValidationPasses
  <2> QED
    BY <1>3, <2>1 DEF CreateCandidate, ValidationPasses, Steps
<1>4. CASE \/ ReconcileRetry(w) \/ StartSimulation(w) \/ Simulate(w) \/ ReuseCheck(w)
           \/ NeedCheck(w) \/ StartCheck(w) \/ CheckPasses(w) \/ StartSubmit(w) \/ Post(w)
  BY <1>4
  DEF ReconcileRetry, StartSimulation, Simulate, ReuseCheck, NeedCheck, StartCheck,
      CheckPasses, StartSubmit, Post, Steps
<1>5. CASE RecordSimulation(w)
  BY <1>5 DEF RecordSimulation, Return, Steps
<1> QED
  BY <1>1, <1>2, <1>3, <1>4, <1>5 DEF WorkerStep, Step, Reconcile

LEMMA OthersStand ==
    ASSUME TypeInv, NEW w \in Workers, WorkerStep(w), NEW v \in Workers, v # w
    PROVE  pc'[v] = pc[v] /\ seen'[v] = seen[v]
  BY Moves DEF Leave, Goto, TypeInv, TypeOK

LEMMA LeaveMoves ==
    ASSUME TypeInv, NEW w \in Workers, Leave(w)
    PROVE  pc'[w] = "idle" /\ seen'[w] = 0
  BY DEF Leave, Goto, TypeInv, TypeOK

LEMMA GotoMoves ==
    ASSUME TypeInv, NEW w \in Workers, NEW step, Goto(w, step)
    PROVE  pc'[w] = step
  BY DEF Goto, TypeInv, TypeOK

\* What a worker read stays what it read.
LEMMA PrefixKept ==
    ASSUME TypeInv, AppendsAtMost, NEW w \in Workers, seen'[w] = seen[w], NEW types
    PROVE  Of(seen[w], types)' = Of(seen[w], types)
<1>1. seen[w] \in Nat /\ seen[w] <= Len(log)
  BY DEF TypeInv, TypeOK, SeenInLog
<1>2. \A n \in Nat : n <= Len(log) => Of(n, types)' = Of(n, types)
  BY PrefixStays
<1> QED
  BY <1>1, <1>2 DEF Of

-----------------------------------------------------------------------------
(* Simulations.  Until an outcome is recorded, every simulation that no crash *)
(* took away is about to be recorded by its worker.  Once one is, a worker    *)
(* that may still simulate is one that has not: who begins now reads it.      *)

Simulated == Holds({"simulation_succeeded", "simulation_failed"})

InRecord == {w \in Workers : pc[w] = "sim_record"}

MaySimulate ==
    {w \in Workers :
        \/ pc[w] \in {"sim_start", "simulate"}
        \/ /\ pc[w] \in {"reconcile", "create", "validate"}
           /\ ~Occurs(seen[w], "simulation_succeeded")}

PaidFor ==
    /\ ~Simulated => simulations <= crashes + Cardinality(InRecord)
    /\ Simulated => simulations + Cardinality(MaySimulate) <= crashes + Cardinality(Workers)

\* The numbers it compares.
LEMMA SetsOfWorkers ==
    /\ IsFiniteSet(InRecord) /\ Cardinality(InRecord) \in Nat
    /\ IsFiniteSet(MaySimulate) /\ Cardinality(MaySimulate) \in Nat
    /\ Cardinality(Workers) \in Nat
    /\ Cardinality(InRecord) + Cardinality(MaySimulate) <= Cardinality(Workers)
<1>1. InRecord \in SUBSET Workers /\ MaySimulate \in SUBSET Workers
      /\ MaySimulate \subseteq Workers \ InRecord
  BY DEF InRecord, MaySimulate
<1>2. /\ IsFiniteSet(InRecord) /\ IsFiniteSet(MaySimulate) /\ IsFiniteSet(Workers \ InRecord)
  BY <1>1, WorkersAssumption, FS_Subset
<1>3. /\ Cardinality(InRecord) \in Nat /\ Cardinality(MaySimulate) \in Nat
      /\ Cardinality(Workers) \in Nat /\ Cardinality(Workers \ InRecord) \in Nat
  BY <1>2, WorkersAssumption, FS_CardinalityType
<1>4. Cardinality(MaySimulate) <= Cardinality(Workers \ InRecord)
  BY <1>1, <1>2, FS_Subset
<1>5. Cardinality(Workers \ InRecord) = Cardinality(Workers) - Cardinality(InRecord)
  <2>1. Cardinality(Workers \ InRecord) = Cardinality(Workers) - Cardinality(Workers \cap InRecord)
    BY WorkersAssumption, FS_Difference
  <2>2. Workers \cap InRecord = InRecord
    BY <1>1
  <2> QED
    BY <2>1, <2>2
<1> QED
  BY <1>2, <1>3, <1>4, <1>5

\* A step that neither simulates nor records a simulation.
LEMMA OtherSteps ==
    ASSUME TypeInv, NEW w \in Workers, Step(w), ~Simulate(w), ~RecordSimulation(w)
    PROVE  /\ pc[w] # "sim_record" /\ pc'[w] # "sim_record"
           /\ w \in MaySimulate' => w \in MaySimulate
           /\ UNCHANGED <<simulations, crashes>>
<1>a. AppendsAtMost
  BY TypeStep DEF Next
<1>1. CASE \/ ReconcileUnknown(w) \/ ReconcileActive(w) \/ ReconcileOther(w)
           \/ ReconcileExhausted(w) \/ ValidationRejects(w) \/ SimulationBlocks(w)
           \/ Abandon(w) \/ CheckBlocks(w) \/ MarkReady(w) \/ ReplyActive(w)
           \/ ReplyPending(w) \/ ReplyFailed(w)
  <2>1. Leave(w) /\ pc[w] # "sim_record" /\ UNCHANGED <<simulations, crashes>>
    BY <1>1
    DEF ReconcileUnknown, ReconcileActive, ReconcileOther, ReconcileExhausted,
        ValidationRejects, SimulationBlocks, Abandon, CheckBlocks, MarkReady, ReplyActive,
        ReplyPending, ReplyFailed, Return, history
  <2> QED
    BY <2>1, LeaveMoves DEF MaySimulate
<1>2. CASE \/ ReuseCheck(w) \/ NeedCheck(w) \/ StartCheck(w) \/ CheckPasses(w)
           \/ StartSubmit(w) \/ Post(w)
  <2>1. /\ pc[w] # "sim_record" /\ UNCHANGED <<simulations, crashes>>
        /\ \E step \in {"passed", "check_start", "check", "post", "reply"} : Goto(w, step)
    BY <1>2 DEF ReuseCheck, NeedCheck, StartCheck, CheckPasses, StartSubmit, Post, history
  <2>2. pc'[w] \in {"passed", "check_start", "check", "post", "reply"}
    BY <2>1, GotoMoves
  <2> QED
    BY <2>1, <2>2 DEF MaySimulate
<1>3. CASE StartSimulation(w)
  <2>1. /\ pc[w] = "sim_start" /\ Goto(w, "simulate") /\ UNCHANGED <<simulations, crashes>>
    BY <1>3 DEF StartSimulation, history
  <2> QED
    BY <2>1, GotoMoves DEF MaySimulate
<1>4. CASE ReconcileRetry(w)
  <2>1. /\ pc[w] = "reconcile" /\ Goto(w, "create") /\ UNCHANGED <<simulations, crashes, seen>>
    BY <1>4 DEF ReconcileRetry
  <2>2. pc'[w] = "create" /\ Occurs(seen[w], "simulation_succeeded")' = Occurs(seen[w], "simulation_succeeded")
    BY <1>a, <2>1, GotoMoves, PrefixKept DEF Occurs
  <2> QED
    BY <2>1, <2>2 DEF MaySimulate
<1>5. CASE CreateCandidate(w) \/ ValidationPasses(w)
  <2>1. /\ pc[w] \in {"create", "validate"} /\ UNCHANGED <<simulations, crashes, seen>>
    BY <1>5 DEF CreateCandidate, ValidationPasses, history
  <2>2. Occurs(seen[w], "simulation_succeeded")' = Occurs(seen[w], "simulation_succeeded")
    BY <1>a, <2>1, PrefixKept DEF Occurs
  <2>3. \/ Goto(w, "validate")
        \/ Goto(w, "sim_gate")
        \/ Goto(w, "sim_start") /\ ~Occurs(seen[w], "simulation_succeeded")
    BY <1>5 DEF CreateCandidate, ValidationPasses, AfterValidation
  <2> QED
    BY <2>1, <2>2, <2>3, GotoMoves DEF MaySimulate
<1> QED
  BY <1>1, <1>2, <1>3, <1>4, <1>5 DEF Step, Reconcile

\* Who may record the outcome of a simulation.
LEMMA SimulatedStays ==
    ASSUME TypeInv, NEW w \in Workers, WorkerStep(w), pc[w] # "sim_record"
    PROVE  Simulated' <=> Simulated
<1>1. CASE UNCHANGED log
  BY <1>1 DEF Simulated, Holds
<1>2. CASE SomeRecord(w)
  <2>1. PICK type \in EventTypes, key \in Keys, kind \in Kinds : Records(w, type, key, kind)
    BY <1>2 DEF SomeRecord
  <2>2. type \notin {"simulation_succeeded", "simulation_failed"}
    BY <2>1 DEF Records, Writers
  <2> QED
    BY <2>1, <2>2, EmitHolds DEF Records, Simulated
<1> QED
  BY <1>1, <1>2, RecordStep

LEMMA PaidForStep ==
    ASSUME TypeInv, PaidFor, [Next]_vars
    PROVE  PaidFor'
<1>n. /\ simulations \in Nat /\ crashes \in Nat /\ Cardinality(InRecord)' \in Nat
      /\ Cardinality(MaySimulate)' \in Nat
  <2>1. InRecord' \in SUBSET Workers /\ MaySimulate' \in SUBSET Workers
    BY DEF InRecord, MaySimulate
  <2>2. IsFiniteSet(InRecord') /\ IsFiniteSet(MaySimulate')
    BY <2>1, WorkersAssumption, FS_Subset
  <2>3. Cardinality(InRecord') \in Nat /\ Cardinality(MaySimulate') \in Nat
    BY <2>2, FS_CardinalityType
  <2> QED
    BY <2>3, TypeInvParts DEF RestOK
<1>a. AppendsAtMost
  BY TypeStep
<1>b. ASSUME NEW w \in Workers, WorkerStep(w), NEW v \in Workers, v # w
      PROVE  /\ v \in InRecord' <=> v \in InRecord
             /\ v \in MaySimulate' <=> v \in MaySimulate
  <2>1. pc'[v] = pc[v] /\ seen'[v] = seen[v]
    BY <1>b, OthersStand
  <2>2. Occurs(seen[v], "simulation_succeeded")' = Occurs(seen[v], "simulation_succeeded")
    BY <1>a, <2>1, PrefixKept DEF Occurs
  <2> QED
    BY <2>1, <2>2 DEF InRecord, MaySimulate
<1>c. InRecord \subseteq Workers /\ InRecord' \subseteq Workers
      /\ MaySimulate \subseteq Workers /\ MaySimulate' \subseteq Workers
  BY DEF InRecord, MaySimulate
<1>1. ASSUME NEW w \in Workers, Step(w), ~Simulate(w), ~RecordSimulation(w) PROVE PaidFor'
  <2>1. WorkerStep(w)
    BY <1>1 DEF WorkerStep
  <2>2. /\ pc[w] # "sim_record" /\ pc'[w] # "sim_record"
        /\ w \in MaySimulate' => w \in MaySimulate
        /\ UNCHANGED <<simulations, crashes>>
    BY <1>1, OtherSteps
  <2>3. InRecord' = InRecord /\ MaySimulate' \in SUBSET MaySimulate
    BY <1>b, <1>c, <2>1, <2>2 DEF InRecord
  <2>4. Cardinality(MaySimulate') <= Cardinality(MaySimulate)
    BY <2>3, SetsOfWorkers, FS_Subset
  <2>5. Simulated' <=> Simulated
    BY <2>1, <2>2, SimulatedStays
  <2> QED
    BY <1>n, <2>2, <2>3, <2>4, <2>5, SetsOfWorkers DEF PaidFor
<1>2. ASSUME NEW w \in Workers, Simulate(w) PROVE PaidFor'
  <2>1. WorkerStep(w) /\ pc[w] = "simulate" /\ pc'[w] = "sim_record"
        /\ simulations' = simulations + 1 /\ crashes' = crashes
    BY <1>2, GotoMoves DEF Simulate, WorkerStep, Step
  <2>2. InRecord' = InRecord \cup {w} /\ w \notin InRecord
    BY <1>b, <1>c, <2>1 DEF InRecord
  <2>3. MaySimulate' = MaySimulate \ {w} /\ w \in MaySimulate
    BY <1>b, <1>c, <2>1 DEF MaySimulate
  <2>4. Cardinality(InRecord') = Cardinality(InRecord) + 1
    BY <2>2, SetsOfWorkers, FS_AddElement
  <2>5. Cardinality(MaySimulate') = Cardinality(MaySimulate) - 1
    BY <2>3, SetsOfWorkers, FS_RemoveElement
  <2>6. Simulated' <=> Simulated
    BY <2>1, SimulatedStays
  <2> QED
    BY <1>n, <2>1, <2>4, <2>5, <2>6, SetsOfWorkers DEF PaidFor
<1>3. ASSUME NEW w \in Workers, RecordSimulation(w) PROVE PaidFor'
  <2>1. WorkerStep(w) /\ pc[w] = "sim_record" /\ UNCHANGED <<simulations, crashes>>
    BY <1>3 DEF RecordSimulation, WorkerStep, Step, history
  <2>2. pc'[w] \in {"idle", "sim_gate"}
    BY <1>3, GotoMoves, LeaveMoves DEF RecordSimulation, Return
  <2>3. MaySimulate' = MaySimulate
    BY <1>b, <1>c, <2>1, <2>2 DEF MaySimulate
  <2>4. Simulated'
    <3>1. sim[w] \in Kinds
      BY DEF TypeInv, TypeOK, Kinds
    <3>2. CASE sim[w] = "failed"
      BY <1>3, <3>2, EmitHolds, KeysKnown DEF RecordSimulation, Simulated, EventTypes, Kinds
    <3>3. CASE sim[w] # "failed"
      BY <1>3, <3>1, <3>3, EmitHolds, KeysKnown DEF RecordSimulation, Simulated, EventTypes
    <3> QED
      BY <3>2, <3>3
  <2> QED
    BY <1>n, <2>1, <2>3, <2>4, SetsOfWorkers DEF PaidFor
<1>4. ASSUME NEW w \in Workers, Crash(w) PROVE PaidFor'
  <2>1. WorkerStep(w) /\ UNCHANGED <<simulations, log>> /\ crashes' = crashes + 1
        /\ pc'[w] = "idle"
    BY <1>4, LeaveMoves DEF Crash, WorkerStep, history
  <2>2. InRecord' = InRecord \ {w} /\ MaySimulate' \in SUBSET MaySimulate
    BY <1>b, <1>c, <2>1 DEF InRecord, MaySimulate
  <2>3. Cardinality(InRecord') >= Cardinality(InRecord) - 1
    <3>1. Cardinality(InRecord \ {w})
            = IF w \in InRecord THEN Cardinality(InRecord) - 1 ELSE Cardinality(InRecord)
      BY SetsOfWorkers, FS_RemoveElement
    <3> QED
      BY <2>2, <3>1, SetsOfWorkers
  <2>4. Cardinality(MaySimulate') <= Cardinality(MaySimulate)
    BY <2>2, SetsOfWorkers, FS_Subset
  <2>5. Simulated' <=> Simulated
    BY <2>1 DEF Simulated, Holds
  <2> QED
    BY <1>n, <2>1, <2>3, <2>4, <2>5, SetsOfWorkers DEF PaidFor
<1>5. ASSUME NEW w \in Workers, NEW e \in SubmitModes, Begin(w, e) PROVE PaidFor'
  <2>1. WorkerStep(w) /\ UNCHANGED <<simulations, crashes, log>> /\ pc[w] = "idle"
    BY <1>5 DEF Begin, WorkerStep, history
  <2>2. \/ pc'[w] = "idle"
        \/ /\ pc'[w] \in {"create", "reconcile"} /\ seen'[w] = Len(log)
           /\ Resume(Len(log), e) \in {"run", "reconcile"}
    BY <1>5, GotoMoves, LeaveMoves DEF Begin, Return, TypeInv, TypeOK
  <2>3. InRecord' = InRecord
    BY <1>b, <1>c, <2>1, <2>2 DEF InRecord
  <2>4. ASSUME Simulated PROVE w \notin MaySimulate'
    <3>1. CASE pc'[w] = "idle"
      BY <3>1 DEF MaySimulate
    <3>2. CASE /\ pc'[w] \in {"create", "reconcile"} /\ seen'[w] = Len(log)
               /\ Resume(Len(log), e) \in {"run", "reconcile"}
      <4>1. ~Occurs(Len(log), "simulation_failed")
        BY <3>2 DEF Resume
      <4>2. Occurs(Len(log), "simulation_succeeded")
        BY <2>4, <4>1 DEF Simulated, Holds, Occurs, Of
      <4>3. Occurs(seen[w], "simulation_succeeded")'
        BY <2>1, <3>2, <4>2 DEF Occurs, Of
      <4> QED
        BY <3>2, <4>3 DEF MaySimulate
    <3> QED
      BY <2>2, <3>1, <3>2
  <2>5. Simulated => MaySimulate' = MaySimulate
    <3>1. w \notin MaySimulate
      BY <2>1 DEF MaySimulate
    <3> QED
      BY <1>b, <1>c, <2>1, <2>4, <3>1
  <2>6. Simulated' <=> Simulated
    BY <2>1 DEF Simulated, Holds
  <2> QED
    BY <1>n, <2>1, <2>3, <2>5, <2>6, SetsOfWorkers DEF PaidFor
<1>6. CASE Platform \/ UNCHANGED vars
  <2>1. UNCHANGED <<log, pc, seen, simulations, crashes>>
    BY <1>6 DEF Platform, PlatformActivates, PlatformReturns, PlatformHolds, vars, locals, history
  <2>2. InRecord' = InRecord /\ MaySimulate' = MaySimulate /\ (Simulated' <=> Simulated)
    BY <2>1 DEF InRecord, MaySimulate, Simulated, Holds, Occurs, Of
  <2> QED
    BY <2>1, <2>2 DEF PaidFor
<1> QED
  BY <1>1, <1>2, <1>3, <1>4, <1>5, <1>6 DEF Next

\* Every simulation beyond one per worker is paid for by a crash between the call and its
\* record, for any number of workers: who begins after an outcome is recorded reuses it.
THEOREM Simulations == Spec => []SimulationsBounded
<1>1. Init => TypeInv /\ PaidFor
  <2> SUFFICES ASSUME Init PROVE PaidFor
    BY TypeInit
  <2>1. ~Simulated /\ simulations = 0 /\ crashes = 0
    BY DEF Init, Simulated, Holds
  <2> QED
    BY <2>1, SetsOfWorkers DEF PaidFor
<1>2. TypeInv /\ PaidFor /\ [Next]_vars => TypeInv' /\ PaidFor'
  BY TypeStep, PaidForStep
<1>3. TypeInv /\ PaidFor => SimulationsBounded
  <2> SUFFICES ASSUME TypeInv, PaidFor PROVE SimulationsBounded
    OBVIOUS
  <2>1. simulations \in Nat /\ crashes \in Nat
    BY TypeInvParts DEF RestOK
  <2> QED
    BY <2>1, SetsOfWorkers DEF PaidFor, SimulationsBounded
<1> QED
  BY <1>1, <1>2, <1>3, PTL DEF Spec

-----------------------------------------------------------------------------
(* Submissions asked for too late.  When the alpha is ACTIVE, a submission of  *)
(* the attempt is on record, so who begins reconciles, and reads ACTIVE: only  *)
(* an execution that is past its status read already may still submit, once.   *)

MayStillSubmit == {w \in Workers : pc[w] \notin {"idle", "reconcile", "reply"}}

LateInv ==
    /\ status # "UNSUBMITTED" \/ reviewing => Holds({"submit_started"})
    /\ status # "ACTIVE" => late = 0
    /\ status = "ACTIVE" =>
          ~reviewing /\ late + Cardinality(MayStillSubmit) <= Cardinality(Workers)

LEMMA MayStillSubmitFinite ==
    /\ MayStillSubmit \in SUBSET Workers /\ IsFiniteSet(MayStillSubmit)
    /\ Cardinality(MayStillSubmit) \in Nat /\ Cardinality(Workers) \in Nat
    /\ Cardinality(MayStillSubmit) <= Cardinality(Workers)
<1>1. MayStillSubmit \in SUBSET Workers
  BY DEF MayStillSubmit
<1> QED
  BY <1>1, WorkersAssumption, FS_Subset, FS_CardinalityType

\* Once the alpha is ACTIVE no worker comes to be one that may submit.
LEMMA NoneJoins ==
    ASSUME TypeInv, status = "ACTIVE", Holds({"submit_started"}),
           NEW w \in Workers, WorkerStep(w), w \notin MayStillSubmit
    PROVE  pc'[w] \in {"idle", "reconcile", "reply"}
<1>1. pc[w] \in {"idle", "reconcile", "reply"}
  BY DEF MayStillSubmit
<1>2. CASE \E e \in SubmitModes : Begin(w, e)
  <2>1. PICK e \in SubmitModes : Begin(w, e)
    BY <1>2
  <2>2. Resume(Len(log), e) # "run"
    BY DEF Resume, Submitted, SubmitTypes, Of, Holds
  <2> QED
    BY <2>1, <2>2, GotoMoves, LeaveMoves DEF Begin, Return
<1>3. CASE ReconcileUnknown(w) \/ ReconcileActive(w) \/ ReconcileOther(w)
           \/ ReplyActive(w) \/ ReplyPending(w) \/ ReplyFailed(w) \/ Crash(w)
  BY <1>3, LeaveMoves
  DEF ReconcileUnknown, ReconcileActive, ReconcileOther, ReplyActive, ReplyPending,
      ReplyFailed, Crash, Return
<1>4. ~ReconcileExhausted(w) /\ ~ReconcileRetry(w)
  BY DEF ReconcileExhausted, ReconcileRetry
<1>5. /\ ~CreateCandidate(w) /\ ~ValidationPasses(w) /\ ~ValidationRejects(w)
      /\ ~StartSimulation(w) /\ ~Simulate(w) /\ ~RecordSimulation(w)
      /\ ~SimulationBlocks(w) /\ ~ReuseCheck(w) /\ ~NeedCheck(w) /\ ~StartCheck(w)
      /\ ~Abandon(w) /\ ~CheckPasses(w) /\ ~CheckBlocks(w) /\ ~MarkReady(w)
      /\ ~StartSubmit(w) /\ ~Post(w)
  BY <1>1
  DEF CreateCandidate, ValidationPasses, ValidationRejects, StartSimulation, Simulate,
      RecordSimulation, SimulationBlocks, ReuseCheck, NeedCheck, StartCheck, Abandon,
      CheckPasses, CheckBlocks, MarkReady, StartSubmit, Post
<1> QED
  BY <1>2, <1>3, <1>4, <1>5 DEF WorkerStep, Step, Reconcile

LEMMA OnlyPostIsLate ==
    ASSUME NEW w \in Workers, WorkerStep(w), ~Post(w)
    PROVE  UNCHANGED <<status, reviewing, late>>
  BY DEF WorkerStep, Step, Reconcile, Begin, Crash, ReconcileUnknown, ReconcileActive,
         ReconcileOther, ReconcileExhausted, ReconcileRetry, CreateCandidate,
         ValidationPasses, ValidationRejects, StartSimulation, Simulate, RecordSimulation,
         SimulationBlocks, ReuseCheck, NeedCheck, StartCheck, Abandon, CheckPasses,
         CheckBlocks, MarkReady, StartSubmit, ReplyActive, ReplyPending, ReplyFailed,
         platform, history

LEMMA LateStep ==
    ASSUME TypeInv, Progress, LateInv, [Next]_vars
    PROVE  LateInv'
<1>n. /\ late \in Nat /\ Cardinality(MayStillSubmit') \in Nat
      /\ MayStillSubmit \subseteq Workers /\ MayStillSubmit' \subseteq Workers
  <2>1. MayStillSubmit' \in SUBSET Workers
    BY DEF MayStillSubmit
  <2> QED
    BY <2>1, MayStillSubmitFinite, WorkersAssumption, FS_Subset, FS_CardinalityType, TypeInvParts
    DEF RestOK
<1>h. Holds({"submit_started"}) => Holds({"submit_started"})'
  BY TypeStep, HoldsStays
<1>1. ASSUME NEW w \in Workers, WorkerStep(w), ~Post(w) PROVE LateInv'
  <2>1. UNCHANGED <<status, reviewing, late>>
    BY <1>1, OnlyPostIsLate
  <2>2. ASSUME status = "ACTIVE"
        PROVE  Cardinality(MayStillSubmit') <= Cardinality(MayStillSubmit)
    <3>1. \A v \in Workers : v \in MayStillSubmit' => v \in MayStillSubmit
      <4>1. \A v \in Workers : v # w => pc'[v] = pc[v]
        BY <1>1, OthersStand
      <4>2. w \in MayStillSubmit' => w \in MayStillSubmit
        BY <1>1, <2>2, NoneJoins DEF LateInv, MayStillSubmit
      <4> QED
        BY <4>1, <4>2 DEF MayStillSubmit
    <3> QED
      BY <1>n, <3>1, MayStillSubmitFinite, FS_Subset
  <2> QED
    BY <1>n, <1>h, <2>1, <2>2, MayStillSubmitFinite DEF LateInv
<1>2. ASSUME NEW w \in Workers, Post(w) PROVE LateInv'
  <2>1. /\ pc[w] = "post" /\ Goto(w, "reply") /\ UNCHANGED status
        /\ late' = late + (IF status = "ACTIVE" THEN 1 ELSE 0)
        /\ status = "ACTIVE" => UNCHANGED reviewing
    BY <1>2 DEF Post
  <2>2. Holds({"submit_started"})
    BY <2>1 DEF Progress, Needs
  <2>3. pc' = [pc EXCEPT ![w] = "reply"] /\ pc \in [Workers -> Steps]
    BY <2>1 DEF Goto, TypeInv, TypeOK
  <2>4. MayStillSubmit' = MayStillSubmit \ {w} /\ w \in MayStillSubmit
    BY <2>1, <2>3 DEF MayStillSubmit
  <2>5. Cardinality(MayStillSubmit') = Cardinality(MayStillSubmit) - 1
    BY <2>4, MayStillSubmitFinite, FS_RemoveElement
  <2> QED
    BY <1>n, <1>h, <2>1, <2>2, <2>5, MayStillSubmitFinite DEF LateInv
<1>3. CASE Platform
  <2>1. UNCHANGED <<pc, log, late>> /\ Holds({"submit_started"}) /\ status # "ACTIVE"
    BY <1>3
    DEF Platform, PlatformActivates, PlatformReturns, PlatformHolds, locals, history, LateInv
  <2>2. MayStillSubmit' = MayStillSubmit /\ (status' = "ACTIVE" => ~reviewing')
    BY <1>3, <2>1 DEF MayStillSubmit, Platform, PlatformActivates, PlatformReturns, PlatformHolds
  <2> QED
    BY <1>h, <2>1, <2>2, MayStillSubmitFinite DEF LateInv
<1>4. CASE UNCHANGED vars
  <2>1. UNCHANGED <<pc, log, late, status, reviewing>>
    BY <1>4 DEF vars, locals, platform, history
  <2>2. MayStillSubmit' = MayStillSubmit
    BY <2>1 DEF MayStillSubmit
  <2> QED
    BY <1>h, <2>1, <2>2 DEF LateInv
<1> QED
  BY <1>1, <1>2, <1>3, <1>4 DEF Next, WorkerStep

\* Once the alpha is ACTIVE each worker asks for its submission at most once more, for
\* any number of workers, tries and crashes: a status read too early is acted on by the
\* execution that read it and by no other.
THEOREM LateSubmits == Spec => []LateSubmitsBounded
<1>1. Init => TypeInv /\ CausalInv /\ LateInv
  <2> SUFFICES ASSUME Init PROVE LateInv
    BY TypeInit, CausalInit
  <2> QED
    BY DEF Init, LateInv
<1>2. TypeInv /\ CausalInv /\ LateInv /\ [Next]_vars => TypeInv' /\ CausalInv' /\ LateInv'
  BY TypeStep, CausalStep, ProgressStep, LateStep DEF CausalInv
<1>3. TypeInv /\ LateInv => LateSubmitsBounded
  <2> SUFFICES ASSUME TypeInv, LateInv PROVE LateSubmitsBounded
    OBVIOUS
  <2>1. late \in Nat
    BY TypeInvParts DEF RestOK
  <2> QED
    BY <2>1, MayStillSubmitFinite DEF LateInv, LateSubmitsBounded
<1> QED
  BY <1>1, <1>2, <1>3, PTL DEF Spec

-----------------------------------------------------------------------------
(* Tries are numbered in the order they are recorded, whoever records them: a  *)
(* worker that read too little computes a number that is taken, and the append *)
(* ignores it.  So who records a try has read all the earlier ones, and the    *)
(* check it made before came after them.                                       *)

Tries == {"check_started", "submit_started"}

Numbered(type) ==
    /\ \A i \in Of(Len(log), {type}) : log[i].key = Try(Count(i, type))
    /\ \A k \in 1..Count(Len(log), type) : Recorded(type, Try(k))

TriesNumbered == \A type \in Tries : Numbered(type)

CheckedSince ==
    \A w \in Workers :
        pc[w] \in {"check", "passed"} /\ Occurs(seen[w], "submit_started") =>
            \E k \in (seen[w] + 1)..Len(log) : log[k].type = "check_started"

RetryInv == TriesNumbered /\ CheckedSince /\ RecheckBeforeRepost

LEMMA CountMonotone ==
    ASSUME NEW n \in Nat, NEW m \in Nat, n <= m, NEW type
    PROVE  /\ Count(n, type) <= Count(m, type)
           /\ Count(n, type) = Count(m, type) => Of(n, {type}) = Of(m, {type})
<1>1. Of(n, {type}) \in SUBSET Of(m, {type})
  BY DEF Of
<1> QED
  BY <1>1, OfFinite, FS_Subset DEF Count

\* The log with one more event.
LEMMA Appended ==
    ASSUME TypeInv, Len(log') = Len(log) + 1, \A i \in 1..Len(log) : log'[i] = log[i],
           NEW type
    PROVE  /\ \A n \in 0..Len(log) : Count(n, type)' = Count(n, type)
           /\ log'[Len(log) + 1].type # type =>
                /\ Of(Len(log), {type})' = Of(Len(log), {type})
                /\ Count(Len(log), type)' = Count(Len(log), type)
           /\ log'[Len(log) + 1].type = type =>
                /\ Of(Len(log), {type})' = Of(Len(log), {type}) \cup {Len(log) + 1}
                /\ Count(Len(log), type)' = Count(Len(log), type) + 1
<1> DEFINE N == Len(log)
<1>1. N \in Nat
  BY DEF TypeInv, TypeOK
<1>2. \A n \in 0..N : {i \in 1..n : log'[i].type \in {type}} = Of(n, {type})
  BY <1>1 DEF Of
<1>3. {i \in 1..(N + 1) : log'[i].type \in {type}}
        = Of(N, {type}) \cup (IF log'[N + 1].type = type THEN {N + 1} ELSE {})
  BY <1>1 DEF Of
<1>4. \A n \in 0..N : Count(n, type)' = Count(n, type)
  BY <1>2 DEF Count, Of
<1>5. N + 1 \notin Of(N, {type})
  BY <1>1 DEF Of
<1>6. Cardinality(Of(N, {type}) \cup {N + 1}) = Cardinality(Of(N, {type})) + 1
  BY <1>1, <1>5, OfFinite, FS_AddElement
<1>7. Of(Len(log), {type})' = {i \in 1..(N + 1) : log'[i].type \in {type}}
  BY DEF Of
<1>8. Count(Len(log), type)' = Cardinality({i \in 1..(N + 1) : log'[i].type \in {type}})
  BY <1>7 DEF Count
<1>9. CASE log'[N + 1].type # type
  BY <1>3, <1>4, <1>7, <1>8, <1>9 DEF Count
<1>10. CASE log'[N + 1].type = type
  BY <1>3, <1>4, <1>6, <1>7, <1>8, <1>10 DEF Count
<1> QED
  BY <1>9, <1>10

\* A number that is not taken was computed from all there is.
LEMMA FreshTry ==
    ASSUME TypeInv, NEW type, Numbered(type), NEW w \in Workers,
           ~Recorded(type, Try(Count(seen[w], type) + 1))
    PROVE  /\ Count(seen[w], type) = Count(Len(log), type)
           /\ Of(seen[w], {type}) = Of(Len(log), {type})
<1>1. seen[w] \in Nat /\ Len(log) \in Nat /\ seen[w] <= Len(log)
  BY DEF TypeInv, TypeOK, SeenInLog
<1>2. Count(seen[w], type) \in Nat /\ Count(Len(log), type) \in Nat
  BY <1>1, CountNat
<1>3. Count(seen[w], type) <= Count(Len(log), type)
  BY <1>1, CountMonotone
<1>4. Count(seen[w], type) + 1 \notin 1..Count(Len(log), type)
  BY DEF Numbered
<1>5. Count(seen[w], type) = Count(Len(log), type)
  BY <1>2, <1>3, <1>4
<1> QED
  BY <1>1, <1>5, CountMonotone

LEMMA RecordedStays ==
    ASSUME TypeInv, AppendsAtMost, NEW type, NEW key, Recorded(type, key)
    PROVE  Recorded(type, key)'
<1>1. Len(log) \in Nat
  BY DEF TypeInv, TypeOK
<1> QED
  BY <1>1 DEF AppendsAtMost, Recorded

LEMMA NumberedStep ==
    ASSUME TypeInv, TriesNumbered, [Next]_vars
    PROVE  TriesNumbered'
<1>a. AppendsAtMost
  BY TypeStep
<1>1. CASE UNCHANGED log
  BY <1>1 DEF TriesNumbered, Numbered, Of, Count, Recorded
<1>2. ASSUME NEW w \in Workers, SomeRecord(w) PROVE TriesNumbered'
  <2>1. PICK t \in EventTypes, key \in Keys, kind \in Kinds : Records(w, t, key, kind)
    BY <1>2 DEF SomeRecord
  <2>2. Len(log) \in Nat /\ seen[w] \in Nat
    BY DEF TypeInv, TypeOK
  <2>3. CASE /\ ~Recorded(t, key)
             /\ Len(log') = Len(log) + 1
             /\ \A i \in 1..Len(log) : log'[i] = log[i]
             /\ log'[Len(log) + 1] = [type |-> t, key |-> key, kind |-> kind]
    <3> SUFFICES ASSUME NEW type \in Tries PROVE Numbered(type)'
      BY DEF TriesNumbered
    <3>0. Numbered(type)
      BY DEF TriesNumbered
    <3>1. \A i \in Of(Len(log), {type}) :
             i \in 1..Len(log) /\ log'[i].key = Try(Count(i, type)')
      <4>1. \A i \in Of(Len(log), {type}) : i \in 0..Len(log) /\ i \in 1..Len(log)
        BY <2>2 DEF Of
      <4> QED
        BY <2>3, <3>0, <4>1, Appended DEF Numbered
    <3>2. \A k \in 1..Count(Len(log), type) : Recorded(type, Try(k))'
      BY <1>a, <3>0, RecordedStays DEF Numbered
    <3>3. CASE t # type
      <4>0. log'[Len(log) + 1].type # type
        BY <2>3, <3>3
      <4>1. /\ Of(Len(log), {type})' = Of(Len(log), {type})
            /\ Count(Len(log), type)' = Count(Len(log), type)
        BY <2>3, <4>0, Appended
      <4> QED
        BY <3>1, <3>2, <4>1 DEF Numbered
    <3>4. CASE t = type
      <4>0. PICK c \in Nat : c = Count(Len(log), type)
        BY <2>2, CountNat
      <4>1. log'[Len(log) + 1].type = type /\ log'[Len(log) + 1].key = key
        BY <2>3, <3>4
      <4>2. /\ Of(Len(log), {type})' = Of(Len(log), {type}) \cup {Len(log) + 1}
            /\ Count(Len(log), type)' = c + 1
        BY <2>3, <4>0, <4>1, Appended
      <4>3. key = Try(Count(seen[w], type) + 1)
        BY <2>1, <3>4 DEF Records, Tries, ThisSubmit, ThisCheck
      <4>4. key = Try(c + 1)
        BY <2>2, <2>3, <3>0, <3>4, <4>0, <4>3, FreshTry
      <4>5. PICK n \in Nat : n = Len(log)
        BY <2>2
      <4>a. log'[n + 1].key = Try(Count(n + 1, type)')
        BY <2>3, <4>1, <4>2, <4>4, <4>5 DEF Count, Of
      <4>6. Len(log) + 1 \in 1..Len(log')
        BY <2>2, <2>3
      <4>7. Recorded(type, Try(c + 1))'
        BY <4>1, <4>4, <4>6 DEF Recorded
      <4>8. \A k \in 1..(c + 1) : Recorded(type, Try(k))'
        <5>1. \A k \in 1..c : Recorded(type, Try(k))'
          BY <3>2, <4>0
        <5> QED
          BY <4>7, <5>1
      <4>9. \A i \in Of(Len(log), {type})' : log'[i].key = Try(Count(i, type)')
        <5>1. \A i \in Of(Len(log), {type}) \cup {n + 1} : log'[i].key = Try(Count(i, type)')
          BY <3>1, <4>a
        <5> QED
          BY <4>2, <4>5, <5>1
      <4> QED
        BY <4>2, <4>8, <4>9 DEF Numbered
    <3> QED
      BY <3>3, <3>4
  <2> QED
    BY <1>1, <2>1, <2>3, EmitAppends DEF Records, TypeInv, TypeOK
<1>3. CASE Platform \/ UNCHANGED vars
  BY <1>1, <1>3 DEF Platform, PlatformActivates, PlatformReturns, PlatformHolds, vars
<1> QED
  BY <1>1, <1>2, <1>3, RecordStep DEF Next, WorkerStep

\* How a worker comes to stand behind a check.
LEMMA BehindCheck ==
    ASSUME TypeInv, NEW w \in Workers, WorkerStep(w), pc'[w] \in {"check", "passed"}
    PROVE  UNCHANGED seen /\ (StartCheck(w) \/ CheckPasses(w) \/ ReuseCheck(w))
<1>1. ~Leave(w)
  BY LeaveMoves
<1>2. CASE \/ ReconcileUnknown(w) \/ ReconcileActive(w) \/ ReconcileOther(w)
           \/ ReconcileExhausted(w) \/ ValidationRejects(w) \/ SimulationBlocks(w)
           \/ Abandon(w) \/ CheckBlocks(w) \/ MarkReady(w) \/ ReplyActive(w)
           \/ ReplyPending(w) \/ ReplyFailed(w) \/ Crash(w)
  BY <1>1, <1>2
  DEF ReconcileUnknown, ReconcileActive, ReconcileOther, ReconcileExhausted,
      ValidationRejects, SimulationBlocks, Abandon, CheckBlocks, MarkReady, ReplyActive,
      ReplyPending, ReplyFailed, Crash, Return
<1>3. CASE \E e \in SubmitModes : Begin(w, e)
  BY <1>1, <1>3, GotoMoves DEF Begin, Return
<1>4. CASE CreateCandidate(w) \/ ValidationPasses(w) \/ RecordSimulation(w)
  <2>1. \E step \in {"sim_gate", "sim_start", "validate"} : Goto(w, step)
    BY <1>1, <1>4, AfterValidationOK DEF CreateCandidate, ValidationPasses, RecordSimulation, Return
  <2> QED
    BY <2>1, GotoMoves
<1>5. CASE ReconcileRetry(w) \/ StartSimulation(w) \/ Simulate(w) \/ NeedCheck(w)
           \/ StartSubmit(w) \/ Post(w)
  <2>1. \E step \in {"create", "simulate", "sim_record", "check_start", "post", "reply"} :
           Goto(w, step)
    BY <1>5 DEF ReconcileRetry, StartSimulation, Simulate, NeedCheck, StartSubmit, Post
  <2> QED
    BY <2>1, GotoMoves
<1>6. CASE StartCheck(w) \/ CheckPasses(w) \/ ReuseCheck(w)
  BY <1>6 DEF StartCheck, CheckPasses, ReuseCheck
<1> QED
  BY <1>2, <1>3, <1>4, <1>5, <1>6 DEF WorkerStep, Step, Reconcile

LEMMA CheckedStep ==
    ASSUME TypeInv, TriesNumbered, CheckedSince, [Next]_vars
    PROVE  CheckedSince'
<1>a. AppendsAtMost
  BY TypeStep
<1> SUFFICES ASSUME NEW v \in Workers, pc'[v] \in {"check", "passed"},
                    Occurs(seen[v], "submit_started")'
             PROVE  \E k \in (seen'[v] + 1)..Len(log') : log'[k].type = "check_started"
  BY DEF CheckedSince
<1>n. Len(log) \in Nat /\ seen[v] \in Nat /\ seen[v] <= Len(log)
  BY DEF TypeInv, TypeOK, SeenInLog
\* What was recorded behind the prefix stays there.
<1>b. ASSUME pc[v] \in {"check", "passed"}, seen'[v] = seen[v]
      PROVE  \E k \in (seen'[v] + 1)..Len(log') : log'[k].type = "check_started"
  <2>1. Occurs(seen[v], "submit_started")
    BY <1>a, <1>b, PrefixKept DEF Occurs
  <2>2. PICK k \in (seen[v] + 1)..Len(log) : log[k].type = "check_started"
    BY <1>b, <2>1 DEF CheckedSince
  <2>3. k \in (seen[v] + 1)..Len(log') /\ log'[k] = log[k]
    BY <1>a, <1>n, <2>2 DEF AppendsAtMost
  <2> QED
    BY <1>b, <2>2, <2>3
<1>1. ASSUME NEW w \in Workers, WorkerStep(w), w # v
      PROVE  \E k \in (seen'[v] + 1)..Len(log') : log'[k].type = "check_started"
  BY <1>b, <1>1, OthersStand
<1>2. CASE WorkerStep(v)
  <2>1. UNCHANGED seen /\ (StartCheck(v) \/ CheckPasses(v) \/ ReuseCheck(v))
    BY <1>2, BehindCheck
  <2>2. CASE CheckPasses(v)
    BY <1>b, <2>1, <2>2 DEF CheckPasses
  <2>3. CASE ReuseCheck(v)
    <3>1. Occurs(seen[v], "submit_started")
      BY <1>a, <2>1, PrefixKept DEF Occurs
    <3> QED
      BY <2>3, <3>1 DEF ReuseCheck, CheckCached, Submitted, Occurs, Of, SubmitTypes
  <2>4. CASE StartCheck(v)
    <3> DEFINE key == Try(Count(seen[v], "check_started") + 1)
    <3>1. Emit("check_started", key, "none") /\ key \in Keys
      BY <2>4, TryKeys DEF StartCheck, ThisCheck
    <3>2. \E i \in 1..Len(log') : log'[i].type = "check_started" /\ log'[i].key = key
      <4>1. CASE Recorded("check_started", key)
        <5>1. PICK i \in 1..Len(log) : log[i].type = "check_started" /\ log[i].key = key
          BY <4>1 DEF Recorded
        <5>2. i \in 1..Len(log') /\ log'[i] = log[i]
          BY <1>a, <1>n, <5>1 DEF AppendsAtMost
        <5> QED
          BY <5>1, <5>2
      <4>2. CASE /\ Len(log') = Len(log) + 1
                 /\ log'[Len(log) + 1] = [type |-> "check_started", key |-> key, kind |-> "none"]
        BY <1>n, <4>2
      <4>3. "check_started" \in EventTypes /\ "none" \in Kinds
        BY DEF EventTypes, Kinds
      <4> HIDE DEF key
      <4> QED
        BY <3>1, <4>1, <4>2, <4>3, EmitAppends DEF TypeInv, TypeOK
    <3>3. PICK i \in 1..Len(log') : log'[i].type = "check_started" /\ log'[i].key = key
      BY <3>2
    <3>4. ASSUME i <= seen[v] PROVE FALSE
      <4>1. i \in Nat /\ i \in Of(seen[v], {"check_started"}) /\ log'[i] = log[i]
        BY <1>a, <1>n, <3>3, <3>4 DEF AppendsAtMost, Of
      <4>2. i \in Of(Len(log), {"check_started"})
        BY <1>n, <4>1 DEF Of
      <4>3. log[i].key = Try(Count(i, "check_started"))
        BY <4>2 DEF TriesNumbered, Tries, Numbered
      <4>4. Count(i, "check_started") = Count(seen[v], "check_started") + 1
        BY <3>3, <4>1, <4>3 DEF Try
      <4>5. /\ Count(i, "check_started") <= Count(seen[v], "check_started")
            /\ Count(i, "check_started") \in Nat /\ Count(seen[v], "check_started") \in Nat
        BY <1>n, <3>4, <4>1, CountMonotone, CountNat
      <4> QED
        BY <4>4, <4>5
    <3>5. Len(log') \in Nat
      BY <1>n, <1>a DEF AppendsAtMost
    <3>6. i \in (seen'[v] + 1)..Len(log')
      BY <1>n, <2>1, <3>3, <3>4, <3>5
    <3> QED
      BY <3>3, <3>6
  <2> QED
    BY <2>1, <2>2, <2>3, <2>4
<1>3. CASE Platform \/ UNCHANGED vars
  BY <1>b, <1>3
  DEF Platform, PlatformActivates, PlatformReturns, PlatformHolds, vars, locals
<1> QED
  BY <1>1, <1>2, <1>3 DEF Next, WorkerStep

LEMMA RecheckStep ==
    ASSUME TypeInv, RetryInv, [Next]_vars
    PROVE  RecheckBeforeRepost'
<1>1. CASE UNCHANGED log
  BY <1>1 DEF RetryInv, RecheckBeforeRepost, Of, Now
<1>2. ASSUME NEW w \in Workers, SomeRecord(w) PROVE RecheckBeforeRepost'
  <2>1. PICK t \in EventTypes, key \in Keys, kind \in Kinds : Records(w, t, key, kind)
    BY <1>2 DEF SomeRecord
  <2>2. Len(log) \in Nat /\ seen[w] \in Nat /\ seen[w] <= Len(log)
    BY DEF TypeInv, TypeOK, SeenInLog
  <2>3. CASE /\ ~Recorded(t, key)
             /\ Len(log') = Len(log) + 1
             /\ \A i \in 1..Len(log) : log'[i] = log[i]
             /\ log'[Len(log) + 1] = [type |-> t, key |-> key, kind |-> kind]
    <3> SUFFICES ASSUME NEW i \in 1..Len(log'), NEW j \in 1..Len(log'), i < j,
                        log'[i].type = "submit_started", log'[j].type = "submit_started"
                 PROVE  \E k \in (i + 1)..(j - 1) : log'[k].type = "check_started"
      BY DEF RecheckBeforeRepost, Of, Now
    <3>1. i \in 1..Len(log) /\ log[i].type = "submit_started"
      BY <2>2, <2>3
    <3>2. CASE j \in 1..Len(log)
      <4>1. \E k \in (i + 1)..(j - 1) : log[k].type = "check_started"
        BY <2>3, <3>1, <3>2 DEF RetryInv, RecheckBeforeRepost, Of, Now
      <4>2. \A k \in (i + 1)..(j - 1) : k \in 1..Len(log)
        BY <2>2, <3>1, <3>2
      <4> QED
        BY <2>3, <4>1, <4>2
    <3>3. CASE j = Len(log) + 1
      <4>1. t = "submit_started"
        BY <2>3, <3>3
      <4>2. pc[w] = "passed" /\ key = Try(Count(seen[w], "submit_started") + 1)
        BY <2>1, <4>1 DEF Records, Writers, ThisSubmit
      <4>3. Numbered("submit_started")
        BY DEF RetryInv, TriesNumbered, Tries
      <4>4. Of(seen[w], {"submit_started"}) = Of(Len(log), {"submit_started"})
        BY <2>3, <4>1, <4>2, <4>3, FreshTry
      <4>5. i \in Of(seen[w], {"submit_started"})
        BY <3>1, <4>4 DEF Of
      <4>6. i <= seen[w] /\ Occurs(seen[w], "submit_started")
        BY <2>2, <4>5 DEF Of, Occurs
      <4>7. PICK k \in (seen[w] + 1)..Len(log) : log[k].type = "check_started"
        BY <4>2, <4>6 DEF RetryInv, CheckedSince
      <4>8. k \in (i + 1)..(j - 1) /\ k \in 1..Len(log)
        BY <2>2, <3>1, <3>3, <4>6, <4>7
      <4> QED
        BY <2>3, <4>7, <4>8
    <3> QED
      BY <2>2, <2>3, <3>2, <3>3
  <2> QED
    BY <1>1, <2>1, <2>3, EmitAppends DEF Records, TypeInv, TypeOK
<1>3. CASE Platform \/ UNCHANGED vars
  BY <1>1, <1>3 DEF Platform, PlatformActivates, PlatformReturns, PlatformHolds, vars
<1> QED
  BY <1>1, <1>2, <1>3, RecordStep DEF Next, WorkerStep

LEMMA RetryInit == Init => RetryInv
<1> SUFFICES ASSUME Init PROVE RetryInv
  OBVIOUS
<1>1. Len(log) = 0 /\ \A w \in Workers : pc[w] = "idle"
  BY DEF Init
<1>2. \A type : Of(Len(log), {type}) = {}
  BY <1>1 DEF Of
<1>3. ASSUME NEW type PROVE Numbered(type)
  <2>1. Count(Len(log), type) = 0
    BY <1>2, FS_EmptySet DEF Count
  <2>2. Of(Len(log), {type}) = {}
    BY <1>2
  <2>3. \A k \in 1..0 : FALSE
    OBVIOUS
  <2> QED
    BY <2>1, <2>2, <2>3 DEF Numbered
<1>4. TriesNumbered
  BY <1>3 DEF TriesNumbered
<1> QED
  BY <1>1, <1>2, <1>4 DEF RetryInv, CheckedSince, RecheckBeforeRepost, Now

\* Between two recorded submissions a new check was started, for any number of overlapping
\* executions: a retry never rests on the check that let the earlier one through.
THEOREM Rechecked == Spec => []RecheckBeforeRepost
<1>1. Init => TypeInv /\ RetryInv
  BY TypeInit, RetryInit
<1>2. TypeInv /\ RetryInv /\ [Next]_vars => TypeInv' /\ RetryInv'
  BY TypeStep, NumberedStep, CheckedStep, RecheckStep DEF RetryInv
<1>3. RetryInv => RecheckBeforeRepost
  BY DEF RetryInv
<1> QED
  BY <1>1, <1>2, <1>3, PTL DEF Spec
=============================================================================
