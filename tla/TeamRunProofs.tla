---------------------------- MODULE TeamRunProofs ----------------------------
(***************************************************************************)
(* Theorems about an attempt of the team runner, for every number of       *)
(* workers, every budget and every number of goals.                        *)
(***************************************************************************)
EXTENDS TeamRunProperties, FiniteSetTheorems, TLAPS

\* How long the coordinator of a slow daemon may run.
SlowStart == StartLimit + RpcLimit + LeastWall

\* A daemon that is not up serves nobody: what is recorded is no longer changed.
Served ==
    /\ NothingOutlivesItsPhase
    /\ daemon # "up" => serving = Nobody

Verdict ==
    /\ VerdictIsFinal
    /\ record # "none" => pc \in {"recorded", "errored"}

\* No wait is overdue, and none of a phase ends behind the budget.
Clock ==
    /\ now <= due
    /\ pc = "startup" => due <= StartLimit
    /\ pc = "status0" => due <= StartLimit + RpcLimit
    /\ pc = "coord" => due <= Total \/ due <= SlowStart
    /\ pc \in {"workers", "fin"} => due <= Total

IInv == TypeOK /\ Served /\ Verdict /\ Clock

USE DEF Coord, Worker, Fin, Agent, Harness, Nobody, StartLimit, RpcLimit, GoalsReserve,
        PhaseReserve, LeastWall, Rpc, Phase, Over

-----------------------------------------------------------------------------
\* The goals without an owner are counted by a natural number.
LEMMA FreeType ==
  ASSUME TypeOK
  PROVE  Free \in Nat
<1>1. IsFiniteSet(Agent)
  BY TeamRunAssumption, FS_Interval
<1>2. IsFiniteSet(owners)
  BY <1>1, FS_Subset DEF TypeOK
<1>. QED
  BY <1>2, FS_CardinalityType DEF Free, TypeOK

\* Every step keeps the types.
LEMMA TypeNext ==
  ASSUME TypeOK, [Next]_vars
  PROVE  TypeOK'
<1>. USE DEF TypeOK
<1>1. CASE PollConnects
  <2>1. due' \in Nat /\ pc' = "status0"
    BY <1>1 DEF PollConnects, Call
  <2>2. pending' \in SUBSET (Agent \cup {Harness})
    BY <1>1 DEF PollConnects, Call
  <2>. QED
    BY <1>1, <2>1, <2>2 DEF PollConnects, proof
<1>2. CASE StartupFails
  BY <1>2 DEF StartupFails, Leave, harness, proof
<1>3. CASE RpcFails
  BY <1>3 DEF RpcFails, Leave, harness, proof
<1>4. CASE StartCoordinator
  BY <1>4, TeamRunAssumption DEF StartCoordinator, Answered, Run, proof, Wall, Remaining, Lesser, Greater
<1>5. CASE AfterCoordinator
  <2>1. due' \in Nat
    BY <1>5 DEF AfterCoordinator, Call
  <2>2. pending' \in SUBSET (Agent \cup {Harness})
    BY <1>5 DEF AfterCoordinator, Call
  <2>3. pc' \in {"goals", "status2"}
    BY <1>5 DEF AfterCoordinator, Call
  <2>. QED
    BY <1>5, <2>1, <2>2, <2>3 DEF AfterCoordinator, proof
<1>6. CASE StartWorkers
  <2>1. due' \in Nat
    BY <1>6, TeamRunAssumption DEF StartWorkers, Run, Call, Wall, Remaining, Lesser, Greater
  <2>2. alive' \in SUBSET Agent
    <3>1. PICK k : k = Lesser(K, answer.free)
      OBVIOUS
    <3>2. k \in Int /\ k <= K
      BY <3>1, TeamRunAssumption DEF Lesser
    <3>3. 1..k \subseteq Agent
      BY <3>2, TeamRunAssumption
    <3>4. alive' \in SUBSET (1..k) \/ alive' = alive
      BY <1>6, <3>1 DEF StartWorkers, Run
    <3>. QED
      BY <3>3, <3>4
  <2>3. pending' \in {pending, pending \cup {Harness}}
    BY <1>6 DEF StartWorkers, Run, Call
  <2>4. pc' \in {"workers", "status2"} /\ raised' \in BOOLEAN
    BY <1>6 DEF StartWorkers, Run, Call
  <2>. QED
    BY <1>6, <2>1, <2>2, <2>3, <2>4 DEF StartWorkers, proof
<1>7. CASE StartFinisher
  <2>1. due' \in Nat
    BY <1>7, TeamRunAssumption DEF StartFinisher, Run, Leave, Wall, Remaining, Lesser, Greater
  <2>2. alive' \in SUBSET Agent
    <3>1. alive' \in SUBSET {Fin} \/ alive' = alive
      BY <1>7 DEF StartFinisher, Run
    <3>2. Fin \in Agent
      BY TeamRunAssumption
    <3>. QED
      BY <3>1, <3>2
  <2>3. pending' = pending
    BY <1>7 DEF StartFinisher, Run, Leave
  <2>4. pc' \in {"fin", "teardown"} /\ raised' \in BOOLEAN
    BY <1>7 DEF StartFinisher, Run, Leave
  <2>. QED
    BY <1>7, <2>1, <2>2, <2>3, <2>4 DEF StartFinisher, proof
<1>8. CASE PhaseEnds
  <2>1. due' \in Nat
    BY <1>8 DEF PhaseEnds, Leave, Call
  <2>2. pending' \in SUBSET (Agent \cup {Harness})
    BY <1>8 DEF PhaseEnds, Leave, Call
  <2>3. pc' \in {"teardown", "status1", "status2"} /\ raised' \in BOOLEAN
    BY <1>8 DEF PhaseEnds, Leave, Call
  <2>. QED
    BY <1>8, <2>1, <2>2, <2>3 DEF PhaseEnds, proof
<1>9. CASE Teardown
  BY <1>9 DEF Teardown, proof
<1>10. CASE Judge
  BY <1>10 DEF Judge, proof
<1>11. CASE RecordError
  BY <1>11 DEF RecordError, proof
<1>12. CASE Tick
  BY <1>12 DEF Tick, harness, proof
<1>13. ASSUME NEW a \in alive, KillAgent(a) PROVE TypeOK'
  BY <1>13 DEF KillAgent, harness, proof
<1>14. ASSUME NEW a \in alive, Ask(a) PROVE TypeOK'
  BY <1>14 DEF Ask, harness, proof
<1>15. ASSUME NEW a \in alive, Exit(a) PROVE TypeOK'
  BY <1>15 DEF Exit, harness, proof
<1>16. CASE Bind
  BY <1>16 DEF Bind, harness, proof
<1>17. CASE Crash
  BY <1>17 DEF Crash, harness, proof
<1>18. CASE Serve
  <2>1. answer' \in [complete : BOOLEAN, free : Nat]
    BY <1>18, FreeType DEF Serve
  <2>2. open' \in Nat
    <3>1. CASE OnTrunk(serving)
      BY <3>1, TeamRunAssumption DEF OnTrunk
    <3>2. CASE Focus(serving) \/ UNCHANGED proof
      BY <3>2 DEF Focus, proof
    <3>3. CASE Merge(serving)
      BY <3>3 DEF Merge
    <3>. QED
      BY <1>18, <3>1, <3>2, <3>3 DEF Serve
  <2>3. owners' \in SUBSET Agent
    BY <1>18 DEF Serve, proof, OnTrunk, Focus, Merge
  <2>4. candidate' \in BOOLEAN
    BY <1>18 DEF Serve, proof, OnTrunk, Focus, Merge
  <2>. QED
    BY <1>18, <2>1, <2>2, <2>3, <2>4 DEF Serve, harness
<1>19. ASSUME NEW c \in pending, PickUp(c) PROVE TypeOK'
  BY <1>19 DEF PickUp, harness, proof
<1>20. CASE UNCHANGED vars
  BY <1>20 DEF vars, harness, proof
<1>. QED
  BY <1>1, <1>2, <1>3, <1>4, <1>5, <1>6, <1>7, <1>8, <1>9, <1>10, <1>11, <1>12,
     <1>13, <1>14, <1>15, <1>16, <1>17, <1>18, <1>19, <1>20
     DEF Next, HarnessStep

\* Every step keeps agents in their phase and the dead daemon quiet.
LEMMA ServedNext ==
  ASSUME TypeOK, Served, [Next]_vars
  PROVE  Served'
<1>. USE DEF TypeOK, Served, NothingOutlivesItsPhase
<1>1. CASE PollConnects
  BY <1>1 DEF PollConnects, Call, harness, proof
<1>2. CASE StartupFails
  BY <1>2 DEF StartupFails, Leave, harness, proof
<1>3. CASE RpcFails
  BY <1>3 DEF RpcFails, Leave, harness, proof
<1>4. CASE StartCoordinator
  BY <1>4 DEF StartCoordinator, Answered, Run, proof
<1>5. CASE AfterCoordinator
  BY <1>5 DEF AfterCoordinator, Answered, Call, proof
<1>6. CASE StartWorkers
  BY <1>6, TeamRunAssumption, SMTT(30) DEF StartWorkers, Answered, Run, Call, proof, Wall, Remaining, Lesser, Greater
<1>7. CASE StartFinisher
  BY <1>7 DEF StartFinisher, Answered, Run, Leave, proof
<1>8. CASE PhaseEnds
  BY <1>8 DEF PhaseEnds, Leave, Call, proof
<1>9. CASE Teardown
  BY <1>9 DEF Teardown, proof
<1>10. CASE Judge
  BY <1>10 DEF Judge, proof
<1>11. CASE RecordError
  BY <1>11 DEF RecordError, proof
<1>12. CASE Tick
  BY <1>12 DEF Tick, harness, proof
<1>13. ASSUME NEW a \in alive, KillAgent(a) PROVE Served'
  BY <1>13 DEF KillAgent, harness, proof
<1>14. ASSUME NEW a \in alive, Ask(a) PROVE Served'
  BY <1>14 DEF Ask, harness, proof
<1>15. ASSUME NEW a \in alive, Exit(a) PROVE Served'
  BY <1>15 DEF Exit, harness, proof
<1>16. CASE Bind
  BY <1>16 DEF Bind, harness, proof
<1>17. CASE Crash
  BY <1>17 DEF Crash, harness, proof
<1>18. CASE Serve
  BY <1>18 DEF Serve, harness, proof, OnTrunk, Focus, Merge
<1>19. ASSUME NEW c \in pending, PickUp(c) PROVE Served'
  BY <1>19 DEF PickUp, harness, proof
<1>20. CASE UNCHANGED vars
  BY <1>20 DEF vars, harness, proof
<1>. QED
  BY <1>1, <1>2, <1>3, <1>4, <1>5, <1>6, <1>7, <1>8, <1>9, <1>10, <1>11, <1>12,
     <1>13, <1>14, <1>15, <1>16, <1>17, <1>18, <1>19, <1>20
     DEF Next, HarnessStep

\* Every step keeps the record true of the candidate file.
LEMMA VerdictNext ==
  ASSUME TypeOK, Served, Verdict, [Next]_vars
  PROVE  Verdict'
<1>. USE DEF TypeOK, Served, NothingOutlivesItsPhase, Verdict, VerdictIsFinal
<1>1. CASE PollConnects
  BY <1>1 DEF PollConnects, Call, harness, proof
<1>2. CASE StartupFails
  BY <1>2 DEF StartupFails, Leave, harness, proof
<1>3. CASE RpcFails
  BY <1>3 DEF RpcFails, Leave, harness, proof
<1>4. CASE StartCoordinator
  BY <1>4 DEF StartCoordinator, Answered, Run, proof
<1>5. CASE AfterCoordinator
  BY <1>5 DEF AfterCoordinator, Answered, Call, proof
<1>6. CASE StartWorkers
  BY <1>6 DEF StartWorkers, Answered, Run, Call, proof
<1>7. CASE StartFinisher
  BY <1>7 DEF StartFinisher, Answered, Run, Leave, proof
<1>8. CASE PhaseEnds
  BY <1>8 DEF PhaseEnds, Leave, Call, proof
<1>9. CASE Teardown
  BY <1>9 DEF Teardown, proof
<1>10. CASE Judge
  BY <1>10 DEF Judge, proof
<1>11. CASE RecordError
  BY <1>11 DEF RecordError, proof
<1>12. CASE Tick
  BY <1>12 DEF Tick, harness, proof
<1>13. ASSUME NEW a \in alive, KillAgent(a) PROVE Verdict'
  BY <1>13 DEF KillAgent, harness, proof
<1>14. ASSUME NEW a \in alive, Ask(a) PROVE Verdict'
  BY <1>14 DEF Ask, harness, proof
<1>15. ASSUME NEW a \in alive, Exit(a) PROVE Verdict'
  BY <1>15 DEF Exit, harness, proof
<1>16. CASE Bind
  BY <1>16 DEF Bind, harness, proof
<1>17. CASE Crash
  BY <1>17 DEF Crash, harness, proof
<1>18. CASE Serve
  BY <1>18 DEF Serve, harness, proof, OnTrunk, Focus, Merge
<1>19. ASSUME NEW c \in pending, PickUp(c) PROVE Verdict'
  BY <1>19 DEF PickUp, harness, proof
<1>20. CASE UNCHANGED vars
  BY <1>20 DEF vars, harness, proof
<1>. QED
  BY <1>1, <1>2, <1>3, <1>4, <1>5, <1>6, <1>7, <1>8, <1>9, <1>10, <1>11, <1>12,
     <1>13, <1>14, <1>15, <1>16, <1>17, <1>18, <1>19, <1>20
     DEF Next, HarnessStep

\* Every step keeps the deadlines.
LEMMA ClockNext ==
  ASSUME TypeOK, Clock, [Next]_vars
  PROVE  Clock'
<1>. USE DEF TypeOK, Clock, SlowStart
<1>1. CASE PollConnects
  BY <1>1 DEF PollConnects, Call, harness, proof
<1>2. CASE StartupFails
  BY <1>2 DEF StartupFails, Leave, harness, proof
<1>3. CASE RpcFails
  BY <1>3 DEF RpcFails, Leave, harness, proof
<1>4. CASE StartCoordinator
  BY <1>4, TeamRunAssumption DEF StartCoordinator, Answered, Run, proof, Wall, Remaining, Lesser, Greater
<1>5. CASE AfterCoordinator
  BY <1>5 DEF AfterCoordinator, Answered, Call, proof
<1>6. CASE StartWorkers
  BY <1>6, TeamRunAssumption DEF StartWorkers, Answered, Run, Call, proof, Wall, Remaining, Lesser, Greater
<1>7. CASE StartFinisher
  BY <1>7, TeamRunAssumption DEF StartFinisher, Answered, Run, Leave, proof, Wall, Remaining, Lesser, Greater
<1>8. CASE PhaseEnds
  BY <1>8 DEF PhaseEnds, Leave, Call, proof
<1>9. CASE Teardown
  BY <1>9 DEF Teardown, proof
<1>10. CASE Judge
  BY <1>10 DEF Judge, proof
<1>11. CASE RecordError
  BY <1>11 DEF RecordError, proof
<1>12. CASE Tick
  BY <1>12 DEF Tick, harness, proof
<1>13. ASSUME NEW a \in alive, KillAgent(a) PROVE Clock'
  BY <1>13 DEF KillAgent, harness, proof
<1>14. ASSUME NEW a \in alive, Ask(a) PROVE Clock'
  BY <1>14 DEF Ask, harness, proof
<1>15. ASSUME NEW a \in alive, Exit(a) PROVE Clock'
  BY <1>15 DEF Exit, harness, proof
<1>16. CASE Bind
  BY <1>16 DEF Bind, harness, proof
<1>17. CASE Crash
  BY <1>17 DEF Crash, harness, proof
<1>18. CASE Serve
  BY <1>18 DEF Serve, harness, proof, OnTrunk, Focus, Merge
<1>19. ASSUME NEW c \in pending, PickUp(c) PROVE Clock'
  BY <1>19 DEF PickUp, harness, proof
<1>20. CASE UNCHANGED vars
  BY <1>20 DEF vars, harness, proof
<1>. QED
  BY <1>1, <1>2, <1>3, <1>4, <1>5, <1>6, <1>7, <1>8, <1>9, <1>10, <1>11, <1>12,
     <1>13, <1>14, <1>15, <1>16, <1>17, <1>18, <1>19, <1>20
     DEF Next, HarnessStep

-----------------------------------------------------------------------------
LEMMA Inductive == Spec => []IInv
<1>1. Init => IInv
  <2>. SUFFICES ASSUME Init PROVE IInv
    OBVIOUS
  <2>1. TypeOK
    <3>1. now \in Nat /\ due \in Nat
      BY DEF Init
    <3>2. raised \in BOOLEAN /\ candidate \in BOOLEAN
      BY DEF Init
    <3>3. serving \in Agent \cup {Harness, Nobody}
      BY DEF Init
    <3>4. alive \in SUBSET Agent /\ pending \in SUBSET (Agent \cup {Harness})
      BY DEF Init
    <3>5. answer \in [complete : BOOLEAN, free : Nat] /\ open \in Nat
      BY DEF Init
    <3>. QED
      BY <3>1, <3>2, <3>3, <3>4, <3>5 DEF Init, TypeOK
  <2>2. Served /\ Verdict /\ Clock
    BY DEF Init, Served, NothingOutlivesItsPhase, Verdict, VerdictIsFinal, Clock
  <2>. QED
    BY <2>1, <2>2 DEF IInv
<1>2. IInv /\ [Next]_vars => IInv'
  BY TypeNext, ServedNext, VerdictNext, ClockNext DEF IInv
<1>. QED
  BY <1>1, <1>2, PTL DEF Spec

\* Every reachable state has its type.
THEOREM TypeCorrect == Spec => []TypeOK
<1>1. IInv => TypeOK
  BY DEF IInv
<1>. QED
  BY <1>1, Inductive, PTL

\* No agent outlives its phase and no daemon the attempt, whichever wait failed.
THEOREM NothingOutlives == Spec => []NothingOutlivesItsPhase
<1>1. IInv => NothingOutlivesItsPhase
  BY DEF IInv, Served
<1>. QED
  BY <1>1, Inductive, PTL

\* What was recorded of the candidate file stays true of it.
THEOREM VerdictStays == Spec => []VerdictIsFinal
<1>1. IInv => VerdictIsFinal
  BY DEF IInv, Verdict
<1>. QED
  BY <1>1, Inductive, PTL

\* For any budgets of the phases, even such that together exceed the attempt's, no
\* agent runs past the budget of the attempt.
THEOREM BudgetKept == Spec => []WithinBudget
<1>1. ASSUME IInv, NEW a \in alive
      PROVE  now <= Total \/ (a = Coord /\ now <= StartLimit + RpcLimit + LeastWall)
  <2>1. now \in Nat /\ due \in Nat /\ now <= due
    BY <1>1 DEF IInv, TypeOK, Clock
  <2>2. pc \in {"coord", "workers", "fin"} /\ (pc = "coord" => a = Coord)
    BY <1>1 DEF IInv, Served, NothingOutlivesItsPhase
  <2>3. CASE pc = "coord"
    BY <1>1, <2>1, <2>2, <2>3, TeamRunAssumption DEF IInv, Clock, SlowStart
  <2>4. CASE pc \in {"workers", "fin"}
    BY <1>1, <2>1, <2>4, TeamRunAssumption DEF IInv, Clock
  <2>. QED
    BY <2>2, <2>3, <2>4
<1>2. IInv => WithinBudget
  BY <1>1 DEF WithinBudget
<1>. QED
  BY <1>2, Inductive, PTL
=============================================================================
