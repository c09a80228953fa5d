------------------------------ MODULE TeamRun ------------------------------
(***************************************************************************)
(* One attempt of the team runner (run_team.py): a daemon that holds the   *)
(* shared proof, and three phases of agents attached to it under one wall  *)
(* budget: a coordinator, up to K workers at once, a finisher.  Between    *)
(* the phases the harness asks the daemon itself, over the same socket, so *)
(* behind whatever the daemon is busy with.                                *)
(*                                                                         *)
(* The daemon is reduced to what the harness sees of it: how many goals    *)
(* are open, which agents own one, and whether the proof is complete and   *)
(* with it candidate.v written.  Daemon.tla is its detailed model; that no *)
(* two agents own one goal and that candidate.v is the proof is shown      *)
(* there.  It serves one request at a time (rocq_agent_daemon.ml:541), and *)
(* writes the answer outside its handler: a client that is gone by then    *)
(* takes it down (line 576).                                               *)
(*                                                                         *)
(* Time is counted in units of five seconds and passes only while the      *)
(* harness waits; it cannot pass a deadline the harness has not acted on.  *)
(*                                                                         *)
(* A definition introduced by a remark in parentheses is a plausible       *)
(* mistake in the one that follows it; Spec uses none of them.             *)
(***************************************************************************)
EXTENDS Integers, FiniteSets

CONSTANTS
    K,                  \* k_workers
    Total,              \* attempt_timeout_s
    CoordBudget, WorkersBudget, FinisherBudget,  \* phase_budgets_s
    MaxGoals            \* bound: open goals of the shared proof

ASSUME TeamRunAssumption ==
    /\ K \in Nat \ {0} /\ MaxGoals \in Nat
    /\ Total \in Nat /\ CoordBudget \in Nat /\ WorkersBudget \in Nat /\ FinisherBudget \in Nat

\* The clients of the daemon by number.
Coord   == 0
Worker  == 1..K
Fin     == K + 1
Agent   == 0..(K + 1)
Harness == K + 2
Nobody  == -1

\* The literals of the code: 120 polls half a second apart, 20 s, 15 s, 10 s and 5 s.
StartLimit   == 12
RpcLimit     == 4
GoalsReserve == 3
PhaseReserve == 2
LeastWall    == 1

VARIABLES
    now,       \* the wall clock, from the start of the attempt
    pc,        \* where the harness is
    due,       \* when the wait it is in runs out
    raised,    \* an exception is on its way to the finally clause
    alive,     \* the agents that run
    daemon,    \* "starting", "loading" behind a bound socket, "up", "dead"
    serving,   \* the client whose request the daemon works on
    pending,   \* the clients with a request that is not answered
    answer,    \* the last answer the harness got
    open,      \* open goals of the shared proof
    owners,    \* the agents with a branch
    candidate, \* the proof is complete and candidate.v written
    record     \* the record of the attempt

harness == <<pc, due, raised, record>>
proof   == <<open, owners, candidate>>
vars    == <<now, harness, alive, daemon, serving, pending, answer, proof>>

Rpc   == {"status0", "status1", "goals", "status2"}
Phase == {"coord", "workers", "fin"}
Over  == {"judge", "failed", "recorded", "errored"}

Lesser(a, b)  == IF a < b THEN a ELSE b
Greater(a, b) == IF a < b THEN b ELSE a

Free == IF Cardinality(owners) < open THEN open - Cardinality(owners) ELSE 0

\* The daemon is spawned when the attempt begins.
Init ==
    /\ now = 0 /\ pc = "startup" /\ due = StartLimit /\ raised = FALSE
    /\ alive = {} /\ daemon = "starting" /\ serving = Nobody /\ pending = {}
    /\ answer = [complete |-> FALSE, free |-> 0]
    /\ open = 1 /\ owners = {} /\ candidate = FALSE
    /\ record = "none"

-----------------------------------------------------------------------------
(* The harness.                                                            *)

Remaining == Total - now

\* daemon_rpc sends its request.
Call(p) ==
    /\ pc' = p /\ due' = now + RpcLimit
    /\ pending' = pending \cup {Harness}

\* The finally clause is entered.
Leave(exn) ==
    /\ pc' = "teardown" /\ raised' = exn
    /\ UNCHANGED <<due, pending>>

Answered(p) == pc = p /\ Harness \notin pending

\* run_agent waits for its agent that long.
Wall(budget) == Greater(LeastWall, budget)

\* run_agent for the agents A: some may fail to start, which raises when the
\* others are over.
Run(p, A, budget) ==
    /\ pc' = p /\ due' = now + Wall(budget)
    /\ alive' \in SUBSET A /\ raised' = (alive' # A)
    /\ UNCHANGED pending

\* The socket is there.
PollConnects ==
    /\ pc = "startup" /\ daemon \in {"loading", "up"}
    /\ Call("status0")
    /\ UNCHANGED <<now, raised, alive, daemon, serving, answer, proof, record>>

\* The daemon died at startup, or its socket never came up.
StartupFails ==
    /\ pc = "startup"
    /\ daemon = "dead" \/ (daemon = "starting" /\ now >= due)
    /\ Leave(TRUE)
    /\ UNCHANGED <<now, alive, daemon, serving, answer, proof, record>>

\* (The socket has no timeout.)
RpcIsRefused ==
    /\ pc \in Rpc /\ Harness \in pending /\ daemon = "dead"
    /\ Leave(TRUE)
    /\ UNCHANGED <<now, alive, daemon, serving, answer, proof, record>>

\* No answer in time, or a connection that is refused or closed: nothing between
\* the rpc and the finally clause catches it.
RpcFails ==
    /\ pc \in Rpc /\ Harness \in pending
    /\ daemon = "dead" \/ now >= due
    /\ Leave(TRUE)
    /\ UNCHANGED <<now, alive, daemon, serving, answer, proof, record>>

StartCoordinator ==
    /\ Answered("status0")
    /\ Run("coord", {Coord}, Lesser(CoordBudget, Remaining))
    /\ UNCHANGED <<now, daemon, serving, answer, proof, record>>

\* The goals are asked for if there is something left to do and time to do it.
AfterCoordinator ==
    /\ Answered("status1")
    /\ Call(IF ~answer.complete /\ Remaining > GoalsReserve THEN "goals" ELSE "status2")
    /\ UNCHANGED <<now, raised, alive, daemon, serving, answer, proof, record>>

\* (The budget left is the one from before the goals were asked for.)
StartWorkersUnchecked ==
    /\ Answered("goals")
    /\ LET k == Lesser(K, answer.free) IN
       IF k > 0 THEN Run("workers", 1..k, WorkersBudget)
                ELSE Call("status2") /\ UNCHANGED <<raised, alive>>
    /\ UNCHANGED <<now, daemon, serving, answer, proof, record>>

\* A worker for each goal that had no owner in the answer, K at most; the agents
\* are told the numbers the goals had then.
StartWorkers ==
    /\ Answered("goals")
    /\ LET k  == Lesser(K, answer.free)
           wb == Lesser(WorkersBudget, Remaining)
       IN IF k > 0 /\ wb > PhaseReserve
            THEN Run("workers", 1..k, wb)
            ELSE Call("status2") /\ UNCHANGED <<raised, alive>>
    /\ UNCHANGED <<now, daemon, serving, answer, proof, record>>

StartFinisher ==
    /\ Answered("status2")
    /\ IF ~answer.complete /\ Remaining > PhaseReserve
         THEN Run("fin", {Fin}, Lesser(FinisherBudget, Remaining))
         ELSE Leave(FALSE) /\ UNCHANGED alive
    /\ UNCHANGED <<now, daemon, serving, answer, proof, record>>

\* (The harness goes on when the budget has run out, and leaves the agent to its end.)
LeaveAgent(a) ==
    /\ a \in alive /\ now >= due
    /\ Leave(FALSE)
    /\ UNCHANGED <<now, alive, daemon, serving, answer, proof, record>>

\* The budget of an agent has run out: it is killed, with its children, and
\* waited for.
KillAgent(a) ==
    /\ a \in alive /\ now >= due
    /\ alive' = alive \ {a}
    /\ UNCHANGED <<now, harness, daemon, serving, pending, answer, proof>>

\* All agents of a phase are over.
PhaseEnds ==
    /\ pc \in Phase /\ alive = {}
    /\ IF raised \/ pc = "fin"
         THEN Leave(raised)
         ELSE Call(IF pc = "coord" THEN "status1" ELSE "status2") /\ UNCHANGED raised
    /\ UNCHANGED <<now, alive, daemon, serving, answer, proof, record>>

\* (SIGTERM, and nobody waits for the daemon.)
TeardownAsks ==
    /\ pc = "teardown"
    /\ pc' = IF raised THEN "failed" ELSE "judge"
    /\ UNCHANGED <<now, due, raised, record, alive, daemon, serving, pending, answer, proof>>

\* The finally clause kills the daemon and waits for it.
Teardown ==
    /\ pc = "teardown"
    /\ daemon' = "dead" /\ serving' = Nobody
    /\ pc' = IF raised THEN "failed" ELSE "judge"
    /\ UNCHANGED <<now, due, raised, record, alive, pending, answer, proof>>

\* The gate judges the candidate, if there is one, and the record is appended;
\* reading it or running the gate may raise.
Judge ==
    /\ pc = "judge"
    /\ \/ /\ record' \in IF candidate THEN {"solved", "rejected"} ELSE {"no_candidate"}
          /\ pc' = "recorded"
       \/ pc' = "failed" /\ UNCHANGED record
    /\ UNCHANGED <<now, due, raised, alive, daemon, serving, pending, answer, proof>>

\* main: the exception of an attempt becomes an error record.
RecordError ==
    /\ pc = "failed"
    /\ pc' = "errored" /\ record' = "harness_error"
    /\ UNCHANGED <<now, due, raised, alive, daemon, serving, pending, answer, proof>>

HarnessStep ==
    \/ PollConnects \/ StartupFails \/ RpcFails \/ StartCoordinator \/ AfterCoordinator
    \/ StartWorkers \/ StartFinisher \/ PhaseEnds \/ Teardown \/ Judge \/ RecordError

\* Time passes while the harness waits for something that may still happen.
Tick ==
    /\ now < due
    /\ \/ pc = "startup" /\ daemon = "starting"
       \/ pc \in Rpc /\ Harness \in pending /\ daemon # "dead"
       \/ pc \in Phase /\ alive # {}
    /\ now' = now + 1
    /\ UNCHANGED <<harness, alive, daemon, serving, pending, answer, proof>>

-----------------------------------------------------------------------------
(* The agents and the daemon.                                              *)

\* A tool call, over the one connection of the agent's shim.
Ask(a) ==
    /\ a \in alive \ pending /\ daemon \in {"loading", "up"}
    /\ pending' = pending \cup {a}
    /\ UNCHANGED <<now, harness, alive, daemon, serving, answer, proof>>

\* Done, out of turns or crashed.
Exit(a) ==
    /\ a \in alive
    /\ alive' = alive \ {a}
    /\ UNCHANGED <<now, harness, daemon, serving, pending, answer, proof>>

\* The daemon binds its socket, and then executes the task's prefix.
Bind ==
    /\ daemon \in {"starting", "loading"}
    /\ daemon' = IF daemon = "starting" THEN "loading" ELSE "up"
    /\ UNCHANGED <<now, harness, alive, serving, pending, answer, proof>>

Crash ==
    /\ daemon = "loading" \/ serving # Nobody
    /\ daemon' = "dead" /\ serving' = Nobody
    /\ UNCHANGED <<now, harness, alive, pending, answer, proof>>

\* It reads the next request; that of an agent that was killed is still there.
PickUp(c) ==
    /\ daemon = "up" /\ serving = Nobody /\ c \in pending
    /\ serving' = c
    /\ UNCHANGED <<now, harness, alive, daemon, pending, answer, proof>>

\* step or auto_close of an agent without a branch: on the trunk.
OnTrunk(a) ==
    /\ a \notin owners
    /\ open' \in 0..MaxGoals
    /\ candidate' \in {FALSE, open' = 0}
    /\ UNCHANGED owners

\* focus: the old branch is dropped before the new one is opened.
Focus(a) ==
    /\ owners' = IF Cardinality(owners \ {a}) < open THEN owners \cup {a} ELSE owners \ {a}
    /\ UNCHANGED <<open, candidate>>

\* The step that closes the agent's subgoal.
Merge(a) ==
    /\ a \in owners /\ open > 0
    /\ owners' = owners \ {a} /\ open' = open - 1
    /\ UNCHANGED candidate

\* The request is executed and answered.  A client that is gone takes the daemon.
Serve ==
    /\ serving # Nobody
    /\ \/ UNCHANGED proof
       \/ serving # Harness /\ ~candidate /\ (OnTrunk(serving) \/ Focus(serving) \/ Merge(serving))
    /\ pending' = pending \ {serving}
    /\ serving' = Nobody
    /\ answer' = IF serving = Harness THEN [complete |-> candidate, free |-> Free] ELSE answer
    /\ daemon' = IF serving \in alive \/ (serving = Harness /\ pc \in Rpc) THEN daemon ELSE "dead"
    /\ UNCHANGED <<now, harness, alive>>

Next ==
    \/ HarnessStep \/ Tick
    \/ \E a \in alive : KillAgent(a) \/ Ask(a) \/ Exit(a)
    \/ Bind \/ Crash \/ Serve
    \/ \E c \in pending : PickUp(c)

Spec == Init /\ [][Next]_vars

\* The harness runs and time passes.  Agents and daemon owe nothing: they may
\* hang, and a request may take for ever.
FairSpec ==
    /\ Spec
    /\ WF_vars(HarnessStep) /\ WF_vars(Tick) /\ WF_vars(\E a \in alive : KillAgent(a))
=============================================================================
