# A verification project for rocq-mcp-evolve

TLA+ modules, TLC runs and TLAPS proofs about the servers through which
language-model agents drive the Rocq prover, and about the harness that runs
them. Everything is translated from the source; paths below are relative to the
repository's root (`src/psession/rocq_agent_daemon.ml` and so on).

## 1. The system

| Part | State | Operations | Talks to |
|---|---|---|---|
| **Shared-proof daemon** `src/psession/rocq_agent_daemon.ml` | the trunk (committed sentences with snapshots, `complete`), one branch per agent, `candidate.v` | `focus`, `step`, `auto_close`; reads: `hello`, `state`, `goals`, `status`, `try` | agents' shims over a Unix socket, the driver |
| **Driver of the daemon** `src/psession/rocq_driver.ml` | none (snapshots are values) | `exec_text`, `exec_sentence`, views of a snapshot | the prover, in process |
| **Shim** `src/psession/rocq_agent_shim.ml` | one lazily opened connection | MCP tools to socket lines | one agent, the daemon |
| **Session server** `src/session_server/rocq_agent_session.ml` | one session (committed, base, `complete`), `candidate.v`, mathcomp flag | `step`, `rollback`, `try`, `search`, `auto_close`, `check`, `open`, `build`, `verify` | one agent, the session driver |
| **Session driver** `src/session_server/rocq_driver.ml` | prefix cache and its fingerprint | `exec_text` with cache, watchdog, fork probe | the prover, `.vo` files |
| **MCP core** `src/mcp_core/` | seq counter | request loop; child processes with a deadline | clients, children |
| **Baseline / submit servers** | none | compile a text | MCP core |
| **Team run** `harness/run_team.py` | one attempt's daemon, agents, phase budgets, record | coordinator, workers, finisher, teardown, gate | the daemon over its socket, agents, result file |
| **Evaluation run** `harness/run_eval.py`, `common.py`, `repair_run.py` | result file, attempt directories, processes | attempts in a pool, resumption, watchdog, repair | agents, session servers, gate |
| **Gate** `harness/gate.py` | none | check of a candidate's prefix, words, compilation and assumptions | `rocq compile` |
| **Prewarm proxy** `harness/mcp_prewarm_proxy.py` | `child_ready`, two threads, the child's pipes | handshake from a cache, forwarding | an MCP client, a slow MCP server |
| **Tasks and manifests** `harness/datasets.py`, `make_manifests.py`, `make_inproject_manifest.py` | manifest files | cut a Rocq file at a statement; sample problems | files |
| **Counterfactual replay** `harness/replay_counterfactual.py` | `counterfactual.jsonl`, `/tmp/cfr` | mine an attempt's log, load it into a fresh server, run finishers, gate | session server, gate |
| **Scalability sweep** `harness/sweep.py` | `sweep_*_summary.jsonl` | one evaluation run per number of agents, throughput | `run_eval.py`, dashboard |
| **Reporting** `harness/dashboard.py`, `report.py`, `plots.py`, `monitor.py` | none | tables and charts | result files |

What is hard in it, with the properties that would make it right:

* **The daemon.** Agents work on private branches that are replayed into a
  trunk which other merges and unfocused agents have moved meanwhile. Goals are
  named by position, positions shift, and the digest used to find a goal again
  need not be unique. Merges can fail, time out or be cut short by an exception.
  Right: the trunk always replays; a branch never goes stale; a merge closes its
  agent's goal and nothing else; goals are owned exclusively; `candidate.v` is the
  proof; nothing committed is taken back.
* **The driver's cache.** Snapshots are adopted by sentence text. Right: what
  the cache gives is what execution would give, from that state, with the
  libraries now on disk.
* **The session.** Rollback, automatic `Qed`, completion and the file on disk
  must agree. Right: a complete session has its proof in `candidate.v`.
* **Time limits** (watchdog thread, fork probe, `Proc`): a limit races an
  answer. Right: one outcome, no stray interrupt, no stuck parent.
* **Team runs**: three phases share one budget and one daemon that serves a request at
  a time and dies when a client is gone by the time of its answer. Right: phases do not overlap,
  nothing outlives the attempt, the budget holds, and a record always comes and stays true.
* **Evaluation runs, replays and sweeps** are killed and resumed over files earlier starts
  left. Right: a slot is counted once, judged on its own work, and no figure mixes starts.
* **The proxy** answers for a server that is not ready and has two threads on it. Right: client
  and server cannot tell.
* **Gate and tasks** read Rocq text with regular expressions and a hand-written
  scanner. Right: what is code is told from what is not, and a theorem's proof from the next one's.

`PROJECT.json` lists every component with its status and every such hazard at
its line.

## 2. Modules

| Module | Models |
|---|---|
| `Prover` | a snapshot and one sentence (external, as the daemon observes them); `exec_text` and the views of `src/psession/rocq_driver.ml` |
| `Daemon` | `rocq_agent_daemon.ml`: one action per request that changes state |
| `ProofLog` | what the daemon promises: one growing, always accepted script |
| `DaemonProperties` | the daemon's properties, and its refinement mapping to `ProofLog` |
| `Session` | `rocq_agent_session.ml`: one action per tool that changes the session |
| `SessionProperties` | the session's properties |
| `PrefixCache` | how a session gets its first snapshot: `exec_text` with its cache (`src/session_server/rocq_driver.ml`), `open`'s way to a theorem, `make_session`; sentence by sentence |
| `PrefixCacheProperties` | its properties, and the condition the cache depends on |
| `EvalRun` | an evaluation run: `run_eval.py`, `common.py`, `repair_run.py` |
| `EvalRunProperties` | its properties |
| `TeamRun`, `TeamRunProperties` | one attempt of `run_team.py`, its agents, and the daemon's socket loop; its properties |
| `PrewarmProxy`, `PrewarmProxyProperties` | `mcp_prewarm_proxy.py` between a client and a child; its properties |
| `ToolServer` | what a client sees of a tool server; `PrewarmProxy` with its child implements it |
| `Gate` | `gate.py` as operators on texts |
| `Tasks` | `datasets.py`'s and `make_inproject_manifest.py`'s readers of a file, and `build_task`, as operators on sentences |
| `Replay`, `ReplayProperties` | file to task to failed attempts to `replay_counterfactual.py`; composes `Gate` and `Tasks` |
| `Sweep`, `SweepProperties` | `make_manifests.py`'s sampling, `sweep.py`, and the chart's input |
| `MCDaemon`, `MCSession`, `MCPrefixCache`, `MCReplay`, `MCSweep` | values for TLC (the others need only numbers and model values) |
| `ProverProofs`, `DaemonProofs`, `SessionProofs`, `PrefixCacheProofs`, `EvalRunProofs`, `TeamRunProofs`, `PrewarmProxyProofs`, `HarnessProofs` | theorems; `HarnessProofs` holds those about `Sweep`, `Replay`, `Tasks` and `Gate` |

`Daemon` and `Session` both extend `Prover` (the two drivers' `exec_text` differ only in
the cache, and a session's tools call it without). `PrefixCache` looks inside what
`Session`'s `OpenTool` and `GetSession` take as one step, with snapshots of its own:
there the question is not what the goals are but which sentences, read from which `.vo`
files, a snapshot stands for.

### Prover

A `Vernacstate.t` is an immutable value; the daemon only ever asks whether a
proof is open, how many goals there are, how many are focused, and what the
focused ones print. `Snapshot` keeps exactly that: a phase, the focused goals, and
the stack of blocks (`ctx`) with the goals left and right of each. The
kernel is external: `Effect` says which goals a tactic leaves of a goal (or that
it fails), `Concl` what a goal prints, and both are constants with
no assumption beyond their types. `Concl` need not be injective, since two
goals with different hypotheses can have one conclusion. `}` is accepted when the block's goals
are gone; `Qed` when no goal is left, no block is open and the kernel takes the proof: after a tactic in
`Rash` it does not (guard condition, universes, a goal given up), and the snapshot is `"flawed"`. `Lemma` (a further
statement, outside proofs), `Definition` (any command that only adds to the environment)
and `Search` (any query) stand for what else an agent's text may contain.

`ExecText` is `exec_text`: sentence after sentence until the prover rejects one;
`kept` is what every caller keeps, the executed sentences that are not
queries. It is a recursive function, not an operator, so that proofs can use it.

### Daemon

| TLA+ | Code |
|---|---|
| `committed` (oldest first), `complete` | `trunk.committed` (newest first), `trunk.complete` |
| `branches[a]` | `trunk.branches`, `NoBranch` for no entry |
| `candidate` | the sentences `write_candidate` wrote |
| `claim` | history: the goal a branch was opened on; read by properties only |
| `Focus`, `OpStep`, `AutoClose` | `op_focus`, `op_step`, `op_auto_close` |
| `FinishBranchIfClosed`, `Merge` | `finish_branch_if_closed`, `merge_branch` |

The daemon is single-threaded and answers one line at a time, so one request is
one action; the interleavings are those of requests. Refusals change nothing
and are stuttering steps. A text is `line` (up to the first newline) and `rest`,
because the command filter's regular expression stops at a newline.

`Mishap` says what else may happen. With `"timeout"` any `K: {`, `}` or replay
may run out of time (a time limit inside a step's text is the same as a shorter
text and needs no case of its own, since every prefix can be sent; a finisher that
runs out of its own limit is `slow`). With `"anomaly"` an exception that
`exec_text` lets through leaves the branch in the table, marked closed.

### Session

| TLA+ | Code |
|---|---|
| `session` | `!session`; `file` stands for its prefix, `committed` is oldest first |
| `session.loaded` | the tactic libraries `make_session` did load; `Base[file][loaded]` is the session's `base`, so what a sentence does depends on them |
| `mc_tactics` | `mc_tactics`, the flag of the mathcomp bridge |
| `candidate` | what `write_candidate` wrote: prefix, `Require`s, sentences; and, as history, what its session had `loaded` |
| `StepTool`, `RollbackTool`, `TryTool`, `AutoCloseTool`, `CheckTool`, `OpenTool`, `FirstCall` | the tools' handlers; any tool's first call loads the preset |
| `TryAutoQed`, `Declare` | `try_auto_qed`, and the `complete` it shares with an agent's own `Qed` |

Each handler runs to its end before the next call is read, so a call is one
action. `Mishap` says what may run out of time besides a sentence of a text (which is a
shorter text): the prefix, a library, or the server's own `Qed`. The code takes "no
proof open, something committed" for completion, so a text that ends with `Abort`, or a
`Definition` on a file without open statement, completes too; so does the model. The server's own `Qed` may also
be refused, for a block left open or by the kernel (lines 270-282): the session then stays without goals and unfinished. The default
mode is modelled (`ROCQ_ENV_V2` unset, preloading on).

### PrefixCache

| TLA+ | Code |
|---|---|
| `disk` | the versions of the `.vo` files, as `vo_fingerprint` tells them apart; `Rebuild` is whoever compiles |
| `cache`, `fingerprint` | `prefix_cache`, `cache_fingerprint` |
| `call` | the locals of the call being served: of `open`'s `go` (`pieces`, `tries`), of `exec_text` (`src`, the state it began from, `acc`, `warm` for the cache not yet left behind) |
| `base` | the session `make_session` made, with its prefix and when the execution began (`since`, history) |
| `Begin` with `CheckCacheFreshness`, `AdoptCached`, `Interpret`, `Saved` | `exec_text ~cache` |
| `AdmitAndContinue` | an error in `go`: the last statement is admitted, the rest behind the next closing command goes on |
| `OpenFinds`, `OpenFails`, `MakeSession` | the end of `go`: `finish` with `mk_prefix`, or an error; `make_session` |

A snapshot is the list of what was executed to get there, and for each import the version of
the `.vo` files it read. This is what makes a stale or a foreign snapshot visible. One
step executes one sentence, because `.vo` files change while a prefix that imports half
of mathcomp is being executed. What the prover accepts is external: a sentence needs certain
others before it, proofs are not nested, `Qed` wants a solved goal. With `"timeout"`
any sentence may run out of time; a parse error ends a text the same way (no
continuation, the same file state) and has no case of its own. The execution of
"statement, `Admitted`" without cache is one step: it touches neither cache nor fingerprint,
and an import in between cannot occur.

### EvalRun

| TLA+ | Code |
|---|---|
| `records`, `cut` | the readable lines of `results.jsonl`, and whether it ends inside a line; `Append` is `append_jsonl` as `read_jsonl` sees it |
| `quarantine`, `spoilt` | the same of `results.quarantine.jsonl` |
| `runner` | the main thread of `run_eval.py`: not there, in its loop, past it but in the pool's `with`, at its end |
| `attempt[s]` | the worker's position in `run_attempt` and its locals: `slept` (`flagged`), `watchdog_fired` (`fired`), what was judged; whether the deadline has passed (`late`), the watchdog is between its two readings (`poll`), the machine slept (`gap`) |
| `alive[s]`, `tries[s]` | the agent processes of a slot, by attempt; more than one when a killed harness left some behind |
| `made`, `candidate[s]` | the attempt directory, and which attempt's agent wrote `work/candidate.v` |
| `repair` | the locals of `repair_run.py`'s `main` and how far it has got |
| `abandoned` | history: slots that a killed or interrupted harness, or a killed repair, left without a record or with an uncleared directory |
| `StartRun`, `Report`, `ReportFails`, `RecordError`, `Finish`, `Interrupt`, `Leave` | `main`; the report of a result is inside the `try` (lines 372-393) |
| `WatchdogReads`, `WatchdogTests` | one poll of the watchdog: it reads both clocks and flags their drift (lines 226-230), then reads the wall clock again for the deadline (231-235). The machine may sleep in between: the gap is then `"blind"` for this poll and seen by the next |
| `Begin`, `WaitTimesOut`, `WaitEnds`, `Judge`, `WriteRecord` | `run_attempt`, in this order |
| `RepairReads` ... `RepairEnds` | `repair_run.py`, with the rewrite in two steps, because `write_text` empties the file first |
| `RepairDies` | a repair that stops anywhere, also in a write: some of the lines to quarantine, or some of those to write back, are then in the file (`StopsAt`) |
| `Kill`, `WriteCandidate`, `AgentExits`, `TimePasses`, `Sleep` | the world outside |

The pool takes attempts in order; the model takes any, since nothing depends on it. The
gate's verdict is left out: no property is about it. A repair and a harness do not run at the
same time: the repair's documentation says to call the runner afterwards, though nothing
stops anyone. After an interrupt (Ctrl-C, or a `print` into a closed
pipe) the main thread waits in the pool's `with` for the whole queue, but nobody takes the
exceptions any more; slots that fail then have no record and are taken up by the next start.
With `"torn"` in `Mishap` a write may also stop inside a line.

### TeamRun

| TLA+ | Code |
|---|---|
| `pc`, `due`, `raised` | where `run_attempt` is, the deadline of the wait it is in, an exception on its way to `finally` |
| `now` | wall time since `t0`, in units of five seconds; the literals of the code (0.5 s times 120, 20 s, 15 s, 10 s, 5 s) are `StartLimit` ... `LeastWall` |
| `alive` | agents that run |
| `daemon`, `serving`, `pending` | the daemon process and its `select` loop: one request at a time, the others in their sockets |
| `open`, `owners`, `candidate` | what the harness sees of the shared proof |
| `PollConnects` ... `Judge`, `RecordError` | `run_attempt` in order, and `main`'s `except` |
| `Bind`, `PickUp`, `Serve`, `Crash` | `rocq_agent_daemon.ml:526-585`, with its write outside the handler's `try` |

`Daemon` is the detailed model of what a request does to the proof; here goals are a number,
a step of an unfocused agent leaves any number of them, and a focus may be refused. Time
passes only while the harness waits, and never past a deadline it has not acted on, so
that `WithinBudget` is about the budgets it computes and not about scheduling delays.
A bound socket does not mean a daemon that answers: it executes the prefix first (line 537).

### PrewarmProxy

| TLA+ | Code |
|---|---|
| `main`, `held` | the main thread, and the line it holds in `child_ready.wait` |
| `pump`, `ready` | `pump_child`, `child_ready`; the notification to the child and the event are two steps |
| `toChild`, `fromChild` | the child's pipes |
| `Child`, `ChildDies` | external: a server that refuses calls before its handshake is over |
| `sent`, `calls`, `ran` | history: all requests of the client, its calls, the calls the child has run |
| `replies` | what was written to the client, in order |

The client follows the protocol: `initialize` first, the rest after its answer. It sends
requests, notifications and calls without waiting, and closes when it likes.

### Gate, Tasks, Replay

A text is a sequence of symbols (`(`, `*`, `)`, `"`, blank, a word), a file a sequence of
sentences, and both are built in `MCReplay` from pieces of which it is known what is code. The
properties compare what the scanners find with how the text was built. `Replay` runs the
pipeline: `Cut` (file to task, for any record the file may have in the manifests: `Records` of a project, of
miniF2F, of the workbook), `Step`, `Rollback`, `State` (the failed attempts and the
log lines they leave), `Again` (an attempt taken up again by a server that appends to the log of the first), then `Start` ... `Return`, which are `main` and `replay_one`, with
`Kill` at any point. `rocq compile`'s exit codes and output are enumerated. A step of
the replayed session may execute a part of the mined text only, and that part may complete the proof, or a
finisher behind it (`Completions`). The session server writes candidates that begin with the prefix, so
in this pipeline the gate's answer `prefix_modified` never occurs; `check` has the branch.

### Sweep

`MakeManifests` draws, `StartSweep`, `SkipComplete`, `Launch`, `Tally`, `SweepEnds` are `sweep.py`'s `main`;
`EvalReads` ... `EvalDies` are a process of `run_eval.py` as the sweep sees it: the rows it appends, and `resumed_skipping` in
its `run_meta.json`, which `write_text` empties before it writes (`EvalReads`, then `EvalStarts`; `cut` in between, and for good after
a death there, where `sweep.py:117-120` takes it for nothing skipped: `Resumed`). A sweep may be stopped alone (`Interrupt`): its
`run_eval.py` goes on, and the next sweep may start another on the same directory (`evals`; `overlapped` is history). Every
row remembers the start it comes from, `run_meta.json` the one that wrote it (`start`, history).

Comments in parentheses introduce mutants: plausible mistakes in the following
definition, each of which breaks the property `PROJECT.json` pairs it with.

### Bounds

`MaxGoalId` (numbers agents ask to focus on), `MaxScript` (sentences in the trunk
and in a branch), `MaxBlocks` (nested blocks). They are guards of the actions, and
nothing in the theorems depends on them. `PrefixCache` has `MaxDisk` (rebuilds) and
`MaxTries`, which is the code's own 40 in `open_reaches` and smaller in `cache_load`, where no
file has more than two broken proofs; its files are fixed. `EvalRun` has `MaxKills` and `MaxRepairs`; attempts are bounded by them, since
without a kill or a repair no slot is attempted twice. `TeamRun` has `MaxGoals`, `PrewarmProxy` `MaxLines`,
`Replay` `MaxCalls` and `MaxKills`, `Sweep` `MaxStarts` and `MaxEvals` (processes at the same time).

## 3. Runs

| Run | Expect | Shows |
|---|---|---|
| `daemon_merge` | pass | two agents, two sibling goals, one of which splits again on either side of the block, all printing differently, agents that leave blocks to the daemon: every merge closes the claimed goal wherever renumbering has moved it and leaves its siblings in order, none fails while the goal is there, and the daemon implements `ProofLog` |
| `daemon_trunk` | pass | goals that print alike, agents that open their own blocks, timeouts and anomalies: trunk and branches replay, ownership is exclusive, `candidate.v` is the proof, the trunk only grows |
| `daemon_nested` | violation of `MergedSubgoalIsClosed` | an agent's own block in its branch makes the daemon merge too early |
| `session_core` | pass | three files, every tool in any order, prefixes and libraries that time out, proofs the kernel refuses: the session replays, `candidate.v` is its proof, it closes behind the libraries it requires if its session had loaded these, completion is only given up on purpose, no goals left means complete unless `Qed` was refused |
| `cache_load` | pass | four files with broken proofs, `open` for any theorem, rebuilds and timeouts at any sentence: sessions are genuine, fresh and at their theorem, composed prefixes run, the cache stays warm |
| `open_reaches` | violation of `EveryTheoremReachable` | a proof broken at its `Qed` takes the next theorem with it |
| `eval_run` | pass | a kill, an interrupt, a failing report or a dying repair at any step, a repair, agents that hang or outlive their harness, a machine that sleeps: one attempt counted per slot, judged on its own work, records lost in one place only (a repair that dies while it rewrites the file), sleep kills flagged except inside one poll, finished runs complete, undisturbed runs finish |
| `team_run` | pass | a daemon that starts late, hangs, crashes or loses a client, agents that fail to start, hang or exit: phases do not overlap, nothing outlives the attempt, the verdict stays true, the budget holds, a record always comes |
| `prewarm` | pass | a child that is slow or dies at any moment: proxy and child implement `ToolServer`, requests are answered, no call overtakes the handshake unless a minute ran out |
| `replay` | pass | 20736 files to tasks of three sources, two failed attempts, also in two goes, a limit, a kill: tasks are well cut, the gate reads code only, rescues are earned |
| `replay_final` | violation of `FinalStateIsReplayed` | an attempt that never calls `state` is replayed from the bare statement |
| `sweep` | pass | four starts that die anywhere, sweeps stopped with or without their `run_eval.py`: a throughput counts rows of the start whose time it divides by if that start wrote its `run_meta.json` and was alone; complete points of runs that were alone count the same stratified batch |

`daemon_merge` has the full proof in its bounds (13 sentences: two splits, three blocks
with their braces, `Qed`), so every order of three merges
and both agents' renumberings occur. `daemon_trunk` adds what breaks merges; its
7 sentences contain a merge, a second agent's branch opened before it and closed
after it, a failed merge followed by more steps, and a completed proof. Two agents
suffice for the conflicts the code handles pairwise; they are interchangeable
(`SYMMETRY`). `CHECK_DEADLOCK FALSE`: the daemon waits in `select` for ever once the proof is complete, or
once every request is refused. No liveness is claimed: the daemon acts only when
it is asked.

`session_core`'s four sentences hold a whole proof by steps, by texts, by `check`, or by the
portfolio, with a block, a rollback and a second completion; the third file (the
preset) ends without an open statement, and the goal of the mathcomp file yields to `lra` only where that is
loaded. `CHECK_DEADLOCK FALSE`: the bound on the script
leaves nothing to do in some states.

`cache_load` allows two rebuilds, so that the cache can be checked, filled and used with
three versions on disk; the four files share one or two imports and part after them, so that hits
end at every position, and break in a tactic, at `Qed`, and at the
beginning. It has no deadlock: the next call can always be made.

`eval_run` has two slots and a pool of one, so that one attempt waits while the other is
under way; slots share nothing but the result file, to which each appends in one step. One
kill and one repair meet at every step, in either order; after them a slot may be in its
third attempt. Its fairness: the harness's threads are scheduled and return from what they do (weak fairness of
`Begin`, `WatchdogReads`, `WatchdogTests`, `WaitEnds`, `Judge`, `WriteRecord`, `Report`, `RecordError`, `Finish`, `Leave`; the gate has a
time limit of its own), and deadlines pass (`TimePasses`). Nothing is assumed of agents, of
`p.wait`'s own limit, or of whoever starts runs and repairs. There is no deadlock: a run can
always be started again.

`team_run` has two workers and a budget (8 units) smaller than the sum of its phases' (3, 5, 2) and
than the time the daemon may take to come up (12), so that every phase can be shortened, skipped, or find
the budget spent. Two goals let one worker own a goal while another is free. Its
fairness: the harness runs (`HarnessStep`), time passes (`Tick`), an agent whose time is over is
killed (`KillAgent`). Daemon and agents owe nothing. The run ends, hence `CHECK_DEADLOCK FALSE`.

`prewarm`'s four lines are an `initialize` and any three others, so that two calls
queue up behind a handshake, with a listing that overtakes them. Its fairness: both threads and the
child are scheduled (`Main`, `Pump`, `Child`); the child may die, which excuses it. It ends with the proxy.

`replay`'s pieces hold comments in comments, strings in comments with comment signs in them, doubled quotes, and
forbidden words in and out of both. Every file has two statements, indented or not, whose proofs are opened or not, have up to two
sentences, and end in any of four ways; other sentences, or something that is proved but is no statement, stand above,
between and behind them. All are files the prover accepts (`Accepted`, an `ASSUME` of `MCReplay`). Three calls are a commit, a `state` and a rollback, or one each of
two attempts; `--limit 1` and a kill make it start again. In `sweep` two numbers of agents and four starts
let each be resumed after a death, and two processes at a time let a start meet the one before it; it ends, while a replay can always be started again.

### What the violations say

* `daemon_nested`: header line 13 promises a merge "when a branch's subgoal is
  fully closed"; the code tests that nothing is *focused* (line 375) and closes
  the innermost block, which may be the agent's own.
* `open_reaches`: the tool's description says every theorem is reachable; the closing command is searched
  behind the failed sentence (line 1576), so when that is the `Qed` itself, the next
  proof's is found.
* `replay_final`: the report says "Every failure's final committed state was replayed offline" (`docs/REPORT.md:511`);
  `mine_committed_text` finds "committed proof:", which only `state` prints, so the text is
  that of the last `state` call that showed something, and nothing when there was none. `RescuesAreEarned` shows
  what does hold: the text is one the attempt once had committed. The reported rescues stand for those states.

### Known disagreements

Found while modelling; the definitions are in the modules, and the constants below show
each on its own.

* *Owners in the goals listing.* `op_focus` compares digests because "positional ids shift when
  siblings merge" (`rocq_agent_daemon.ml:238`); `goals_json` (line 208) still goes by position.
  `daemon_merge.cfg` with `MaxScript = 9`, `INVARIANT OwnersAreCurrent`.
* *Goals that print alike.* The daemon's header (line 15) says "replays cannot conflict"; the merge takes the first
  goal that prints like the branch's (line 135). `daemon_merge.cfg` with `Concl <- TwinConcl`, `MaxScript = 9`,
  `PROPERTY ReplaysDoNotConflict`.
* *A candidate that is not standalone.* `rocq_agent_session.ml:233` says that `candidate.v` must
  be standalone. What it requires goes by the flag `mc_tactics`, which need not say what the session has loaded: a failed
  `open` resets it while the old session stays (line 87), and with zify but without lra it is set all the same (line 129).
  `session_core.cfg` with `INVARIANT CandidateStandalone` and `Mishap = {"prefix"}` for the first; and
  `Installed = {"stdlib", "zify"}`, `Mathcomp = {"main", "mathcomp"}`, `Mishap = {}` for the second.
* *The cache and late imports.* The comment above `exec_text` says the cache is passed only from the
  pristine state; `go st' cont` passes it from behind an admitted proof (line 1524). It takes a
  file that imports behind a proof, and a second file that begins with that import.
  `cache_load.cfg` with `Source <- LateImport`, `Mishap = {}`, `MaxDisk = 0`, `INVARIANT BaseIsGenuine`.
  That premise is all it takes: `SessionsAreGenuine` is proved for files without it.
* *A torn line.* "torn write from a killed process; skip" (`harness/common.py:53`) is true of the
  torn line, but it has no newline, and `append_jsonl` (line 38) adds the next
  record to it: the run ends with a slot missing until it is started once more.
  `eval_run.cfg` with `Mishap = {"torn"}`, `SPECIFICATION Spec`, `INVARIANT DoneMeansRecorded`.
  The same happens in the quarantine, to a line that was kept for audit: `Mishap = {"torn"}`, `MaxKills = 2`,
  `MaxRepairs = 2`, `SPECIFICATION Spec`, `PROPERTY NothingLost`.
* *A sleep inside a poll.* "the wall-clock watchdog killed it after a macOS sleep gap" is what `machine_slept` is said to
  record (`repair_run.py:9`). A sleep that begins after the poll has read the drift (`run_eval.py:227`) and ends before it reads the clock
  for the deadline (line 231) kills without a flag, and the repair does not find the attempt.
  `eval_run.cfg` with `SPECIFICATION Spec`, `INVARIANT EverySleepKillIsFlagged`.
* *A repair that dies.* It is said to drop the contaminated records so that the runner "redoes exactly those slots"
  (`repair_run.py:2`); when it dies between the emptying of `results.jsonl` and the end of the write (line 42), clean records are
  lost, and their slots are run again in directories nobody cleared. `PROPERTY CleanRecordsStay`.
* *A report that raises.* The success line is printed inside the `try` (`run_eval.py:372`): when it raises anything but
  a broken pipe, a slot that has its record gets a second one, a harness error (line 393). `INVARIANT OneRecordPerSlot`.
* *A completed proof without a verdict.* `run_team.py:12` says the gate applies to what the daemon
  wrote; when a later wait raises (an rpc behind a busy daemon, a worker that did not start), the exception passes
  the gate by, and a complete candidate is recorded as `harness_error`.
* *The proxy's queue.* Calls are "queued until the child is ready" (line 12 of its header) for a minute
  (line 100), then forwarded all the same; `late` in `HandshakeFirst` is that exception.
* *The rates of a sweep.* "sweep.py now reports None for resumed runs" (`docs/REPORT.md:224`). A
  `run_meta.json` that is cut counts as nothing skipped (`sweep.py:119`); one that a start did not come to write is that of an earlier
  start, whose rows are then divided by the time of this one; and a `run_eval.py` left over from a stopped sweep may still append
  rows. `sweep.cfg` with `INVARIANT NoRateOfResumedRuns`. `RateIsOfItsStart` excludes these three, and nothing else.
* *The mix of a sweep.* "the difficulty mix is identical at every N" (`sweep.py:15`): two `run_eval.py` on one directory
  append two rows for a problem, and the sweep takes the number of rows for the number of problems (line 94). `sweep.cfg` with
  `INVARIANT SameMixAtEveryN`. A sweep killed between the end of `run_eval.py` and line 140 leaves
  a complete run without a summary row, for ever, as line 94 then skips it.
* *The replayed theorem.* `theorem_name_of` takes the first `Theorem` or `Lemma` of the prefix
  (`replay_counterfactual.py:147`), which need not be the task's: the gate then audits another theorem's assumptions.

None of the daemon's corrupts the trunk: `TrunkReplays` holds in all these situations, and
is proved.

## 4. Proofs

`DaemonProofs` proves, for every prover, every set of agents and texts, and every
bound, under `ProverConstants`, `DaemonConstants` and `NoBranchIsNone` (types and
distinct sentinels):

| Theorem | Property |
|---|---|
| `TypeCorrect` | `TypeOK` |
| `TrunkAlwaysReplays` | `TrunkReplays` |
| `CandidateCorrect` | `CandidateIsTheProof` |
| `OwnershipIsExclusive` | `OwnershipExclusive` |
| `BranchesReplay` | `BranchReplays` |
| `TrunkIsAppendOnly` | `TrunkOnlyGrows` |
| `DaemonImplementsProofLog` | `ImplementsProofLog` |
| `MergesCloseTheirGoal` | `MergeClosesItsGoal`, under `BlocksLeftToDaemon`, `GoalsPrintApart` |
| `ReplaysNeverConflict` | `ReplaysDoNotConflict`, under these and `Mishap = {}` |

The argument. A run of a text is a recursion; `ProverProofs` shows that it exists
(`RunExists`), that sets it passes through can be shown step by step
(`RunInvariant`), that what is kept of it replays (`ExecTextReplays`), and that steps
which replay run through as a text (`ReplayRuns`). The library's induction rule needs
an operator parameter, which these provers cannot instantiate; `SetInduction` is the same
rule over a set, proved from well-foundedness.

`Inv` strengthens the properties by what they need to be inductive: nothing
committed is a query (a query would be dropped when the script is run again, and the
refinement would fail); the daemon is complete exactly when its proof is closed
(otherwise a step could commit nothing and still complete); every open branch is
`Rooted`: its script and snapshot are steps that replay from some prefix of the trunk; its
script is not empty. Each request is shown to do no more than `TrunkMoves` (commit
steps that replay from the trunk's last snapshot, or nothing) and `BranchMoves` (replace the
asking agent's branch by a successor, or by one on a goal nobody's branch prints
like). The invariant, the action property and the refinement follow from these
two alone.

The two theorems about merges have hypotheses because they are false without: an agent that
closes blocks of its own (`daemon_nested`), or two goals that print alike ("Known disagreements"), defeat a merge, and a
replay that runs out of time fails with its goal in place. `BlocksLeftToDaemon` says that no text an agent may send, and
no finisher, opens or closes a block; `GoalsPrintApart`, that `Concl` is injective. Both hold of
`daemon_merge`'s values. `MergeInv` adds to `Inv` that the trunk is in no block, and that every open
branch either left the one block it opened and can never merge (`Spent`), or is still `AtWorkOn` the goal its agent
claimed: its script is the `K: {` of its block and steps that replay *inside that block*, from the claimed
goal alone. The last part is what makes the merge independent of the trunk: what those steps do
does not depend on the goals left and right of the block (`StayIn`), so the same script runs in the block
opened at the goal's new position, and closes it. It may hold a tactic whose proof the kernel will refuse: that does not show
before `Qed`, so a trunk that is flawed already and one that is not take the same steps (`InBlock`). Without `AtWorkOn` one knows only that the script
replayed from *some* earlier trunk (`Rooted`), and nothing follows for the present one.

`SessionProofs`, under `SessionConstants` and `SentinelsAreNone`: `SessionTypeCorrect` (`TypeOK`),
`SessionAlwaysReplays` (`SessionReplays`), `CompleteSessionIsOnDisk` (`CandidateIsTheProof`),
`CandidateAlwaysCloses` (`CandidateCloses`), `CompletionIsLasting` (`CompletionLasts`) and
`VictoryIsNeverSilent` (`NoSilentVictory`). The
invariant adds that no committed sentence is a query, for the same reason as above: that
is what makes the file's sentences run through again; and that the bridge flag never says more than the session has
loaded (`FlagFits`). `CandidateIsTheProof` and `CandidateCloses` speak of the libraries the file requires where these are the loaded ones, which `FlagTells` describes;
where the flag does not tell, nothing follows ("Known disagreements"). All tools end in `TryAutoQed` on a
session that replays; what it does is one lemma. For `NoSilentVictory` it takes the converse too: where no goal is
left, no block open, and the proof is not one the kernel refuses, `Qed` is accepted (`QedAccepted`), `Qed` then ends the proof, and
`check` and `auto_close`, which discard what they have tried, leave a session that had goals before.

`PrefixCacheProofs`, under `PrefixCacheConstants` and `AbsentValues`: `LoaderTypeCorrect` (`TypeOK`)
and `CacheStaysWarm` (`WarmCacheIsKept`) without further condition, and
`SessionsAreGenuine`, `SessionsAreFresh`, `SessionsOpenAtTarget` under `NoLateHeads`: no file begins
with a sentence that, in any file, stands right behind a `Qed` or `Admitted`. Files that import at
the top and nowhere else satisfy it. Without it the first is false ("Known disagreements"). The
invariant says that a cache which begins as a file begins is one an execution
from the pristine state filled, no older than the fingerprint; that an execution follows the cache as
long as it is warm; and that what runs from elsewhere is what is left of a file behind
a closing command, so that it neither meets nor leaves such a cache.

`OpenedPrefixesRun` (`OpenedPrefixRuns`, same condition) needs more, because snapshots that are not genuine do
occur, harmlessly: a continuation behind an admitted proof executes with the cache, and may adopt what
*another* continuation left there, behind more text or less. `RunInv` says what
is kept all the same: the pieces `open` has put together run one after the other and end outside of
proofs; each step of the present execution was accepted behind some closed text made of their sentences (`Over`); and when the cache
begins with no file's head and the execution is not from the pristine state, the same is true of the cache. What the prover
accepts can only grow with what was executed before, outside of proofs; so what ran behind
less runs behind the pieces.

`EvalRunProofs`, under `EvalRunAssumption` and `NoRepairAssumption`: `TypeCorrect` (`TypeOK`), `SlotsCountedOnce`
(`CountedOnce`), `SleepIsNoticed` (`SleepKillsAreFlagged`) and `CleanRecordsAreKept` (a clean record is lost by `DiesRewriting` only) whatever is torn;
`DoneRunsAreComplete` (`DoneMeansRecorded`), `AttemptsAreJudgedOnTheirWork` (`JudgedOnItsOwnWork`) and `RecordsAreKept` (`NothingLost`) when no
line is torn, which the first and the last need ("Known disagreements"). `IInv` adds to the properties: nothing is under way without a main thread, and no
repair with one (`Quiet`); a slot with an attempt has no record until the attempt writes it, and then only that one (`Open`); what a repair
has read is what the file holds until it is emptied, and in the quarantine
before that (`Holding`); every slot of a run that is up has an attempt or a record
(`Accounted`); a watchdog between its readings, or that has fired, has flagged every sleep its first reading could see, and when
it has fired there is no agent left that could sleep again (`Noticed`). On top of it `Own` says that in a slot never abandoned only the agent of the
current attempt is alive, the candidate is its own, and before the attempt there is none.

`TeamRunProofs`, under `TeamRunAssumption` (budgets and bounds are numbers): `TypeCorrect` (`TypeOK`),
`NothingOutlives` (`NothingOutlivesItsPhase`), `VerdictStays` (`VerdictIsFinal`) and `BudgetKept` (`WithinBudget`). The
invariant adds that a daemon that is not up serves nobody (`Served`), so that its kill is the last write to
the proof; that a record exists only when the attempt is over, and says of the candidate what is so (`Verdict`);
and a bound on `due` by the phase (`Clock`): what is left of the budget when a phase starts, or the five
seconds of a coordinator behind the slowest possible start.

`PrewarmProxyProofs`, under `PrewarmAssumption`: `NoneRefused` (`HandshakeFirst`) and `ProxyIsAServer`
(`ImplementsServer`, the refinement of `ToolServer`). The invariant follows the handshake through the
pipes: there is one hello (`HelloOnce`); when the event is set the child has been told, or will read it before
anything written later (`ReadyMeansTold`); and no call is in the pipe before that unless a wait ran out (`NoneEarly`).

For the refinement, `LInv` follows the client's lines: they are
numbered and taken in order (`Numbered`); the child has run a beginning of the calls (`CallsListed`); the calls in its pipe are
in order and later than those it ran (`InOrder`); while it lives no call that was passed on is missing (`NoneLost`), so that
the next one in the pipe is the next one sent; and an answer, in the pipe or written, is the only one of its
request and that of a call that was run (`AnsweredOnce`). Each step of a thread, the child or the
client is then one step of `ToolServer` or none. Nothing depends on the death of the child or the
minute: a call may overtake the handshake, never another call.

`HarnessProofs` is about the programs that are interrupted and started again on what they
left, about the files tasks come from, and about what the gate reads.

* Under `SweepAssumption`: `RateIsHonest` (`RateIsOfItsStart`), from `Consistent`, of every run that never had two `run_eval.py` at
  once: while its `run_meta.json` can be read and says that nothing was skipped, all rows are of the start that wrote it; and a start that is past the
  write is that start. So a rate, given where the start timed did write the file, counts its rows only, whatever died before. `SweepsCompareLikeWithLike`
  (`BatchesAreStratified`), from `SInv`: the manifests are those of one draw and do not change once anything has run, and the rows
  of every such run are of different problems of the batch; a run with as many rows as the batch then has them all,
  by counting. The conditions are in the properties, and each is needed ("Known disagreements").
* Under `ReplayAssumption`: `RescuesAreReal` (`RescuesAreEarned`). `RInv` adds that a log shows only what its
  attempt had committed, this time or before it was taken up again; that a candidate in a directory, from whichever start, was completed from what
  is mined from the log of *that* attempt, which no longer changes once the replay runs (so a candidate that an earlier start left is evidence as good as a new one);
  and that rows are of attempts done before this start or before its turn.
* `EveryFileIsWellCut` (`TasksAreWellCut`), when the prover accepts every file (`Accepted`): it has a statement, nothing opens a proof
  in a proof, and `Proof.`, tactics and what ends a proof stand in one. Whatever else a file has, between proofs or
  in them, is allowed: sections, definitions, hints, proofs of instances. The property says what the prover
  sees, in terms of which sentence has which proof open (`OpenAt`); the readers have only regular expressions. `extract_tasks` looks for the next
  `Qed` or `Defined` behind a `Proof.`, and drops the task when an `Admitted` or `Abort` comes first. If the closer it finds were another proof's, the proof
  it began in would have ended in between, with one of those words, or the other's opener would be nested in it (`EndIsFirst`, `FirstIsEnd`). For the cut of `build_task` the argument
  is that nothing stands between a statement and its own cut (`CutIsOpen`).
* `EveryCandidateIsRead` (`GateReadsStructure`), when what agents commit and finishers are `IsWrittenWith(T)`, for
  any set `T` of words: in the smallest set `Written(T)` with words, strings and comments that is closed under writing one
  behind the other and inside each other, as long as no two strings touch (that would be one string with a quote in it). The
  text above is any text at all. `replay`'s values are such. Not covered: a bracket or star that stands alone as code.
  `strip_comments` and `split_at_prefix` are recursive functions, so the proof begins with their
  existence (`RecursionExists`). Then a text in `Written(T)` is read as meant *wherever it stands* (`IsRead`):
  from a reader outside of strings, at any depth of comments, to one outside of strings at the same depth, which has
  kept the words in between if the depth is 0. Each way of writing preserves that. The split is at
  the end of the prefix or before blanks there, which add nothing. Whatever the audit prints, only what
  follows its last header counts.

Model-checked only:

* `RunCompletes`, `AttemptEnds` and `EveryRequestAnswered` are liveness under fairness, which the prover does not reach.
* The three properties that runs expect to be violated.

## 5. Not modelled

* **Watchdog, fork probe, `Proc`'s deadline** (`src/session_server/rocq_driver.ml:332`, `:421`, `src/mcp_core/proc.ml`):
  races of signals, pipe buffers and the operating system's process table. The models that call them allow both outcomes.
* **MCP core, baseline and submit servers, shim**: sequential loops without state that
  a step could find stale.
* **The daemon**: lines that arrive in parts, the log file, a failing write of `candidate.v`, reads.
* **The session server**: rendering, hints, `search`; what `build` and `verify` report; `ROCQ_ENV_V2`.
* **Team runs**: `make_mcp_cfg`, token accounting; resumption, which is `run_eval.py`'s.
* **Tasks and manifests**: loading the data sets, the smoke and miniF2F lists, compiling in-project tasks. A
  Rocq file is its sentences: where a regular expression takes a comment for a statement is not visible.
* **Sweep**: the resource sampler and the figures besides throughput.
* **Reporting** (`dashboard.py`, `report.py`, `plots.py`, `monitor.py`): arithmetic and layout over finished
  results; only `load_sweeps` decides anything about them and is in `Sweep`.
