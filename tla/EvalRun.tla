------------------------------ MODULE EvalRun ------------------------------
(***************************************************************************)
(* One evaluation run of the harness (run_eval.py), the result file it can *)
(* be resumed from (common.py) and the repair between two starts           *)
(* (repair_run.py).  A slot is a problem and a repetition.  A thread pool  *)
(* runs one attempt per slot without a result: it spawns an agent, waits   *)
(* for it under a watchdog on the wall clock, judges the candidate file    *)
(* the agent's server left in the slot's directory and appends a record.   *)
(*                                                                         *)
(* The harness may be killed at any moment and started again on the same   *)
(* directory.  Agents live in sessions of their own (run_eval.py:206) and  *)
(* outlive it.  A record is reduced to its slot, what it was judged on and *)
(* what repair_run looks at; try, the attempt it belongs to, is not in the *)
(* file and there for the properties only.                                 *)
(*                                                                         *)
(* A definition introduced by a remark in parentheses is a plausible       *)
(* mistake in the one that follows it; Spec uses none of them.             *)
(***************************************************************************)
EXTENDS Integers, FiniteSets

CONSTANTS
    Slot,        \* the (problem, repetition) pairs of the run
    Parallel,    \* --parallel, the size of the thread pool
    MaxKills,    \* bound: kills and interrupts of harness and repair, failed reports
    MaxRepairs,  \* bound: calls of repair_run that find something to repair
    Mishap,      \* "torn" in it: a kill may cut a line
    NoRepair     \* no repair under way

ASSUME EvalRunAssumption ==
    /\ IsFiniteSet(Slot)
    /\ Parallel \in Nat \ {0}
    /\ MaxKills \in Nat /\ MaxRepairs \in Nat
    /\ Mishap \subseteq {"torn"}

VARIABLES
    records,    \* results.jsonl: its readable lines
    cut,        \* results.jsonl ends inside a line
    quarantine, \* results.quarantine.jsonl: its readable lines
    spoilt,     \* results.quarantine.jsonl ends inside a line
    runner,     \* the main thread: "down", "up", "leaving" its with block, "done"
    attempt,    \* per slot: where its worker is
    tries,      \* per slot: attempts begun so far, over all starts
    alive,      \* per slot: the attempts whose agent is running
    made,       \* the slots whose attempt directory exists
    candidate,  \* per slot: the attempt that wrote candidate.v, 0 for no file
    repair,     \* the repair under way
    abandoned,  \* history: slots left without a record, or without a clean directory
    kills, repairs

vars == <<records, cut, quarantine, spoilt, runner, attempt, tries, alive, made,
          candidate, repair, abandoned, kills, repairs>>

files    == <<records, cut, quarantine, spoilt>>
audit    == <<quarantine, spoilt>>
agents   == <<tries, alive, made, candidate>>
counters == <<kills, repairs>>

-----------------------------------------------------------------------------
Phase == {"idle", "queued", "agent", "over", "judged", "written", "failed"}

\* late: the wall clock is past the deadline; poll: the watchdog has read the
\* drift between the clocks, and not yet the clock it compares with the deadline;
\* flagged, fired: the events slept and watchdog_fired; work: the candidate that
\* was judged.  gap: whether the machine slept while the agent ran; such a sleep
\* is "blind" for the poll that had read the drift before it.
Attempt == [phase : Phase, late : BOOLEAN, gap : {"none", "drift", "blind"},
            poll : BOOLEAN, flagged : BOOLEAN, fired : BOOLEAN, work : Nat]

Fresh(p) == [phase |-> p, late |-> FALSE, gap |-> "none", poll |-> FALSE,
             flagged |-> FALSE, fired |-> FALSE, work |-> 0]

Record == [slot : Slot, try : Nat, work : Nat, flagged : BOOLEAN, error : BOOLEAN]

Contaminated(r) == r.flagged \/ r.error

SlotsOf(R) == {r.slot : r \in R}

Working(s) == attempt[s].phase \in {"agent", "over", "judged"}

Running == runner \in {"up", "leaving"}

AgentRuns(s) == attempt[s].phase = "agent" /\ tries[s] \in alive[s]

\* (The record is written without what tells a harness error.)
AppendBare(r) ==
    /\ records' = records \cup {[slot |-> r.slot, try |-> r.try, work |-> r.work,
                                 flagged |-> r.flagged]}
    /\ cut' = FALSE

\* append_jsonl: a record appended behind a cut line makes one unreadable line
\* with it; the newline it brings ends that line.
Append(r) ==
    /\ records' = IF cut THEN records ELSE records \cup {r}
    /\ cut' = FALSE

Init ==
    /\ records = {} /\ cut = FALSE /\ quarantine = {} /\ spoilt = FALSE
    /\ runner = "down"
    /\ attempt = [s \in Slot |-> Fresh("idle")]
    /\ tries = [s \in Slot |-> 0]
    /\ alive = [s \in Slot |-> {}]
    /\ made = {}
    /\ candidate = [s \in Slot |-> 0]
    /\ repair = NoRepair
    /\ abandoned = {}
    /\ kills = 0 /\ repairs = 0

-----------------------------------------------------------------------------
(* The main thread.                                                        *)

\* (The result file is not consulted.)
TodoAll == Slot

Todo == Slot \ SlotsOf(records)

\* The slots without a readable record are submitted to the pool.
StartRun ==
    /\ runner \in {"down", "done"} /\ repair = NoRepair
    /\ runner' = "up"
    /\ attempt' = [s \in Slot |-> Fresh(IF s \in Todo THEN "queued" ELSE "idle")]
    /\ UNCHANGED <<files, agents, repair, abandoned, counters>>

\* (The exception of a worker is printed only.)
RecordNoError(s) ==
    /\ runner = "up" /\ attempt[s].phase = "failed"
    /\ attempt' = [attempt EXCEPT ![s] = Fresh("idle")]
    /\ UNCHANGED <<files, runner, agents, repair, abandoned, counters>>

\* The exception of a worker becomes an error record.
RecordError(s) ==
    /\ runner = "up" /\ attempt[s].phase = "failed"
    /\ Append([slot |-> s, try |-> tries[s], work |-> 0,
               flagged |-> FALSE, error |-> TRUE])
    /\ attempt' = [attempt EXCEPT ![s] = Fresh("idle")]
    /\ UNCHANGED <<audit, runner, agents, repair, abandoned, counters>>

\* A result has been taken and is reported.
Report(s) ==
    /\ runner = "up" /\ attempt[s].phase = "written"
    /\ attempt' = [attempt EXCEPT ![s] = Fresh("idle")]
    /\ UNCHANGED <<files, runner, agents, repair, abandoned, counters>>

\* The report is inside the try: when it raises, the attempt is recorded again,
\* as a harness error.
ReportFails(s) ==
    /\ runner = "up" /\ attempt[s].phase = "written" /\ kills < MaxKills
    /\ Append([slot |-> s, try |-> tries[s], work |-> 0,
               flagged |-> FALSE, error |-> TRUE])
    /\ attempt' = [attempt EXCEPT ![s] = Fresh("idle")]
    /\ kills' = kills + 1
    /\ UNCHANGED <<audit, runner, agents, repair, abandoned, repairs>>

\* Every future has been taken: the run reports that it is done.
Finish ==
    /\ runner = "up" /\ \A s \in Slot : attempt[s].phase = "idle"
    /\ runner' = "done"
    /\ UNCHANGED <<files, attempt, agents, repair, abandoned, counters>>

\* Ctrl-C, or a print into a closed pipe: the main thread leaves its loop, and
\* the pool's with block still works off the queue.
Interrupt ==
    /\ runner = "up" /\ kills < MaxKills
    /\ runner' = "leaving" /\ kills' = kills + 1
    /\ UNCHANGED <<files, attempt, agents, repair, abandoned, repairs>>

\* The pool has run dry after an interrupt; nobody took results or exceptions.
Leave ==
    /\ runner = "leaving" /\ \A s \in Slot : attempt[s].phase \in {"idle", "written", "failed"}
    /\ runner' = "down"
    /\ abandoned' = abandoned \cup {s \in Slot : attempt[s].phase = "failed"}
    /\ attempt' = [s \in Slot |-> Fresh("idle")]
    /\ UNCHANGED <<files, agents, repair, counters>>

\* The harness is killed, with its workers and without its agents; a record
\* that was being appended may be cut.
Kill ==
    /\ Running /\ kills < MaxKills
    /\ runner' = "down" /\ kills' = kills + 1
    /\ \E torn \in BOOLEAN :
         /\ torn => /\ "torn" \in Mishap
                    /\ \E s \in Slot : attempt[s].phase \in {"judged", "failed"}
         /\ cut' = (cut \/ torn)
    /\ abandoned' = abandoned \cup {s \in Slot : attempt[s].phase \notin {"idle", "queued", "written"}}
    /\ attempt' = [s \in Slot |-> Fresh("idle")]
    /\ UNCHANGED <<records, audit, agents, repair, repairs>>

-----------------------------------------------------------------------------
(* The workers of the pool, one attempt at a time each.                    *)

\* A worker takes the next attempt.  The directory may be there already, with
\* what an earlier attempt left in it.
Begin(s) ==
    /\ Running /\ attempt[s].phase = "queued"
    /\ Cardinality({x \in Slot : Working(x)}) < Parallel
    /\ tries' = [tries EXCEPT ![s] = @ + 1]
    /\ made' = made \cup {s}
    /\ \E spawned \in BOOLEAN :
         /\ attempt' = [attempt EXCEPT ![s] = Fresh(IF spawned THEN "agent" ELSE "failed")]
         /\ alive' = IF spawned THEN [alive EXCEPT ![s] = @ \cup {tries[s] + 1}] ELSE alive
    /\ UNCHANGED <<files, runner, candidate, repair, abandoned, counters>>

\* (SIGKILL to the descendants only.)
KillChildren(s) == UNCHANGED alive

\* SIGKILL to the agent of the slot's attempt and to all its descendants.
KillTree(s) == alive' = [alive EXCEPT ![s] = @ \ {tries[s]}]

\* (The drift is left for the polls to come once the deadline has passed.)
WatchdogReadsInTime(s) ==
    /\ Running /\ attempt[s].phase = "agent" /\ ~attempt[s].poll /\ ~attempt[s].fired
    /\ attempt' = [attempt EXCEPT
         ![s] = [attempt[s] EXCEPT
                   !.flagged = attempt[s].flagged \/ (attempt[s].gap # "none" /\ ~attempt[s].late),
                   !.poll = TRUE]]
    /\ UNCHANGED <<files, runner, agents, repair, abandoned, counters>>

\* A poll of the watchdog reads both clocks and raises slept when they differ; ...
WatchdogReads(s) ==
    /\ Running /\ attempt[s].phase = "agent" /\ ~attempt[s].poll /\ ~attempt[s].fired
    /\ attempt' = [attempt EXCEPT
         ![s] = [attempt[s] EXCEPT !.flagged = attempt[s].flagged \/ attempt[s].gap # "none",
                                   !.poll = TRUE]]
    /\ UNCHANGED <<files, runner, agents, repair, abandoned, counters>>

\* ... then it reads the wall clock again, and kills when it is past the deadline.
WatchdogTests(s) ==
    /\ Running /\ attempt[s].phase = "agent" /\ attempt[s].poll
    /\ \/ /\ attempt[s].late
          /\ attempt' = [attempt EXCEPT ![s] = [attempt[s] EXCEPT !.fired = TRUE, !.poll = FALSE]]
          /\ KillTree(s)
       \/ /\ ~attempt[s].late
          /\ attempt' = [attempt EXCEPT
               ![s] = [attempt[s] EXCEPT
                         !.poll = FALSE,
                         !.gap = IF attempt[s].gap = "blind" THEN "drift" ELSE attempt[s].gap]]
          /\ UNCHANGED alive
    /\ UNCHANGED <<files, runner, tries, made, candidate, repair, abandoned, counters>>

\* p.wait runs out before a stalled watchdog has done its work.
WaitTimesOut(s) ==
    /\ Running /\ AgentRuns(s) /\ attempt[s].late
    /\ KillTree(s)
    /\ UNCHANGED <<files, runner, attempt, tries, made, candidate, repair, abandoned, counters>>

\* p.wait returns, and the watchdog is stopped.
WaitEnds(s) ==
    /\ Running /\ attempt[s].phase = "agent" /\ tries[s] \notin alive[s]
    /\ attempt' = [attempt EXCEPT ![s] = [Fresh("over") EXCEPT !.flagged = attempt[s].flagged]]
    /\ UNCHANGED <<files, runner, agents, repair, abandoned, counters>>

\* The gate compiles the candidate file, if there is one; reading it or running
\* the gate may raise.
Judge(s) ==
    /\ Running /\ attempt[s].phase = "over"
    /\ \E raised \in BOOLEAN :
         attempt' = [attempt EXCEPT
           ![s] = IF raised THEN Fresh("failed")
                            ELSE [attempt[s] EXCEPT !.phase = "judged", !.work = candidate[s]]]
    /\ UNCHANGED <<files, runner, agents, repair, abandoned, counters>>

\* The worker appends the record and returns.
WriteRecord(s) ==
    /\ Running /\ attempt[s].phase = "judged"
    /\ Append([slot |-> s, try |-> tries[s], work |-> attempt[s].work,
               flagged |-> attempt[s].flagged, error |-> FALSE])
    /\ attempt' = [attempt EXCEPT ![s] = Fresh("written")]
    /\ UNCHANGED <<audit, runner, agents, repair, abandoned, counters>>

-----------------------------------------------------------------------------
(* The agents, their servers and the machine.                              *)

\* The server of attempt t writes the candidate, if the directory is there.
WriteCandidate(s, t) ==
    /\ t \in alive[s] /\ s \in made
    /\ candidate' = [candidate EXCEPT ![s] = t]
    /\ UNCHANGED <<files, runner, attempt, tries, alive, made, repair, abandoned, counters>>

\* It is done, out of turns or crashed.
AgentExits(s, t) ==
    /\ t \in alive[s]
    /\ alive' = [alive EXCEPT ![s] = @ \ {t}]
    /\ UNCHANGED <<files, runner, attempt, tries, made, candidate, repair, abandoned, counters>>

\* The wall clock passes the deadline of an attempt.
TimePasses(s) ==
    /\ Running /\ attempt[s].phase = "agent"
    /\ attempt' = [attempt EXCEPT ![s].late = TRUE]
    /\ UNCHANGED <<files, runner, agents, repair, abandoned, counters>>

\* What a sleep means for the watchdog of an attempt.
GapAfterSleep(s) ==
    IF ~AgentRuns(s) \/ attempt[s].gap # "none" THEN attempt[s].gap
    ELSE IF attempt[s].poll THEN "blind" ELSE "drift"

\* The machine sleeps, for longer than the drift allowed and perhaps past the
\* deadlines L.
Sleep ==
    /\ Running
    /\ \E L \in SUBSET {s \in Slot : attempt[s].phase = "agent"} :
         attempt' = [s \in Slot |-> [attempt[s] EXCEPT !.gap = GapAfterSleep(s),
                                                      !.late = attempt[s].late \/ s \in L]]
    /\ UNCHANGED <<files, runner, agents, repair, abandoned, counters>>

-----------------------------------------------------------------------------
(* repair_run, called between two starts.  Its steps: "read", "quarantined",
   "truncated", "clearing"; keep and drop partition the records it read.   *)

RepairStep == {"read", "quarantined", "truncated", "clearing"}

RepairState == [step : RepairStep, keep : SUBSET Record, drop : SUBSET Record]

ASSUME NoRepairAssumption == NoRepair \notin RepairState

\* (Harness errors are left out of the list.)
ToDropSleepers == {r \in records : r.flagged}

ToDrop == {r \in records : Contaminated(r)}

\* It does nothing unless there are contaminated records.
RepairReads ==
    /\ runner \in {"down", "done"} /\ repair = NoRepair /\ repairs < MaxRepairs
    /\ ToDrop # {}
    /\ repair' = [step |-> "read",
                  keep |-> {r \in records : ~Contaminated(r)},
                  drop |-> ToDrop]
    /\ runner' = "down"
    /\ repairs' = repairs + 1
    /\ UNCHANGED <<files, attempt, agents, abandoned, kills>>

\* The lines of Q are appended to the quarantine; behind a cut line the first of
\* them becomes unreadable with it.
AppendToQuarantine(Q) ==
    IF spoilt /\ Q # {} THEN \E first \in Q : quarantine' = quarantine \cup (Q \ {first})
                        ELSE quarantine' = quarantine \cup Q

RepairQuarantines ==
    /\ repair # NoRepair /\ repair.step = "read"
    /\ AppendToQuarantine(repair.drop)
    /\ spoilt' = FALSE
    /\ repair' = [repair EXCEPT !.step = "quarantined"]
    /\ UNCHANGED <<records, cut, runner, attempt, agents, abandoned, counters>>

\* write_text opens the result file for writing, which empties it, ...
RepairTruncates ==
    /\ repair # NoRepair /\ repair.step = "quarantined"
    /\ records' = {} /\ cut' = FALSE
    /\ repair' = [repair EXCEPT !.step = "truncated"]
    /\ UNCHANGED <<audit, runner, attempt, agents, abandoned, counters>>

\* ... and then writes what is kept.
RepairRewrites ==
    /\ repair # NoRepair /\ repair.step = "truncated"
    /\ records' = repair.keep
    /\ repair' = [repair EXCEPT !.step = "clearing"]
    /\ UNCHANGED <<cut, audit, runner, attempt, agents, abandoned, counters>>

\* (Attempt directories are left as they are.)
ClearNothing(s) == UNCHANGED <<made, candidate>>

ClearDirectory(s) ==
    made' = made \ {s} /\ candidate' = [candidate EXCEPT ![s] = 0]

\* The attempt directory of a dropped record is removed.
RepairClears(s) ==
    /\ repair # NoRepair /\ repair.step = "clearing" /\ s \in SlotsOf(repair.drop)
    /\ ClearDirectory(s)
    /\ repair' = [repair EXCEPT !.drop = {r \in @ : r.slot # s}]
    /\ UNCHANGED <<files, runner, attempt, tries, alive, abandoned, counters>>

RepairEnds ==
    /\ repair # NoRepair /\ repair.step = "clearing" /\ repair.drop = {}
    /\ repair' = NoRepair
    /\ UNCHANGED <<files, runner, attempt, agents, abandoned, counters>>

\* What is left of a write that stops after some of the lines R, perhaps inside
\* one: the lines W.
StopsAt(R, W, torn) ==
    /\ W \subseteq R
    /\ torn => "torn" \in Mishap /\ W # R

\* The repair is killed, or fails to write or to remove something.  A write that
\* is under way then stops anywhere: the append to the quarantine, or the rewrite
\* of the result file it has emptied.
RepairDies ==
    /\ repair # NoRepair /\ kills < MaxKills
    /\ repair' = NoRepair /\ kills' = kills + 1
    /\ \/ /\ repair.step = "read"
          /\ \E W \in SUBSET repair.drop, torn \in BOOLEAN :
               /\ StopsAt(repair.drop, W, torn)
               /\ AppendToQuarantine(W)
               /\ spoilt' = (torn \/ (spoilt /\ W = {}))
          /\ UNCHANGED <<records, cut, abandoned>>
       \/ /\ repair.step = "quarantined"
          /\ UNCHANGED <<files, abandoned>>
       \/ /\ repair.step = "truncated"
          /\ \E W \in SUBSET repair.keep, torn \in BOOLEAN :
               /\ StopsAt(repair.keep, W, torn)
               /\ records' = W /\ cut' = torn
          /\ abandoned' = abandoned \cup SlotsOf(repair.keep \cup repair.drop)
          /\ UNCHANGED audit
       \/ /\ repair.step = "clearing"
          /\ abandoned' = abandoned \cup SlotsOf(repair.drop)
          /\ UNCHANGED files
    /\ UNCHANGED <<runner, attempt, agents, repairs>>

-----------------------------------------------------------------------------
Worker(s) == \/ Begin(s) \/ WatchdogReads(s) \/ WatchdogTests(s) \/ WaitTimesOut(s)
             \/ WaitEnds(s) \/ Judge(s) \/ WriteRecord(s)

Repair == \/ RepairReads \/ RepairQuarantines \/ RepairTruncates \/ RepairRewrites
          \/ RepairEnds \/ RepairDies
          \/ \E s \in Slot : RepairClears(s)

Next ==
    \/ StartRun \/ Finish \/ Interrupt \/ Leave \/ Kill
    \/ \E s \in Slot : RecordError(s) \/ Report(s) \/ ReportFails(s)
    \/ \E s \in Slot : Worker(s)
    \/ \E s \in Slot : TimePasses(s)
    \/ \E s \in Slot : \E t \in alive[s] : WriteCandidate(s, t) \/ AgentExits(s, t)
    \/ Sleep
    \/ Repair

Spec == Init /\ [][Next]_vars

\* The threads of the harness run and time passes; agents owe nothing, and
\* nobody has to start a run or to repair one.
Fairness ==
    /\ WF_vars(Finish) /\ WF_vars(Leave)
    /\ \A s \in Slot : WF_vars(TimePasses(s)) /\ WF_vars(RecordError(s)) /\ WF_vars(Report(s))
    /\ \A s \in Slot : /\ WF_vars(Begin(s)) /\ WF_vars(WatchdogReads(s))
                         /\ WF_vars(WatchdogTests(s)) /\ WF_vars(WaitEnds(s))
                         /\ WF_vars(Judge(s)) /\ WF_vars(WriteRecord(s))

FairSpec == Spec /\ Fairness
=============================================================================
