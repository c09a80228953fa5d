-------------------------- MODULE EvalRunProperties --------------------------
(***************************************************************************)
(* What a run that is killed, resumed and repaired promises.               *)
(***************************************************************************)
EXTENDS EvalRun

\* The state has its type.
TypeOK ==
    /\ records \in SUBSET Record /\ cut \in BOOLEAN
    /\ quarantine \in SUBSET Record /\ spoilt \in BOOLEAN
    /\ runner \in {"down", "up", "leaving", "done"}
    /\ attempt \in [Slot -> Attempt]
    /\ tries \in [Slot -> Nat]
    /\ alive \in [Slot -> SUBSET Nat]
    /\ made \in SUBSET Slot
    /\ candidate \in [Slot -> Nat]
    /\ repair \in RepairState \cup {NoRepair}
    /\ abandoned \in SUBSET Slot
    /\ kills \in Nat /\ repairs \in Nat

\* No two records of R are of one slot, but for the record of an attempt and the
\* harness error of reporting it.
OncePerSlot(R) ==
    \A r1, r2 \in R :
      r1.slot = r2.slot => r1.try = r2.try /\ (r1.error = r2.error => r1 = r2)

\* However often the run was killed, resumed and repaired, the reports count one
\* attempt per slot: the readable records of a slot are that of one attempt and, if
\* reporting that attempt raised, the harness error made of it.
CountedOnce == OncePerSlot(records)

\* An attempt is judged on a candidate its own agent wrote, and not on one an
\* earlier attempt left in the directory or an earlier agent still writes to it.
\* The slots the harness was killed at are the exception: run_eval takes an
\* attempt directory as it finds it.
JudgedOnItsOwnWork ==
    \A r \in records \cup quarantine :
      r.work \in {0, r.try} \/ r.slot \in abandoned

\* A run that reports it is done has a record of every slot.
DoneMeansRecorded == runner = "done" => SlotsOf(records) = Slot

\* The records of the result file, and while a repair has emptied it those the
\* repair is about to write back.
Kept == records \cup (IF repair # NoRepair /\ repair.step = "truncated"
                      THEN repair.keep ELSE {})

\* The one death that loses records: behind the opening of the result file for
\* writing, before all of it is written (repair_run.py:42).
DiesRewriting ==
    repair # NoRepair /\ repair.step = "truncated" /\ repair' = NoRepair

CleanKept == \A r \in Kept : ~Contaminated(r) => r \in Kept' \/ DiesRewriting

AuditKept ==
    /\ quarantine \subseteq quarantine'
    /\ \A r \in records : Contaminated(r) => r \in records' \/ r \in quarantine'

Lossless == CleanKept /\ AuditKept

\* A contaminated record leaves the result file for nothing but the quarantine,
\* where it stays for audit, whatever step kills the repair.  A clean one stays in
\* the result file, so that its slot is not paid for again; the only step that
\* loses it is the death of a repair that has emptied the file and not filled it
\* again.  (With "torn" in Mishap a cut line in the quarantine takes the first
\* record of the next repair with it.)
NothingLost == [][Lossless]_vars

\* An attempt the watchdog killed after the machine slept is flagged as such for
\* its record, so that the repair finds it.  This holds of every sleep but one
\* between the two readings of the clocks in the very poll that kills: it comes too
\* late for the drift and in time for the deadline.
SleepKillsAreFlagged ==
    \A s \in Slot : attempt[s].fired /\ attempt[s].gap = "drift" => attempt[s].flagged

\* A run that is up and is not killed or interrupted comes to its end, whatever
\* its agents do: hang, crash, or sleep with the machine.
RunCompletes ==
    \A k \in 0..MaxKills :
      (runner = "up" /\ kills = k) ~> (runner = "done" \/ kills > k)

-----------------------------------------------------------------------------
(* What the code's documentation says and the code does not do: no run checks *)
(* these.                                                                    *)

\* "machine_slept=True (the wall-clock watchdog killed it after a macOS sleep gap"
\* (repair_run.py:9): every attempt killed after a sleep is found by the repair.
EverySleepKillIsFlagged ==
    \A s \in Slot : attempt[s].fired /\ attempt[s].gap # "none" => attempt[s].flagged

\* A repair lets "the (resumable) runner redoes exactly those slots"
\* (repair_run.py:2): no clean record is lost, however the repair ends.
CleanRecordsStay == [][\A r \in Kept : ~Contaminated(r) => r \in Kept']_vars

\* One row per attempt: what report.py and sweep.py count.
OneRecordPerSlot == \A r1, r2 \in records : r1.slot = r2.slot => r1 = r2
=============================================================================
