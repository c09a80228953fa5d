---------------------------- MODULE EvalRunProofs ----------------------------
(***************************************************************************)
(* Theorems about a run that is killed, resumed and repaired, for every    *)
(* set of slots, pool size and number of kills and repairs.                *)
(***************************************************************************)
EXTENDS EvalRunProperties, TLAPS

\* Attempts and records as the actions build them.
LEMMA FreshType == \A p \in Phase : Fresh(p) \in Attempt
  BY DEF Fresh, Attempt, Phase

LEMMA RecordType ==
  ASSUME TypeOK, NEW s \in Slot, NEW w \in Nat, NEW f \in BOOLEAN, NEW e \in BOOLEAN
  PROVE  [slot |-> s, try |-> tries[s], work |-> w, flagged |-> f, error |-> e] \in Record
  BY DEF TypeOK, Record

\* Every step keeps the types.
LEMMA TypeNext ==
  ASSUME TypeOK, [Next]_vars
  PROVE  TypeOK'
<1>. USE DEF TypeOK, RepairState, RepairStep, files, audit, agents, counters
<1>1. CASE StartRun
  <2>1. attempt' \in [Slot -> Attempt]
    BY <1>1, FreshType DEF StartRun, Phase
  <2>. QED
    BY <1>1, <2>1 DEF StartRun
<1>2. CASE Finish
  BY <1>2 DEF Finish
<1>3. CASE Interrupt
  BY <1>3 DEF Interrupt
<1>4. CASE Leave
  <2>1. attempt' \in [Slot -> Attempt]
    BY <1>4, FreshType DEF Leave, Phase
  <2>. QED
    BY <1>4, <2>1 DEF Leave
<1>5. CASE Kill
  <2>1. attempt' \in [Slot -> Attempt]
    BY <1>5, FreshType DEF Kill, Phase
  <2>. QED
    BY <1>5, <2>1 DEF Kill
<1>6. ASSUME NEW s \in Slot, RecordError(s) PROVE TypeOK'
  <2>1. [slot |-> s, try |-> tries[s], work |-> 0,
         flagged |-> FALSE, error |-> TRUE] \in Record
    BY RecordType DEF Attempt
  <2>2. records' \in SUBSET Record /\ cut' \in BOOLEAN
    BY <1>6, <2>1 DEF RecordError, Append
  <2>3. attempt' \in [Slot -> Attempt]
    BY <1>6, FreshType DEF RecordError, Phase
  <2>. QED
    BY <1>6, <2>2, <2>3 DEF RecordError
<1>7. ASSUME NEW s \in Slot, Report(s) PROVE TypeOK'
  <2>1. attempt' \in [Slot -> Attempt]
    BY <1>7, FreshType DEF Report, Phase
  <2>. QED
    BY <1>7, <2>1 DEF Report
<1>8. ASSUME NEW s \in Slot, ReportFails(s) PROVE TypeOK'
  <2>1. [slot |-> s, try |-> tries[s], work |-> 0,
         flagged |-> FALSE, error |-> TRUE] \in Record
    BY RecordType DEF Attempt
  <2>2. records' \in SUBSET Record /\ cut' \in BOOLEAN
    BY <1>8, <2>1 DEF ReportFails, Append
  <2>3. attempt' \in [Slot -> Attempt]
    BY <1>8, FreshType DEF ReportFails, Phase
  <2>. QED
    BY <1>8, <2>2, <2>3 DEF ReportFails
<1>9. ASSUME NEW s \in Slot, Begin(s) PROVE TypeOK'
  <2>1. attempt' \in [Slot -> Attempt]
    BY <1>9, FreshType DEF Begin, Phase
  <2>. QED
    BY <1>9, <2>1 DEF Begin
<1>10. ASSUME NEW s \in Slot, WatchdogReads(s) PROVE TypeOK'
  <2>1. attempt' \in [Slot -> Attempt]
    BY <1>10, ZenonT(60) DEF WatchdogReads, Attempt
  <2>. QED
    BY <1>10, <2>1 DEF WatchdogReads
<1>11. ASSUME NEW s \in Slot, WatchdogTests(s) PROVE TypeOK'
  <2>1. attempt' \in [Slot -> Attempt]
    <3>1. [attempt[s] EXCEPT !.fired = TRUE, !.poll = FALSE] \in Attempt
      BY DEF Attempt
    <3>2. \A g \in {"none", "drift", "blind"} : [attempt[s] EXCEPT !.poll = FALSE, !.gap = g] \in Attempt
      BY DEF Attempt
    <3>3. attempt[s].gap \in {"none", "drift", "blind"}
      BY DEF Attempt
    <3>4. \/ attempt' = [attempt EXCEPT ![s] = [attempt[s] EXCEPT !.fired = TRUE, !.poll = FALSE]]
          \/ \E g \in {"none", "drift", "blind"} :
               attempt' = [attempt EXCEPT ![s] = [attempt[s] EXCEPT !.poll = FALSE, !.gap = g]]
      BY <1>11, <3>3 DEF WatchdogTests
    <3>. QED
      BY <3>1, <3>2, <3>4
  <2>2. alive' \in [Slot -> SUBSET Nat]
    BY <1>11 DEF WatchdogTests, KillTree
  <2>. QED
    BY <1>11, <2>1, <2>2 DEF WatchdogTests
<1>12. ASSUME NEW s \in Slot, WaitTimesOut(s) PROVE TypeOK'
  BY <1>12 DEF WaitTimesOut, KillTree, AgentRuns, Running
<1>13. ASSUME NEW s \in Slot, WaitEnds(s) PROVE TypeOK'
  <2>1. [Fresh("over") EXCEPT !.flagged = attempt[s].flagged] \in Attempt
    BY DEF Fresh, Attempt, Phase
  <2>2. attempt' \in [Slot -> Attempt]
    BY <1>13, <2>1 DEF WaitEnds
  <2>. QED
    BY <1>13, <2>2 DEF WaitEnds
<1>14. ASSUME NEW s \in Slot, Judge(s) PROVE TypeOK'
  <2>1. PICK raised \in BOOLEAN :
          attempt' = [attempt EXCEPT
            ![s] = IF raised THEN Fresh("failed")
                             ELSE [attempt[s] EXCEPT !.phase = "judged", !.work = candidate[s]]]
    BY <1>14 DEF Judge
  <2>2. Fresh("failed") \in Attempt
    BY FreshType DEF Phase
  <2>3. [attempt[s] EXCEPT !.phase = "judged", !.work = candidate[s]] \in Attempt
    BY ZenonT(60) DEF Attempt, Phase
  <2>4. attempt' \in [Slot -> Attempt]
    BY <2>1, <2>2, <2>3
  <2>. QED
    BY <1>14, <2>4 DEF Judge
<1>15. ASSUME NEW s \in Slot, WriteRecord(s) PROVE TypeOK'
  <2>1. [slot |-> s, try |-> tries[s], work |-> attempt[s].work,
         flagged |-> attempt[s].flagged, error |-> FALSE] \in Record
    BY RecordType DEF Attempt
  <2>2. records' \in SUBSET Record /\ cut' \in BOOLEAN
    BY <1>15, <2>1 DEF WriteRecord, Append
  <2>3. attempt' \in [Slot -> Attempt]
    BY <1>15, FreshType DEF WriteRecord, Phase
  <2>. QED
    BY <1>15, <2>2, <2>3 DEF WriteRecord
<1>16. ASSUME NEW s \in Slot, TimePasses(s) PROVE TypeOK'
  BY <1>16 DEF TimePasses, Attempt
<1>17. ASSUME NEW s \in Slot, NEW t \in alive[s], WriteCandidate(s, t) PROVE TypeOK'
  BY <1>17 DEF WriteCandidate
<1>18. ASSUME NEW s \in Slot, NEW t \in alive[s], AgentExits(s, t) PROVE TypeOK'
  BY <1>18 DEF AgentExits
<1>19. CASE Sleep
  <2>1. PICK L \in SUBSET {s \in Slot : attempt[s].phase = "agent"} :
          attempt' = [s \in Slot |-> [attempt[s] EXCEPT !.gap = GapAfterSleep(s),
                                                       !.late = attempt[s].late \/ s \in L]]
    BY <1>19 DEF Sleep
  <2>2. ASSUME NEW s \in Slot
        PROVE  [attempt[s] EXCEPT !.gap = GapAfterSleep(s),
                                  !.late = attempt[s].late \/ s \in L] \in Attempt
    <3>1. GapAfterSleep(s) \in {"none", "drift", "blind"}
      BY DEF GapAfterSleep, Attempt
    <3>2. (attempt[s].late \/ s \in L) \in BOOLEAN
      OBVIOUS
    <3>. QED
      BY <3>1, <3>2, ZenonT(60) DEF Attempt
  <2>3. attempt' \in [Slot -> Attempt]
    BY <2>1, <2>2, Zenon
  <2>. QED
    BY <1>19, <2>3 DEF Sleep
<1>20. CASE RepairReads
  <2>1. repair' \in RepairState
    BY <1>20 DEF RepairReads, ToDrop
  <2>. QED
    BY <1>20, <2>1 DEF RepairReads
<1>21. CASE RepairQuarantines
  <2>1. quarantine' \in SUBSET Record
    BY <1>21 DEF RepairQuarantines, AppendToQuarantine
  <2>. QED
    BY <1>21, <2>1 DEF RepairQuarantines
<1>22. CASE RepairTruncates
  BY <1>22 DEF RepairTruncates
<1>23. CASE RepairRewrites
  BY <1>23 DEF RepairRewrites
<1>24. ASSUME NEW s \in Slot, RepairClears(s) PROVE TypeOK'
  BY <1>24 DEF RepairClears, ClearDirectory
<1>25. CASE RepairEnds
  BY <1>25 DEF RepairEnds
<1>26. CASE RepairDies
  <2>1. SlotsOf(repair.keep) \subseteq Slot /\ SlotsOf(repair.drop) \subseteq Slot
        /\ SlotsOf(repair.keep \cup repair.drop) \subseteq Slot
    BY <1>26 DEF RepairDies, SlotsOf, Record
  <2>2. abandoned' \in SUBSET Slot
    BY <1>26, <2>1 DEF RepairDies
  <2>3. repair' = NoRepair /\ kills' = kills + 1
        /\ UNCHANGED <<runner, attempt, agents, repairs>>
    BY <1>26 DEF RepairDies
  <2>4. /\ records' \in SUBSET Record /\ cut' \in BOOLEAN
        /\ quarantine' \in SUBSET Record /\ spoilt' \in BOOLEAN
    BY <1>26 DEF RepairDies, AppendToQuarantine
  <2>. QED
    BY <2>2, <2>3, <2>4
<1>27. CASE UNCHANGED vars
  BY <1>27 DEF vars
<1>. QED
  BY <1>1, <1>2, <1>3, <1>4, <1>5, <1>6, <1>7, <1>8, <1>9, <1>10, <1>11, <1>12, <1>13,
     <1>14, <1>15, <1>16, <1>17, <1>18, <1>19, <1>20, <1>21, <1>22, <1>23, <1>24, <1>25,
     <1>26, <1>27 DEF Next, Worker, Repair

-----------------------------------------------------------------------------
\* Nothing is under way unless the main thread is there, and a repair only
\* when no harness is.
Quiet ==
    /\ runner \in {"down", "done"} => \A s \in Slot : attempt[s].phase = "idle"
    /\ repair # NoRepair => runner = "down"

\* A slot with an attempt, begun or queued, has no record until its worker has
\* written it, and then only that one.
Open ==
    \A s \in Slot :
      /\ attempt[s].phase \notin {"idle", "written"} => s \notin SlotsOf(records)
      /\ attempt[s].phase = "written" =>
           \A r \in records : r.slot = s => r.try = tries[s] /\ ~r.error

\* What a repair holds at each of its steps.
Holding ==
    repair # NoRepair =>
      /\ OncePerSlot(repair.keep \cup repair.drop)
      /\ repair.step \in {"read", "quarantined"} =>
           /\ repair.keep = {r \in records : ~Contaminated(r)}
           /\ repair.drop = {r \in records : Contaminated(r)}
      /\ repair.step = "quarantined" /\ "torn" \notin Mishap => repair.drop \subseteq quarantine
      /\ repair.step = "truncated" => records = {}
      /\ repair.step = "clearing" => records = repair.keep

\* Without a torn write every record that is appended can be read, and a run that
\* is up has a record or an attempt of every slot.
Accounted ==
    "torn" \notin Mishap =>
      /\ cut = FALSE /\ spoilt = FALSE
      /\ runner = "up" =>
           \A s \in Slot : attempt[s].phase \notin {"idle", "written"} \/ s \in SlotsOf(records)
      /\ DoneMeansRecorded

\* What a sleep of the machine changes of the attempts.
LEMMA SleepTouches ==
  ASSUME TypeOK, Sleep, NEW s \in Slot
  PROVE  /\ attempt'[s].phase = attempt[s].phase
         /\ attempt'[s].work = attempt[s].work
         /\ attempt'[s].fired = attempt[s].fired
         /\ attempt'[s].flagged = attempt[s].flagged
         /\ attempt'[s].poll = attempt[s].poll
         /\ attempt'[s].gap = GapAfterSleep(s)
<1>1. PICK L \in SUBSET {x \in Slot : attempt[x].phase = "agent"} :
        attempt' = [x \in Slot |-> [attempt[x] EXCEPT !.gap = GapAfterSleep(x),
                                                     !.late = attempt[x].late \/ x \in L]]
  BY DEF Sleep
<1>2. attempt[s] \in Attempt
  BY DEF TypeOK
<1>. QED
  BY <1>1, <1>2 DEF Attempt

\* What the second half of a poll changes of the attempts.
LEMMA TestTouches ==
  ASSUME TypeOK, NEW s \in Slot, WatchdogTests(s)
  PROVE  /\ \A x \in Slot \ {s} : attempt'[x] = attempt[x]
         /\ attempt'[s].phase = attempt[s].phase
         /\ attempt'[s].work = attempt[s].work
         /\ attempt'[s].flagged = attempt[s].flagged
         /\ attempt'[s].poll = FALSE
         /\ attempt'[s].fired = (attempt[s].fired \/ attempt[s].late)
         /\ attempt[s].late => attempt'[s].gap = attempt[s].gap
<1>0. attempt[s] \in Attempt
  BY DEF TypeOK
<1>1. CASE attempt[s].late
  <2>1. attempt' = [attempt EXCEPT ![s] = [attempt[s] EXCEPT !.fired = TRUE, !.poll = FALSE]]
    BY <1>1 DEF WatchdogTests
  <2>. QED
    BY <1>0, <1>1, <2>1 DEF TypeOK, Attempt
<1>2. CASE ~attempt[s].late
  <2>1. PICK g \in {"none", "drift", "blind"} :
          attempt' = [attempt EXCEPT ![s] = [attempt[s] EXCEPT !.poll = FALSE, !.gap = g]]
    BY <1>0, <1>2 DEF WatchdogTests, Attempt
  <2>. QED
    BY <1>0, <1>2, <2>1 DEF TypeOK, Attempt
<1>. QED
  BY <1>1, <1>2

\* What appending a record adds to the result file.
LEMMA AppendAdds ==
  ASSUME NEW r, Append(r)
  PROVE  /\ records \subseteq records'
         /\ \A x \in records' : x \in records \/ x = r
         /\ SlotsOf(records') \subseteq SlotsOf(records) \cup {r.slot}
  BY DEF Append, SlotsOf

\* Attempts run under a main thread, repairs without one.
LEMMA QuietNext ==
  ASSUME TypeOK, Quiet, [Next]_vars
  PROVE  Quiet'
<1>. USE DEF Quiet, files, audit, agents, counters
<1>1. CASE StartRun
  BY <1>1 DEF StartRun, Fresh, Todo
<1>2. CASE Finish
  BY <1>2 DEF Finish
<1>3. CASE Interrupt
  BY <1>3 DEF Interrupt
<1>4. CASE Leave
  BY <1>4 DEF Leave, Fresh
<1>5. CASE Kill
  BY <1>5 DEF Kill, Fresh, Running
<1>6. ASSUME NEW s \in Slot, RecordError(s) PROVE Quiet'
  BY <1>6 DEF RecordError, Fresh
<1>7. ASSUME NEW s \in Slot, Report(s) PROVE Quiet'
  BY <1>7 DEF Report, Fresh
<1>8. ASSUME NEW s \in Slot, ReportFails(s) PROVE Quiet'
  BY <1>8 DEF ReportFails, Fresh
<1>9. ASSUME NEW s \in Slot, Begin(s) PROVE Quiet'
  BY <1>9 DEF Begin, Fresh, Running
<1>10. ASSUME NEW s \in Slot, WatchdogReads(s) PROVE Quiet'
  BY <1>10 DEF WatchdogReads, Running
<1>11. ASSUME NEW s \in Slot, WatchdogTests(s) PROVE Quiet'
  BY <1>11 DEF WatchdogTests, Running
<1>12. ASSUME NEW s \in Slot, WaitTimesOut(s) PROVE Quiet'
  BY <1>12 DEF WaitTimesOut, Running
<1>13. ASSUME NEW s \in Slot, WaitEnds(s) PROVE Quiet'
  BY <1>13 DEF WaitEnds, Fresh, Running
<1>14. ASSUME NEW s \in Slot, Judge(s) PROVE Quiet'
  BY <1>14 DEF Judge, Fresh, Running
<1>15. ASSUME NEW s \in Slot, WriteRecord(s) PROVE Quiet'
  BY <1>15 DEF WriteRecord, Fresh, Running
<1>16. ASSUME NEW s \in Slot, TimePasses(s) PROVE Quiet'
  BY <1>16 DEF TimePasses, Running
<1>17. ASSUME NEW s \in Slot, NEW t \in alive[s], WriteCandidate(s, t) PROVE Quiet'
  BY <1>17 DEF WriteCandidate
<1>18. ASSUME NEW s \in Slot, NEW t \in alive[s], AgentExits(s, t) PROVE Quiet'
  BY <1>18 DEF AgentExits
<1>19. CASE Sleep
  BY <1>19 DEF Sleep, Running
<1>20. CASE RepairReads
  BY <1>20 DEF RepairReads
<1>21. CASE RepairQuarantines
  BY <1>21 DEF RepairQuarantines
<1>22. CASE RepairTruncates
  BY <1>22 DEF RepairTruncates
<1>23. CASE RepairRewrites
  BY <1>23 DEF RepairRewrites
<1>24. ASSUME NEW s \in Slot, RepairClears(s) PROVE Quiet'
  BY <1>24 DEF RepairClears
<1>25. CASE RepairEnds
  BY <1>25 DEF RepairEnds
<1>26. CASE RepairDies
  BY <1>26 DEF RepairDies
<1>27. CASE UNCHANGED vars
  BY <1>27 DEF vars
<1>. QED
  BY <1>1, <1>2, <1>3, <1>4, <1>5, <1>6, <1>7, <1>8, <1>9, <1>10, <1>11, <1>12, <1>13,
     <1>14, <1>15, <1>16, <1>17, <1>18, <1>19, <1>20, <1>21, <1>22, <1>23, <1>24, <1>25,
     <1>26, <1>27 DEF Next, Worker, Repair

\* A slot is only attempted when, and as long as, it has no record.
LEMMA OpenNext ==
  ASSUME TypeOK, Quiet, Open, [Next]_vars
  PROVE  Open'
<1>. USE DEF Open, Quiet, SlotsOf, files, audit, agents, counters
<1>1. CASE StartRun
  BY <1>1 DEF StartRun, Fresh, Todo
<1>2. CASE Finish
  BY <1>2 DEF Finish
<1>3. CASE Interrupt
  BY <1>3 DEF Interrupt
<1>4. CASE Leave
  BY <1>4 DEF Leave, Fresh
<1>5. CASE Kill
  BY <1>5 DEF Kill, Fresh, Running
<1>6. ASSUME NEW s \in Slot, RecordError(s) PROVE Open'
  <2>1. PICK r : Append(r) /\ r.slot = s
    BY <1>6 DEF RecordError
  <2>2. tries' = tries /\ \A x \in Slot \ {s} : attempt'[x] = attempt[x]
    BY <1>6 DEF RecordError
  <2>3. attempt'[s].phase = "idle"
    BY <1>6 DEF RecordError, Fresh, TypeOK
  <2>. QED
    BY <2>1, <2>2, <2>3, AppendAdds DEF Open
<1>7. ASSUME NEW s \in Slot, Report(s) PROVE Open'
  BY <1>7 DEF Report, Fresh
<1>8. ASSUME NEW s \in Slot, ReportFails(s) PROVE Open'
  <2>1. PICK r : Append(r) /\ r.slot = s
    BY <1>8 DEF ReportFails
  <2>2. tries' = tries /\ \A x \in Slot \ {s} : attempt'[x] = attempt[x]
    BY <1>8 DEF ReportFails
  <2>3. attempt'[s].phase = "idle"
    BY <1>8 DEF ReportFails, Fresh, TypeOK
  <2>. QED
    BY <2>1, <2>2, <2>3, AppendAdds DEF Open
<1>9. ASSUME NEW s \in Slot, Begin(s) PROVE Open'
  BY <1>9 DEF Begin, Fresh, Running
<1>10. ASSUME NEW s \in Slot, WatchdogReads(s) PROVE Open'
  <2>1. \A x \in Slot : attempt'[x].phase = attempt[x].phase
    BY <1>10 DEF WatchdogReads, TypeOK, Attempt
  <2>2. UNCHANGED <<records, tries>>
    BY <1>10 DEF WatchdogReads
  <2>. QED
    BY <2>1, <2>2
<1>11. ASSUME NEW s \in Slot, WatchdogTests(s) PROVE Open'
  <2>1. \A x \in Slot : attempt'[x].phase = attempt[x].phase
    BY <1>11, TestTouches
  <2>2. UNCHANGED <<records, tries>>
    BY <1>11 DEF WatchdogTests
  <2>. QED
    BY <2>1, <2>2
<1>12. ASSUME NEW s \in Slot, WaitTimesOut(s) PROVE Open'
  BY <1>12 DEF WaitTimesOut, Running
<1>13. ASSUME NEW s \in Slot, WaitEnds(s) PROVE Open'
  BY <1>13 DEF WaitEnds, Fresh, Running
<1>14. ASSUME NEW s \in Slot, Judge(s) PROVE Open'
  BY <1>14 DEF Judge, Fresh, Running
<1>15. ASSUME NEW s \in Slot, WriteRecord(s) PROVE Open'
  <2>1. PICK r : Append(r) /\ r.slot = s /\ r.try = tries[s] /\ ~r.error
    BY <1>15 DEF WriteRecord
  <2>2. tries' = tries /\ \A x \in Slot \ {s} : attempt'[x] = attempt[x]
    BY <1>15 DEF WriteRecord
  <2>3. attempt'[s].phase = "written" /\ s \notin SlotsOf(records)
    BY <1>15 DEF WriteRecord, Fresh, TypeOK
  <2>. QED
    BY <2>1, <2>2, <2>3, AppendAdds DEF Open
<1>16. ASSUME NEW s \in Slot, TimePasses(s) PROVE Open'
  BY <1>16 DEF TimePasses, Running
<1>17. ASSUME NEW s \in Slot, NEW t \in alive[s], WriteCandidate(s, t) PROVE Open'
  BY <1>17 DEF WriteCandidate
<1>18. ASSUME NEW s \in Slot, NEW t \in alive[s], AgentExits(s, t) PROVE Open'
  BY <1>18 DEF AgentExits
<1>19. CASE Sleep
  <2>1. \A s \in Slot : attempt'[s].phase = attempt[s].phase
    BY <1>19, SleepTouches
  <2>2. UNCHANGED <<records, tries>>
    BY <1>19 DEF Sleep
  <2>. QED
    BY <2>1, <2>2
<1>20. CASE RepairReads
  BY <1>20 DEF RepairReads
<1>21. CASE RepairQuarantines
  BY <1>21 DEF RepairQuarantines
<1>22. CASE RepairTruncates
  BY <1>22 DEF RepairTruncates
<1>23. CASE RepairRewrites
  BY <1>23 DEF RepairRewrites
<1>24. ASSUME NEW s \in Slot, RepairClears(s) PROVE Open'
  BY <1>24 DEF RepairClears
<1>25. CASE RepairEnds
  BY <1>25 DEF RepairEnds
<1>26. CASE RepairDies
  BY <1>26 DEF RepairDies
<1>27. CASE UNCHANGED vars
  BY <1>27 DEF vars
<1>. QED
  BY <1>1, <1>2, <1>3, <1>4, <1>5, <1>6, <1>7, <1>8, <1>9, <1>10, <1>11, <1>12, <1>13,
     <1>14, <1>15, <1>16, <1>17, <1>18, <1>19, <1>20, <1>21, <1>22, <1>23, <1>24, <1>25,
     <1>26, <1>27 DEF Next, Worker, Repair

\* No step adds a second record of a slot.
LEMMA OnceNext ==
  ASSUME TypeOK, Open, CountedOnce, Holding, [Next]_vars
  PROVE  CountedOnce'
<1>. USE DEF CountedOnce, OncePerSlot, files, audit, agents, counters
<1>1. CASE StartRun
  BY <1>1 DEF StartRun
<1>2. CASE Finish
  BY <1>2 DEF Finish
<1>3. CASE Interrupt
  BY <1>3 DEF Interrupt
<1>4. CASE Leave
  BY <1>4 DEF Leave
<1>5. CASE Kill
  BY <1>5 DEF Kill
<1>6. ASSUME NEW s \in Slot, RecordError(s) PROVE CountedOnce'
  <2>1. PICK r : Append(r) /\ r.slot = s
    BY <1>6 DEF RecordError
  <2>2. s \notin SlotsOf(records)
    BY <1>6 DEF RecordError, Open
  <2>. QED
    BY <2>1, <2>2, AppendAdds DEF CountedOnce, SlotsOf
<1>7. ASSUME NEW s \in Slot, Report(s) PROVE CountedOnce'
  BY <1>7 DEF Report
<1>8. ASSUME NEW s \in Slot, ReportFails(s) PROVE CountedOnce'
  <2>1. PICK r : Append(r) /\ r.slot = s /\ r.try = tries[s] /\ r.error = TRUE
    BY <1>8 DEF ReportFails
  <2>2. \A x \in records : x.slot = s => x.try = tries[s] /\ x.error = FALSE
    BY <1>8 DEF ReportFails, Open, TypeOK, Record
  <2>. QED
    BY <2>1, <2>2, AppendAdds
<1>9. ASSUME NEW s \in Slot, Begin(s) PROVE CountedOnce'
  BY <1>9 DEF Begin
<1>10. ASSUME NEW s \in Slot, WatchdogReads(s) PROVE CountedOnce'
  BY <1>10 DEF WatchdogReads
<1>11. ASSUME NEW s \in Slot, WatchdogTests(s) PROVE CountedOnce'
  BY <1>11 DEF WatchdogTests
<1>12. ASSUME NEW s \in Slot, WaitTimesOut(s) PROVE CountedOnce'
  BY <1>12 DEF WaitTimesOut
<1>13. ASSUME NEW s \in Slot, WaitEnds(s) PROVE CountedOnce'
  BY <1>13 DEF WaitEnds
<1>14. ASSUME NEW s \in Slot, Judge(s) PROVE CountedOnce'
  BY <1>14 DEF Judge
<1>15. ASSUME NEW s \in Slot, WriteRecord(s) PROVE CountedOnce'
  <2>1. PICK r : Append(r) /\ r.slot = s
    BY <1>15 DEF WriteRecord
  <2>2. s \notin SlotsOf(records)
    BY <1>15 DEF WriteRecord, Open
  <2>. QED
    BY <2>1, <2>2, AppendAdds DEF CountedOnce, SlotsOf
<1>16. ASSUME NEW s \in Slot, TimePasses(s) PROVE CountedOnce'
  BY <1>16 DEF TimePasses
<1>17. ASSUME NEW s \in Slot, NEW t \in alive[s], WriteCandidate(s, t) PROVE CountedOnce'
  BY <1>17 DEF WriteCandidate
<1>18. ASSUME NEW s \in Slot, NEW t \in alive[s], AgentExits(s, t) PROVE CountedOnce'
  BY <1>18 DEF AgentExits
<1>19. CASE Sleep
  BY <1>19 DEF Sleep
<1>20. CASE RepairReads
  BY <1>20 DEF RepairReads
<1>21. CASE RepairQuarantines
  BY <1>21 DEF RepairQuarantines
<1>22. CASE RepairTruncates
  BY <1>22 DEF RepairTruncates
<1>23. CASE RepairRewrites
  <2>1. records' = repair.keep
    BY <1>23 DEF RepairRewrites
  <2>. QED
    BY <1>23, <2>1 DEF RepairRewrites, Holding
<1>24. ASSUME NEW s \in Slot, RepairClears(s) PROVE CountedOnce'
  BY <1>24 DEF RepairClears
<1>25. CASE RepairEnds
  BY <1>25 DEF RepairEnds
<1>26. CASE RepairDies
  <2>1. records' \subseteq records \/ records' \subseteq repair.keep
    BY <1>26 DEF RepairDies
  <2>. QED
    BY <1>26, <2>1 DEF RepairDies, Holding
<1>27. CASE UNCHANGED vars
  BY <1>27 DEF vars
<1>. QED
  BY <1>1, <1>2, <1>3, <1>4, <1>5, <1>6, <1>7, <1>8, <1>9, <1>10, <1>11, <1>12, <1>13,
     <1>14, <1>15, <1>16, <1>17, <1>18, <1>19, <1>20, <1>21, <1>22, <1>23, <1>24, <1>25,
     <1>26, <1>27 DEF Next, Worker, Repair

\* Repair and harness keep what a repair holds as it is.
LEMMA HoldingNext ==
  ASSUME TypeOK, Quiet, CountedOnce, Holding, Accounted, [Next]_vars
  PROVE  Holding'
<1>. USE DEF Holding, files, audit, agents, counters
<1>1. CASE StartRun
  BY <1>1 DEF StartRun
<1>2. CASE Finish
  BY <1>2 DEF Finish
<1>3. CASE Interrupt
  BY <1>3 DEF Interrupt
<1>4. CASE Leave
  BY <1>4 DEF Leave
<1>5. CASE Kill
  BY <1>5 DEF Kill, Running
<1>6. ASSUME NEW s \in Slot, RecordError(s) PROVE Holding'
  <2>1. repair = NoRepair
    BY <1>6 DEF RecordError, Running, Quiet
  <2>2. repair' = repair
    BY <1>6 DEF RecordError
  <2>. QED
    BY <2>1, <2>2 DEF Holding
<1>7. ASSUME NEW s \in Slot, Report(s) PROVE Holding'
  BY <1>7 DEF Report
<1>8. ASSUME NEW s \in Slot, ReportFails(s) PROVE Holding'
  <2>1. repair = NoRepair
    BY <1>8 DEF ReportFails, Running, Quiet
  <2>2. repair' = repair
    BY <1>8 DEF ReportFails
  <2>. QED
    BY <2>1, <2>2 DEF Holding
<1>9. ASSUME NEW s \in Slot, Begin(s) PROVE Holding'
  BY <1>9 DEF Begin, Running
<1>10. ASSUME NEW s \in Slot, WatchdogReads(s) PROVE Holding'
  BY <1>10 DEF WatchdogReads, Running
<1>11. ASSUME NEW s \in Slot, WatchdogTests(s) PROVE Holding'
  BY <1>11 DEF WatchdogTests, Running
<1>12. ASSUME NEW s \in Slot, WaitTimesOut(s) PROVE Holding'
  BY <1>12 DEF WaitTimesOut, Running
<1>13. ASSUME NEW s \in Slot, WaitEnds(s) PROVE Holding'
  BY <1>13 DEF WaitEnds, Running
<1>14. ASSUME NEW s \in Slot, Judge(s) PROVE Holding'
  BY <1>14 DEF Judge, Running
<1>15. ASSUME NEW s \in Slot, WriteRecord(s) PROVE Holding'
  <2>1. repair = NoRepair
    BY <1>15 DEF WriteRecord, Running, Quiet
  <2>2. repair' = repair
    BY <1>15 DEF WriteRecord
  <2>. QED
    BY <2>1, <2>2 DEF Holding
<1>16. ASSUME NEW s \in Slot, TimePasses(s) PROVE Holding'
  BY <1>16 DEF TimePasses, Running
<1>17. ASSUME NEW s \in Slot, NEW t \in alive[s], WriteCandidate(s, t) PROVE Holding'
  BY <1>17 DEF WriteCandidate
<1>18. ASSUME NEW s \in Slot, NEW t \in alive[s], AgentExits(s, t) PROVE Holding'
  BY <1>18 DEF AgentExits
<1>19. CASE Sleep
  BY <1>19 DEF Sleep, Running
<1>20. CASE RepairReads
  <2>1. /\ repair'.step = "read"
        /\ repair'.keep = {r \in records : ~Contaminated(r)}
        /\ repair'.drop = {r \in records : Contaminated(r)}
        /\ records' = records
    BY <1>20 DEF RepairReads, ToDrop
  <2>2. repair'.keep \cup repair'.drop = records
    BY <2>1
  <2>. QED
    BY <2>1, <2>2 DEF CountedOnce
<1>21. CASE RepairQuarantines
  <2>1. /\ repair'.step = "quarantined"
        /\ repair'.keep = repair.keep /\ repair'.drop = repair.drop
        /\ UNCHANGED records
    BY <1>21 DEF RepairQuarantines, TypeOK, RepairState
  <2>2. "torn" \notin Mishap => repair.drop \subseteq quarantine'
    BY <1>21 DEF RepairQuarantines, AppendToQuarantine, Accounted
  <2>. QED
    BY <1>21, <2>1, <2>2 DEF RepairQuarantines
<1>22. CASE RepairTruncates
  BY <1>22 DEF RepairTruncates
<1>23. CASE RepairRewrites
  BY <1>23 DEF RepairRewrites
<1>24. ASSUME NEW s \in Slot, RepairClears(s) PROVE Holding'
  <2>1. /\ repair'.step = "clearing" /\ repair'.keep = repair.keep
        /\ repair'.drop \subseteq repair.drop
        /\ UNCHANGED records
    BY <1>24 DEF RepairClears, TypeOK, RepairState
  <2>. QED
    BY <1>24, <2>1 DEF RepairClears, OncePerSlot
<1>25. CASE RepairEnds
  BY <1>25 DEF RepairEnds
<1>26. CASE RepairDies
  BY <1>26 DEF RepairDies
<1>27. CASE UNCHANGED vars
  BY <1>27 DEF vars
<1>. QED
  BY <1>1, <1>2, <1>3, <1>4, <1>5, <1>6, <1>7, <1>8, <1>9, <1>10, <1>11, <1>12, <1>13,
     <1>14, <1>15, <1>16, <1>17, <1>18, <1>19, <1>20, <1>21, <1>22, <1>23, <1>24, <1>25,
     <1>26, <1>27 DEF Next, Worker, Repair


-----------------------------------------------------------------------------
\* No slot gets lost between the result file and the pool.
LEMMA AccountedNext ==
  ASSUME TypeOK, Quiet, Open, Accounted, [Next]_vars
  PROVE  Accounted'
<1>. USE DEF Accounted, DoneMeansRecorded, files, audit, agents, counters
<1>1. CASE StartRun
  BY <1>1 DEF StartRun, Fresh, Todo
<1>2. CASE Finish
  <2>1. "torn" \notin Mishap => Slot \subseteq SlotsOf(records)
    BY <1>2 DEF Finish
  <2>2. SlotsOf(records) \subseteq Slot
    BY DEF TypeOK, Record, SlotsOf
  <2>. QED
    BY <1>2, <2>1, <2>2 DEF Finish
<1>3. CASE Interrupt
  BY <1>3 DEF Interrupt
<1>4. CASE Leave
  BY <1>4 DEF Leave, Fresh
<1>5. CASE Kill
  BY <1>5 DEF Kill, Fresh, Running
<1>6. ASSUME NEW s \in Slot, RecordError(s) PROVE Accounted'
  <2>. SUFFICES ASSUME "torn" \notin Mishap, cut = FALSE, spoilt = FALSE PROVE Accounted'
    BY <1>6 DEF RecordError, Append
  <2>1. PICK r : Append(r) /\ r.slot = s
    BY <1>6 DEF RecordError
  <2>2. SlotsOf(records') = SlotsOf(records) \cup {s} /\ cut' = FALSE
    BY <2>1 DEF Append, SlotsOf
  <2>3. \A x \in Slot \ {s} : attempt'[x] = attempt[x]
    BY <1>6 DEF RecordError
  <2>4. runner' = runner /\ spoilt' = FALSE
    BY <1>6 DEF RecordError
  <2>5. runner # "done"
    BY <1>6 DEF RecordError, Running
  <2>. QED
    BY <2>2, <2>3, <2>4, <2>5
<1>7. ASSUME NEW s \in Slot, Report(s) PROVE Accounted'
  BY <1>7 DEF Report, Fresh
<1>8. ASSUME NEW s \in Slot, ReportFails(s) PROVE Accounted'
  <2>. SUFFICES ASSUME "torn" \notin Mishap, cut = FALSE, spoilt = FALSE PROVE Accounted'
    BY <1>8 DEF ReportFails, Append
  <2>1. PICK r : Append(r) /\ r.slot = s
    BY <1>8 DEF ReportFails
  <2>2. SlotsOf(records') = SlotsOf(records) \cup {s} /\ cut' = FALSE
    BY <2>1 DEF Append, SlotsOf
  <2>3. \A x \in Slot \ {s} : attempt'[x] = attempt[x]
    BY <1>8 DEF ReportFails
  <2>4. runner' = runner /\ spoilt' = FALSE
    BY <1>8 DEF ReportFails
  <2>5. runner # "done"
    BY <1>8 DEF ReportFails, Running
  <2>. QED
    BY <2>2, <2>3, <2>4, <2>5
<1>9. ASSUME NEW s \in Slot, Begin(s) PROVE Accounted'
  BY <1>9 DEF Begin, Fresh, Running
<1>10. ASSUME NEW s \in Slot, WatchdogReads(s) PROVE Accounted'
  <2>1. \A x \in Slot : attempt'[x].phase = attempt[x].phase
    BY <1>10 DEF WatchdogReads, TypeOK, Attempt
  <2>2. UNCHANGED <<records, cut, spoilt, runner>>
    BY <1>10 DEF WatchdogReads
  <2>. QED
    BY <2>1, <2>2
<1>11. ASSUME NEW s \in Slot, WatchdogTests(s) PROVE Accounted'
  <2>1. \A x \in Slot : attempt'[x].phase = attempt[x].phase
    BY <1>11, TestTouches
  <2>2. UNCHANGED <<records, cut, spoilt, runner>>
    BY <1>11 DEF WatchdogTests
  <2>. QED
    BY <2>1, <2>2
<1>12. ASSUME NEW s \in Slot, WaitTimesOut(s) PROVE Accounted'
  BY <1>12 DEF WaitTimesOut, Running
<1>13. ASSUME NEW s \in Slot, WaitEnds(s) PROVE Accounted'
  BY <1>13 DEF WaitEnds, Fresh, Running
<1>14. ASSUME NEW s \in Slot, Judge(s) PROVE Accounted'
  BY <1>14 DEF Judge, Fresh, Running
<1>15. ASSUME NEW s \in Slot, WriteRecord(s) PROVE Accounted'
  <2>. SUFFICES ASSUME "torn" \notin Mishap, cut = FALSE, spoilt = FALSE PROVE Accounted'
    BY <1>15 DEF WriteRecord, Append
  <2>1. PICK r : Append(r) /\ r.slot = s
    BY <1>15 DEF WriteRecord
  <2>2. SlotsOf(records') = SlotsOf(records) \cup {s} /\ cut' = FALSE
    BY <2>1 DEF Append, SlotsOf
  <2>3. \A x \in Slot \ {s} : attempt'[x] = attempt[x]
    BY <1>15 DEF WriteRecord
  <2>4. runner' = runner /\ spoilt' = FALSE
    BY <1>15 DEF WriteRecord
  <2>5. runner # "done"
    BY <1>15 DEF WriteRecord, Running
  <2>. QED
    BY <2>2, <2>3, <2>4, <2>5
<1>16. ASSUME NEW s \in Slot, TimePasses(s) PROVE Accounted'
  BY <1>16 DEF TimePasses, Running
<1>17. ASSUME NEW s \in Slot, NEW t \in alive[s], WriteCandidate(s, t) PROVE Accounted'
  BY <1>17 DEF WriteCandidate
<1>18. ASSUME NEW s \in Slot, NEW t \in alive[s], AgentExits(s, t) PROVE Accounted'
  BY <1>18 DEF AgentExits
<1>19. CASE Sleep
  <2>1. \A s \in Slot : attempt'[s].phase = attempt[s].phase
    BY <1>19, SleepTouches
  <2>2. UNCHANGED <<records, cut, spoilt, runner>>
    BY <1>19 DEF Sleep
  <2>. QED
    BY <2>1, <2>2
<1>20. CASE RepairReads
  BY <1>20 DEF RepairReads, ToDrop
<1>21. CASE RepairQuarantines
  BY <1>21 DEF RepairQuarantines
<1>22. CASE RepairTruncates
  BY <1>22 DEF RepairTruncates, Quiet
<1>23. CASE RepairRewrites
  BY <1>23 DEF RepairRewrites, Quiet
<1>24. ASSUME NEW s \in Slot, RepairClears(s) PROVE Accounted'
  BY <1>24 DEF RepairClears
<1>25. CASE RepairEnds
  BY <1>25 DEF RepairEnds
<1>26. CASE RepairDies
  <2>1. runner = "down" /\ runner' = runner
    BY <1>26 DEF RepairDies, Quiet
  <2>2. "torn" \notin Mishap => cut' = FALSE /\ spoilt' = FALSE
    BY <1>26 DEF RepairDies, StopsAt
  <2>. QED
    BY <2>1, <2>2
<1>27. CASE UNCHANGED vars
  BY <1>27 DEF vars
<1>. QED
  BY <1>1, <1>2, <1>3, <1>4, <1>5, <1>6, <1>7, <1>8, <1>9, <1>10, <1>11, <1>12, <1>13,
     <1>14, <1>15, <1>16, <1>17, <1>18, <1>19, <1>20, <1>21, <1>22, <1>23, <1>24, <1>25,
     <1>26, <1>27 DEF Next, Worker, Repair


\* Once the watchdog fired, the agent is dead, and a sleep before its last reading
\* of the drift was noticed.
Noticed ==
    \A s \in Slot :
      /\ attempt[s].fired => tries[s] \notin alive[s]
      /\ attempt[s].poll => ~attempt[s].fired
      /\ (attempt[s].fired \/ attempt[s].poll) /\ attempt[s].gap = "drift" => attempt[s].flagged

\* The watchdog looks at the drift before it looks at the deadline.
LEMMA NoticedNext ==
  ASSUME TypeOK, Noticed, [Next]_vars
  PROVE  Noticed'
<1>. USE DEF Noticed, files, audit, agents, counters
<1>1. CASE StartRun
  BY <1>1 DEF StartRun, Fresh
<1>2. CASE Finish
  BY <1>2 DEF Finish
<1>3. CASE Interrupt
  BY <1>3 DEF Interrupt
<1>4. CASE Leave
  BY <1>4 DEF Leave, Fresh
<1>5. CASE Kill
  BY <1>5 DEF Kill, Fresh
<1>6. ASSUME NEW s \in Slot, RecordError(s) PROVE Noticed'
  <2>1. attempt'[s] = Fresh("idle") /\ \A x \in Slot \ {s} : attempt'[x] = attempt[x]
    BY <1>6 DEF RecordError, TypeOK
  <2>2. UNCHANGED <<tries, alive>>
    BY <1>6 DEF RecordError
  <2>. QED
    BY <2>1, <2>2 DEF Fresh
<1>7. ASSUME NEW s \in Slot, Report(s) PROVE Noticed'
  <2>1. attempt'[s] = Fresh("idle") /\ \A x \in Slot \ {s} : attempt'[x] = attempt[x]
    BY <1>7 DEF Report, TypeOK
  <2>2. UNCHANGED <<tries, alive>>
    BY <1>7 DEF Report
  <2>. QED
    BY <2>1, <2>2 DEF Fresh
<1>8. ASSUME NEW s \in Slot, ReportFails(s) PROVE Noticed'
  <2>1. attempt'[s] = Fresh("idle") /\ \A x \in Slot \ {s} : attempt'[x] = attempt[x]
    BY <1>8 DEF ReportFails, TypeOK
  <2>2. UNCHANGED <<tries, alive>>
    BY <1>8 DEF ReportFails
  <2>. QED
    BY <2>1, <2>2 DEF Fresh
<1>9. ASSUME NEW s \in Slot, Begin(s) PROVE Noticed'
  <2>1. attempt'[s].fired = FALSE /\ attempt'[s].poll = FALSE
    BY <1>9 DEF Begin, Fresh, TypeOK
  <2>2. \A x \in Slot \ {s} : attempt'[x] = attempt[x] /\ tries'[x] = tries[x] /\ alive'[x] = alive[x]
    BY <1>9 DEF Begin, TypeOK
  <2>. QED
    BY <2>1, <2>2
<1>10. ASSUME NEW s \in Slot, WatchdogReads(s) PROVE Noticed'
  <2>1. /\ attempt'[s].fired = FALSE
        /\ attempt'[s].gap = attempt[s].gap
        /\ attempt'[s].flagged = (attempt[s].flagged \/ attempt[s].gap # "none")
    BY <1>10 DEF WatchdogReads, TypeOK, Attempt
  <2>2. \A x \in Slot \ {s} : attempt'[x] = attempt[x]
    BY <1>10 DEF WatchdogReads
  <2>3. UNCHANGED <<tries, alive>>
    BY <1>10 DEF WatchdogReads
  <2>. QED
    BY <2>1, <2>2, <2>3
<1>11. ASSUME NEW s \in Slot, WatchdogTests(s) PROVE Noticed'
  <2>1. /\ attempt[s].poll /\ ~attempt[s].fired
        /\ attempt[s].gap = "drift" => attempt[s].flagged
    BY <1>11 DEF WatchdogTests
  <2>2. attempt'[s].poll = FALSE /\ attempt'[s].flagged = attempt[s].flagged
    BY <1>11, TestTouches
  <2>3. attempt'[s].fired => tries[s] \notin alive'[s] /\ attempt'[s].gap = attempt[s].gap
    BY <1>11, <2>1, TestTouches, ZenonT(60) DEF WatchdogTests, KillTree, TypeOK
  <2>4. \A x \in Slot \ {s} : attempt'[x] = attempt[x] /\ alive'[x] = alive[x]
    BY <1>11, TestTouches DEF WatchdogTests, KillTree, TypeOK
  <2>5. tries' = tries
    BY <1>11 DEF WatchdogTests
  <2>. QED
    BY <2>1, <2>2, <2>3, <2>4, <2>5
<1>12. ASSUME NEW s \in Slot, WaitTimesOut(s) PROVE Noticed'
  BY <1>12 DEF WaitTimesOut, KillTree, AgentRuns
<1>13. ASSUME NEW s \in Slot, WaitEnds(s) PROVE Noticed'
  BY <1>13 DEF WaitEnds, Fresh
<1>14. ASSUME NEW s \in Slot, Judge(s) PROVE Noticed'
  BY <1>14 DEF Judge, Fresh
<1>15. ASSUME NEW s \in Slot, WriteRecord(s) PROVE Noticed'
  <2>1. attempt'[s] = Fresh("written") /\ \A x \in Slot \ {s} : attempt'[x] = attempt[x]
    BY <1>15 DEF WriteRecord, TypeOK
  <2>2. UNCHANGED <<tries, alive>>
    BY <1>15 DEF WriteRecord
  <2>. QED
    BY <2>1, <2>2 DEF Fresh
<1>16. ASSUME NEW s \in Slot, TimePasses(s) PROVE Noticed'
  BY <1>16 DEF TimePasses
<1>17. ASSUME NEW s \in Slot, NEW t \in alive[s], WriteCandidate(s, t) PROVE Noticed'
  BY <1>17 DEF WriteCandidate
<1>18. ASSUME NEW s \in Slot, NEW t \in alive[s], AgentExits(s, t) PROVE Noticed'
  BY <1>18 DEF AgentExits
<1>19. CASE Sleep
  <2>1. UNCHANGED <<tries, alive>>
    BY <1>19 DEF Sleep
  <2>2. ASSUME NEW s \in Slot
        PROVE  /\ attempt'[s].fired = attempt[s].fired /\ attempt'[s].poll = attempt[s].poll
               /\ attempt'[s].flagged = attempt[s].flagged
               /\ (attempt[s].fired \/ attempt[s].poll) /\ attempt'[s].gap = "drift" =>
                    attempt[s].gap = "drift"
    <3>1. attempt'[s].gap = GapAfterSleep(s)
      BY <1>19, SleepTouches
    <3>. QED
      BY <1>19, <3>1, SleepTouches DEF GapAfterSleep, AgentRuns
  <2>. QED
    BY <2>1, <2>2
<1>20. CASE RepairReads
  BY <1>20 DEF RepairReads
<1>21. CASE RepairQuarantines
  BY <1>21 DEF RepairQuarantines
<1>22. CASE RepairTruncates
  BY <1>22 DEF RepairTruncates
<1>23. CASE RepairRewrites
  BY <1>23 DEF RepairRewrites
<1>24. ASSUME NEW s \in Slot, RepairClears(s) PROVE Noticed'
  BY <1>24 DEF RepairClears
<1>25. CASE RepairEnds
  BY <1>25 DEF RepairEnds
<1>26. CASE RepairDies
  BY <1>26 DEF RepairDies
<1>27. CASE UNCHANGED vars
  BY <1>27 DEF vars
<1>. QED
  BY <1>1, <1>2, <1>3, <1>4, <1>5, <1>6, <1>7, <1>8, <1>9, <1>10, <1>11, <1>12, <1>13,
     <1>14, <1>15, <1>16, <1>17, <1>18, <1>19, <1>20, <1>21, <1>22, <1>23, <1>24, <1>25,
     <1>26, <1>27 DEF Next, Worker, Repair


-----------------------------------------------------------------------------
\* The records a repair under way has read.
Held == IF repair = NoRepair THEN {} ELSE repair.keep \cup repair.drop

\* In a slot that was never abandoned only the agent of its attempt is alive, and
\* the candidate is that agent's; before the attempt there is none.
OwnSlot(s) ==
    /\ \A t \in alive[s] : t = tries[s] /\ attempt[s].phase = "agent"
    /\ attempt[s].phase \in {"agent", "over"} => candidate[s] \in {0, tries[s]}
    /\ attempt[s].phase = "judged" => attempt[s].work \in {0, tries[s]}
    /\ attempt[s].phase = "queued" => candidate[s] = 0
    /\ attempt[s].phase \in {"idle", "written"} /\ s \notin SlotsOf(records \cup Held) =>
         candidate[s] = 0

Own == \A s \in Slot \ abandoned : OwnSlot(s)

Genuine ==
    \A r \in records \cup quarantine \cup Held : r.work \in {0, r.try} \/ r.slot \in abandoned

\* What a step that touches no slot but s leaves as it is.
LEMMA OwnFrame ==
  ASSUME NEW s \in Slot, Own, abandoned' = abandoned,
         \A x \in Slot \ {s} : /\ attempt'[x] = attempt[x] /\ alive'[x] = alive[x]
                               /\ tries'[x] = tries[x] /\ candidate'[x] = candidate[x],
         SlotsOf(records \cup Held) \subseteq SlotsOf((records \cup Held)') \cup {s},
         s \notin abandoned => OwnSlot(s)'
  PROVE  Own'
  BY ZenonT(60) DEF Own, OwnSlot

\* What a step that leaves agents and attempts alone has to look after.
LEMMA OwnKeeps ==
  ASSUME Own, UNCHANGED <<agents, attempt>>, abandoned \subseteq abandoned',
         \A s \in Slot \ abandoned' :
           s \in SlotsOf(records \cup Held) => s \in SlotsOf((records \cup Held)')
  PROVE  Own'
  BY DEF Own, OwnSlot, agents

\* The files of a slot belong to its attempt.
LEMMA OwnNext ==
  ASSUME TypeOK, Quiet, Open, Holding, Accounted, Own, "torn" \notin Mishap, [Next]_vars
  PROVE  Own'
<1>. USE DEF files, audit, agents, counters
<1>1. CASE StartRun
  <2>1. UNCHANGED <<agents, records, repair>>
    BY <1>1 DEF StartRun
  <2>2. Held = {} /\ Held' = {}
    BY <1>1, <2>1 DEF StartRun, Quiet, Held
  <2>3. ASSUME NEW s \in Slot, s \notin abandoned' PROVE OwnSlot(s)'
    <3>1. OwnSlot(s)
      BY <1>1, <2>3 DEF StartRun, Own
    <3>2. attempt[s].phase = "idle" /\ attempt'[s].phase = (IF s \in SlotsOf(records) THEN "idle" ELSE "queued")
      BY <1>1, <2>3 DEF StartRun, Fresh, TypeOK, Quiet, Todo
    <3>. QED
      BY <2>1, <2>2, <3>1, <3>2 DEF OwnSlot, Open
  <2>. QED
    BY <2>3 DEF Own
<1>2. CASE Finish
  <2>1. UNCHANGED <<agents, attempt>> /\ abandoned \subseteq abandoned'
    BY <1>2 DEF Finish
  <2>2. SlotsOf(records \cup Held) \subseteq SlotsOf((records \cup Held)')
    BY <1>2 DEF Finish, Held
  <2>. QED
    BY <2>1, <2>2, OwnKeeps
<1>3. CASE Interrupt
  <2>1. UNCHANGED <<agents, attempt>> /\ abandoned \subseteq abandoned'
    BY <1>3 DEF Interrupt
  <2>2. SlotsOf(records \cup Held) \subseteq SlotsOf((records \cup Held)')
    BY <1>3 DEF Interrupt, Held
  <2>. QED
    BY <2>1, <2>2, OwnKeeps
<1>4. CASE Leave
  <2>1. UNCHANGED <<agents, records, repair>>
    BY <1>4 DEF Leave
  <2>2. Held = {} /\ Held' = {}
    BY <1>4, <2>1 DEF Leave, Quiet, Held
  <2>3. ASSUME NEW s \in Slot, s \notin abandoned' PROVE OwnSlot(s)'
    <3>1. OwnSlot(s)
      BY <1>4, <2>3 DEF Leave, Own
    <3>2. attempt[s].phase \in {"idle", "written"} /\ attempt'[s].phase = "idle"
      BY <1>4, <2>3 DEF Leave, Fresh, TypeOK, Quiet, Todo
    <3>. QED
      BY <2>1, <2>2, <3>1, <3>2 DEF OwnSlot, Open
  <2>. QED
    BY <2>3 DEF Own
<1>5. CASE Kill
  <2>1. UNCHANGED <<agents, records, repair>>
    BY <1>5 DEF Kill
  <2>2. Held = {} /\ Held' = {}
    BY <1>5, <2>1 DEF Kill, Quiet, Held, Running
  <2>3. ASSUME NEW s \in Slot, s \notin abandoned' PROVE OwnSlot(s)'
    <3>1. OwnSlot(s)
      BY <1>5, <2>3 DEF Kill, Own
    <3>2. attempt[s].phase \in {"idle", "queued", "written"} /\ attempt'[s].phase = "idle"
      BY <1>5, <2>3 DEF Kill, Fresh, TypeOK, Quiet, Todo
    <3>. QED
      BY <2>1, <2>2, <3>1, <3>2 DEF OwnSlot, Open
  <2>. QED
    BY <2>3 DEF Own
<1>6. ASSUME NEW s \in Slot, RecordError(s) PROVE Own'
  <2>1. PICK r : Append(r) /\ r.slot = s
    BY <1>6 DEF RecordError
  <2>2. cut = FALSE /\ Held' = Held /\ abandoned' = abandoned
    BY <1>6 DEF RecordError, Held, Accounted
  <2>3. records' = records \cup {r}
    BY <2>1, <2>2 DEF Append
  <2>4. SlotsOf(records \cup Held) \subseteq SlotsOf((records \cup Held)') /\ s \in SlotsOf((records \cup Held)')
    BY <2>1, <2>2, <2>3 DEF SlotsOf
  <2>5. \A x \in Slot \ {s} : /\ attempt'[x] = attempt[x] /\ alive'[x] = alive[x]
                              /\ tries'[x] = tries[x] /\ candidate'[x] = candidate[x]
    BY <1>6 DEF RecordError
  <2>6. attempt'[s].phase = "idle" /\ alive'[s] = alive[s] /\ attempt[s].phase = "failed"
    BY <1>6 DEF RecordError, Fresh, TypeOK
  <2>7. s \notin abandoned => OwnSlot(s)'
    BY <2>4, <2>6 DEF Own, OwnSlot
  <2>. QED
    BY <2>2, <2>4, <2>5, <2>7, OwnFrame
<1>7. ASSUME NEW s \in Slot, Report(s) PROVE Own'
  <2>1. Held' = Held /\ records' = records /\ abandoned' = abandoned
    BY <1>7 DEF Report, Held
  <2>2. \A x \in Slot \ {s} : /\ attempt'[x] = attempt[x] /\ alive'[x] = alive[x]
                              /\ tries'[x] = tries[x] /\ candidate'[x] = candidate[x]
    BY <1>7 DEF Report, KillTree, TypeOK
  <2>3. s \notin abandoned => OwnSlot(s)'
    BY <1>7, <2>1 DEF Report, Fresh, Accounted, Own, OwnSlot, TypeOK, Attempt
  <2>. QED
    BY <2>1, <2>2, <2>3, OwnFrame
<1>8. ASSUME NEW s \in Slot, ReportFails(s) PROVE Own'
  <2>1. PICK r : Append(r) /\ r.slot = s
    BY <1>8 DEF ReportFails
  <2>2. cut = FALSE /\ Held' = Held /\ abandoned' = abandoned
    BY <1>8 DEF ReportFails, Held, Accounted
  <2>3. records' = records \cup {r}
    BY <2>1, <2>2 DEF Append
  <2>4. SlotsOf(records \cup Held) \subseteq SlotsOf((records \cup Held)') /\ s \in SlotsOf((records \cup Held)')
    BY <2>1, <2>2, <2>3 DEF SlotsOf
  <2>5. \A x \in Slot \ {s} : /\ attempt'[x] = attempt[x] /\ alive'[x] = alive[x]
                              /\ tries'[x] = tries[x] /\ candidate'[x] = candidate[x]
    BY <1>8 DEF ReportFails
  <2>6. attempt'[s].phase = "idle" /\ alive'[s] = alive[s] /\ attempt[s].phase = "written"
    BY <1>8 DEF ReportFails, Fresh, TypeOK
  <2>7. s \notin abandoned => OwnSlot(s)'
    BY <2>4, <2>6 DEF Own, OwnSlot
  <2>. QED
    BY <2>2, <2>4, <2>5, <2>7, OwnFrame
<1>9. ASSUME NEW s \in Slot, Begin(s) PROVE Own'
  <2>1. Held' = Held /\ records' = records /\ abandoned' = abandoned
    BY <1>9 DEF Begin, Held
  <2>2. \A x \in Slot \ {s} : /\ attempt'[x] = attempt[x] /\ alive'[x] = alive[x]
                              /\ tries'[x] = tries[x] /\ candidate'[x] = candidate[x]
    BY <1>9 DEF Begin, KillTree, TypeOK
  <2>3. s \notin abandoned => OwnSlot(s)'
    BY <1>9 DEF Begin, Fresh, Own, OwnSlot, TypeOK, Attempt
  <2>. QED
    BY <2>1, <2>2, <2>3, OwnFrame
<1>10. ASSUME NEW s \in Slot, WatchdogReads(s) PROVE Own'
  <2>1. Held' = Held /\ records' = records /\ abandoned' = abandoned
    BY <1>10 DEF WatchdogReads, Held
  <2>2. \A x \in Slot \ {s} : /\ attempt'[x] = attempt[x] /\ alive'[x] = alive[x]
                              /\ tries'[x] = tries[x] /\ candidate'[x] = candidate[x]
    BY <1>10 DEF WatchdogReads, KillTree, TypeOK
  <2>3. s \notin abandoned => OwnSlot(s)'
    BY <1>10, <2>1 DEF WatchdogReads, Own, OwnSlot, TypeOK, Attempt
  <2>. QED
    BY <2>1, <2>2, <2>3, OwnFrame
<1>11. ASSUME NEW s \in Slot, WatchdogTests(s) PROVE Own'
  <2>1. Held' = Held /\ records' = records /\ abandoned' = abandoned
    BY <1>11 DEF WatchdogTests, Held
  <2>2. \A x \in Slot \ {s} : /\ attempt'[x] = attempt[x] /\ alive'[x] = alive[x]
                              /\ tries'[x] = tries[x] /\ candidate'[x] = candidate[x]
    BY <1>11 DEF WatchdogTests, KillTree, TypeOK
  <2>3. s \notin abandoned => OwnSlot(s)'
    BY <1>11, <2>1, TestTouches, ZenonT(60) DEF WatchdogTests, KillTree, Own, OwnSlot, TypeOK
  <2>. QED
    BY <2>1, <2>2, <2>3, OwnFrame
<1>12. ASSUME NEW s \in Slot, WaitTimesOut(s) PROVE Own'
  <2>1. Held' = Held /\ records' = records /\ abandoned' = abandoned
    BY <1>12 DEF WaitTimesOut, Held
  <2>2. \A x \in Slot \ {s} : /\ attempt'[x] = attempt[x] /\ alive'[x] = alive[x]
                              /\ tries'[x] = tries[x] /\ candidate'[x] = candidate[x]
    BY <1>12 DEF WaitTimesOut, KillTree, TypeOK
  <2>3. s \notin abandoned => OwnSlot(s)'
    BY <1>12 DEF WaitTimesOut, KillTree, AgentRuns, Own, OwnSlot, TypeOK, Attempt
  <2>. QED
    BY <2>1, <2>2, <2>3, OwnFrame
<1>13. ASSUME NEW s \in Slot, WaitEnds(s) PROVE Own'
  <2>1. Held' = Held /\ records' = records /\ abandoned' = abandoned
    BY <1>13 DEF WaitEnds, Held
  <2>2. \A x \in Slot \ {s} : /\ attempt'[x] = attempt[x] /\ alive'[x] = alive[x]
                              /\ tries'[x] = tries[x] /\ candidate'[x] = candidate[x]
    BY <1>13 DEF WaitEnds, KillTree, TypeOK
  <2>3. s \notin abandoned => OwnSlot(s)'
    BY <1>13 DEF WaitEnds, Fresh, Own, OwnSlot, TypeOK, Attempt
  <2>. QED
    BY <2>1, <2>2, <2>3, OwnFrame
<1>14. ASSUME NEW s \in Slot, Judge(s) PROVE Own'
  <2>1. Held' = Held /\ records' = records /\ abandoned' = abandoned
    BY <1>14 DEF Judge, Held
  <2>2. \A x \in Slot \ {s} : /\ attempt'[x] = attempt[x] /\ alive'[x] = alive[x]
                              /\ tries'[x] = tries[x] /\ candidate'[x] = candidate[x]
    BY <1>14 DEF Judge, KillTree, TypeOK
  <2>3. s \notin abandoned => OwnSlot(s)'
    BY <1>14 DEF Judge, Fresh, Own, OwnSlot, TypeOK, Attempt
  <2>. QED
    BY <2>1, <2>2, <2>3, OwnFrame
<1>15. ASSUME NEW s \in Slot, WriteRecord(s) PROVE Own'
  <2>1. PICK r : Append(r) /\ r.slot = s
    BY <1>15 DEF WriteRecord
  <2>2. cut = FALSE /\ Held' = Held /\ abandoned' = abandoned
    BY <1>15 DEF WriteRecord, Held, Accounted
  <2>3. records' = records \cup {r}
    BY <2>1, <2>2 DEF Append
  <2>4. SlotsOf(records \cup Held) \subseteq SlotsOf((records \cup Held)') /\ s \in SlotsOf((records \cup Held)')
    BY <2>1, <2>2, <2>3 DEF SlotsOf
  <2>5. \A x \in Slot \ {s} : /\ attempt'[x] = attempt[x] /\ alive'[x] = alive[x]
                              /\ tries'[x] = tries[x] /\ candidate'[x] = candidate[x]
    BY <1>15 DEF WriteRecord
  <2>6. attempt'[s].phase = "written" /\ alive'[s] = alive[s] /\ attempt[s].phase = "judged"
    BY <1>15 DEF WriteRecord, Fresh, TypeOK
  <2>7. s \notin abandoned => OwnSlot(s)'
    BY <2>4, <2>6 DEF Own, OwnSlot
  <2>. QED
    BY <2>2, <2>4, <2>5, <2>7, OwnFrame
<1>16. ASSUME NEW s \in Slot, TimePasses(s) PROVE Own'
  <2>1. Held' = Held /\ records' = records /\ abandoned' = abandoned
    BY <1>16 DEF TimePasses, Held
  <2>2. \A x \in Slot \ {s} : /\ attempt'[x] = attempt[x] /\ alive'[x] = alive[x]
                              /\ tries'[x] = tries[x] /\ candidate'[x] = candidate[x]
    BY <1>16 DEF TimePasses, KillTree, TypeOK
  <2>3. s \notin abandoned => OwnSlot(s)'
    BY <1>16 DEF TimePasses, Own, OwnSlot, TypeOK, Attempt
  <2>. QED
    BY <2>1, <2>2, <2>3, OwnFrame
<1>17. ASSUME NEW s \in Slot, NEW t \in alive[s], WriteCandidate(s, t) PROVE Own'
  <2>1. Held' = Held /\ records' = records /\ abandoned' = abandoned
    BY <1>17 DEF WriteCandidate, Held
  <2>2. \A x \in Slot \ {s} : /\ attempt'[x] = attempt[x] /\ alive'[x] = alive[x]
                              /\ tries'[x] = tries[x] /\ candidate'[x] = candidate[x]
    BY <1>17 DEF WriteCandidate, KillTree, TypeOK
  <2>3. s \notin abandoned => OwnSlot(s)'
    BY <1>17 DEF WriteCandidate, Own, OwnSlot, TypeOK, Attempt
  <2>. QED
    BY <2>1, <2>2, <2>3, OwnFrame
<1>18. ASSUME NEW s \in Slot, NEW t \in alive[s], AgentExits(s, t) PROVE Own'
  <2>1. Held' = Held /\ records' = records /\ abandoned' = abandoned
    BY <1>18 DEF AgentExits, Held
  <2>2. \A x \in Slot \ {s} : /\ attempt'[x] = attempt[x] /\ alive'[x] = alive[x]
                              /\ tries'[x] = tries[x] /\ candidate'[x] = candidate[x]
    BY <1>18 DEF AgentExits, KillTree, TypeOK
  <2>3. s \notin abandoned => OwnSlot(s)'
    BY <1>18 DEF AgentExits, Own, OwnSlot, TypeOK, Attempt
  <2>. QED
    BY <2>1, <2>2, <2>3, OwnFrame
<1>19. CASE Sleep
  <2>1. UNCHANGED <<tries, alive, candidate, abandoned, records, Held>>
    BY <1>19 DEF Sleep, Held
  <2>. QED
    BY <1>19, <2>1, SleepTouches DEF Own, OwnSlot
<1>20. CASE RepairReads
  <2>1. UNCHANGED <<agents, attempt>> /\ abandoned \subseteq abandoned'
    BY <1>20 DEF RepairReads
  <2>2. records' = records /\ Held = {}
    BY <1>20 DEF RepairReads, Held
  <2>3. SlotsOf(records \cup Held) \subseteq SlotsOf((records \cup Held)')
    BY <2>2 DEF SlotsOf
  <2>. QED
    BY <2>1, <2>3, OwnKeeps
<1>21. CASE RepairQuarantines
  <2>1. UNCHANGED <<agents, attempt>> /\ abandoned \subseteq abandoned'
    BY <1>21 DEF RepairQuarantines
  <2>2. repair \in RepairState
    BY <1>21 DEF RepairQuarantines, TypeOK
  <2>3. repair' \in RepairState
    BY <1>21, <2>2 DEF RepairQuarantines, RepairState, RepairStep
  <2>4. /\ repair'.keep = repair.keep /\ repair'.drop = repair.drop
    BY <1>21, <2>2 DEF RepairQuarantines, RepairState
  <2>5. Held' = Held /\ Held = repair.keep \cup repair.drop
    BY <2>2, <2>3, <2>4, NoRepairAssumption DEF Held
  <2>6. SlotsOf(records \cup Held) \subseteq SlotsOf((records \cup Held)')
    BY <1>21, <2>2, <2>5, NoRepairAssumption DEF RepairQuarantines, Holding, SlotsOf
  <2>. QED
    BY <2>1, <2>6, OwnKeeps
<1>22. CASE RepairTruncates
  <2>1. UNCHANGED <<agents, attempt>> /\ abandoned \subseteq abandoned'
    BY <1>22 DEF RepairTruncates
  <2>2. repair \in RepairState
    BY <1>22 DEF RepairTruncates, TypeOK
  <2>3. repair' \in RepairState
    BY <1>22, <2>2 DEF RepairTruncates, RepairState, RepairStep
  <2>4. /\ repair'.keep = repair.keep /\ repair'.drop = repair.drop
    BY <1>22, <2>2 DEF RepairTruncates, RepairState
  <2>5. Held' = Held /\ Held = repair.keep \cup repair.drop
    BY <2>2, <2>3, <2>4, NoRepairAssumption DEF Held
  <2>6. SlotsOf(records \cup Held) \subseteq SlotsOf((records \cup Held)')
    BY <1>22, <2>2, <2>5, NoRepairAssumption DEF RepairTruncates, Holding, SlotsOf
  <2>. QED
    BY <2>1, <2>6, OwnKeeps
<1>23. CASE RepairRewrites
  <2>1. UNCHANGED <<agents, attempt>> /\ abandoned \subseteq abandoned'
    BY <1>23 DEF RepairRewrites
  <2>2. repair \in RepairState
    BY <1>23 DEF RepairRewrites, TypeOK
  <2>3. repair' \in RepairState
    BY <1>23, <2>2 DEF RepairRewrites, RepairState, RepairStep
  <2>4. /\ repair'.keep = repair.keep /\ repair'.drop = repair.drop
    BY <1>23, <2>2 DEF RepairRewrites, RepairState
  <2>5. Held' = Held /\ Held = repair.keep \cup repair.drop
    BY <2>2, <2>3, <2>4, NoRepairAssumption DEF Held
  <2>6. SlotsOf(records \cup Held) \subseteq SlotsOf((records \cup Held)')
    BY <1>23, <2>2, <2>5, NoRepairAssumption DEF RepairRewrites, Holding, SlotsOf
  <2>. QED
    BY <2>1, <2>6, OwnKeeps
<1>24. ASSUME NEW s \in Slot, RepairClears(s) PROVE Own'
  <2>1. repair \in RepairState /\ repair.step = "clearing"
    BY <1>24 DEF RepairClears, TypeOK
  <2>2. /\ repair' \in RepairState /\ repair'.keep = repair.keep
        /\ repair'.drop = {r \in repair.drop : r.slot # s}
    BY <1>24, <2>1 DEF RepairClears, RepairState
  <2>3. UNCHANGED <<attempt, alive, tries, abandoned, records>>
    BY <1>24 DEF RepairClears, ClearDirectory
  <2>4. SlotsOf(records \cup Held) \subseteq SlotsOf((records \cup Held)') \cup {s}
    BY <2>1, <2>2, <2>3, NoRepairAssumption DEF Held, SlotsOf
  <2>5. candidate'[s] = 0 /\ \A x \in Slot \ {s} : candidate'[x] = candidate[x]
    BY <1>24 DEF RepairClears, ClearDirectory, TypeOK
  <2>6. attempt[s].phase = "idle"
    BY <1>24 DEF RepairClears, Quiet
  <2>7. s \notin abandoned => OwnSlot(s)'
    BY <2>3, <2>5, <2>6 DEF Own, OwnSlot
  <2>. QED
    BY <2>3, <2>4, <2>5, <2>7, OwnFrame
<1>25. CASE RepairEnds
  <2>1. UNCHANGED <<agents, attempt, records, abandoned>>
    BY <1>25 DEF RepairEnds
  <2>2. Held = records
    BY <1>25 DEF RepairEnds, Held, Holding
  <2>3. SlotsOf(records \cup Held) \subseteq SlotsOf((records \cup Held)')
    BY <2>1, <2>2 DEF SlotsOf
  <2>. QED
    BY <2>1, <2>3, OwnKeeps
<1>26. CASE RepairDies
  <2>1. /\ UNCHANGED <<agents, attempt>> /\ abandoned \subseteq abandoned'
        /\ repair.step # "truncated" => records' = records
    BY <1>26 DEF RepairDies
  <2>2. repair \in RepairState
    BY <1>26 DEF RepairDies, TypeOK
  <2>3. ASSUME NEW s \in Slot \ abandoned', s \in SlotsOf(records \cup Held)
        PROVE  s \in SlotsOf((records \cup Held)')
    <3>1. PICK r \in records \cup Held : r.slot = s
      BY <2>3 DEF SlotsOf
    <3>2. CASE repair.step \in {"read", "quarantined"}
      BY <1>26, <2>1, <3>1, <3>2 DEF RepairDies, Holding, Held, SlotsOf
    <3>3. CASE repair.step = "truncated"
      <4>1. abandoned' = abandoned \cup SlotsOf(repair.keep \cup repair.drop)
        BY <1>26, <3>3 DEF RepairDies
      <4>. QED
        BY <1>26, <2>3, <3>1, <3>3, <4>1 DEF RepairDies, Holding, Held, SlotsOf
    <3>4. CASE repair.step = "clearing"
      <4>1. abandoned' = abandoned \cup SlotsOf(repair.drop)
        BY <1>26, <3>4 DEF RepairDies
      <4>. QED
        BY <1>26, <2>1, <2>3, <3>1, <3>4, <4>1 DEF RepairDies, Holding, Held, SlotsOf
    <3>. QED
      BY <2>2, <3>2, <3>3, <3>4 DEF RepairState, RepairStep
  <2>. QED
    BY <2>1, <2>3, OwnKeeps
<1>27. CASE UNCHANGED vars
  BY <1>27 DEF vars, Own, OwnSlot, Held
<1>. QED
  BY <1>1, <1>2, <1>3, <1>4, <1>5, <1>6, <1>7, <1>8, <1>9, <1>10, <1>11, <1>12, <1>13,
     <1>14, <1>15, <1>16, <1>17, <1>18, <1>19, <1>20, <1>21, <1>22, <1>23, <1>24, <1>25,
     <1>26, <1>27 DEF Next, Worker, Repair

\* What is recorded was judged on its own work, or in an abandoned slot.
LEMMA GenuineNext ==
  ASSUME TypeOK, Own, Genuine, [Next]_vars
  PROVE  Genuine'
<1>. USE DEF Genuine, files, audit, agents, counters
<1>1. CASE StartRun
  BY <1>1 DEF StartRun, Held
<1>2. CASE Finish
  BY <1>2 DEF Finish, Held
<1>3. CASE Interrupt
  BY <1>3 DEF Interrupt, Held
<1>4. CASE Leave
  <2>1. abandoned \subseteq abandoned'
    BY <1>4 DEF Leave
  <2>2. (records \cup quarantine \cup Held)' \subseteq records \cup quarantine \cup Held
    BY <1>4 DEF Leave, Held
  <2>. QED
    BY <2>1, <2>2
<1>5. CASE Kill
  <2>1. abandoned \subseteq abandoned'
    BY <1>5 DEF Kill
  <2>2. (records \cup quarantine \cup Held)' \subseteq records \cup quarantine \cup Held
    BY <1>5 DEF Kill, Held
  <2>. QED
    BY <2>1, <2>2
<1>6. ASSUME NEW s \in Slot, RecordError(s) PROVE Genuine'
  <2>1. PICK r : Append(r) /\ r.slot = s /\ r.try = tries[s] /\ r.work = 0
    BY <1>6 DEF RecordError
  <2>2. Held' = Held /\ UNCHANGED <<quarantine, abandoned>>
    BY <1>6 DEF RecordError, Held
  <2>3. r.work \in {0, r.try} \/ r.slot \in abandoned
    BY <1>6, <2>1 DEF RecordError, Own, OwnSlot
  <2>. QED
    BY <2>1, <2>2, <2>3, AppendAdds
<1>7. ASSUME NEW s \in Slot, Report(s) PROVE Genuine'
  BY <1>7 DEF Report, Held
<1>8. ASSUME NEW s \in Slot, ReportFails(s) PROVE Genuine'
  <2>1. PICK r : Append(r) /\ r.slot = s /\ r.try = tries[s] /\ r.work = 0
    BY <1>8 DEF ReportFails
  <2>2. Held' = Held /\ UNCHANGED <<quarantine, abandoned>>
    BY <1>8 DEF ReportFails, Held
  <2>. QED
    BY <2>1, <2>2, AppendAdds
<1>9. ASSUME NEW s \in Slot, Begin(s) PROVE Genuine'
  BY <1>9 DEF Begin, Held
<1>10. ASSUME NEW s \in Slot, WatchdogReads(s) PROVE Genuine'
  BY <1>10 DEF WatchdogReads, Held
<1>11. ASSUME NEW s \in Slot, WatchdogTests(s) PROVE Genuine'
  BY <1>11 DEF WatchdogTests, Held
<1>12. ASSUME NEW s \in Slot, WaitTimesOut(s) PROVE Genuine'
  BY <1>12 DEF WaitTimesOut, Held
<1>13. ASSUME NEW s \in Slot, WaitEnds(s) PROVE Genuine'
  BY <1>13 DEF WaitEnds, Held
<1>14. ASSUME NEW s \in Slot, Judge(s) PROVE Genuine'
  BY <1>14 DEF Judge, Held
<1>15. ASSUME NEW s \in Slot, WriteRecord(s) PROVE Genuine'
  <2>1. PICK r : Append(r) /\ r.slot = s /\ r.try = tries[s] /\ r.work = attempt[s].work
    BY <1>15 DEF WriteRecord
  <2>2. Held' = Held /\ UNCHANGED <<quarantine, abandoned>>
    BY <1>15 DEF WriteRecord, Held
  <2>3. r.work \in {0, r.try} \/ r.slot \in abandoned
    BY <1>15, <2>1 DEF WriteRecord, Own, OwnSlot
  <2>. QED
    BY <2>1, <2>2, <2>3, AppendAdds
<1>16. ASSUME NEW s \in Slot, TimePasses(s) PROVE Genuine'
  BY <1>16 DEF TimePasses, Held
<1>17. ASSUME NEW s \in Slot, NEW t \in alive[s], WriteCandidate(s, t) PROVE Genuine'
  BY <1>17 DEF WriteCandidate, Held
<1>18. ASSUME NEW s \in Slot, NEW t \in alive[s], AgentExits(s, t) PROVE Genuine'
  BY <1>18 DEF AgentExits, Held
<1>19. CASE Sleep
  BY <1>19 DEF Sleep, Held
<1>20. CASE RepairReads
  <2>1. abandoned \subseteq abandoned'
    BY <1>20 DEF RepairReads
  <2>2. (records \cup quarantine \cup Held)' \subseteq records \cup quarantine \cup Held
    BY <1>20 DEF RepairReads, Held, ToDrop
  <2>. QED
    BY <2>1, <2>2
<1>21. CASE RepairQuarantines
  <2>1. abandoned' = abandoned /\ repair \in RepairState
    BY <1>21 DEF RepairQuarantines, TypeOK
  <2>2. repair'.keep = repair.keep /\ repair'.drop = repair.drop
    BY <1>21, <2>1 DEF RepairQuarantines, RepairState
  <2>3. (records \cup quarantine \cup Held)' \subseteq records \cup quarantine \cup Held
    BY <1>21, <2>1, <2>2, NoRepairAssumption DEF RepairQuarantines, AppendToQuarantine, Held
  <2>. QED
    BY <2>1, <2>3
<1>22. CASE RepairTruncates
  <2>1. abandoned' = abandoned /\ repair \in RepairState
    BY <1>22 DEF RepairTruncates, TypeOK
  <2>2. repair'.keep = repair.keep /\ repair'.drop = repair.drop
    BY <1>22, <2>1 DEF RepairTruncates, RepairState
  <2>3. (records \cup quarantine \cup Held)' \subseteq records \cup quarantine \cup Held
    BY <1>22, <2>1, <2>2, NoRepairAssumption DEF RepairTruncates, Held
  <2>. QED
    BY <2>1, <2>3
<1>23. CASE RepairRewrites
  <2>1. abandoned' = abandoned /\ repair \in RepairState
    BY <1>23 DEF RepairRewrites, TypeOK
  <2>2. repair'.keep = repair.keep /\ repair'.drop = repair.drop
    BY <1>23, <2>1 DEF RepairRewrites, RepairState
  <2>3. (records \cup quarantine \cup Held)' \subseteq records \cup quarantine \cup Held
    BY <1>23, <2>1, <2>2, NoRepairAssumption DEF RepairRewrites, Held
  <2>. QED
    BY <2>1, <2>3
<1>24. ASSUME NEW s \in Slot, RepairClears(s) PROVE Genuine'
  <2>1. abandoned' = abandoned /\ repair \in RepairState
    BY <1>24 DEF RepairClears, TypeOK
  <2>2. repair'.keep = repair.keep /\ repair'.drop \subseteq repair.drop
    BY <1>24, <2>1 DEF RepairClears, RepairState
  <2>3. (records \cup quarantine \cup Held)' \subseteq records \cup quarantine \cup Held
    BY <1>24, <2>1, <2>2, NoRepairAssumption DEF RepairClears, Held
  <2>. QED
    BY <2>1, <2>3
<1>25. CASE RepairEnds
  <2>1. abandoned \subseteq abandoned'
    BY <1>25 DEF RepairEnds
  <2>2. (records \cup quarantine \cup Held)' \subseteq records \cup quarantine \cup Held
    BY <1>25 DEF RepairEnds, Held
  <2>. QED
    BY <2>1, <2>2
<1>26. CASE RepairDies
  <2>1. abandoned \subseteq abandoned'
    BY <1>26 DEF RepairDies
  <2>2. records' \subseteq records \cup Held
    BY <1>26 DEF RepairDies, Held
  <2>3. quarantine' \subseteq quarantine \cup Held
    BY <1>26 DEF RepairDies, AppendToQuarantine, Held
  <2>4. (records \cup quarantine \cup Held)' \subseteq records \cup quarantine \cup Held
    BY <1>26, <2>2, <2>3 DEF RepairDies, Held
  <2>. QED
    BY <2>1, <2>4
<1>27. CASE UNCHANGED vars
  BY <1>27 DEF vars, Held
<1>. QED
  BY <1>1, <1>2, <1>3, <1>4, <1>5, <1>6, <1>7, <1>8, <1>9, <1>10, <1>11, <1>12, <1>13,
     <1>14, <1>15, <1>16, <1>17, <1>18, <1>19, <1>20, <1>21, <1>22, <1>23, <1>24, <1>25,
     <1>26, <1>27 DEF Next, Worker, Repair

\* A clean record is in the result file or in the memory of a repair that is alive.
LEMMA CleanNext ==
  ASSUME TypeOK, Quiet, Holding, [Next]_vars
  PROVE  CleanKept
<1>. USE DEF CleanKept, files, audit, agents, counters
<1>1. CASE StartRun
  BY <1>1 DEF StartRun, Kept, Quiet, Running
<1>2. CASE Finish
  BY <1>2 DEF Finish, Kept
<1>3. CASE Interrupt
  BY <1>3 DEF Interrupt, Kept
<1>4. CASE Leave
  BY <1>4 DEF Leave, Kept, Quiet, Running
<1>5. CASE Kill
  BY <1>5 DEF Kill, Kept, Quiet, Running
<1>6. ASSUME NEW s \in Slot, RecordError(s) PROVE CleanKept
  <2>1. quarantine' = quarantine /\ records \subseteq records' /\ repair = NoRepair
    BY <1>6, AppendAdds DEF RecordError, Quiet, Running
  <2>. QED
    BY <2>1 DEF Kept, CleanKept
<1>7. ASSUME NEW s \in Slot, Report(s) PROVE CleanKept
  BY <1>7 DEF Report, Kept
<1>8. ASSUME NEW s \in Slot, ReportFails(s) PROVE CleanKept
  <2>1. records \subseteq records' /\ repair = NoRepair
    BY <1>8, AppendAdds DEF ReportFails, Quiet, Running
  <2>. QED
    BY <2>1 DEF Kept, CleanKept
<1>9. ASSUME NEW s \in Slot, Begin(s) PROVE CleanKept
  BY <1>9 DEF Begin, Kept
<1>10. ASSUME NEW s \in Slot, WatchdogReads(s) PROVE CleanKept
  BY <1>10 DEF WatchdogReads, Kept
<1>11. ASSUME NEW s \in Slot, WatchdogTests(s) PROVE CleanKept
  BY <1>11 DEF WatchdogTests, Kept
<1>12. ASSUME NEW s \in Slot, WaitTimesOut(s) PROVE CleanKept
  BY <1>12 DEF WaitTimesOut, Kept
<1>13. ASSUME NEW s \in Slot, WaitEnds(s) PROVE CleanKept
  BY <1>13 DEF WaitEnds, Kept
<1>14. ASSUME NEW s \in Slot, Judge(s) PROVE CleanKept
  BY <1>14 DEF Judge, Kept
<1>15. ASSUME NEW s \in Slot, WriteRecord(s) PROVE CleanKept
  <2>1. quarantine' = quarantine /\ records \subseteq records' /\ repair = NoRepair
    BY <1>15, AppendAdds DEF WriteRecord, Quiet, Running
  <2>. QED
    BY <2>1 DEF Kept, CleanKept
<1>16. ASSUME NEW s \in Slot, TimePasses(s) PROVE CleanKept
  BY <1>16 DEF TimePasses, Kept
<1>17. ASSUME NEW s \in Slot, NEW t \in alive[s], WriteCandidate(s, t) PROVE CleanKept
  BY <1>17 DEF WriteCandidate, Kept
<1>18. ASSUME NEW s \in Slot, NEW t \in alive[s], AgentExits(s, t) PROVE CleanKept
  BY <1>18 DEF AgentExits, Kept
<1>19. CASE Sleep
  BY <1>19 DEF Sleep, Kept
<1>20. CASE RepairReads
  <2>1. UNCHANGED <<records, quarantine>> /\ Kept = records
    BY <1>20 DEF RepairReads, Kept
  <2>. QED
    BY <2>1 DEF Kept
<1>21. CASE RepairQuarantines
  <2>1. repair \in RepairState
    BY <1>21 DEF RepairQuarantines, TypeOK
  <2>2. /\ repair'.keep = repair.keep /\ repair' # NoRepair
        /\ repair'.step = "quarantined"
    BY <1>21, <2>1, NoRepairAssumption DEF RepairQuarantines, RepairState, RepairStep
  <2>. QED
    BY <1>21, <2>1, <2>2 DEF RepairQuarantines, Holding, Kept
<1>22. CASE RepairTruncates
  <2>1. repair \in RepairState
    BY <1>22 DEF RepairTruncates, TypeOK
  <2>2. /\ repair'.keep = repair.keep /\ repair' # NoRepair
        /\ repair'.step = "truncated"
    BY <1>22, <2>1, NoRepairAssumption DEF RepairTruncates, RepairState, RepairStep
  <2>. QED
    BY <1>22, <2>1, <2>2 DEF RepairTruncates, Holding, Kept
<1>23. CASE RepairRewrites
  <2>1. repair \in RepairState
    BY <1>23 DEF RepairRewrites, TypeOK
  <2>2. /\ repair'.keep = repair.keep /\ repair' # NoRepair
        /\ repair'.step = "clearing"
    BY <1>23, <2>1, NoRepairAssumption DEF RepairRewrites, RepairState, RepairStep
  <2>. QED
    BY <1>23, <2>1, <2>2 DEF RepairRewrites, Holding, Kept
<1>24. ASSUME NEW s \in Slot, RepairClears(s) PROVE CleanKept
  <2>1. repair \in RepairState
    BY <1>24 DEF RepairClears, TypeOK
  <2>2. /\ repair'.keep = repair.keep /\ repair' # NoRepair
        /\ repair'.step = "clearing"
    BY <1>24, <2>1, NoRepairAssumption DEF RepairClears, RepairState, RepairStep
  <2>. QED
    BY <1>24, <2>1, <2>2 DEF RepairClears, Holding, Kept
<1>25. CASE RepairEnds
  <2>1. UNCHANGED <<records, quarantine>> /\ Kept = records
    BY <1>25 DEF RepairEnds, Kept
  <2>. QED
    BY <2>1 DEF Kept
<1>26. CASE RepairDies
  <2>1. repair.step = "truncated" => DiesRewriting
    BY <1>26 DEF RepairDies, DiesRewriting
  <2>2. repair.step # "truncated" => records' = records /\ Kept = records
    BY <1>26 DEF RepairDies, Kept
  <2>. QED
    BY <2>1, <2>2 DEF Kept
<1>27. CASE UNCHANGED vars
  BY <1>27 DEF vars, Kept
<1>. QED
  BY <1>1, <1>2, <1>3, <1>4, <1>5, <1>6, <1>7, <1>8, <1>9, <1>10, <1>11, <1>12, <1>13,
     <1>14, <1>15, <1>16, <1>17, <1>18, <1>19, <1>20, <1>21, <1>22, <1>23, <1>24, <1>25,
     <1>26, <1>27 DEF Next, Worker, Repair

\* A repair quarantines before it empties the result file.
LEMMA AuditNext ==
  ASSUME TypeOK, Holding, Accounted, "torn" \notin Mishap, [Next]_vars
  PROVE  AuditKept
<1>. USE DEF AuditKept, files, audit
<1>1. CASE StartRun
  BY <1>1 DEF StartRun
<1>2. CASE Finish
  BY <1>2 DEF Finish
<1>3. CASE Interrupt
  BY <1>3 DEF Interrupt
<1>4. CASE Leave
  BY <1>4 DEF Leave
<1>5. CASE Kill
  BY <1>5 DEF Kill
<1>6. ASSUME NEW s \in Slot, RecordError(s) PROVE AuditKept
  <2>1. records \subseteq records' /\ quarantine' = quarantine
    BY <1>6, AppendAdds DEF RecordError
  <2>. QED
    BY <2>1
<1>7. ASSUME NEW s \in Slot, Report(s) PROVE AuditKept
  BY <1>7 DEF Report
<1>8. ASSUME NEW s \in Slot, ReportFails(s) PROVE AuditKept
  <2>1. records \subseteq records' /\ quarantine' = quarantine
    BY <1>8, AppendAdds DEF ReportFails
  <2>. QED
    BY <2>1
<1>9. ASSUME NEW s \in Slot, Begin(s) PROVE AuditKept
  BY <1>9 DEF Begin
<1>10. ASSUME NEW s \in Slot, WatchdogReads(s) PROVE AuditKept
  BY <1>10 DEF WatchdogReads
<1>11. ASSUME NEW s \in Slot, WatchdogTests(s) PROVE AuditKept
  BY <1>11 DEF WatchdogTests
<1>12. ASSUME NEW s \in Slot, WaitTimesOut(s) PROVE AuditKept
  BY <1>12 DEF WaitTimesOut
<1>13. ASSUME NEW s \in Slot, WaitEnds(s) PROVE AuditKept
  BY <1>13 DEF WaitEnds
<1>14. ASSUME NEW s \in Slot, Judge(s) PROVE AuditKept
  BY <1>14 DEF Judge
<1>15. ASSUME NEW s \in Slot, WriteRecord(s) PROVE AuditKept
  <2>1. records \subseteq records' /\ quarantine' = quarantine
    BY <1>15, AppendAdds DEF WriteRecord
  <2>. QED
    BY <2>1
<1>16. ASSUME NEW s \in Slot, TimePasses(s) PROVE AuditKept
  BY <1>16 DEF TimePasses
<1>17. ASSUME NEW s \in Slot, NEW t \in alive[s], WriteCandidate(s, t) PROVE AuditKept
  BY <1>17 DEF WriteCandidate
<1>18. ASSUME NEW s \in Slot, NEW t \in alive[s], AgentExits(s, t) PROVE AuditKept
  BY <1>18 DEF AgentExits
<1>19. CASE Sleep
  BY <1>19 DEF Sleep
<1>20. CASE RepairReads
  BY <1>20 DEF RepairReads
<1>21. CASE RepairQuarantines
  <2>1. records' = records /\ quarantine \subseteq quarantine'
    BY <1>21 DEF RepairQuarantines, AppendToQuarantine
  <2>. QED
    BY <2>1
<1>22. CASE RepairTruncates
  BY <1>22 DEF RepairTruncates, Holding
<1>23. CASE RepairRewrites
  BY <1>23 DEF RepairRewrites, Holding
<1>24. ASSUME NEW s \in Slot, RepairClears(s) PROVE AuditKept
  BY <1>24 DEF RepairClears
<1>25. CASE RepairEnds
  BY <1>25 DEF RepairEnds
<1>26. CASE RepairDies
  <2>1. quarantine \subseteq quarantine'
    BY <1>26 DEF RepairDies, AppendToQuarantine
  <2>2. records = {} \/ records' = records
    BY <1>26 DEF RepairDies, Holding
  <2>. QED
    BY <2>1, <2>2
<1>27. CASE UNCHANGED vars
  BY <1>27 DEF vars
<1>. QED
  BY <1>1, <1>2, <1>3, <1>4, <1>5, <1>6, <1>7, <1>8, <1>9, <1>10, <1>11, <1>12, <1>13,
     <1>14, <1>15, <1>16, <1>17, <1>18, <1>19, <1>20, <1>21, <1>22, <1>23, <1>24, <1>25,
     <1>26, <1>27 DEF Next, Worker, Repair

-----------------------------------------------------------------------------
\* The invariant that all theorems rest on; it is inductive.
IInv == TypeOK /\ Quiet /\ Open /\ CountedOnce /\ Holding /\ Accounted /\ Noticed

LEMMA InitIInv == Init => IInv
<1>. SUFFICES ASSUME Init PROVE IInv
  OBVIOUS
<1>1. TypeOK
  BY FreshType DEF Init, TypeOK, Phase
<1>2. Quiet /\ Open /\ Noticed
  BY DEF Init, Quiet, Open, Noticed, Fresh
<1>3. CountedOnce /\ Holding /\ Accounted
  BY DEF Init, CountedOnce, OncePerSlot, Holding, Accounted, DoneMeansRecorded
<1>. QED
  BY <1>1, <1>2, <1>3 DEF IInv

LEMMA NextIInv == IInv /\ [Next]_vars => IInv'
  BY TypeNext, QuietNext, OpenNext, OnceNext, HoldingNext, AccountedNext, NoticedNext DEF IInv

LEMMA InvAlways == Spec => []IInv
  BY InitIInv, NextIInv, PTL DEF Spec

\* The variables keep their types.
THEOREM TypeCorrect == Spec => []TypeOK
<1>1. IInv => TypeOK
  BY DEF IInv
<1>. QED
  BY <1>1, InvAlways, PTL

\* A slot is counted once, torn writes and all: open slots have no record, only the
\* worker of an open slot appends one, and a repair writes back what it has read.
THEOREM SlotsCountedOnce == Spec => []CountedOnce
<1>1. IInv => CountedOnce
  BY DEF IInv
<1>. QED
  BY <1>1, InvAlways, PTL

\* When no append is torn, a run that says it is done has a record of every slot,
\* whatever attempts failed and whatever happened to earlier starts.
THEOREM DoneRunsAreComplete ==
  ASSUME "torn" \notin Mishap
  PROVE  Spec => []DoneMeansRecorded
<1>1. IInv => DoneMeansRecorded
  BY DEF IInv, Accounted
<1>. QED
  BY <1>1, InvAlways, PTL

\* When the watchdog kills an attempt whose agent the machine slept under, it has
\* left word of it, unless the sleep came between the two readings of that poll.
THEOREM SleepIsNoticed == Spec => []SleepKillsAreFlagged
<1>1. IInv => SleepKillsAreFlagged
  BY DEF IInv, Noticed, SleepKillsAreFlagged
<1>. QED
  BY <1>1, InvAlways, PTL

\* No step loses a clean record, torn writes and all, but the death of a repair that
\* has emptied the result file.
THEOREM CleanRecordsAreKept == Spec => [][CleanKept]_vars
<1>1. IInv /\ [Next]_vars => [CleanKept]_vars
  BY CleanNext DEF IInv
<1>. QED
  BY <1>1, InvAlways, PTL DEF Spec

\* When no append is torn, contaminated records besides go nowhere but to the
\* quarantine, wherever a repair dies.
THEOREM RecordsAreKept ==
  ASSUME "torn" \notin Mishap
  PROVE  Spec => NothingLost
<1>1. IInv /\ [Next]_vars => [Lossless]_vars
  BY CleanNext, AuditNext DEF IInv, Lossless
<1>. QED
  BY <1>1, InvAlways, PTL DEF Spec, NothingLost

\* When no append is torn, an attempt outside the slots that were abandoned is
\* judged on what its own agent wrote.
THEOREM AttemptsAreJudgedOnTheirWork ==
  ASSUME "torn" \notin Mishap
  PROVE  Spec => []JudgedOnItsOwnWork
<1>1. Init => Own /\ Genuine
  BY DEF Init, Own, OwnSlot, Genuine, Held, Fresh
<1>2. IInv /\ Own /\ Genuine /\ [Next]_vars => (Own /\ Genuine)'
  BY OwnNext, GenuineNext DEF IInv
<1>3. Genuine => JudgedOnItsOwnWork
  BY DEF Genuine, JudgedOnItsOwnWork
<1>. QED
  BY <1>1, <1>2, <1>3, InvAlways, PTL DEF Spec
=============================================================================
