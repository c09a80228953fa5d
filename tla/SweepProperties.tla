-------------------------- MODULE SweepProperties --------------------------
(***************************************************************************)
(* What a sweep promises of the figures it charts.                         *)
(***************************************************************************)
EXTENDS Sweep

\* A row of the summary that has a throughput counts attempts of the very start
\* of run_eval.py whose time it divides by, whatever earlier starts left behind,
\* when that start came as far as its run_meta.json and no other run_eval.py
\* worked on the same number of agents (docs/REPORT.md:224 tells of the published
\* sweep, whose rates counted earlier starts' attempts).
RateIsOfItsStart ==
    \A i \in DOMAIN summary :
      LET row == summary[i]
      IN row.rate /\ row.alone /\ row.meta.start = row.start /\ ~row.meta.cut =>
           \A j \in DOMAIN row.counted : row.counted[j].start = row.start

\* The points of the chart that count a whole batch count the same problems, each
\* once, with the same number of every difficulty, however many agents ran them and
\* however often the run was resumed (sweep.py:15), unless a sweep was stopped
\* without its run_eval.py and the next one started another; and the two
\* manifests share no problem.
BatchesAreStratified ==
    /\ \A i \in DOMAIN dev60, j \in DOMAIN dev150 : dev60[i].problem # dev150[j].problem
    /\ \A k \in DOMAIN load_sweeps :
         LET counted == load_sweeps[k].counted
             Of(b) == {i \in DOMAIN counted : counted[i].bucket = b}
         IN load_sweeps[k].alone /\ Len(counted) >= Len(batch) =>
              /\ {counted[i].problem : i \in DOMAIN counted} = {batch[i].problem : i \in DOMAIN batch}
              /\ \A i, j \in DOMAIN counted : counted[i].problem = counted[j].problem => i = j
              /\ \A b \in Bucket : Cardinality(Of(b)) = IF PerBucket < First THEN PerBucket ELSE First

-----------------------------------------------------------------------------
(* What the documentation says, of every row; the code does less           *)
(* (README.md, "Known disagreements").                                     *)

\* Resumed runs have no rate (docs/REPORT.md:224).
NoRateOfResumedRuns ==
    \A i \in DOMAIN summary : summary[i].rate =>
      \A j \in DOMAIN summary[i].counted : summary[i].counted[j].start = summary[i].start

\* The difficulty mix is identical at every N (sweep.py:15).
SameMixAtEveryN ==
    \A i, j \in DOMAIN summary :
      LET Mix(k) == [b \in Bucket |-> Cardinality({l \in DOMAIN summary[k].counted :
                                                     summary[k].counted[l].bucket = b})]
      IN Len(summary[i].counted) >= Len(batch) /\ Len(summary[j].counted) >= Len(batch)
           => Mix(i) = Mix(j)
=============================================================================
