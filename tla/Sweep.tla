------------------------------- MODULE Sweep -------------------------------
(***************************************************************************)
(* The scalability sweep (sweep.py): the manifests are sampled once        *)
(* (make_manifests.py); a fixed batch of them is run by run_eval.py at     *)
(* each number of agents in turn, every run in a directory of its own, and *)
(* a row with its throughput is appended to the summary the dashboard      *)
(* charts.  A run that is not complete is resumed by the next sweep.       *)
(*                                                                         *)
(* run_eval.py is reduced to the problems it has in flight, the rows it    *)
(* appends and its run_meta.json (EvalRun.tla is its detailed model).  It  *)
(* may die at any moment, and the sweep goes on without it; the sweep may  *)
(* be stopped at any moment, and its run_eval.py goes on without it.       *)
(*                                                                         *)
(* A definition introduced by a remark in parentheses is a plausible       *)
(* mistake in the one that follows it; SweepSpec uses none of them.        *)
(***************************************************************************)
EXTENDS Naturals, Sequences, FiniteSets

CONSTANTS
    Buckets,    \* the difficulties, in order
    Pools,      \* per difficulty: its problems
    Picked,     \* how many of a pool are picked
    First,      \* how many of those go to dev60
    PerBucket,  \* --per-bucket
    Ns,         \* --ns
    MaxStarts,  \* bound: starts of run_eval.py
    MaxEvals    \* bound: run_eval.py processes at the same time

Bucket == {Buckets[i] : i \in DOMAIN Buckets}
N      == {Ns[i] : i \in DOMAIN Ns}

ASSUME SweepAssumption ==
    /\ Ns \in Seq(Nat \ {0})
    /\ Buckets \in Seq(Bucket) /\ \A i, j \in DOMAIN Buckets : Buckets[i] = Buckets[j] => i = j
    /\ Picked \in Nat /\ First \in 0..Picked /\ PerBucket \in Nat
    /\ MaxStarts \in Nat /\ MaxEvals \in Nat
    /\ \A b \in Bucket : Picked <= Cardinality(Pools[b])
    /\ \A b, c \in Bucket : b # c => Pools[b] \cap Pools[c] = {}

VARIABLES
    dev60, dev150,  \* the manifests: <<>> until they are made
    phase,          \* "down", "loop", "waiting", "tally", "done"
    at,             \* position in Ns
    results,        \* per N: results.jsonl, with the start each row comes from
    meta,           \* per N: run_meta.json: its resumed_skipping, whether it is cut
                    \* short, the start that wrote it
    summary,        \* sweep_<config>_summary.jsonl, with what each row was computed from
    evals,          \* the run_eval.py processes
    starts,         \* history: starts of run_eval.py
    overlapped      \* history: the Ns that two run_eval.py ran at the same time

sweepVars == <<dev60, dev150, phase, at, results, meta, summary, evals, starts, overlapped>>

manifests == <<dev60, dev150>>
run       == <<results, meta>>
control   == <<phase, at, summary, starts, overlapped>>

-----------------------------------------------------------------------------
(* The manifests and the batch.                                            *)

\* rng.sample: the ways to draw from a pool.
Samples(pool) ==
  {s \in [1..Picked -> pool] : \A i, j \in 1..Picked : s[i] = s[j] => i = j}

\* A part of every bucket's draw, bucket after bucket.
Manifest(draw, from, to) ==
  LET Upto[i \in 0..Len(Buckets)] ==
        IF i = 0 THEN <<>>
        ELSE Upto[i - 1] \o [k \in 1..to - from + 1 |->
               [problem |-> draw[Buckets[i]][from + k - 1], bucket |-> Buckets[i]]]
  IN Upto[Len(Buckets)]

\* (picked[:20] and picked[19:70].)
RestFromLast == First

\* Where what is left for dev150 begins.
Rest == First + 1

\* make_batch: the first PerBucket of each bucket of dev60.
make_batch(recs) ==
  LET Seen(i) == Cardinality({j \in 1..i - 1 : recs[j].bucket = recs[i].bucket})
      Upto[i \in 0..Len(recs)] ==
        IF i = 0 THEN <<>>
        ELSE IF Seen(i) < PerBucket THEN Append(Upto[i - 1], recs[i]) ELSE Upto[i - 1]
  IN Upto[Len(recs)]

batch == make_batch(dev60)

SweepInit ==
    /\ dev60 = <<>> /\ dev150 = <<>>
    /\ phase = "down" /\ at = 1 /\ starts = 0
    /\ results = [n \in N |-> <<>>]
    /\ meta = [n \in N |-> [skipped |-> 0, cut |-> FALSE, start |-> 0]]
    /\ summary = <<>> /\ evals = {} /\ overlapped = {}

MakeManifests ==
    /\ dev60 = <<>>
    /\ \E draw \in {d \in [Bucket -> UNION {Samples(Pools[b]) : b \in Bucket}] :
                      \A b \in Bucket : d[b] \in Samples(Pools[b])} :
         /\ dev60' = Manifest(draw, 1, First)
         /\ dev150' = Manifest(draw, Rest, Picked)
    /\ UNCHANGED <<control, run, evals>>

-----------------------------------------------------------------------------
(* The sweep.                                                              *)

n == Ns[at]

StartSweep ==
    /\ phase \in {"down", "done"} /\ dev60 # <<>> /\ starts < MaxStarts
    /\ phase' = "loop" /\ at' = 1
    /\ UNCHANGED <<manifests, run, summary, evals, starts, overlapped>>

\* "already complete, skipping".
SkipComplete ==
    /\ phase = "loop" /\ at <= Len(Ns) /\ Len(results[n]) >= Len(batch)
    /\ at' = at + 1
    /\ UNCHANGED <<manifests, phase, run, summary, evals, starts, overlapped>>

\* It does not look for a run_eval.py that an earlier sweep left behind.
Launch ==
    /\ phase = "loop" /\ at <= Len(Ns) /\ Len(results[n]) < Len(batch)
    /\ starts < MaxStarts /\ Cardinality(evals) < MaxEvals
    /\ phase' = "waiting" /\ starts' = starts + 1
    /\ evals' = evals \cup {[n |-> n, start |-> starts', step |-> "launched", left |-> {}, skipped |-> 0]}
    /\ overlapped' = overlapped \cup ({n} \cap {p.n : p \in evals})
    /\ UNCHANGED <<manifests, at, run, summary>>

\* What the summary takes for the attempts a start skipped: nothing, when it
\* cannot parse run_meta.json.
Resumed(m) == IF m.cut THEN 0 ELSE m.skipped

\* (A row of the summary always has a rate.)
RateAlways(resumed) == TRUE

\* attempts_per_hour is None for a resumed run.
Rate(resumed) == resumed = 0

\* The last run_eval.py has ended; its exit code is not looked at.
Tally ==
    /\ phase = "tally"
    /\ summary' = Append(summary,
         [N |-> n, rate |-> Rate(Resumed(meta[n])), resumed |-> Resumed(meta[n]), counted |-> results[n],
          meta |-> meta[n], start |-> starts, alone |-> n \notin overlapped])
    /\ phase' = "loop" /\ at' = at + 1
    /\ UNCHANGED <<manifests, run, evals, starts, overlapped>>

SweepEnds ==
    /\ phase = "loop" /\ at > Len(Ns)
    /\ phase' = "done"
    /\ UNCHANGED <<manifests, at, run, summary, evals, starts, overlapped>>

\* sweep.py is stopped; when its run_eval.py is stopped with it, EvalDies follows.
Interrupt ==
    /\ phase \in {"loop", "waiting", "tally"}
    /\ phase' = "down"
    /\ UNCHANGED <<manifests, at, run, summary, evals, starts, overlapped>>

-----------------------------------------------------------------------------
(* run_eval.py, one process p of it.                                       *)

\* (A run is resumed behind as many problems as it has rows.)
TodoByCount(rows) == {i \in DOMAIN batch : i > Len(rows)}

\* What of the batch has no row yet.
Todo(rows) == {i \in DOMAIN batch : \A j \in DOMAIN rows : rows[j].problem # batch[i].problem}

Becomes(p, q) == evals' = (evals \ {p}) \cup {q}

\* It reads what is done, and opens run_meta.json for writing: the file is empty.
EvalReads(p) ==
    /\ p.step = "launched"
    /\ Becomes(p, [p EXCEPT !.step = "writing", !.left = Todo(results[p.n]),
         !.skipped = Cardinality({results[p.n][i].problem : i \in DOMAIN results[p.n]})])
    /\ meta' = [meta EXCEPT ![p.n] = [skipped |-> 0, cut |-> TRUE, start |-> p.start]]
    /\ UNCHANGED <<manifests, control, results>>

\* The file says how much of the run was found done.
EvalStarts(p) ==
    /\ p.step = "writing"
    /\ Becomes(p, [p EXCEPT !.step = "eval"])
    /\ meta' = [meta EXCEPT ![p.n] = [skipped |-> p.skipped, cut |-> FALSE, start |-> p.start]]
    /\ UNCHANGED <<manifests, control, results>>

\* One of its n attempts in flight, the first of what is left, ends with a row.
EvalRecords(p) ==
    /\ p.step = "eval"
    /\ \E i \in p.left :
         /\ Cardinality({j \in p.left : j < i}) < p.n
         /\ results' = [results EXCEPT ![p.n] =
              Append(@, [problem |-> batch[i].problem, bucket |-> batch[i].bucket, start |-> p.start])]
         /\ Becomes(p, [p EXCEPT !.left = p.left \ {i}])
    /\ UNCHANGED <<manifests, control, meta>>

\* The sweep that waits for it goes on.
Gone(p) ==
    /\ evals' = evals \ {p}
    /\ phase' = IF phase = "waiting" /\ p.start = starts THEN "tally" ELSE phase
    /\ UNCHANGED <<manifests, at, run, summary, starts, overlapped>>

EvalEnds(p) == p.step = "eval" /\ p.left = {} /\ Gone(p)

EvalDies(p) == Gone(p)

SweepNext ==
    \/ MakeManifests \/ StartSweep \/ SkipComplete \/ Launch
    \/ Tally \/ SweepEnds \/ Interrupt
    \/ \E p \in evals : EvalReads(p) \/ EvalStarts(p) \/ EvalRecords(p) \/ EvalEnds(p) \/ EvalDies(p)

SweepSpec == SweepInit /\ [][SweepNext]_sweepVars

-----------------------------------------------------------------------------
\* load_sweeps: what the dashboard charts, the latest row for each N.
load_sweeps ==
  [k \in {summary[i].N : i \in DOMAIN summary} |->
     summary[CHOOSE i \in DOMAIN summary :
               /\ summary[i].N = k
               /\ \A j \in DOMAIN summary : summary[j].N = k => j <= i]]
=============================================================================
