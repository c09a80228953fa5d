---------------------------- MODULE HarnessProofs ----------------------------
(***************************************************************************)
(* Theorems about two programs of the harness that are interrupted and     *)
(* started again on what they left: the sweep, for every batch, every list *)
(* of agent numbers and any number of starts, and the counterfactual       *)
(* replay, for all failed attempts, all they had committed and any number  *)
(* of kills; how a file of any length becomes tasks; and what the gate     *)
(* reads of a candidate of any length.                                     *)
(***************************************************************************)
EXTENDS SweepProperties, ReplayProperties,
        FiniteSetTheorems, SequenceTheorems, WellFoundedInduction, TLAPS

IsSequence(s) == \E S : s \in Seq(S)

\* As long as no two run_eval.py work on k: what a process says of the run it is
\* in, and run_meta.json of the rows.
Consistent(k) ==
    /\ \A p, q \in evals : p.n = k /\ q.n = k => p = q
    /\ \A p \in evals : p.n = k /\ p.step = "writing" /\ p.skipped = 0 => DOMAIN results[k] = {}
    /\ \A p \in evals : p.n = k /\ p.step = "eval" => ~meta[k].cut /\ meta[k].start = p.start
    /\ ~meta[k].cut /\ meta[k].skipped = 0 =>
         \A j \in DOMAIN results[k] : results[k][j].start = meta[k].start

Process(p) ==
    /\ p.n \in N
    /\ p = [n |-> p.n, start |-> p.start, step |-> p.step, left |-> p.left, skipped |-> p.skipped]

SweepType ==
    /\ results = [k \in N |-> results[k]] /\ \A k \in N : IsSequence(results[k])
    /\ meta = [k \in N |-> meta[k]]
    /\ IsSequence(summary)
    /\ phase \in {"waiting", "tally"} => at \in DOMAIN Ns
    /\ at \in Nat \ {0}
    /\ \A p \in evals : Process(p)

IInv ==
    /\ SweepType
    /\ \A k \in N \ overlapped : Consistent(k)
    /\ RateIsOfItsStart

-----------------------------------------------------------------------------
\* Append, for a sequence of anything.
LEMMA AppendAny ==
  ASSUME NEW s, IsSequence(s), NEW e
  PROVE  /\ IsSequence(Append(s, e))
         /\ DOMAIN s = 1..Len(s) /\ Len(s) \in Nat
         /\ DOMAIN Append(s, e) = 1..Len(s) + 1
         /\ \A i \in 1..Len(s) : Append(s, e)[i] = s[i]
         /\ Append(s, e)[Len(s) + 1] = e
<1>1. PICK S : s \in Seq(S)
  BY DEF IsSequence
<1>. DEFINE T == S \cup {e}
<1>2. s \in Seq(T) /\ e \in T
  BY <1>1, SeqMonotonic
<1>3. Append(s, e) \in Seq(T) /\ Len(Append(s, e)) = Len(s) + 1
      /\ (\A i \in 1..Len(s) : Append(s, e)[i] = s[i]) /\ Append(s, e)[Len(s) + 1] = e
  BY <1>2, AppendProperties
<1>4. Len(s) \in Nat /\ DOMAIN s = 1..Len(s)
  BY <1>2, LenProperties
<1>5. DOMAIN Append(s, e) = 1..Len(Append(s, e))
  BY <1>3, LenProperties
<1>. QED
  BY <1>3, <1>4, <1>5 DEF IsSequence

\* A set of positions that is not empty has a last one.
LEMMA LastPosition ==
  ASSUME NEW m \in Nat, NEW S \in SUBSET (1..m), S # {}
  PROVE  SetMax(S) \in S /\ \A j \in S : j <= SetMax(S)
<1>. DEFINE T == {m - i : i \in S}
<1>1. T \in SUBSET Nat /\ T # {}
  <2>1. \A i \in S : m - i \in Nat
    OBVIOUS
  <2>. QED
    BY <2>1
<1>2. PICK x \in T : \A y \in T : ~ (<<y, x>> \in OpToRel(<, Nat))
  BY <1>1, NatLessThanWellFounded, WFMin
<1>3. \A y \in T : ~ (y < x)
  <2>1. ASSUME NEW y \in T, y < x PROVE FALSE
    <3>1. <<y, x>> \in Nat \X Nat /\ <<y, x>>[1] < <<y, x>>[2]
      BY <1>1, <2>1
    <3>. QED
      BY <1>2, <3>1, Zenon DEF OpToRel
  <2>. QED
    BY <2>1
<1>4. PICK i \in S : x = m - i
  BY <1>2
<1>5. ASSUME NEW j \in S PROVE i >= j
  <2>1. m - j \in T
    OBVIOUS
  <2>. QED
    BY <1>3, <1>4, <2>1
<1>. QED
  BY <1>5 DEF SetMax

\* A run in which no problem is done has no results.
LEMMA NoneDone ==
  ASSUME NEW s, IsSequence(s), Cardinality({s[i].problem : i \in DOMAIN s}) = 0
  PROVE  DOMAIN s = {}
<1>. DEFINE T == {s[i].problem : i \in DOMAIN s}
            f == [i \in DOMAIN s |-> s[i].problem]
<1>1. PICK S : s \in Seq(S)
  BY DEF IsSequence
<1>2. IsFiniteSet(DOMAIN s)
  BY <1>1, LenProperties, FS_Interval
<1>3. f \in Surjection(DOMAIN s, T)
  BY DEF Surjection
<1>4. IsFiniteSet(T)
  BY <1>2, <1>3, FS_Surjection
<1>5. T = {}
  BY <1>4, FS_EmptySet
<1>. QED
  BY <1>5

\* A position in the list of agent numbers is one of them.
LEMMA Position == ASSUME at \in DOMAIN Ns PROVE n \in N
  BY DEF n, N

\* The fields of a process that changes.
LEMMA ChangedLeft ==
  ASSUME NEW p, Process(p), NEW l
  PROVE  [p EXCEPT !.left = l] = [n |-> p.n, start |-> p.start, step |-> p.step, left |-> l, skipped |-> p.skipped]
  BY DEF Process

LEMMA Changed ==
  ASSUME NEW p, Process(p), NEW st, NEW l, NEW sk
  PROVE  [p EXCEPT !.step = st, !.left = l, !.skipped = sk]
           = [n |-> p.n, start |-> p.start, step |-> st, left |-> l, skipped |-> sk]
<1>. DEFINE a == [p EXCEPT !.step = st]
            b == [a EXCEPT !.left = l]
<1>1. a = [n |-> p.n, start |-> p.start, step |-> st, left |-> p.left, skipped |-> p.skipped]
  BY DEF Process
<1>. HIDE DEF a
<1>2. b = [n |-> p.n, start |-> p.start, step |-> st, left |-> l, skipped |-> p.skipped]
  BY <1>1
<1>. HIDE DEF b
<1>3. [b EXCEPT !.skipped = sk] = [n |-> p.n, start |-> p.start, step |-> st, left |-> l, skipped |-> sk]
  BY <1>2
<1>. QED
  BY <1>3 DEF a, b

\* A process that takes a step stays the only one of its n, if it was.
LEMMA OneTurn ==
  ASSUME IInv, NEW p \in evals, NEW q, Process(q), q.n = p.n, Becomes(p, q), UNCHANGED overlapped
  PROVE  /\ \A x \in evals' : Process(x)
         /\ \A x \in evals' : x = q \/ x \in evals
         /\ \A k \in N \ overlapped : \A x \in evals' : x.n = k =>
              IF k = p.n THEN x = q ELSE x \in evals
<1>1. \A x \in evals' : x = q \/ (x \in evals /\ x # p)
  BY DEF Becomes
<1>2. \A x \in evals : Process(x)
  BY DEF IInv, SweepType
<1>3. ASSUME NEW k \in N \ overlapped, NEW x \in evals', x.n = k
      PROVE  IF k = p.n THEN x = q ELSE x \in evals
  <2>1. Consistent(k)
    BY <1>3 DEF IInv
  <2>. QED
    BY <1>1, <1>3, <2>1 DEF Consistent
<1>. QED
  BY <1>1, <1>2, <1>3

\* The step that appends to the summary keeps the property.
LEMMA TallyKeeps ==
  ASSUME IInv, Tally
  PROVE  IsSequence(summary') /\ RateIsOfItsStart'
<1>. DEFINE r == [N |-> n, rate |-> Rate(Resumed(meta[n])), resumed |-> Resumed(meta[n]),
                  counted |-> results[n], meta |-> meta[n], start |-> starts, alone |-> n \notin overlapped]
            Honest(x) == x.rate /\ x.alone /\ x.meta.start = x.start /\ ~x.meta.cut =>
                           \A j \in DOMAIN x.counted : x.counted[j].start = x.start
<1>1. n \in N
  BY Position DEF Tally, IInv, SweepType
<1>2. Honest(r)
  <2>. SUFFICES ASSUME Rate(Resumed(meta[n])), n \notin overlapped, meta[n].start = starts, ~meta[n].cut
                PROVE  \A j \in DOMAIN results[n] : results[n][j].start = starts
    OBVIOUS
  <2>1. Consistent(n)
    BY <1>1 DEF IInv
  <2>2. meta[n].skipped = 0
    BY DEF Rate, Resumed
  <2>. QED
    BY <2>1, <2>2 DEF Consistent
<1>3. summary' = Append(summary, r)
  BY DEF Tally
<1>. HIDE DEF r
<1>4. IsSequence(summary') /\ DOMAIN summary = 1..Len(summary) /\ Len(summary) \in Nat
      /\ DOMAIN summary' = 1..Len(summary) + 1
      /\ (\A i \in 1..Len(summary) : summary'[i] = summary[i]) /\ summary'[Len(summary) + 1] = r
  BY <1>3, AppendAny DEF IInv, SweepType
<1>5. \A i \in DOMAIN summary' : i \in DOMAIN summary \/ i = Len(summary) + 1
  BY <1>4
<1>6. \A i \in DOMAIN summary : Honest(summary[i])
  BY DEF IInv, RateIsOfItsStart
<1>7. \A i \in DOMAIN summary' : Honest(summary'[i])
  BY <1>2, <1>4, <1>5, <1>6
<1>. QED
  BY <1>4, <1>7 DEF RateIsOfItsStart

\* Every step keeps the invariant.
LEMMA IInvNext ==
  ASSUME IInv, [SweepNext]_sweepVars
  PROVE  IInv'
<1>1. ASSUME UNCHANGED <<results, meta, summary, evals, starts, overlapped>>,
             phase' \in {"waiting", "tally"} => at' \in DOMAIN Ns, at' \in Nat \ {0}
      PROVE  IInv'
  BY <1>1 DEF IInv, SweepType, Consistent, RateIsOfItsStart, Process
<1>2. CASE MakeManifests \/ StartSweep \/ SkipComplete \/ SweepEnds \/ Interrupt \/ UNCHANGED sweepVars
  BY <1>1, <1>2 DEF MakeManifests, StartSweep, SkipComplete, SweepEnds, Interrupt, sweepVars, run, control,
                    IInv, SweepType
<1>3. CASE Launch
  <2>. DEFINE q == [n |-> n, start |-> starts', step |-> "launched", left |-> {}, skipped |-> 0]
  <2>1. DOMAIN Ns = 1..Len(Ns) /\ Len(Ns) \in Nat
    BY SweepAssumption, LenProperties
  <2>2. at \in DOMAIN Ns /\ n \in N
    BY <1>3, <2>1, Position DEF Launch, IInv, SweepType
  <2>3. evals' = evals \cup {q} /\ q.n = n /\ q.step = "launched" /\ Process(q)
    BY <1>3, <2>2 DEF Launch, Process
  <2>. HIDE DEF q
  <2>4. SweepType'
    BY <1>3, <2>2, <2>3 DEF Launch, IInv, SweepType, Process, run
  <2>5. ASSUME NEW k \in N \ overlapped' PROVE Consistent(k)'
    <3>1. k \notin overlapped /\ Consistent(k) /\ (k = n => \A x \in evals : x.n # k)
      BY <1>3, <2>5 DEF Launch, IInv
    <3>2. \A x, y \in evals' : x.n = k /\ y.n = k => x = y
      BY <2>3, <3>1 DEF Consistent
    <3>. QED
      BY <1>3, <2>3, <3>1, <3>2 DEF Launch, run, Consistent
  <2>6. RateIsOfItsStart'
    BY <1>3 DEF Launch, IInv, RateIsOfItsStart
  <2>. QED
    BY <2>4, <2>5, <2>6 DEF IInv
<1>4. CASE Tally
  <2>1. at \in Nat /\ at + 1 \in Nat \ {0}
    BY DEF IInv, SweepType
  <2>2. SweepType'
    BY <1>4, <2>1, TallyKeeps DEF Tally, IInv, SweepType, run, Process
  <2>3. \A k \in N \ overlapped' : Consistent(k)'
    BY <1>4 DEF Tally, IInv, Consistent, run
  <2>. QED
    BY <1>4, <2>2, <2>3, TallyKeeps DEF IInv
<1>5. ASSUME NEW p \in evals, EvalReads(p) PROVE IInv'
  <2>. DEFINE found == Cardinality({results[p.n][i].problem : i \in DOMAIN results[p.n]})
              q == [p EXCEPT !.step = "writing", !.left = Todo(results[p.n]), !.skipped = found]
  <2>1. Process(p) /\ IsSequence(results[p.n])
    BY DEF IInv, SweepType, Process
  <2>2. q.n = p.n /\ q.step = "writing" /\ q.skipped = found /\ Process(q)
    <3>1. q = [n |-> p.n, start |-> p.start, step |-> "writing", left |-> Todo(results[p.n]), skipped |-> found]
      BY <2>1, Changed
    <3>. QED
      BY <2>1, <3>1 DEF Process
  <2>3. Becomes(p, q) /\ UNCHANGED <<overlapped, summary, results, phase, at>>
        /\ meta' = [meta EXCEPT ![p.n] = [skipped |-> 0, cut |-> TRUE, start |-> p.start]]
    BY <1>5 DEF EvalReads, control
  <2>. HIDE DEF q
  <2>4. q.skipped = 0 => DOMAIN results[p.n] = {}
    BY <2>1, <2>2, NoneDone
  <2>5. /\ \A x \in evals' : Process(x)
        /\ \A k \in N \ overlapped : \A x \in evals' : x.n = k => IF k = p.n THEN x = q ELSE x \in evals
    BY <2>2, <2>3, OneTurn
  <2>6. meta' = [k \in N |-> meta'[k]] /\ (\A k \in N : k # p.n => meta'[k] = meta[k]) /\ meta'[p.n].cut
    BY <2>1, <2>3 DEF IInv, SweepType, Process
  <2>7. SweepType'
    BY <2>3, <2>5, <2>6 DEF IInv, SweepType, Process
  <2>8. ASSUME NEW k \in N \ overlapped' PROVE Consistent(k)'
    <3>1. k \notin overlapped /\ Consistent(k)
      BY <2>3, <2>8 DEF IInv
    <3>. QED
      BY <2>2, <2>3, <2>4, <2>5, <2>6, <3>1 DEF Consistent
  <2>. QED
    BY <2>3, <2>7, <2>8 DEF IInv, RateIsOfItsStart
<1>6. ASSUME NEW p \in evals, EvalStarts(p) PROVE IInv'
  <2>. DEFINE q == [p EXCEPT !.step = "eval"]
              m == [skipped |-> p.skipped, cut |-> FALSE, start |-> p.start]
  <2>1. Process(p)
    BY DEF IInv, SweepType
  <2>2. q.n = p.n /\ q.step = "eval" /\ q.start = p.start /\ Process(q)
    BY <2>1 DEF Process
  <2>3. Becomes(p, q) /\ UNCHANGED <<overlapped, summary, results, phase, at>> /\ p.step = "writing"
        /\ meta' = [meta EXCEPT ![p.n] = m]
    BY <1>6 DEF EvalStarts, control
  <2>. HIDE DEF q
  <2>4. /\ \A x \in evals' : Process(x)
        /\ \A k \in N \ overlapped : \A x \in evals' : x.n = k => IF k = p.n THEN x = q ELSE x \in evals
    BY <2>2, <2>3, OneTurn
  <2>5. meta' = [k \in N |-> meta'[k]] /\ (\A k \in N : k # p.n => meta'[k] = meta[k]) /\ meta'[p.n] = m
    BY <2>1, <2>3 DEF IInv, SweepType, Process
  <2>6. SweepType'
    BY <2>3, <2>4, <2>5 DEF IInv, SweepType, Process
  <2>7. ASSUME NEW k \in N \ overlapped' PROVE Consistent(k)'
    <3>1. k \notin overlapped /\ Consistent(k)
      BY <2>3, <2>7 DEF IInv
    <3>2. k = p.n /\ p.skipped = 0 => DOMAIN results[k] = {}
      BY <2>3, <3>1 DEF Consistent
    <3>. QED
      BY <2>2, <2>3, <2>4, <2>5, <3>1, <3>2 DEF Consistent
  <2>. QED
    BY <2>3, <2>6, <2>7 DEF IInv, RateIsOfItsStart
<1>7. ASSUME NEW p \in evals, EvalRecords(p) PROVE IInv'
  <2>1. Process(p) /\ IsSequence(results[p.n])
    BY DEF IInv, SweepType, Process
  <2>2. PICK i \in p.left :
          /\ results' = [results EXCEPT ![p.n] =
               Append(@, [problem |-> batch[i].problem, bucket |-> batch[i].bucket, start |-> p.start])]
          /\ Becomes(p, [p EXCEPT !.left = p.left \ {i}])
    BY <1>7 DEF EvalRecords
  <2>. DEFINE q == [p EXCEPT !.left = p.left \ {i}]
              r == [problem |-> batch[i].problem, bucket |-> batch[i].bucket, start |-> p.start]
  <2>3. q.n = p.n /\ q.step = p.step /\ q.step = "eval" /\ q.start = p.start /\ Process(q)
    <3>1. q = [n |-> p.n, start |-> p.start, step |-> p.step, left |-> p.left \ {i}, skipped |-> p.skipped]
      BY <2>1, ChangedLeft
    <3>. QED
      BY <1>7, <2>1, <3>1 DEF Process, EvalRecords
  <2>4. Becomes(p, q) /\ UNCHANGED <<overlapped, summary, meta, phase, at>>
        /\ results' = [results EXCEPT ![p.n] = Append(@, r)] /\ r.start = p.start
    BY <1>7, <2>2 DEF EvalRecords, control
  <2>. HIDE DEF q, r
  <2>5. /\ \A x \in evals' : Process(x)
        /\ \A k \in N \ overlapped : \A x \in evals' : x.n = k => IF k = p.n THEN x = q ELSE x \in evals
    BY <2>3, <2>4, OneTurn
  <2>6. results' = [k \in N |-> results'[k]] /\ (\A k \in N : k # p.n => results'[k] = results[k])
        /\ results'[p.n] = Append(results[p.n], r)
    BY <2>1, <2>4 DEF IInv, SweepType, Process
  <2>7. /\ IsSequence(results'[p.n]) /\ DOMAIN results[p.n] = 1..Len(results[p.n]) /\ Len(results[p.n]) \in Nat
        /\ DOMAIN results'[p.n] = 1..Len(results[p.n]) + 1
        /\ \A j \in 1..Len(results[p.n]) : results'[p.n][j] = results[p.n][j]
        /\ results'[p.n][Len(results[p.n]) + 1] = r
    BY <2>1, <2>6, AppendAny
  <2>8. SweepType'
    BY <2>4, <2>5, <2>6, <2>7 DEF IInv, SweepType, Process
  <2>9. ASSUME NEW k \in N \ overlapped' PROVE Consistent(k)'
    <3>1. k \notin overlapped /\ Consistent(k)
      BY <2>4, <2>9 DEF IInv
    <3>2. CASE k # p.n
      BY <2>4, <2>5, <2>6, <3>1, <3>2 DEF Consistent
    <3>3. CASE k = p.n
      <4>1. \A x \in evals' : x.n = k => x = q
        BY <2>4, <2>5, <2>9, <3>1, <3>3
      <4>2. ~meta[k].cut /\ meta[k].start = p.start
        BY <2>3, <3>1, <3>3 DEF Consistent
      <4>3. ASSUME meta[k].skipped = 0, NEW j \in DOMAIN results'[k]
            PROVE  results'[k][j].start = meta[k].start
        <5>1. \A l \in DOMAIN results[k] : results[k][l].start = meta[k].start
          BY <3>1, <4>2, <4>3 DEF Consistent
        <5>2. j \in 1..Len(results[k]) \/ j = Len(results[k]) + 1
          BY <2>7, <3>3
        <5>. QED
          BY <2>4, <2>7, <3>3, <4>2, <5>1, <5>2
      <4>. QED
        BY <2>3, <2>4, <4>1, <4>2, <4>3 DEF Consistent
    <3>. QED
      BY <3>2, <3>3
  <2>. QED
    BY <2>4, <2>8, <2>9 DEF IInv, RateIsOfItsStart
<1>8. ASSUME NEW p \in evals, Gone(p) PROVE IInv'
  <2>1. SweepType'
    BY <1>8 DEF Gone, run, IInv, SweepType, Process
  <2>2. \A k \in N \ overlapped' : Consistent(k)'
    BY <1>8 DEF Gone, run, IInv, Consistent
  <2>. QED
    BY <1>8, <2>1, <2>2 DEF Gone, IInv, RateIsOfItsStart
<1>. QED
  BY <1>2, <1>3, <1>4, <1>5, <1>6, <1>7, <1>8 DEF SweepNext, EvalEnds, EvalDies

LEMMA IInvInit ==
  ASSUME SweepInit
  PROVE  IInv
<1>1. IsSequence(<<>>) /\ DOMAIN <<>> = {}
  BY EmptySeq DEF IsSequence
<1>2. results = [k \in N |-> results[k]] /\ \A k \in N : results[k] = <<>>
  BY DEF SweepInit
<1>3. meta = [k \in N |-> meta[k]]
  BY DEF SweepInit
<1>. QED
  BY <1>1, <1>2, <1>3 DEF SweepInit, IInv, SweepType, Consistent, RateIsOfItsStart

\* A start of run_eval.py that wrote its run_meta.json and had the run to itself is
\* given a throughput only of its own rows, whenever it or an earlier one died and
\* however often the sweep was stopped, with it or without it.
THEOREM RateIsHonest == SweepSpec => []RateIsOfItsStart
<1>1. SweepInit => IInv
  BY IInvInit
<1>2. IInv => RateIsOfItsStart
  BY DEF IInv
<1>. QED
  BY <1>1, <1>2, IInvNext, PTL DEF SweepSpec

-----------------------------------------------------------------------------
(* The manifests and the batch.                                            *)

\* A property of positions that each hands on to the next holds of all of them.
LEMMA EveryPosition ==
  ASSUME NEW m \in Nat, NEW G, 0 \in G, \A i \in 1..m : i - 1 \in G => i \in G
  PROVE  0..m \subseteq G
<1>. DEFINE T == (0..m) \ G
<1>1. SUFFICES ASSUME T # {} PROVE FALSE
  BY Zenon
<1>2. T \subseteq Nat
  OBVIOUS
<1>3. PICK x \in T : \A y \in T : ~ (<<y, x>> \in OpToRel(<, Nat))
  BY <1>1, <1>2, NatLessThanWellFounded, WFMin
<1>4. x \in 1..m
  OBVIOUS
<1>5. x - 1 \in T
  BY <1>4
<1>6. <<x - 1, x>> \in Nat \X Nat /\ <<x - 1, x>>[1] < <<x - 1, x>>[2]
  BY <1>4
<1>. QED
  BY <1>3, <1>5, <1>6, Zenon DEF OpToRel

InBucket(s, b) == {i \in DOMAIN s : s[i].bucket = b}
Count(s, b)    == Cardinality(InBucket(s, b))

Draws == {d \in [Bucket -> UNION {Samples(Pools[b]) : b \in Bucket}] :
            \A b \in Bucket : d[b] \in Samples(Pools[b])}

Record(draw, i, k) == [problem |-> draw[Buckets[i]][k], bucket |-> Buckets[i]]

\* No problem twice.
EachOnce(s) == \A i, j \in DOMAIN s : s[i].problem = s[j].problem => i = j

\* Two buckets of a draw share no problem, and no bucket has one twice.
LEMMA DrawnOnce ==
  ASSUME NEW draw \in Draws, NEW i \in DOMAIN Buckets, NEW j \in DOMAIN Buckets,
         NEW k \in 1..Picked, NEW l \in 1..Picked,
         Record(draw, i, k).problem = Record(draw, j, l).problem
  PROVE  i = j /\ k = l
<1>1. Buckets[i] \in Bucket /\ Buckets[j] \in Bucket
  BY DEF Bucket
<1>2. draw[Buckets[i]] \in Samples(Pools[Buckets[i]]) /\ draw[Buckets[j]] \in Samples(Pools[Buckets[j]])
  BY <1>1 DEF Draws
<1>3. draw[Buckets[i]][k] \in Pools[Buckets[i]] /\ draw[Buckets[j]][l] \in Pools[Buckets[j]]
  BY <1>2 DEF Samples
<1>4. draw[Buckets[i]][k] = draw[Buckets[j]][l]
  BY DEF Record
<1>5. Buckets[i] = Buckets[j]
  BY <1>1, <1>3, <1>4, SweepAssumption
<1>6. i = j
  BY <1>5, SweepAssumption
<1>. QED
  BY <1>2, <1>4, <1>6 DEF Samples

\* The records of the first i buckets, each from its from-th problem on.
Upto(draw, from, to) ==
  CHOOSE f : f = [i \in 0..Len(Buckets) |->
                    IF i = 0 THEN <<>>
                    ELSE f[i - 1] \o [k \in 1..to - from + 1 |->
                           [problem |-> draw[Buckets[i]][from + k - 1], bucket |-> Buckets[i]]]]

Part(draw, from, to, i) == [k \in 1..to - from + 1 |-> Record(draw, i, from + k - 1)]

LEMMA UptoIs ==
  ASSUME NEW draw, NEW from, NEW to
  PROVE  /\ Manifest(draw, from, to) = Upto(draw, from, to)[Len(Buckets)]
         /\ Upto(draw, from, to)[0] = <<>>
         /\ \A i \in 1..Len(Buckets) :
              Upto(draw, from, to)[i] = Upto(draw, from, to)[i - 1] \o Part(draw, from, to, i)
<1>. DEFINE Q(i) == [k \in 1..to - from + 1 |->
                         [problem |-> draw[Buckets[i]][from + k - 1], bucket |-> Buckets[i]]]
            Is(f, m) == f = [i \in 0..m |-> IF i = 0 THEN <<>> ELSE f[i - 1] \o Q(i)]
            G == {m \in Nat : \E f : Is(f, m)}
            L == Len(Buckets)
<1>0. L \in Nat
  BY SweepAssumption, LenProperties
<1>1. 0 \in G
  <2>1. Is([i \in 0..0 |-> <<>>], 0)
    <3>1. \A i \in 0..0 : i = 0
      OBVIOUS
    <3>. QED
      BY <3>1
  <2>. QED
    BY <2>1
<1>2. ASSUME NEW m \in 1..L, m - 1 \in G PROVE m \in G
  <2>1. PICK g : Is(g, m - 1)
    BY <1>2
  <2>. DEFINE f == [i \in 0..m |-> IF i = m THEN g[m - 1] \o Q(m) ELSE g[i]]
  <2>. HIDE DEF Q
  <2>2. \A i \in 0..m - 1 : g[i] = IF i = 0 THEN <<>> ELSE g[i - 1] \o Q(i)
    BY <2>1
  <2>3. \A i \in 0..m - 1 : f[i] = g[i]
    OBVIOUS
  <2>4. ASSUME NEW i \in 0..m PROVE f[i] = IF i = 0 THEN <<>> ELSE f[i - 1] \o Q(i)
    <3>1. CASE i = m
      <4>1. f[m] = g[m - 1] \o Q(m) /\ f[m - 1] = g[m - 1] /\ m # 0
        BY <2>3
      <4>. QED
        BY <3>1, <4>1
    <3>2. CASE i # m
      <4>1. i \in 0..m - 1 /\ (i # 0 => i - 1 \in 0..m - 1)
        BY <3>2
      <4>. QED
        BY <2>2, <2>3, <4>1
    <3>. QED
      BY <3>1, <3>2
  <2>5. f = [i \in 0..m |-> f[i]]
    OBVIOUS
  <2>. HIDE DEF f
  <2>6. Is(f, m)
    BY <2>4, <2>5
  <2>7. m \in Nat
    OBVIOUS
  <2>. QED
    BY <2>6, <2>7
<1>3. L \in G
  <2>. HIDE DEF G
  <2>1. 0..L \subseteq G
    BY <1>0, <1>1, <1>2, EveryPosition
  <2>. QED
    BY <1>0, <2>1
<1>4. \E f : Is(f, L)
  BY <1>3
<1>5. Is(Upto(draw, from, to), L)
  BY <1>4, Zenon DEF Upto
<1>6. Manifest(draw, from, to) = Upto(draw, from, to)[L]
  BY Zenon DEF Manifest, Upto
<1>7. \A i \in 1..L : Q(i) = Part(draw, from, to, i)
  BY Zenon DEF Record, Part
<1>. DEFINE u == Upto(draw, from, to)
<1>. HIDE DEF Q, u
<1>8. \A i \in 0..L : u[i] = IF i = 0 THEN <<>> ELSE u[i - 1] \o Q(i)
  BY <1>5 DEF u
<1>9. u[0] = <<>>
  BY <1>0, <1>8
<1>10. ASSUME NEW i \in 1..L PROVE u[i] = u[i - 1] \o Q(i)
  <2>1. i \in 0..L /\ i # 0
    BY <1>0
  <2>. QED
    BY <1>8, <2>1
<1>. QED
  BY <1>6, <1>7, <1>9, <1>10 DEF u

\* Concatenation, for sequences of anything.
LEMMA ConcatAny ==
  ASSUME NEW s, NEW p, IsSequence(s), IsSequence(p)
  PROVE  /\ IsSequence(s \o p)
         /\ Len(s) \in Nat /\ DOMAIN s = 1..Len(s) /\ Len(p) \in Nat /\ DOMAIN p = 1..Len(p)
         /\ DOMAIN (s \o p) = 1..Len(s) + Len(p)
         /\ \A i \in 1..Len(s) : (s \o p)[i] = s[i]
         /\ \A i \in Len(s) + 1..Len(s) + Len(p) : (s \o p)[i] = p[i - Len(s)]
<1>1. PICK S : s \in Seq(S)
  BY DEF IsSequence
<1>2. PICK P : p \in Seq(P)
  BY DEF IsSequence
<1>. DEFINE T == S \cup P
<1>3. s \in Seq(T) /\ p \in Seq(T)
  BY <1>1, <1>2, SeqMonotonic
<1>. HIDE DEF T
<1>4. /\ s \o p \in Seq(T) /\ Len(s \o p) = Len(s) + Len(p)
      /\ \A i \in 1..Len(s) + Len(p) : (s \o p)[i] = IF i <= Len(s) THEN s[i] ELSE p[i - Len(s)]
  BY <1>3, ConcatProperties
<1>5. Len(s) \in Nat /\ DOMAIN s = 1..Len(s) /\ Len(p) \in Nat /\ DOMAIN p = 1..Len(p)
      /\ DOMAIN (s \o p) = 1..Len(s \o p)
  BY <1>3, <1>4, LenProperties
<1>6. IsSequence(s \o p)
  BY <1>4 DEF IsSequence
<1>. QED
  BY <1>4, <1>5, <1>6

\* A manifest holds the drawn problems of every bucket from one position to another,
\* each once.
LEMMA ManifestIs ==
  ASSUME NEW draw \in Draws, NEW from \in Nat \ {0}, NEW to \in 0..Picked, from <= to + 1
  PROVE  LET s == Manifest(draw, from, to)
         IN  /\ IsSequence(s) /\ EachOnce(s)
             /\ \A x \in DOMAIN s : \E i \in DOMAIN Buckets, k \in from..to : s[x] = Record(draw, i, k)
             /\ \A b \in Bucket : Count(s, b) = to - from + 1
<1>. DEFINE w == to - from + 1
            L == Len(Buckets)
            u == Upto(draw, from, to)
            Of(s, m) == \A x \in DOMAIN s : \E i \in 1..m, k \in from..to : s[x] = Record(draw, i, k)
            Counted(s, m) == \A i \in 1..m : Count(s, Buckets[i]) = w
            G == {m \in 0..L : IsSequence(u[m]) /\ EachOnce(u[m]) /\ Of(u[m], m) /\ Counted(u[m], m)}
<1>0. L \in Nat /\ DOMAIN Buckets = 1..L /\ w \in Nat /\ Picked \in Nat
  <2>1. L \in Nat /\ DOMAIN Buckets = 1..L
    BY SweepAssumption, LenProperties
  <2>2. to \in Int /\ Picked \in Nat
    BY SweepAssumption
  <2>. QED
    BY <2>1, <2>2
<1>1. 0 \in G
  <2>1. u[0] = <<>> /\ DOMAIN <<>> = {} /\ IsSequence(<<>>)
    BY UptoIs, EmptySeq DEF IsSequence
  <2>. QED
    BY <1>0, <2>1 DEF EachOnce
<1>2. ASSUME NEW m \in 1..L, m - 1 \in G PROVE m \in G
  <2>. DEFINE s == u[m - 1]
              p == [k \in 1..w |-> Record(draw, m, from + k - 1)]
              t == s \o p
  <2>1. u[m] = t
    <3>1. u[m] = s \o Part(draw, from, to, m)
      BY UptoIs
    <3>. QED
      BY <3>1 DEF Part
  <2>2. IsSequence(s) /\ EachOnce(s) /\ Of(s, m - 1) /\ Counted(s, m - 1)
    BY <1>2
  <2>3. IsSequence(p) /\ Len(p) = w /\ \A k \in 1..w : p[k] = Record(draw, m, from + k - 1)
    <3>. HIDE DEF w
    <3>. DEFINE S == {p[k] : k \in 1..w}
    <3>1. DOMAIN p = 1..w /\ p \in [1..w -> S]
      OBVIOUS
    <3>2. \A k \in 1..w : p[k] = Record(draw, m, from + k - 1)
      OBVIOUS
    <3>. HIDE DEF p, S
    <3>3. p \in Seq(S)
      BY <1>0, <3>1
    <3>. QED
      BY <1>0, <3>1, <3>2, <3>3, LenProperties DEF IsSequence
  <2>. HIDE DEF s, p
  <2>4. /\ IsSequence(t) /\ Len(s) \in Nat /\ DOMAIN s = 1..Len(s) /\ DOMAIN t = 1..Len(s) + w
        /\ \A i \in 1..Len(s) : t[i] = s[i]
        /\ \A i \in Len(s) + 1..Len(s) + w : t[i] = p[i - Len(s)]
    BY <2>2, <2>3, ConcatAny
  <2>. HIDE DEF t
  <2>5. \A i \in DOMAIN t : i \in 1..Len(s) \/ i \in Len(s) + 1..Len(s) + w
    BY <1>0, <2>4
  <2>6. ASSUME NEW i \in 1..Len(s) PROVE \E j \in 1..m - 1, k \in from..to : t[i] = Record(draw, j, k)
    BY <2>2, <2>4
  <2>7. ASSUME NEW i \in Len(s) + 1..Len(s) + w
        PROVE  t[i] = Record(draw, m, from + (i - Len(s)) - 1) /\ from + (i - Len(s)) - 1 \in from..to
    <3>1. i - Len(s) \in 1..w
      BY <1>0, <2>4
    <3>. QED
      BY <1>0, <2>3, <2>4, <3>1
  <2>8. m \in Nat /\ from..to \subseteq 1..Picked /\ 1..m \subseteq DOMAIN Buckets /\ 1..m - 1 \subseteq DOMAIN Buckets
    BY <1>0
  <2>9. Of(t, m)
    <3>. SUFFICES ASSUME NEW i \in DOMAIN t PROVE \E j \in 1..m, k \in from..to : t[i] = Record(draw, j, k)
      OBVIOUS
    <3>1. m \in 1..m /\ 1..m - 1 \subseteq 1..m
      OBVIOUS
    <3>. QED
      BY <2>5, <2>6, <2>7, <3>1
  <2>10. EachOnce(t)
    <3>. SUFFICES ASSUME NEW i \in DOMAIN t, NEW j \in DOMAIN t, t[i].problem = t[j].problem PROVE i = j
      BY DEF EachOnce
    <3>1. CASE i \in 1..Len(s) /\ j \in 1..Len(s)
      BY <2>2, <2>4, <3>1 DEF EachOnce
    <3>2. CASE i \in Len(s) + 1..Len(s) + w /\ j \in Len(s) + 1..Len(s) + w
      <4>1. from + (i - Len(s)) - 1 = from + (j - Len(s)) - 1
        <5>. DEFINE k == from + (i - Len(s)) - 1
                    l == from + (j - Len(s)) - 1
        <5>1. k \in 1..Picked /\ l \in 1..Picked /\ Record(draw, m, k).problem = Record(draw, m, l).problem
          BY <2>7, <2>8, <3>2
        <5>. HIDE DEF k, l
        <5>2. k = l
          BY <2>8, <5>1, DrawnOnce
        <5>. QED
          BY <5>2 DEF k, l
      <4>. QED
        BY <2>4, <3>2, <4>1
    <3>3. ASSUME NEW x \in 1..Len(s), NEW y \in Len(s) + 1..Len(s) + w, t[x].problem = t[y].problem PROVE FALSE
      <4>1. PICK l \in 1..m - 1, k \in from..to : t[x] = Record(draw, l, k)
        BY <2>6
      <4>2. l = m
        BY <2>7, <2>8, <3>3, <4>1, DrawnOnce
      <4>. QED
        BY <4>2
    <3>. QED
      BY <2>5, <3>1, <3>2, <3>3
  <2>11. ASSUME NEW i \in 1..m PROVE Count(t, Buckets[i]) = w
    <3>0. \A l, k : Record(draw, l, k).bucket = Buckets[l]
      BY DEF Record
    <3>1. \A x \in 1..Len(s) : t[x].bucket = s[x].bucket /\ t[x].bucket # Buckets[m]
      <4>1. ASSUME NEW x \in 1..Len(s) PROVE t[x].bucket # Buckets[m]
        <5>1. PICK l \in 1..m - 1, k \in from..to : t[x] = Record(draw, l, k)
          BY <2>6
        <5>2. t[x].bucket = Buckets[l] /\ l \in DOMAIN Buckets /\ m \in DOMAIN Buckets /\ l # m
          BY <2>8, <3>0, <5>1
        <5>. QED
          BY <5>2, SweepAssumption
      <4>. QED
        BY <2>4, <4>1
    <3>2. \A x \in Len(s) + 1..Len(s) + w : t[x].bucket = Buckets[m]
      BY <2>7, <3>0
    <3>3. CASE i = m
      <4>1. InBucket(t, Buckets[i]) = Len(s) + 1..Len(s) + w
        BY <1>0, <2>4, <2>5, <3>1, <3>2, <3>3 DEF InBucket
      <4>. QED
        <5>1. Len(s) + 1 \in Int /\ Len(s) + w \in Int
          BY <1>0, <2>4
        <5>2. Cardinality(Len(s) + 1..Len(s) + w) =
                IF Len(s) + 1 > Len(s) + w THEN 0 ELSE Len(s) + w - (Len(s) + 1) + 1
          BY <5>1, FS_Interval
        <5>. HIDE DEF w
        <5>. QED
          BY <1>0, <2>4, <4>1, <5>2 DEF Count
    <3>4. CASE i # m
      <4>1. Buckets[i] # Buckets[m] /\ i \in 1..m - 1
        BY <2>8, <3>4, SweepAssumption
      <4>2. InBucket(t, Buckets[i]) = InBucket(s, Buckets[i])
        BY <1>0, <2>4, <2>5, <3>1, <3>2, <4>1 DEF InBucket
      <4>. QED
        BY <2>2, <4>1, <4>2 DEF Count
    <3>. QED
      BY <3>3, <3>4
  <2>12. m \in 0..L
    OBVIOUS
  <2>. HIDE DEF u, w, Of
  <2>. QED
    BY <2>1, <2>4, <2>9, <2>10, <2>11, <2>12
<1>3. L \in G
  <2>. HIDE DEF G
  <2>1. 0..L \subseteq G
    BY <1>0, <1>1, <1>2, EveryPosition
  <2>. QED
    BY <1>0, <2>1
<1>4. Manifest(draw, from, to) = u[L]
  BY UptoIs
<1>5. \A b \in Bucket : \E i \in 1..L : b = Buckets[i]
  BY <1>0 DEF Bucket
<1>. HIDE DEF u
<1>. QED
  BY <1>0, <1>3, <1>4, <1>5

\* The records among the first i that make_batch keeps.
SeenBefore(recs, i) == Cardinality({j \in 1..i - 1 : recs[j].bucket = recs[i].bucket})

KeptUpto(recs) ==
  CHOOSE f : f = [i \in 0..Len(recs) |->
                    IF i = 0 THEN <<>>
                    ELSE IF Cardinality({j \in 1..i - 1 : recs[j].bucket = recs[i].bucket}) < PerBucket
                           THEN Append(f[i - 1], recs[i]) ELSE f[i - 1]]

LEMMA KeptUptoIs ==
  ASSUME NEW recs, Len(recs) \in Nat
  PROVE  /\ make_batch(recs) = KeptUpto(recs)[Len(recs)]
         /\ KeptUpto(recs)[0] = <<>>
         /\ \A i \in 1..Len(recs) :
              KeptUpto(recs)[i] = IF SeenBefore(recs, i) < PerBucket
                                    THEN Append(KeptUpto(recs)[i - 1], recs[i])
                                    ELSE KeptUpto(recs)[i - 1]
<1>. DEFINE L == Len(recs)
            Q(s, i) == IF Cardinality({j \in 1..i - 1 : recs[j].bucket = recs[i].bucket}) < PerBucket
                         THEN Append(s, recs[i]) ELSE s
            Is(f, m) == f = [i \in 0..m |-> IF i = 0 THEN <<>> ELSE Q(f[i - 1], i)]
            G == {m \in Nat : \E f : Is(f, m)}
<1>1. 0 \in G
  <2>1. Is([i \in 0..0 |-> <<>>], 0)
    <3>1. \A i \in 0..0 : i = 0
      OBVIOUS
    <3>. QED
      BY <3>1
  <2>. QED
    BY <2>1
<1>2. ASSUME NEW m \in 1..L, m - 1 \in G PROVE m \in G
  <2>1. PICK g : Is(g, m - 1)
    BY <1>2
  <2>. DEFINE f == [i \in 0..m |-> IF i = m THEN Q(g[m - 1], m) ELSE g[i]]
  <2>. HIDE DEF Q
  <2>2. \A i \in 0..m - 1 : g[i] = IF i = 0 THEN <<>> ELSE Q(g[i - 1], i)
    BY <2>1
  <2>3. \A i \in 0..m - 1 : f[i] = g[i]
    OBVIOUS
  <2>4. ASSUME NEW i \in 0..m PROVE f[i] = IF i = 0 THEN <<>> ELSE Q(f[i - 1], i)
    <3>1. CASE i = m
      <4>1. f[m] = Q(g[m - 1], m) /\ f[m - 1] = g[m - 1] /\ m # 0
        BY <2>3
      <4>. QED
        BY <3>1, <4>1
    <3>2. CASE i # m
      <4>1. i \in 0..m - 1 /\ (i # 0 => i - 1 \in 0..m - 1)
        BY <3>2
      <4>. QED
        BY <2>2, <2>3, <4>1
    <3>. QED
      BY <3>1, <3>2
  <2>5. f = [i \in 0..m |-> f[i]]
    OBVIOUS
  <2>. HIDE DEF f
  <2>6. Is(f, m)
    BY <2>4, <2>5
  <2>7. m \in Nat
    OBVIOUS
  <2>. QED
    BY <2>6, <2>7
<1>3. L \in G
  <2>. HIDE DEF G
  <2>1. 0..L \subseteq G
    BY <1>1, <1>2, EveryPosition
  <2>. QED
    BY <2>1
<1>4. \E f : Is(f, L)
  BY <1>3
<1>5. Is(KeptUpto(recs), L)
  BY <1>4, Zenon DEF KeptUpto
<1>6. make_batch(recs) = KeptUpto(recs)[L]
  BY Zenon DEF make_batch, KeptUpto
<1>7. \A s : \A i \in 1..L : Q(s, i) = IF SeenBefore(recs, i) < PerBucket THEN Append(s, recs[i]) ELSE s
  BY Zenon DEF SeenBefore
<1>. DEFINE u == KeptUpto(recs)
<1>. HIDE DEF Q, u
<1>8. \A i \in 0..L : u[i] = IF i = 0 THEN <<>> ELSE Q(u[i - 1], i)
  BY <1>5 DEF u
<1>9. u[0] = <<>>
  BY <1>8
<1>10. ASSUME NEW i \in 1..L PROVE u[i] = Q(u[i - 1], i)
  <2>1. i \in 0..L /\ i # 0
    OBVIOUS
  <2>. QED
    BY <1>8, <2>1
<1>. QED
  BY <1>6, <1>7, <1>9, <1>10 DEF u

\* One more record in a sequence.
LEMMA CountAppend ==
  ASSUME NEW s, NEW e, NEW b, IsSequence(s)
  PROVE  /\ Count(s, b) \in Nat
         /\ Count(Append(s, e), b) = IF e.bucket = b THEN Count(s, b) + 1 ELSE Count(s, b)
<1>. DEFINE t == Append(s, e)
<1>1. /\ DOMAIN s = 1..Len(s) /\ Len(s) \in Nat /\ DOMAIN t = 1..Len(s) + 1
      /\ (\A i \in 1..Len(s) : t[i] = s[i]) /\ t[Len(s) + 1] = e
  BY AppendAny
<1>. HIDE DEF t
<1>2. IsFiniteSet(InBucket(s, b))
  <2>1. IsFiniteSet(1..Len(s)) /\ InBucket(s, b) \in SUBSET (1..Len(s))
    BY <1>1, FS_Interval DEF InBucket
  <2>. QED
    BY <2>1, FS_Subset
<1>3. Len(s) + 1 \notin InBucket(s, b)
  BY <1>1 DEF InBucket
<1>4. InBucket(t, b) = IF e.bucket = b THEN InBucket(s, b) \cup {Len(s) + 1} ELSE InBucket(s, b)
  <2>1. \A i \in 1..Len(s) + 1 : i \in 1..Len(s) \/ i = Len(s) + 1
    BY <1>1
  <2>. QED
    BY <1>1, <2>1 DEF InBucket
<1>5. Count(s, b) \in Nat
  BY <1>2, FS_CardinalityType DEF Count
<1>6. Cardinality(InBucket(s, b) \cup {Len(s) + 1}) = Cardinality(InBucket(s, b)) + 1
  BY <1>2, <1>3, FS_AddElement
<1>. QED
  BY <1>4, <1>5, <1>6 DEF Count, t

CountUpto(recs, i, b) == Cardinality({j \in 1..i : recs[j].bucket = b})
Least(x, y)           == IF x < y THEN x ELSE y

LEMMA CountUptoIs ==
  ASSUME NEW recs, NEW b
  PROVE  /\ CountUpto(recs, 0, b) = 0
         /\ \A i \in Nat : CountUpto(recs, i, b) \in Nat
         /\ \A i \in Nat \ {0} : CountUpto(recs, i, b) =
              IF recs[i].bucket = b THEN CountUpto(recs, i - 1, b) + 1 ELSE CountUpto(recs, i - 1, b)
<1>. DEFINE S(i) == {j \in 1..i : recs[j].bucket = b}
<1>1. ASSUME NEW i \in Nat PROVE IsFiniteSet(S(i)) /\ Cardinality(S(i)) \in Nat
  <2>1. IsFiniteSet(1..i) /\ S(i) \in SUBSET (1..i)
    BY FS_Interval
  <2>. HIDE DEF S
  <2>2. IsFiniteSet(S(i))
    BY <2>1, FS_Subset
  <2>. QED
    BY <2>2, FS_CardinalityType
<1>2. S(0) = {}
  OBVIOUS
<1>3. ASSUME NEW i \in Nat \ {0}
      PROVE  S(i) = (IF recs[i].bucket = b THEN S(i - 1) \cup {i} ELSE S(i - 1)) /\ i \notin S(i - 1)
             /\ i - 1 \in Nat
  <2>1. \A j \in 1..i : j \in 1..i - 1 \/ j = i
    OBVIOUS
  <2>. QED
    BY <2>1
<1>4. \A i : CountUpto(recs, i, b) = Cardinality(S(i))
  BY DEF CountUpto
<1>. HIDE DEF S
<1>5. ASSUME NEW i \in Nat \ {0} PROVE Cardinality(S(i - 1) \cup {i}) = Cardinality(S(i - 1)) + 1
  BY <1>1, <1>3, FS_AddElement
<1>. QED
  BY <1>1, <1>2, <1>3, <1>4, <1>5, FS_EmptySet

\* The batch holds records of the manifest, each once, and of every bucket
\* --per-bucket of them or all there are.
LEMMA BatchIs ==
  ASSUME NEW recs, IsSequence(recs), EachOnce(recs)
  PROVE  LET s == make_batch(recs)
         IN  /\ IsSequence(s) /\ EachOnce(s)
             /\ \A x \in DOMAIN s : \E j \in DOMAIN recs : s[x] = recs[j]
             /\ \A b : Count(s, b) = Least(PerBucket, Count(recs, b))
<1>. DEFINE L == Len(recs)
            u == KeptUpto(recs)
            Of(s, m) == \A x \in DOMAIN s : \E j \in 1..m : s[x] = recs[j]
            Counted(s, m) == \A b : Count(s, b) = Least(PerBucket, CountUpto(recs, m, b))
            G == {m \in 0..L : IsSequence(u[m]) /\ EachOnce(u[m]) /\ Of(u[m], m) /\ Counted(u[m], m)}
<1>0. L \in Nat /\ DOMAIN recs = 1..L /\ PerBucket \in Nat
  <2>1. PICK S : recs \in Seq(S)
    BY DEF IsSequence
  <2>. QED
    BY <2>1, LenProperties, SweepAssumption
<1>1. 0 \in G
  <2>1. u[0] = <<>> /\ DOMAIN <<>> = {} /\ IsSequence(<<>>)
    BY <1>0, KeptUptoIs, EmptySeq DEF IsSequence
  <2>2. \A b : Count(<<>>, b) = 0
    BY <2>1, FS_EmptySet DEF Count, InBucket
  <2>3. \A b : Least(PerBucket, CountUpto(recs, 0, b)) = 0
    BY <1>0, CountUptoIs DEF Least
  <2>. QED
    BY <1>0, <2>1, <2>2, <2>3 DEF EachOnce
<1>2. ASSUME NEW m \in 1..L, m - 1 \in G PROVE m \in G
  <2>. DEFINE s == u[m - 1]
              e == recs[m]
              t == Append(s, e)
  <2>1. IsSequence(s) /\ EachOnce(s) /\ Of(s, m - 1) /\ Counted(s, m - 1)
    BY <1>2
  <2>2. \/ u[m] = t /\ SeenBefore(recs, m) < PerBucket
        \/ u[m] = s /\ ~ (SeenBefore(recs, m) < PerBucket)
    BY <1>0, KeptUptoIs
  <2>3. SeenBefore(recs, m) = CountUpto(recs, m - 1, e.bucket) /\ m \in Nat \ {0} /\ m - 1 \in Nat /\ m \in 0..L
    BY DEF SeenBefore, CountUpto
  <2>. HIDE DEF s, e
  <2>4. /\ IsSequence(t) /\ Len(s) \in Nat /\ DOMAIN s = 1..Len(s) /\ DOMAIN t = 1..Len(s) + 1
        /\ (\A i \in 1..Len(s) : t[i] = s[i]) /\ t[Len(s) + 1] = e
    BY <2>1, AppendAny
  <2>5. ASSUME NEW b PROVE Count(s, b) \in Nat /\ Count(t, b) = IF e.bucket = b THEN Count(s, b) + 1 ELSE Count(s, b)
    BY <2>1, CountAppend
  <2>. HIDE DEF t
  <2>6. e = recs[m] /\ m \in 1..m /\ 1..m - 1 \subseteq 1..m /\ 1..m \subseteq DOMAIN recs
    BY <1>0 DEF e
  <2>7. \A i \in DOMAIN t : i \in DOMAIN s \/ i = Len(s) + 1
    BY <2>4
  <2>8. Of(t, m) /\ Of(s, m)
    BY <2>1, <2>4, <2>6, <2>7
  <2>9. EachOnce(t)
    <3>1. \A i \in DOMAIN s : s[i].problem # e.problem
      <4>. SUFFICES ASSUME NEW i \in DOMAIN s PROVE s[i].problem # e.problem
        OBVIOUS
      <4>1. PICK j \in 1..m - 1 : s[i] = recs[j]
        BY <2>1
      <4>2. j # m /\ j \in DOMAIN recs /\ m \in DOMAIN recs
        BY <2>6
      <4>. QED
        BY <2>6, <4>1, <4>2 DEF EachOnce
    <3>. QED
      BY <2>1, <2>4, <2>7, <3>1 DEF EachOnce
  <2>10. ASSUME NEW b PROVE Count(u[m], b) = Least(PerBucket, CountUpto(recs, m, b))
    <3>. DEFINE c == CountUpto(recs, m - 1, b)
    <3>1. c \in Nat /\ CountUpto(recs, m, b) = IF e.bucket = b THEN c + 1 ELSE c
      BY <2>3, <2>6, CountUptoIs
    <3>2. Count(s, b) = Least(PerBucket, c)
      BY <2>1
    <3>3. e.bucket = b => SeenBefore(recs, m) = c
      BY <2>3
    <3>. HIDE DEF c, u
    <3>. QED
      BY <1>0, <2>2, <2>5, <3>1, <3>2, <3>3 DEF Least
  <2>. HIDE DEF u, Of
  <2>. QED
    BY <2>1, <2>2, <2>3, <2>4, <2>8, <2>9, <2>10 DEF s
<1>3. L \in G
  <2>. HIDE DEF G
  <2>1. 0..L \subseteq G
    BY <1>0, <1>1, <1>2, EveryPosition
  <2>. QED
    BY <1>0, <2>1
<1>4. make_batch(recs) = u[L]
  BY <1>0, KeptUptoIs
<1>5. \A b : CountUpto(recs, L, b) = Count(recs, b)
  BY <1>0 DEF CountUpto, Count, InBucket
<1>. HIDE DEF u
<1>. QED
  BY <1>0, <1>3, <1>4, <1>5

\* The manifests are those of one draw.
Planned ==
    \/ dev60 = <<>> /\ dev150 = <<>>
    \/ \E draw \in Draws : dev60 = Manifest(draw, 1, First) /\ dev150 = Manifest(draw, Rest, Picked)

\* Rows of problems of the batch, no problem twice.
OfBatch(s) ==
    /\ IsSequence(s) /\ EachOnce(s)
    /\ \A i \in DOMAIN s : \E j \in DOMAIN batch :
         s[i].problem = batch[j].problem /\ s[i].bucket = batch[j].bucket

Problems(s) == {s[i].problem : i \in DOMAIN s}

\* As long as no two run_eval.py work on k: its rows are of the batch, and a
\* process has left only what has no row.
OfOneBatch(k) ==
    /\ OfBatch(results[k])
    /\ \A p \in evals : p.n = k /\ p.step # "launched" =>
         \A i \in p.left : i \in DOMAIN batch /\ \A j \in DOMAIN results[k] : results[k][j].problem # batch[i].problem

\* Nothing runs before the manifests are made, and from then on they stay as they are.
SInv ==
    /\ Planned
    /\ dev60 = <<>> => phase = "down" /\ evals = {} /\ (\A k \in N : results[k] = <<>>) /\ summary = <<>>
    /\ \A k \in N \ overlapped : OfOneBatch(k)
    /\ \A i \in DOMAIN summary : summary[i].alone => OfBatch(summary[i].counted)

\* What is known of the batch once there are manifests.
LEMMA BatchFacts ==
  ASSUME Planned
  PROVE  /\ IsSequence(batch) /\ EachOnce(batch)
         /\ \A i \in DOMAIN dev60, j \in DOMAIN dev150 : dev60[i].problem # dev150[j].problem
         /\ dev60 # <<>> => \A b \in Bucket : Count(batch, b) = Least(PerBucket, First)
<1>0. /\ First \in 0..Picked /\ Picked \in 0..Picked /\ 1 \in Nat \ {0} /\ Rest \in Nat \ {0}
      /\ 1 <= First + 1 /\ Rest <= Picked + 1 /\ Rest = First + 1 /\ First \in Nat /\ Picked \in Nat
  BY SweepAssumption DEF Rest
<1>1. CASE dev60 = <<>> /\ dev150 = <<>>
  <2>1. IsSequence(<<>>) /\ DOMAIN <<>> = {} /\ EachOnce(<<>>)
    BY EmptySeq DEF IsSequence, EachOnce
  <2>. QED
    BY <1>1, <2>1, BatchIs DEF batch
<1>2. ASSUME NEW draw \in Draws, dev60 = Manifest(draw, 1, First), dev150 = Manifest(draw, Rest, Picked)
      PROVE  /\ IsSequence(batch) /\ EachOnce(batch)
             /\ \A i \in DOMAIN dev60, j \in DOMAIN dev150 : dev60[i].problem # dev150[j].problem
             /\ \A b \in Bucket : Count(batch, b) = Least(PerBucket, First)
  <2>1. /\ IsSequence(dev60) /\ EachOnce(dev60)
        /\ \A x \in DOMAIN dev60 : \E i \in DOMAIN Buckets, k \in 1..First : dev60[x] = Record(draw, i, k)
        /\ \A b \in Bucket : Count(dev60, b) = First
    <3>1. First - 1 + 1 = First
      BY <1>0
    <3>. QED
      BY <1>0, <1>2, <3>1, ManifestIs
  <2>2. \A x \in DOMAIN dev150 : \E i \in DOMAIN Buckets, k \in Rest..Picked : dev150[x] = Record(draw, i, k)
    BY <1>0, <1>2, ManifestIs
  <2>3. \A x \in DOMAIN dev60, y \in DOMAIN dev150 : dev60[x].problem # dev150[y].problem
    <3>. SUFFICES ASSUME NEW x \in DOMAIN dev60, NEW y \in DOMAIN dev150,
                         dev60[x].problem = dev150[y].problem
                  PROVE  FALSE
      OBVIOUS
    <3>1. PICK i \in DOMAIN Buckets, k \in 1..First : dev60[x] = Record(draw, i, k)
      BY <2>1
    <3>2. PICK j \in DOMAIN Buckets, l \in Rest..Picked : dev150[y] = Record(draw, j, l)
      BY <2>2
    <3>3. k \in 1..Picked /\ l \in 1..Picked /\ k # l
      BY <1>0
    <3>4. k = l
      BY <3>1, <3>2, <3>3, DrawnOnce
    <3>. QED
      BY <3>3, <3>4
  <2>. QED
    BY <2>1, <2>3, BatchIs DEF batch
<1>. QED
  BY <1>1, <1>2 DEF Planned

\* Rows of the batch that are as many as the batch are the whole of it.
LEMMA WholeBatch ==
  ASSUME NEW s, OfBatch(s), IsSequence(batch), EachOnce(batch), Len(s) >= Len(batch)
  PROVE  /\ Problems(s) = Problems(batch)
         /\ \A b : Count(s, b) = Count(batch, b)
<1>1. DOMAIN s = 1..Len(s) /\ Len(s) \in Nat /\ DOMAIN batch = 1..Len(batch) /\ Len(batch) \in Nat
  BY AppendAny DEF OfBatch
<1>. DEFINE f == [i \in DOMAIN s |-> CHOOSE j \in DOMAIN batch :
                    s[i].problem = batch[j].problem /\ s[i].bucket = batch[j].bucket]
<1>2. \A i \in DOMAIN s : /\ f[i] \in DOMAIN batch
                          /\ s[i].problem = batch[f[i]].problem /\ s[i].bucket = batch[f[i]].bucket
  BY DEF OfBatch
<1>3. f \in [DOMAIN s -> DOMAIN batch]
  BY <1>2
<1>. HIDE DEF f
<1>4. \A i, j \in DOMAIN s : f[i] = f[j] => i = j
  BY <1>2 DEF OfBatch, EachOnce
<1>5. f \in Injection(DOMAIN s, DOMAIN batch)
  BY <1>3, <1>4 DEF Injection, IsInjective
<1>6. /\ IsFiniteSet(DOMAIN s) /\ Cardinality(DOMAIN s) = Len(s)
      /\ IsFiniteSet(DOMAIN batch) /\ Cardinality(DOMAIN batch) = Len(batch)
  <2>1. \A m \in Nat : 1 \in Int /\ m \in Int /\ (IF 1 > m THEN 0 ELSE m - 1 + 1) = m
    OBVIOUS
  <2>2. \A m \in Nat : IsFiniteSet(1..m) /\ Cardinality(1..m) = m
    BY <2>1, FS_Interval
  <2>. QED
    BY <1>1, <2>2
<1>7. Cardinality(DOMAIN s) = Cardinality(DOMAIN batch)
  BY <1>1, <1>5, <1>6, FS_Injection
<1>8. f \in Surjection(DOMAIN s, DOMAIN batch)
  BY <1>5, <1>6, <1>7, FS_Injection
<1>9. \A j \in DOMAIN batch : \E i \in DOMAIN s : f[i] = j
  BY <1>8 DEF Surjection
<1>10. Problems(s) = Problems(batch)
  <2>1. \A i \in DOMAIN s : \E j \in DOMAIN batch : s[i].problem = batch[j].problem
    BY <1>2
  <2>2. \A j \in DOMAIN batch : \E i \in DOMAIN s : s[i].problem = batch[j].problem
    <3>. SUFFICES ASSUME NEW j \in DOMAIN batch PROVE \E i \in DOMAIN s : s[i].problem = batch[j].problem
      OBVIOUS
    <3>1. PICK i \in DOMAIN s : f[i] = j
      BY <1>9
    <3>. QED
      BY <1>2, <3>1
  <2>3. ASSUME NEW x \in Problems(s) PROVE x \in Problems(batch)
    BY <2>1 DEF Problems
  <2>4. ASSUME NEW x \in Problems(batch) PROVE x \in Problems(s)
    BY <2>2 DEF Problems
  <2>. QED
    BY <2>3, <2>4
<1>11. ASSUME NEW b PROVE Count(s, b) = Count(batch, b)
  <2>. DEFINE g == [i \in InBucket(s, b) |-> f[i]]
  <2>1. g \in [InBucket(s, b) -> InBucket(batch, b)]
    BY <1>2 DEF InBucket
  <2>2. \A i, j \in InBucket(s, b) : g[i] = g[j] => i = j
    BY <1>4 DEF InBucket
  <2>3. \A j \in InBucket(batch, b) : \E i \in InBucket(s, b) : g[i] = j
    BY <1>2, <1>9 DEF InBucket
  <2>. HIDE DEF g
  <2>4. g \in Bijection(InBucket(s, b), InBucket(batch, b))
    BY <2>1, <2>2, <2>3 DEF Bijection, Injection, IsInjective, Surjection
  <2>5. IsFiniteSet(InBucket(s, b))
    <3>1. InBucket(s, b) \in SUBSET DOMAIN s
      BY DEF InBucket
    <3>. QED
      BY <1>6, <3>1, FS_Subset
  <2>. QED
    BY <2>4, <2>5, FS_Bijection DEF ExistsBijection, Count
<1>. QED
  BY <1>10, <1>11

\* The points of the chart are rows of the summary.
LEMMA Charted ==
  ASSUME IsSequence(summary), NEW k \in DOMAIN load_sweeps
  PROVE  \E i \in DOMAIN summary : load_sweeps[k] = summary[i]
<1>. DEFINE S == {i \in DOMAIN summary : summary[i].N = k}
            Latest(i) == summary[i].N = k /\ \A j \in DOMAIN summary : summary[j].N = k => j <= i
<1>1. DOMAIN summary = 1..Len(summary) /\ Len(summary) \in Nat
  BY AppendAny
<1>2. S # {}
  BY DEF load_sweeps
<1>3. SetMax(S) \in S /\ \A j \in S : j <= SetMax(S)
  BY <1>1, <1>2, LastPosition
<1>4. \E i \in DOMAIN summary : Latest(i)
  <2>. DEFINE x == SetMax(S)
  <2>. HIDE DEF x
  <2>1. x \in DOMAIN summary /\ Latest(x)
    BY <1>3 DEF x
  <2>. QED
    BY <2>1
<1>5. (CHOOSE i \in DOMAIN summary : Latest(i)) \in DOMAIN summary
  BY <1>4
<1>6. load_sweeps[k] = summary[CHOOSE i \in DOMAIN summary : Latest(i)]
  BY DEF load_sweeps
<1>. QED
  BY <1>5, <1>6

\* What the invariants say of the chart.
LEMMA SInvStratified ==
  ASSUME SInv, IsSequence(summary)
  PROVE  BatchesAreStratified
<1>. USE BatchFacts DEF SInv
<1>1. ASSUME NEW k \in DOMAIN load_sweeps, load_sweeps[k].alone, NEW s, s = load_sweeps[k].counted, Len(s) >= Len(batch)
      PROVE  /\ {s[i].problem : i \in DOMAIN s} = {batch[i].problem : i \in DOMAIN batch}
             /\ \A i, j \in DOMAIN s : s[i].problem = s[j].problem => i = j
             /\ \A b \in Bucket : Cardinality({i \in DOMAIN s : s[i].bucket = b}) =
                                    IF PerBucket < First THEN PerBucket ELSE First
  <2>1. PICK i \in DOMAIN summary : load_sweeps[k] = summary[i]
    BY Charted
  <2>2. OfBatch(s) /\ DOMAIN summary # {}
    BY <1>1, <2>1
  <2>3. dev60 # <<>>
    BY <2>2, EmptySeq
  <2>4. /\ Problems(s) = Problems(batch)
        /\ \A b : Count(s, b) = Count(batch, b)
    BY <1>1, <2>2, WholeBatch
  <2>5. \A b \in Bucket : Count(s, b) = Least(PerBucket, First)
    BY <2>3, <2>4
  <2>. QED
    BY <2>2, <2>4, <2>5 DEF OfBatch, EachOnce, Problems, Count, InBucket, Least
<1>. QED
  BY <1>1 DEF BatchesAreStratified

\* A step of a process that leaves the rows alone.
LEMMA OnlyTheProcess ==
  ASSUME IInv, SInv, NEW p \in evals, NEW q, Process(q), q.n = p.n, Becomes(p, q),
         UNCHANGED <<manifests, results, summary, overlapped>>,
         \A i \in q.left : \/ i \in p.left /\ p.step # "launched"
                           \/ i \in Todo(results[p.n])
  PROVE  SInv'
<1>. USE DEF SInv
<1>1. batch' = batch /\ Planned'
  BY DEF batch, manifests, Planned
<1>2. \A s : OfBatch(s) => OfBatch(s)'
  BY <1>1 DEF OfBatch
<1>3. dev60 # <<>>
  OBVIOUS
<1>4. ASSUME NEW k \in N \ overlapped PROVE OfOneBatch(k)'
  <2>1. OfOneBatch(k) /\ OfBatch(results[k])'
    BY <1>2, <1>4 DEF OfOneBatch, OfBatch
  <2>2. \A x \in evals' : x.n = k => IF k = p.n THEN x = q ELSE x \in evals
    BY <1>4, OneTurn
  <2>3. ASSUME k = p.n, NEW i \in q.left
        PROVE  i \in DOMAIN batch /\ \A j \in DOMAIN results[k] : results[k][j].problem # batch[i].problem
    BY <2>1, <2>3 DEF OfOneBatch, Todo
  <2>. QED
    BY <1>1, <2>1, <2>2, <2>3 DEF OfOneBatch
<1>. QED
  BY <1>1, <1>2, <1>3, <1>4 DEF OfBatch, manifests

\* A row of what its process had left keeps the run a part of the batch.
LEMMA RowKeeps ==
  ASSUME IInv, SInv, NEW p \in evals, EvalRecords(p)
  PROVE  SInv'
<1>0. Process(p) /\ p.step = "eval" /\ p.n \in N /\ dev60 # <<>>
  BY DEF EvalRecords, IInv, SweepType, SInv, Process
<1>1. PICK i \in p.left :
        /\ results' = [results EXCEPT ![p.n] =
             Append(@, [problem |-> batch[i].problem, bucket |-> batch[i].bucket, start |-> p.start])]
        /\ Becomes(p, [p EXCEPT !.left = p.left \ {i}])
  BY DEF EvalRecords
<1>. DEFINE q == [p EXCEPT !.left = p.left \ {i}]
            r == [problem |-> batch[i].problem, bucket |-> batch[i].bucket, start |-> p.start]
<1>2. q.n = p.n /\ q.step = "eval" /\ q.left = p.left \ {i} /\ Process(q)
  <2>1. q = [n |-> p.n, start |-> p.start, step |-> p.step, left |-> p.left \ {i}, skipped |-> p.skipped]
    BY <1>0, ChangedLeft
  <2>. QED
    BY <1>0, <2>1 DEF Process
<1>3. Becomes(p, q) /\ UNCHANGED <<manifests, phase, summary, overlapped>>
      /\ results' = [results EXCEPT ![p.n] = Append(@, r)]
      /\ r.problem = batch[i].problem /\ r.bucket = batch[i].bucket
  BY <1>1 DEF EvalRecords, control
<1>. HIDE DEF q, r
<1>4. batch' = batch /\ Planned' /\ \A s : OfBatch(s) => OfBatch(s)'
  <2>1. batch' = batch
    BY <1>3 DEF batch, manifests
  <2>. QED
    BY <1>3, <2>1 DEF Planned, SInv, manifests, OfBatch
<1>5. ASSUME NEW k \in N \ overlapped PROVE OfOneBatch(k)'
  <2>1. OfOneBatch(k)
    BY <1>5 DEF SInv
  <2>2. \A x \in evals' : x.n = k => IF k = p.n THEN x = q ELSE x \in evals
    BY <1>2, <1>3, <1>5, OneTurn
  <2>3. CASE k # p.n
    <3>1. results'[k] = results[k]
      BY <1>0, <1>3, <2>3 DEF IInv, SweepType
    <3>. QED
      BY <1>4, <2>1, <2>2, <2>3, <3>1 DEF OfOneBatch, OfBatch
  <2>4. CASE k = p.n
    <3>. DEFINE s == results[k]
                t == Append(s, r)
    <3>1. results'[k] = t
      BY <1>3, <1>5, <2>4 DEF IInv, SweepType
    <3>2. i \in DOMAIN batch /\ \A j \in DOMAIN s : s[j].problem # r.problem
      BY <1>0, <1>3, <2>1, <2>4 DEF OfOneBatch
    <3>. HIDE DEF s
    <3>3. OfBatch(s)
      BY <2>1 DEF OfOneBatch, s
    <3>4. /\ IsSequence(t) /\ Len(s) \in Nat /\ DOMAIN s = 1..Len(s) /\ DOMAIN t = 1..Len(s) + 1
          /\ (\A j \in 1..Len(s) : t[j] = s[j]) /\ t[Len(s) + 1] = r
      BY <3>3, AppendAny DEF OfBatch
    <3>. HIDE DEF t
    <3>5. \A j \in DOMAIN t : j \in DOMAIN s \/ j = Len(s) + 1
      BY <3>4
    <3>6. EachOnce(t)
      BY <3>2, <3>3, <3>4, <3>5 DEF OfBatch, EachOnce
    <3>7. \A j \in DOMAIN t : \E l \in DOMAIN batch :
            t[j].problem = batch[l].problem /\ t[j].bucket = batch[l].bucket
      BY <1>3, <3>2, <3>3, <3>4, <3>5 DEF OfBatch
    <3>8. OfBatch(t)
      BY <3>4, <3>6, <3>7 DEF OfBatch
    <3>9. ASSUME NEW l \in q.left
          PROVE  l \in DOMAIN batch /\ \A j \in DOMAIN t : t[j].problem # batch[l].problem
      <4>1. l \in p.left /\ l # i
        BY <1>2, <3>9
      <4>2. l \in DOMAIN batch /\ \A j \in DOMAIN s : s[j].problem # batch[l].problem
        BY <1>0, <2>1, <2>4, <4>1 DEF OfOneBatch, s
      <4>3. batch[l].problem # r.problem
        <5>1. EachOnce(batch)
          BY BatchFacts DEF SInv
        <5>. QED
          BY <1>3, <3>2, <4>1, <4>2, <5>1 DEF EachOnce
      <4>. QED
        BY <3>4, <3>5, <4>2, <4>3
    <3>10. OfBatch(results'[k]) /\ batch' = batch
      BY <1>4, <3>1, <3>8
    <3>11. \A x \in evals' : x.n = k => x = q
      BY <2>2, <2>4
    <3>12. (OfBatch(results[k]))'
      BY <3>10 DEF OfBatch
    <3>. QED
      BY <3>1, <3>9, <3>10, <3>11, <3>12 DEF OfOneBatch
  <2>. QED
    BY <2>3, <2>4
<1>6. \A j \in DOMAIN summary' : summary'[j].alone => OfBatch(summary'[j].counted)
  BY <1>3 DEF SInv
<1>7. \A j \in DOMAIN summary' : (summary[j].alone => OfBatch(summary[j].counted))'
  BY <1>4, <1>6 DEF OfBatch
<1>. QED
  BY <1>0, <1>3, <1>4, <1>5, <1>7 DEF SInv, manifests

\* Every step keeps the invariant.
LEMMA SInvNext ==
  ASSUME IInv, SInv, [SweepNext]_sweepVars
  PROVE  SInv'
<1>1. CASE MakeManifests
  <2>1. Planned'
    BY <1>1 DEF MakeManifests, Planned, Draws
  <2>2. /\ dev60 = <<>> /\ UNCHANGED <<phase, results, summary, evals, overlapped>>
        /\ phase = "down" /\ evals = {} /\ (\A k \in N : results[k] = <<>>) /\ summary = <<>>
    BY <1>1 DEF MakeManifests, SInv, run, control
  <2>3. DOMAIN <<>> = {} /\ IsSequence(<<>>)
    BY EmptySeq DEF IsSequence
  <2>4. OfBatch(<<>>)'
    BY <2>3 DEF OfBatch, EachOnce
  <2>5. \A k \in N : OfOneBatch(k)'
    BY <2>2, <2>4 DEF OfOneBatch
  <2>. QED
    BY <2>1, <2>2, <2>3, <2>5 DEF SInv
<1>2. ASSUME UNCHANGED <<manifests, results, summary>>, dev60 # <<>> \/ UNCHANGED <<phase, evals>>,
             overlapped \subseteq overlapped',
             \A k \in N \ overlapped' : \A p \in evals' : p.n = k => p \in evals \/ p.step = "launched"
      PROVE SInv'
  <2>1. batch' = batch /\ Planned'
    BY <1>2 DEF batch, manifests, SInv, Planned
  <2>2. \A s : OfBatch(s) => OfBatch(s)'
    BY <2>1 DEF OfBatch
  <2>3. ASSUME NEW k \in N \ overlapped' PROVE OfOneBatch(k)'
    <3>1. OfOneBatch(k) /\ UNCHANGED results
      BY <1>2, <2>3 DEF SInv
    <3>2. OfBatch(results[k])'
      BY <2>2, <3>1 DEF OfOneBatch, OfBatch
    <3>. QED
      BY <1>2, <2>1, <2>3, <3>1, <3>2 DEF OfOneBatch
  <2>. QED
    BY <1>2, <2>1, <2>2, <2>3 DEF SInv, manifests, OfBatch
<1>3. CASE StartSweep \/ SkipComplete \/ SweepEnds \/ Interrupt
  BY <1>2, <1>3 DEF StartSweep, SkipComplete, SweepEnds, Interrupt, run, SInv
<1>4. CASE Launch
  <2>1. dev60 # <<>>
    BY <1>4 DEF Launch, SInv
  <2>2. \A p \in evals' : p \in evals \/ p.step = "launched"
    BY <1>4 DEF Launch
  <2>. QED
    BY <1>2, <1>4, <2>1, <2>2 DEF Launch, run
<1>5. ASSUME NEW p \in evals, EvalReads(p) PROVE SInv'
  <2>1. Process(p)
    BY DEF IInv, SweepType
  <2>. DEFINE q == [p EXCEPT !.step = "writing", !.left = Todo(results[p.n]),
                     !.skipped = Cardinality({results[p.n][i].problem : i \in DOMAIN results[p.n]})]
  <2>2. q.n = p.n /\ q.left = Todo(results[p.n]) /\ Process(q)
    <3>1. q = [n |-> p.n, start |-> p.start, step |-> "writing", left |-> Todo(results[p.n]),
               skipped |-> Cardinality({results[p.n][i].problem : i \in DOMAIN results[p.n]})]
      BY <2>1, Changed
    <3>. QED
      BY <2>1, <3>1 DEF Process
  <2>3. Becomes(p, q) /\ UNCHANGED <<manifests, results, summary, overlapped>>
    BY <1>5 DEF EvalReads, control
  <2>. HIDE DEF q
  <2>. QED
    BY <2>2, <2>3, OnlyTheProcess
<1>6. ASSUME NEW p \in evals, EvalStarts(p) PROVE SInv'
  <2>1. Process(p)
    BY DEF IInv, SweepType
  <2>. DEFINE q == [p EXCEPT !.step = "eval"]
  <2>2. q.n = p.n /\ q.left = p.left /\ p.step # "launched" /\ Process(q)
    BY <1>6, <2>1 DEF Process, EvalStarts
  <2>3. Becomes(p, q) /\ UNCHANGED <<manifests, results, summary, overlapped>>
    BY <1>6 DEF EvalStarts, control
  <2>. HIDE DEF q
  <2>. QED
    BY <2>2, <2>3, OnlyTheProcess
<1>7. ASSUME NEW p \in evals, Gone(p) PROVE SInv'
  <2>1. dev60 # <<>>
    BY DEF SInv
  <2>. QED
    BY <1>2, <1>7, <2>1 DEF Gone, run
<1>8. CASE Tally
  <2>1. n \in N /\ dev60 # <<>>
    BY <1>8, Position DEF Tally, IInv, SweepType, SInv
  <2>2. batch' = batch /\ UNCHANGED <<manifests, results, evals, overlapped>>
    BY <1>8 DEF Tally, batch, manifests, run
  <2>. DEFINE r == [N |-> n, rate |-> Rate(Resumed(meta[n])), resumed |-> Resumed(meta[n]),
                    counted |-> results[n], meta |-> meta[n], start |-> starts, alone |-> n \notin overlapped]
  <2>3. summary' = Append(summary, r) /\ r.counted = results[n] /\ (r.alone => n \notin overlapped)
    BY <1>8 DEF Tally
  <2>. HIDE DEF r
  <2>4. /\ DOMAIN summary = 1..Len(summary) /\ DOMAIN summary' = 1..Len(summary) + 1 /\ Len(summary) \in Nat
        /\ (\A i \in 1..Len(summary) : summary'[i] = summary[i]) /\ summary'[Len(summary) + 1] = r
    BY <2>3, AppendAny DEF IInv, SweepType
  <2>5. \A i \in DOMAIN summary' : i \in DOMAIN summary \/ i = Len(summary) + 1
    BY <2>4
  <2>6. r.alone => OfBatch(results[n])
    BY <2>1, <2>3 DEF SInv, OfOneBatch
  <2>7. \A i \in DOMAIN summary' : summary'[i].alone => OfBatch(summary'[i].counted)
    BY <2>3, <2>4, <2>5, <2>6 DEF SInv
  <2>8. Planned' /\ \A k \in N \ overlapped : OfOneBatch(k)'
    BY <2>2 DEF SInv, Planned, manifests, OfBatch, OfOneBatch
  <2>9. \A i \in DOMAIN summary' : (summary[i].alone => OfBatch(summary[i].counted))'
    BY <2>2, <2>7 DEF OfBatch
  <2>. QED
    BY <2>1, <2>2, <2>8, <2>9 DEF SInv, manifests
<1>9. CASE UNCHANGED sweepVars
  BY <1>2, <1>9 DEF sweepVars, manifests
<1>. QED
  BY <1>1, <1>3, <1>4, <1>5, <1>6, <1>7, <1>8, <1>9, RowKeeps DEF SweepNext, EvalEnds, EvalDies

\* Whatever is drawn and whichever attempts end first, the points of the chart with
\* a whole batch count the same problems, each once, with the same number of every
\* difficulty, also when the run was resumed, unless two run_eval.py worked on it at
\* the same time; and the manifests share no problem.
THEOREM SweepsCompareLikeWithLike == SweepSpec => []BatchesAreStratified
<1>1. SweepInit => IInv /\ SInv
  <2>. SUFFICES ASSUME SweepInit PROVE SInv
    BY IInvInit
  <2>1. IsSequence(<<>>) /\ DOMAIN <<>> = {}
    BY EmptySeq DEF IsSequence
  <2>2. OfBatch(<<>>)
    BY <2>1 DEF OfBatch, EachOnce
  <2>. QED
    BY <2>1, <2>2 DEF SweepInit, SInv, Planned, OfOneBatch
<1>2. IInv /\ SInv => BatchesAreStratified
  BY SInvStratified DEF IInv, SweepType
<1>. QED
  BY <1>1, <1>2, IInvNext, SInvNext, PTL DEF SweepSpec

-----------------------------------------------------------------------------
(* The counterfactual replay.                                              *)

Mine(a) == mine_committed_text(log[a])

\* A session with set s completed a's proof from this text.
Earned(a, s, text) == [attempt |-> a, set |-> s, text |-> text] \in closed

Row == [attempt : Attempt, mined : Seq(Piece), rescued : SUBSET SetName]

ReplayType ==
    /\ pc \in {"cut", "attempts", "down", "next", "session", "judge", "row", "done"}
    /\ turn \in Nat \ {0} /\ sets \in Nat \ {0} /\ done \subseteq Attempt
    /\ committed \in [Attempt -> Seq(Piece)] /\ had \in [Attempt -> SUBSET Seq(Piece)]
    /\ log \in [Attempt -> Seq(Seq(Piece) \cup {Hidden})]
    /\ mined \in Seq(Piece) /\ rescued \subseteq SetName /\ rows \in Seq(Row)
    /\ written = [d \in Attempt \X SetName |-> written[d]]

\* A log shows only what its attempt had committed.
LogsShowWhatWas ==
    \A a \in Attempt : \A i \in DOMAIN log[a] : log[a][i] \in had[a] \cup {Hidden}

\* While attempts run nothing is replayed.
NothingYet ==
    pc \in {"cut", "attempts"} =>
      rows = <<>> /\ \A d \in Attempt \X SetName : written[d] = NoDoc

\* A candidate in a directory, from whichever start, was completed from what is mined
\* from the log of that directory's attempt.
WrittenIsEarned ==
    \A a \in Attempt, s \in SetName : written[<<a, s>>] # NoDoc => Earned(a, s, Mine(a))

\* What the replay has under way.
UnderWay ==
    /\ pc \in {"session", "judge", "row"} =>
         /\ turn \in DOMAIN Attempts /\ Current \notin done /\ mined = Mine(Current)
         /\ \A s \in rescued : Earned(Current, s, mined)
    /\ pc \in {"session", "judge"} => sets \in DOMAIN SetNames
    /\ pc = "judge" => written[<<Current, Set>>] # NoDoc

\* The rows are of the attempts done before this start and those before the turn.
RowsPlaced ==
    pc \in {"next", "session", "judge", "row"} =>
      \A i \in DOMAIN rows : \/ rows[i].attempt \in done
                             \/ \E t \in DOMAIN Attempts : t < turn /\ Attempts[t] = rows[i].attempt

RInv == /\ ReplayType /\ LogsShowWhatWas /\ NothingYet /\ WrittenIsEarned
        /\ UnderWay /\ RowsPlaced /\ RescuesAreEarned

-----------------------------------------------------------------------------
\* What is mined from a log is nothing, or something its attempt had committed.
LEMMA MinedWasCommitted ==
  ASSUME ReplayType, LogsShowWhatWas, NEW a \in Attempt
  PROVE  Mine(a) \in had[a] \cup {NoText} /\ Mine(a) \in Seq(Piece)
<1>. DEFINE l == log[a]
            I == {i \in DOMAIN l : l[i] \notin {Hidden, NoText}}
<1>1. l \in Seq(Seq(Piece) \cup {Hidden}) /\ had[a] \in SUBSET Seq(Piece)
  BY DEF ReplayType
<1>2. Len(l) \in Nat /\ DOMAIN l = 1..Len(l)
  BY <1>1, LenProperties
<1>3. NoText \in Seq(Piece)
  BY EmptySeq DEF NoText
<1>4. ASSUME I # {} PROVE l[SetMax(I)] \in had[a]
  <2>1. SetMax(I) \in I
    BY <1>2, <1>4, LastPosition
  <2>. QED
    BY <2>1 DEF LogsShowWhatWas
<1>. QED
  BY <1>1, <1>3, <1>4 DEF Mine, mine_committed_text

\* The attempt whose turn it is.
LEMMA CurrentAttempt ==
  ASSUME ReplayType
  PROVE  /\ turn <= Len(Attempts) => turn \in DOMAIN Attempts
         /\ turn \in DOMAIN Attempts => Current \in Attempt
         /\ sets \in DOMAIN SetNames => Set \in SetName
<1>1. Len(Attempts) \in Nat /\ DOMAIN Attempts = 1..Len(Attempts)
  BY ReplayAssumption, LenProperties
<1>. QED
  BY <1>1 DEF ReplayType, Current, Set, Attempt, SetName

\* A tool call of an attempt keeps the invariant.
LEMMA ToolCallKeeps ==
  ASSUME RInv, Calling, NEW c \in Seq(Piece), NEW shown \in {Hidden, c}, ToolCall(c, shown)
  PROVE  RInv'
<1>1. Current \in Attempt /\ pc = "attempts"
  BY CurrentAttempt DEF Calling, RInv
<1>2. UNCHANGED <<pc, done, turn, sets, mined, rescued, rows, written, closed>>
  BY DEF ToolCall, main
<1>3. had' \in [Attempt -> SUBSET Seq(Piece)] /\ \A a \in Attempt : had[a] \subseteq had'[a]
  BY <1>1 DEF ToolCall, RInv, ReplayType
<1>4. log' \in [Attempt -> Seq(Seq(Piece) \cup {Hidden})]
  <2>1. log[Current] \in Seq(Seq(Piece) \cup {Hidden})
    BY <1>1 DEF RInv, ReplayType
  <2>2. Append(log[Current], shown) \in Seq(Seq(Piece) \cup {Hidden})
    BY <2>1, AppendProperties
  <2>. QED
    BY <1>1, <2>2 DEF ToolCall, RInv, ReplayType
<1>5. ReplayType'
  BY <1>1, <1>2, <1>3, <1>4 DEF ToolCall, RInv, ReplayType
<1>6. LogsShowWhatWas'
  <2>. SUFFICES ASSUME NEW a \in Attempt, NEW i \in DOMAIN log'[a]
                PROVE  log'[a][i] \in had'[a] \cup {Hidden}
    BY DEF LogsShowWhatWas
  <2>. DEFINE l == log[Current]
  <2>1. CASE a = Current
    <3>1. log'[a] = Append(l, shown) /\ shown \in had'[a] \cup {Hidden}
      BY <1>1, <2>1 DEF ToolCall, RInv, ReplayType
    <3>2. l \in Seq(Seq(Piece) \cup {Hidden})
      BY <1>1 DEF RInv, ReplayType
    <3>3. IsSequence(l)
      BY <3>2 DEF IsSequence
    <3>4. i \in 1..Len(l) \/ i = Len(l) + 1
      BY <3>1, <3>3, AppendAny
    <3>5. CASE i \in 1..Len(l)
      <4>1. log'[a][i] = l[i] /\ i \in DOMAIN l
        BY <3>1, <3>3, <3>5, AppendAny
      <4>. QED
        BY <1>3, <2>1, <4>1 DEF RInv, LogsShowWhatWas
    <3>6. CASE i = Len(l) + 1
      BY <3>1, <3>3, <3>6, AppendAny
    <3>. QED
      BY <3>4, <3>5, <3>6
  <2>2. CASE a # Current
    <3>1. log'[a] = log[a]
      BY <1>1, <2>2 DEF ToolCall, RInv, ReplayType
    <3>. QED
      BY <1>3, <3>1 DEF RInv, LogsShowWhatWas
  <2>. QED
    BY <2>1, <2>2
<1>7. rows' = <<>> /\ \A d \in Attempt \X SetName : written'[d] = NoDoc
  BY <1>1, <1>2 DEF RInv, NothingYet
<1>. QED
  BY <1>1, <1>2, <1>5, <1>6, <1>7
     DEF RInv, NothingYet, WrittenIsEarned, UnderWay, RowsPlaced, RescuesAreEarned

\* A start of the replay: the attempts with a row are done.
LEMMA StartKeeps ==
  ASSUME RInv, Start
  PROVE  RInv'
<1>1. UNCHANGED <<log, committed, had, sets, mined, rescued, rows, written, closed>>
      /\ pc' = "next" /\ turn' = 1 /\ done' = Done
  BY DEF Start, attempts
<1>2. rows \in Seq(Row)
  BY DEF RInv, ReplayType
<1>3. \A i \in DOMAIN rows : rows[i].attempt \in Done
  <2>. SUFFICES ASSUME NEW i \in DOMAIN rows PROVE rows[i].attempt \in Done
    OBVIOUS
  <2>1. rows[i] \in Row
    BY <1>2
  <2>. QED
    BY <2>1 DEF Done, RowsOf, Row
<1>4. ReplayType'
  BY <1>1 DEF RInv, ReplayType, Done
<1>. QED
  BY <1>1, <1>3, <1>4
     DEF RInv, LogsShowWhatWas, NothingYet, WrittenIsEarned, Earned, Mine, UnderWay, RowsPlaced, RescuesAreEarned

\* A session: its candidate, or the one of an earlier start that it leaves there.
LEMMA RunSessionKeeps ==
  ASSUME RInv, RunSession
  PROVE  RInv'
<1>. DEFINE d == <<Current, Set>>
<1>1. /\ pc = "session" /\ turn \in DOMAIN Attempts /\ sets \in DOMAIN SetNames
      /\ Current \in Attempt /\ Set \in SetName
  BY CurrentAttempt DEF RunSession, RInv, UnderWay
<1>2. UNCHANGED <<log, committed, had, done, turn, mined, rescued, rows>>
  BY DEF RunSession, attempts, main
<1>3. PICK closes \in BOOLEAN, timeout \in BOOLEAN :
         /\ IF closes
              THEN /\ \E doc \in Completions(mined, Set) : written' = [written EXCEPT ![d] = doc]
                   /\ closed' = closed \cup {[attempt |-> Current, set |-> Set, text |-> mined]}
              ELSE UNCHANGED <<written, closed>>
         /\ IF timeout \/ written'[d] = NoDoc
              THEN Through
              ELSE pc' = "judge" /\ UNCHANGED sets
  BY DEF RunSession, Dir
<1>4. \/ pc' = "judge" /\ sets' = sets /\ written'[d] # NoDoc
      \/ sets' = sets + 1 /\ (pc' = "row" \/ (pc' = "session" /\ sets < Len(SetNames)))
  <2>1. CASE timeout \/ written'[d] = NoDoc
    BY <1>3, <2>1, Zenon DEF Through
  <2>2. CASE ~ (timeout \/ written'[d] = NoDoc)
    BY <1>3, <2>2, Zenon
  <2>. QED
    BY <2>1, <2>2
<1>5. sets' \in Nat \ {0} /\ pc' \in {"session", "judge", "row"}
      /\ (pc' \in {"session", "judge"} => sets' \in DOMAIN SetNames)
  <2>1. Len(SetNames) \in Nat /\ DOMAIN SetNames = 1..Len(SetNames)
    BY ReplayAssumption, LenProperties
  <2>. QED
    BY <1>1, <1>4, <2>1
<1>6. closed \subseteq closed' /\ written' = [e \in Attempt \X SetName |-> written'[e]]
      /\ \A e \in Attempt \X SetName : e # d => written'[e] = written[e]
  BY <1>1, <1>3 DEF RInv, ReplayType
<1>7. mined = Mine(Current) /\ mined \in Seq(Piece)
  BY <1>1 DEF RInv, ReplayType, UnderWay
<1>8. \A a \in Attempt : Mine(a)' = Mine(a)
  BY <1>2 DEF Mine
<1>9. Current' = Current
  BY <1>2 DEF Current
<1>10. WrittenIsEarned'
  <2>. SUFFICES ASSUME NEW a \in Attempt, NEW s \in SetName, written'[<<a, s>>] # NoDoc
                PROVE  Earned(a, s, Mine(a))'
    BY DEF WrittenIsEarned
  <2>1. CASE written'[<<a, s>>] = written[<<a, s>>]
    <3>1. Earned(a, s, Mine(a))
      BY <2>1 DEF RInv, WrittenIsEarned
    <3>. QED
      BY <1>6, <1>8, <3>1 DEF Earned
  <2>2. CASE written'[<<a, s>>] # written[<<a, s>>]
    <3>1. a = Current /\ s = Set
      BY <1>6, <2>2
    <3>2. closed' = closed \cup {[attempt |-> Current, set |-> Set, text |-> mined]}
      BY <1>3, <2>2
    <3>3. Mine(a)' = mined
      BY <1>7, <1>8, <3>1
    <3>. QED
      BY <3>1, <3>2, <3>3 DEF Earned
  <2>. QED
    BY <2>1, <2>2
<1>11. UnderWay'
  <2>1. pc' = "judge" => written'[<<Current', Set'>>] # NoDoc
    BY <1>4, <1>9 DEF Set
  <2>2. \A s \in rescued' : Earned(Current, s, mined)'
    BY <1>1, <1>2, <1>6, <1>9 DEF RInv, UnderWay, Earned
  <2>3. mined' = Mine(Current)' /\ Current' \notin done' /\ turn' \in DOMAIN Attempts
    BY <1>1, <1>2, <1>7, <1>9 DEF RInv, UnderWay, Mine
  <2>. QED
    BY <1>5, <2>1, <2>2, <2>3 DEF UnderWay
<1>12. RescuesAreEarned'
  BY <1>2, <1>6 DEF RInv, RescuesAreEarned
<1>13. ReplayType' /\ LogsShowWhatWas' /\ NothingYet' /\ RowsPlaced'
  BY <1>1, <1>2, <1>5, <1>6 DEF RInv, ReplayType, LogsShowWhatWas, NothingYet, RowsPlaced
<1>. QED
  BY <1>10, <1>11, <1>12, <1>13 DEF RInv

\* A step that leaves the logs, the directories and the rows alone.
LEMMA OnlyControl ==
  ASSUME RInv, UNCHANGED <<log, had, rows, written, closed>>, ReplayType', UnderWay',
         pc' \in {"cut", "attempts"} => pc \in {"cut", "attempts"},
         RowsPlaced'
  PROVE  RInv'
BY DEF RInv, LogsShowWhatWas, NothingYet, WrittenIsEarned, Earned, Mine, RescuesAreEarned

\* The gate judges a candidate: what it calls solved was earned.
LEMMA JudgeKeeps ==
  ASSUME RInv, Judge
  PROVE  RInv'
<1>1. /\ pc = "judge" /\ turn \in DOMAIN Attempts /\ sets \in DOMAIN SetNames
      /\ Current \in Attempt /\ Set \in SetName /\ mined = Mine(Current)
      /\ written[<<Current, Set>>] # NoDoc
  BY CurrentAttempt DEF Judge, RInv, UnderWay
<1>2. UNCHANGED <<log, committed, had, done, turn, mined, rows, written, closed>>
  BY DEF Judge, attempts, main
<1>3. rescued' = rescued \/ rescued' = rescued \cup {Set}
  BY DEF Judge
<1>4. sets' = sets + 1 /\ (pc' = "row" \/ (pc' = "session" /\ sets < Len(SetNames)))
  BY DEF Judge, Through
<1>5. sets' \in Nat \ {0} /\ (pc' = "session" => sets' \in DOMAIN SetNames)
  <2>1. Len(SetNames) \in Nat /\ DOMAIN SetNames = 1..Len(SetNames)
    BY ReplayAssumption, LenProperties
  <2>. QED
    BY <1>1, <1>4, <2>1
<1>6. \A s \in rescued' : Earned(Current, s, mined)
  <2>1. Earned(Current, Set, mined)
    BY <1>1 DEF RInv, WrittenIsEarned
  <2>. QED
    BY <1>1, <1>3, <2>1 DEF RInv, UnderWay
<1>7. UnderWay'
  <2>1. Current' = Current /\ Mine(Current)' = Mine(Current)
    BY <1>2 DEF Current, Mine
  <2>2. \A s \in rescued' : Earned(Current, s, mined)'
    BY <1>2, <1>6, <2>1 DEF Earned
  <2>. QED
    BY <1>1, <1>2, <1>4, <1>5, <2>1, <2>2 DEF UnderWay, RInv
<1>8. ReplayType'
  BY <1>1, <1>2, <1>3, <1>4, <1>5 DEF RInv, ReplayType
<1>. QED
  BY <1>1, <1>2, <1>4, <1>7, <1>8, OnlyControl DEF RInv, RowsPlaced

\* The row of an attempt: its first.
LEMMA WriteRowKeeps ==
  ASSUME RInv, WriteRow
  PROVE  RInv'
<1>. DEFINE r == [attempt |-> Current, mined |-> mined, rescued |-> rescued]
<1>1. /\ pc = "row" /\ turn \in DOMAIN Attempts /\ Current \in Attempt /\ Current \notin done
      /\ mined = Mine(Current) /\ \A s \in rescued : Earned(Current, s, mined)
  BY CurrentAttempt DEF WriteRow, RInv, UnderWay
<1>2. /\ UNCHANGED <<log, committed, had, done, written, closed>>
      /\ pc' \in {"done", "next"} /\ turn' = turn + 1 /\ mined' = NoText /\ rescued' = {} /\ sets' = 1
  BY DEF WriteRow, attempts
<1>3. rows' = Append(rows, r)
  BY DEF WriteRow
<1>4. r \in Row /\ rows \in Seq(Row)
  BY <1>1 DEF RInv, ReplayType, Row
<1>5. r.attempt = Current /\ r.mined = mined /\ r.rescued = rescued
  OBVIOUS
<1>. HIDE DEF r
<1>6. /\ rows' \in Seq(Row) /\ Len(rows) \in Nat /\ DOMAIN rows = 1..Len(rows)
      /\ DOMAIN rows' = 1..Len(rows) + 1
      /\ \A i \in 1..Len(rows) : rows'[i] = rows[i]
      /\ rows'[Len(rows) + 1] = r
  BY <1>3, <1>4, AppendProperties, LenProperties
<1>7. \A i \in DOMAIN rows' : \/ i \in DOMAIN rows /\ rows'[i] = rows[i]
                              \/ i = Len(rows) + 1 /\ rows'[i] = r
  BY <1>6
<1>8. turn \in Nat \ {0} /\ \A t \in DOMAIN Attempts : t < turn => Attempts[t] # Current
  BY <1>1, ReplayAssumption DEF Current, RInv, ReplayType
<1>9. \A i \in DOMAIN rows : rows[i].attempt # Current
  BY <1>1, <1>8 DEF RInv, RowsPlaced
<1>10. RowsPlaced'
  <2>. SUFFICES ASSUME NEW i \in DOMAIN rows'
                PROVE  \/ rows'[i].attempt \in done
                       \/ \E t \in DOMAIN Attempts : t < turn + 1 /\ Attempts[t] = rows'[i].attempt
    BY <1>2 DEF RowsPlaced
  <2>1. \A t \in DOMAIN Attempts : t \in Nat
    BY ReplayAssumption, LenProperties
  <2>2. CASE i \in DOMAIN rows /\ rows'[i] = rows[i]
    BY <1>1, <1>8, <2>1, <2>2 DEF RInv, RowsPlaced
  <2>3. CASE rows'[i] = r
    BY <1>1, <1>5, <1>8, <2>3 DEF Current
  <2>. QED
    BY <1>7, <2>2, <2>3
<1>11. r.mined \in had[r.attempt] \cup {NoText} /\ \A s \in r.rescued : Earned(r.attempt, s, r.mined)
  BY <1>1, <1>5, MinedWasCommitted DEF RInv
<1>12. RescuesAreEarned'
  <2>1. \A i, j \in DOMAIN rows' : rows'[i].attempt = rows'[j].attempt => i = j
    BY <1>5, <1>7, <1>9 DEF RInv, RescuesAreEarned
  <2>2. ASSUME NEW i \in DOMAIN rows'
        PROVE  /\ rows'[i].mined \in had[rows'[i].attempt] \cup {NoText}
               /\ \A s \in rows'[i].rescued : Earned(rows'[i].attempt, s, rows'[i].mined)
    BY <1>7, <1>11 DEF RInv, RescuesAreEarned, Earned
  <2>. QED
    BY <1>2, <2>1, <2>2 DEF RescuesAreEarned, Earned
<1>13. ReplayType'
  <2>1. mined' \in Seq(Piece)
    BY <1>2, EmptySeq DEF NoText
  <2>. QED
    BY <1>1, <1>2, <1>6, <1>8, <2>1 DEF RInv, ReplayType
<1>14. LogsShowWhatWas' /\ NothingYet' /\ WrittenIsEarned' /\ UnderWay'
  BY <1>1, <1>2 DEF RInv, LogsShowWhatWas, NothingYet, WrittenIsEarned, Earned, Mine, UnderWay
<1>. QED
  BY <1>10, <1>12, <1>13, <1>14 DEF RInv

\* Every step of the replay keeps the invariant.
LEMMA RInvNext ==
  ASSUME RInv, [Next]_vars
  PROVE  RInv'
<1>. USE DEF UnderWay, RowsPlaced, attempts, main
<1>. ReplayType /\ UnderWay /\ RowsPlaced
  BY DEF RInv
<1>1. CASE Cut
  BY <1>1, OnlyControl DEF Cut, ReplayType
<1>2. CASE Step \/ Rollback \/ State
  <2>1. Calling /\ Current \in Attempt
    BY <1>2, CurrentAttempt DEF Step, Rollback, State, Calling
  <2>2. committed[Current] \in Seq(Piece)
    BY <2>1 DEF ReplayType
  <2>3. CASE Step
    <3>1. PICK p \in Piece : ToolCall(Append(committed[Current], p), Hidden)
      BY <2>3 DEF Step
    <3>2. Append(committed[Current], p) \in Seq(Piece)
      BY <2>2, AppendProperties
    <3>. QED
      BY <2>1, <3>1, <3>2, ToolCallKeeps
  <2>4. CASE Rollback
    <3>1. PICK k \in 0..Len(committed[Current]) - 1 : ToolCall(SubSeq(committed[Current], 1, k), Hidden)
      BY <2>4 DEF Rollback
    <3>2. Len(committed[Current]) \in Nat /\ \A i \in 1..k : committed[Current][i] \in Piece
      BY <2>2, LenProperties, ElementOfSeq
    <3>3. SubSeq(committed[Current], 1, k) \in Seq(Piece)
      BY <3>2, SubSeqProperties
    <3>. QED
      BY <2>1, <3>1, <3>3, ToolCallKeeps
  <2>5. CASE State
    BY <2>1, <2>2, <2>5, ToolCallKeeps DEF State
  <2>. QED
    BY <1>2, <2>3, <2>4, <2>5
<1>3. CASE Fails
  BY <1>3, OnlyControl DEF Fails, ReplayType
<1>4. CASE Start
  BY <1>4, StartKeeps
<1>5. CASE Skip
  <2>1. turn \in DOMAIN Attempts /\ \A t \in DOMAIN Attempts : t \in Nat
    BY <1>5, CurrentAttempt, ReplayAssumption, LenProperties DEF Skip
  <2>2. RowsPlaced'
    BY <1>5, <2>1 DEF Skip, ReplayType
  <2>. QED
    BY <1>5, <2>2, OnlyControl DEF Skip, ReplayType
<1>6. CASE Load
  <2>1. turn \in DOMAIN Attempts /\ Current \in Attempt
    BY <1>6, CurrentAttempt DEF Load
  <2>2. mined' = Mine(Current) /\ mined' \in Seq(Piece)
    BY <1>6, <2>1, MinedWasCommitted DEF Load, RInv, Mine
  <2>3. 1 \in DOMAIN SetNames
    BY ReplayAssumption, LenProperties, EmptySeq
  <2>4. Current' = Current /\ Mine(Current)' = Mine(Current)
    BY <1>6 DEF Load, Current, Mine
  <2>5. ReplayType'
    BY <1>6, <2>2 DEF Load, ReplayType
  <2>6. UnderWay'
    BY <1>6, <2>1, <2>2, <2>3, <2>4 DEF Load
  <2>. QED
    BY <1>6, <2>5, <2>6, OnlyControl DEF Load
<1>7. CASE RunSession
  BY <1>7, RunSessionKeeps
<1>8. CASE Judge
  BY <1>8, JudgeKeeps
<1>9. CASE WriteRow
  BY <1>9, WriteRowKeeps
<1>10. CASE Return
  BY <1>10, OnlyControl DEF Return, ReplayType
<1>11. CASE Kill
  <2>1. mined' \in Seq(Piece)
    BY <1>11, EmptySeq DEF Kill, NoText
  <2>2. ReplayType'
    BY <1>11, <2>1 DEF Kill, ReplayType
  <2>. QED
    BY <1>11, <2>2, OnlyControl DEF Kill
<1>12. CASE Again
  <2>1. Calling /\ Current \in Attempt
    BY <1>12, CurrentAttempt DEF Again, Calling
  <2>2. committed' \in [Attempt -> Seq(Piece)]
    BY <1>12, <2>1, EmptySeq DEF Again, ReplayType
  <2>3. ReplayType'
    BY <1>12, <2>2 DEF Again, ReplayType
  <2>. QED
    BY <1>12, <2>1, <2>3, OnlyControl DEF Again, Calling
<1>13. CASE UNCHANGED vars
  <2>1. ReplayType'
    BY <1>13 DEF vars, ReplayType
  <2>2. UnderWay'
    BY <1>13 DEF vars, Current, Set, Earned, Mine
  <2>. QED
    BY <1>13, <2>1, <2>2, OnlyControl DEF vars
<1>. QED
  BY <1>1, <1>2, <1>3, <1>4, <1>5, <1>6, <1>7, <1>8, <1>9, <1>10, <1>11, <1>12, <1>13 DEF Next

LEMMA ReplayInvariant == Spec => []RInv
<1>1. Init => RInv
  <2>. SUFFICES ASSUME Init PROVE RInv
    OBVIOUS
  <2>1. <<>> \in Seq(Piece) /\ <<>> \in Seq(Row) /\ <<>> \in Seq(Seq(Piece) \cup {Hidden}) /\ DOMAIN <<>> = {}
    BY EmptySeq
  <2>2. ReplayType
    BY <2>1 DEF Init, ReplayType, NoText
  <2>. QED
    BY <2>1, <2>2
       DEF Init, RInv, LogsShowWhatWas, NothingYet, WrittenIsEarned, UnderWay, RowsPlaced, RescuesAreEarned
<1>. QED
  BY <1>1, RInvNext, PTL DEF Spec

\* However often the replay is killed and started again, every failed attempt has at
\* most one row, replayed from a text it once had committed, and a set is credited
\* with a rescue only if a server with that set completed this attempt's proof from
\* that text: of all attempts, whatever they committed and their servers logged,
\* however often a slot was taken up again, for every --limit.
THEOREM RescuesAreReal == Spec => []RescuesAreEarned
<1>1. RInv => RescuesAreEarned
  BY DEF RInv
<1>. QED
  BY <1>1, ReplayInvariant, PTL

-----------------------------------------------------------------------------
(***************************************************************************)
(* The tasks of a file that the prover accepts.                            *)
(***************************************************************************)
LEMMA LeastIs ==
  ASSUME NEW S \in SUBSET Nat, NEW m \in S, \A j \in S : m <= j
  PROVE  SetMin(S) = m
<1>. DEFINE c == CHOOSE i \in S : \A j \in S : i <= j
<1>1. c \in S /\ \A j \in S : c <= j
  OBVIOUS
<1>2. c = m
  <2>. HIDE DEF c
  <2>. QED
    BY <1>1
<1>. QED
  BY <1>2 DEF SetMin

\* A set of positions that is not empty has a first one.
LEMMA LeastPosition ==
  ASSUME NEW S \in SUBSET Nat, S # {}
  PROVE  SetMin(S) \in S /\ \A j \in S : SetMin(S) <= j
<1>1. PICK x \in S : \A y \in S : ~ (<<y, x>> \in OpToRel(<, Nat))
  BY NatLessThanWellFounded, WFMin
<1>2. ASSUME NEW y \in S PROVE x <= y
  <2>1. CASE y < x
    <3>1. <<y, x>> \in Nat \X Nat /\ <<y, x>>[1] < <<y, x>>[2]
      BY <2>1
    <3>. QED
      BY <1>1, <3>1, Zenon DEF OpToRel
  <2>. QED
    BY <2>1
<1>3. SetMin(S) = x
  BY <1>2, LeastIs
<1>. QED
  BY <1>2, <1>3

\* The ends a statement's proof might have, what is read as its body, and the
\* statements that become tasks.
Ends(f, i) == {j \in i + 1..Len(f) : f[j].class \in {"Qed", "Defined"}}
BodyOf(f, i) == SubSeq(f, i + 2, SetMin(Ends(f, i)) - 1)
Cuttable(f) ==
  {i \in Statements(f, Keyword \ {"Remark"}) :
     /\ ~f[i].indented
     /\ i < Len(f) /\ f[i + 1].class = "Proof"
     /\ Ends(f, i) # {} /\ ~GivenUp(BodyOf(f, i))
     /\ i - 1 >= MinPrefix}

LEMMA TasksAre ==
  ASSUME NEW f
  PROVE  /\ \A t \in extract_tasks(f) : \E i \in Cuttable(f) :
              t.source = "project" /\ t.cut = i /\ t.name = f[i].name /\ t.body = BodyOf(f, i)
         /\ \A i \in Cuttable(f) : \E t \in extract_tasks(f) :
              t.cut = i /\ t.name = f[i].name /\ t.body = BodyOf(f, i)
<1>. DEFINE Kind(i) == CASE Len(BodyOf(f, i)) <= Short -> "short"
                           [] Len(BodyOf(f, i)) > Short /\ Len(BodyOf(f, i)) <= Medium -> "medium"
                           [] OTHER -> "long"
            Task(i) == [source |-> "project", cut |-> i, name |-> f[i].name,
                        body |-> BodyOf(f, i), bucket |-> Kind(i)]
<1>1. extract_tasks(f) = {Task(i) : i \in Cuttable(f)}
  BY DEF extract_tasks, Cuttable, Ends, BodyOf
<1>. HIDE DEF Kind
<1>2. \A i : /\ Task(i).source = "project" /\ Task(i).cut = i
             /\ Task(i).name = f[i].name /\ Task(i).body = BodyOf(f, i)
  OBVIOUS
<1>. HIDE DEF Task
<1>. QED
  BY <1>1, <1>2

\* In a file the prover accepts: its sentences; and a proof is open until it is ended.
LEMMA AcceptedIs ==
  ASSUME NEW f, Accepted(f)
  PROVE  /\ Len(f) \in Nat /\ DOMAIN f = 1..Len(f)
         /\ \A i \in DOMAIN f, j \in DOMAIN f : f[j].class \in Opener => ~OpenAt(f, i, j)
         /\ \A j \in DOMAIN f : f[j].class \in Ender => \E i \in DOMAIN f : OpenAt(f, i, j)
<1>1. f \in Seq({f[i] : i \in DOMAIN f})
  BY DEF Accepted
<1>2. Len(f) \in Nat /\ DOMAIN f = 1..Len(f)
  BY <1>1, LenProperties
<1>. QED
  BY <1>2, Zenon DEF Accepted

LEMMA OpenUntilEnded ==
  ASSUME NEW f, Accepted(f), NEW i \in DOMAIN f, NEW j \in DOMAIN f,
         f[i].class \in Opener, i < j, \A k \in i + 1..j - 1 : f[k].class \notin Ender
  PROVE  OpenAt(f, i, j)
<1>1. Len(f) \in Nat /\ DOMAIN f = 1..Len(f) /\ i \in Nat /\ j \in Nat
  BY AcceptedIs
<1>2. ASSUME NEW x \in i + 1..j - 1, f[x].class \in Opener PROVE FALSE
  <2>. DEFINE O == {k \in i + 1..j - 1 : f[k].class \in Opener}
              m == SetMin(O)
  <2>1. O \in SUBSET Nat /\ O # {}
    BY <1>1, <1>2
  <2>2. m \in O /\ \A k \in O : m <= k
    BY <2>1, LeastPosition
  <2>. HIDE DEF m
  <2>3. m \in i + 1..j - 1 /\ f[m].class \in Opener
    BY <2>2
  <2>4. \A k \in i + 1..m - 1 : k \in i + 1..j - 1 /\ ~ (m <= k)
    BY <1>1, <2>3
  <2>5. OpenAt(f, i, m)
    <3>1. i < m
      BY <1>1, <2>3
    <3>2. \A k \in i + 1..m - 1 : f[k].class \notin Opener
      BY <2>2, <2>4
    <3>3. \A k \in i + 1..m - 1 : f[k].class \notin Ender
      BY <2>4
    <3>. QED
      BY <3>1, <3>2, <3>3 DEF OpenAt
  <2>6. m \in DOMAIN f
    BY <1>1, <2>3
  <2>. QED
    BY <2>3, <2>5, <2>6, AcceptedIs
<1>. QED
  BY <1>2 DEF OpenAt

\* The end of a proof is the first that can be its end, and what is between is its body.
LEMMA EndIsFirst ==
  ASSUME NEW f, Accepted(f), NEW i \in DOMAIN f, NEW e \in DOMAIN f,
         EndsProof(f, i, e), f[e].class \in {"Qed", "Defined"}, f[i + 1].class = "Proof"
  PROVE  /\ i < Len(f) /\ Ends(f, i) # {} /\ ~GivenUp(BodyOf(f, i))
         /\ BodyOf(f, i) = SubSeq(f, i + 2, e - 1)
<1>1. Len(f) \in Nat /\ DOMAIN f = 1..Len(f)
  BY AcceptedIs
<1>2. /\ i < e /\ \A k \in i + 1..e - 1 : f[k].class \notin Ender
  BY DEF EndsProof, OpenAt
<1>3. e \in Ends(f, i)
  BY <1>1, <1>2 DEF Ends
<1>4. \A j \in Ends(f, i) : j \in Nat /\ e <= j
  <2>. SUFFICES ASSUME NEW j \in Ends(f, i) PROVE j \in Nat /\ e <= j
    OBVIOUS
  <2>1. j \in i + 1..Len(f) /\ f[j].class \in Ender
    BY DEF Ends, Ender
  <2>2. j \notin i + 1..e - 1
    BY <1>2, <2>1
  <2>. QED
    BY <1>1, <2>1, <2>2
<1>5. SetMin(Ends(f, i)) = e
  <2>1. Ends(f, i) \in SUBSET Nat
    BY <1>4
  <2>. QED
    BY <1>3, <1>4, <2>1, LeastIs
<1>. DEFINE b == SubSeq(f, i + 2, e - 1)
<1>6. BodyOf(f, i) = b
  BY <1>5 DEF BodyOf
<1>7. DOMAIN b \subseteq 1..e - i - 2 /\ \A j \in DOMAIN b : b[j] = f[i + 1 + j]
  BY <1>1, <1>2, SMTT(30)
<1>. HIDE DEF b
<1>8. ASSUME NEW j \in DOMAIN b PROVE b[j].class \notin {"Admitted", "Abort"}
  <2>1. i + 1 + j \in i + 1..e - 1
    BY <1>1, <1>2, <1>7
  <2>. QED
    BY <1>2, <1>7, <2>1 DEF Ender
<1>9. ~GivenUp(b)
  BY <1>8 DEF GivenUp
<1>. QED
  BY <1>1, <1>2, <1>3, <1>6, <1>9 DEF b

\* What is read as the end of a task's proof is its end.
LEMMA FirstIsEnd ==
  ASSUME NEW f, Accepted(f), NEW i \in Cuttable(f)
  PROVE  \E e \in DOMAIN f :
            /\ EndsProof(f, i, e) /\ f[e].class \in {"Qed", "Defined"}
            /\ BodyOf(f, i) = SubSeq(f, i + 2, e - 1)
<1>1. Len(f) \in Nat /\ DOMAIN f = 1..Len(f)
  BY AcceptedIs
<1>2. /\ i \in DOMAIN f /\ f[i].class \in Opener /\ f[i + 1].class = "Proof"
      /\ Ends(f, i) # {} /\ ~GivenUp(BodyOf(f, i))
  BY DEF Cuttable, Statements, Opener
<1>. DEFINE e == SetMin(Ends(f, i))
<1>3. Ends(f, i) \in SUBSET Nat
  BY <1>1, <1>2 DEF Ends
<1>4. e \in Ends(f, i) /\ \A j \in Ends(f, i) : e <= j
  BY <1>2, <1>3, LeastPosition
<1>5. BodyOf(f, i) = SubSeq(f, i + 2, e - 1)
  BY DEF BodyOf
<1>. HIDE DEF e
<1>6. e \in i + 1..Len(f) /\ f[e].class \in {"Qed", "Defined"} /\ e # i + 1
  BY <1>2, <1>4 DEF Ends
<1>7. ASSUME NEW k \in i + 1..e - 1 PROVE f[k].class \notin Ender
  <2>1. k \in i + 1..Len(f) /\ ~ (e <= k)
    BY <1>1, <1>2, <1>6
  <2>2. f[k].class \notin {"Qed", "Defined"}
    BY <1>4, <2>1 DEF Ends
  <2>3. CASE k = i + 1
    BY <1>2, <2>3 DEF Ender
  <2>4. CASE k # i + 1
    <3>. DEFINE b == SubSeq(f, i + 2, e - 1)
    <3>1. DOMAIN b = 1..e - i - 2 /\ \A j \in 1..e - i - 2 : b[j] = f[i + 1 + j]
      BY <1>1, <1>2, <1>6, SMTT(30)
    <3>2. k - i - 1 \in 1..e - i - 2 /\ i + 1 + (k - i - 1) = k
      BY <1>1, <1>2, <1>6, <2>4
    <3>. HIDE DEF b
    <3>3. k - i - 1 \in DOMAIN b /\ b[k - i - 1] = f[k]
      BY <3>1, <3>2
    <3>4. BodyOf(f, i) = b
      BY <1>5 DEF b
    <3>5. f[k].class \notin {"Admitted", "Abort"}
      BY <1>2, <3>3, <3>4 DEF GivenUp
    <3>. QED
      BY <2>2, <3>5 DEF Ender
  <2>. QED
    BY <2>3, <2>4
<1>8. e \in DOMAIN f /\ i < e
  BY <1>1, <1>2, <1>6
<1>9. OpenAt(f, i, e)
  BY <1>2, <1>7, <1>8, OpenUntilEnded
<1>. QED
  BY <1>5, <1>6, <1>8, <1>9 DEF EndsProof, Ender

\* The last statement of a file.
LEMMA LastStatement ==
  ASSUME NEW f, Accepted(f)
  PROVE  /\ statement_prefix(f) \in DOMAIN f /\ f[statement_prefix(f)].class \in Keyword
         /\ \A j \in DOMAIN f : f[j].class \in Keyword => j <= statement_prefix(f)
<1>. DEFINE K == Statements(f, Keyword)
<1>1. Len(f) \in Nat /\ DOMAIN f = 1..Len(f)
  BY AcceptedIs
<1>2. K \in SUBSET (1..Len(f)) /\ K # {}
  BY <1>1 DEF Statements, Accepted
<1>3. SetMax(K) \in K /\ \A j \in K : j <= SetMax(K)
  BY <1>1, <1>2, LastPosition
<1>4. statement_prefix(f) = SetMax(K)
  BY <1>2 DEF statement_prefix
<1>. QED
  BY <1>3, <1>4 DEF Statements

LEMMA NameOfOne ==
  ASSUME NEW x, x.class \in Keyword
  PROVE  theorem_name(<<x>>) = x.name
<1>. DEFINE one == <<x>>
<1>1. DOMAIN one = {1} /\ one[1] = x
  OBVIOUS
<1>. HIDE DEF one
<1>2. Statements(one, Keyword) = {1}
  BY <1>1 DEF Statements
<1>3. SetMin({1}) = 1
  BY LeastIs
<1>4. theorem_name(one) = x.name
  BY <1>1, <1>2, <1>3 DEF theorem_name
<1>. QED
  BY <1>4 DEF one

\* At the cut of a task the theorem it names has its proof open.
LEMMA CutIsOpen ==
  ASSUME NEW f, Accepted(f), NEW rec \in Records(f)
  PROVE  LET b == build_task(f, rec)
         IN  \E i \in DOMAIN f : OpenAt(f, i, b.cut + 1) /\ f[i].name = b.name
<1>1. Len(f) \in Nat /\ DOMAIN f = 1..Len(f) /\ Len(f) \in DOMAIN f
  <2>1. Len(f) \in Nat /\ DOMAIN f = 1..Len(f)
    BY AcceptedIs
  <2>2. statement_prefix(f) \in 1..Len(f)
    BY <2>1, LastStatement
  <2>. QED
    BY <2>1, <2>2
<1>. DEFINE CutAt(i) == [cut |-> i, name |-> f[i].name]
<1>2. ASSUME NEW i \in DOMAIN f, f[i].class \in Keyword
      PROVE  OpenAt(f, i, CutAt(i).cut + 1) /\ f[i].name = CutAt(i).name
  BY <1>1, <1>2 DEF OpenAt, Opener
<1>. HIDE DEF CutAt
<1>3. \E i \in DOMAIN f : f[i].class \in Keyword /\ build_task(f, rec) = CutAt(i)
  <2>1. CASE rec \in extract_tasks(f)
    <3>1. PICK i \in Cuttable(f) : rec.source = "project" /\ rec.cut = i /\ rec.name = f[i].name
      BY <2>1, TasksAre
    <3>2. i \in DOMAIN f /\ f[i].class \in Keyword
      BY <3>1 DEF Cuttable, Statements
    <3>3. build_task(f, rec) = CutAt(i)
      BY <3>1 DEF build_task, CutAt
    <3>. QED
      BY <3>2, <3>3
  <2>2. CASE rec = [source |-> "minif2f"]
    <3>. DEFINE i == statement_prefix(f)
    <3>1. i \in DOMAIN f /\ f[i].class \in Keyword
      BY LastStatement
    <3>2. build_task(f, rec) = [cut |-> i, name |-> theorem_name(<<f[i]>>)]
      BY <2>2 DEF build_task
    <3>. HIDE DEF i
    <3>3. theorem_name(<<f[i]>>) = f[i].name
      BY <3>1, NameOfOne
    <3>. QED
      BY <3>1, <3>2, <3>3 DEF CutAt
  <2>3. CASE rec = [source |-> "workbook", statement |-> <<f[Len(f)]>>] /\ f[Len(f)].class \in Keyword
    <3>1. build_task(f, rec) = [cut |-> Len(f), name |-> theorem_name(<<f[Len(f)]>>)]
      BY <2>3 DEF build_task
    <3>2. theorem_name(<<f[Len(f)]>>) = f[Len(f)].name
      BY <2>3, NameOfOne
    <3>. QED
      BY <1>1, <2>3, <3>1, <3>2 DEF CutAt
  <2>. QED
    BY <2>1, <2>2, <2>3 DEF Records
<1>. QED
  BY <1>2, <1>3

\* The proof a file is said to ship is the one of its last statement.
LEMMA ShippedIsProved ==
  ASSUME NEW f, Accepted(f),
         \A j \in statement_prefix(f) + 1..Len(f) : f[j].class # "Goal"
  PROVE  shipped_proof_status(f) = "qed" <=>
           \E e \in DOMAIN f : EndsProof(f, statement_prefix(f), e) /\ f[e].class \in {"Qed", "Defined"}
<1>. DEFINE last == statement_prefix(f)
            trailer == {f[k].class : k \in last + 1..Len(f)}
<1>1. /\ Len(f) \in Nat /\ DOMAIN f = 1..Len(f)
      /\ last \in DOMAIN f /\ f[last].class \in Keyword
      /\ \A j \in DOMAIN f : f[j].class \in Keyword => j <= last
  BY AcceptedIs, LastStatement
<1>2. shipped_proof_status(f) = "qed" <=> trailer \cap {"Qed", "Defined"} # {}
  BY DEF shipped_proof_status
<1>. HIDE DEF last
<1>3. ASSUME NEW j \in last + 1..Len(f), f[j].class \in {"Qed", "Defined"}
      PROVE  EndsProof(f, last, j) /\ j \in DOMAIN f
  <2>1. j \in DOMAIN f /\ f[j].class \in Ender /\ last < j
    BY <1>1, <1>3 DEF Ender
  <2>2. PICK i \in DOMAIN f : OpenAt(f, i, j)
    BY <2>1, AcceptedIs
  <2>3. f[i].class \in Opener /\ i < j /\ \A k \in i + 1..j - 1 : f[k].class \notin Opener
    BY <2>2 DEF OpenAt
  <2>4. ~ (i < last)
    <3>1. f[last].class \in Opener
      BY <1>1 DEF Opener
    <3>2. i < last => last \in i + 1..j - 1
      BY <1>1, <2>1
    <3>. QED
      BY <2>3, <3>1, <3>2
  <2>5. ~ (last < i)
    <3>1. ASSUME last < i PROVE FALSE
      <4>1. i \in last + 1..Len(f) /\ ~ (i <= last)
        BY <1>1, <3>1
      <4>2. f[i].class \notin Keyword
        BY <1>1, <4>1
      <4>3. f[i].class # "Goal"
        BY <4>1 DEF last
      <4>. QED
        BY <2>3, <4>2, <4>3 DEF Opener
    <3>. QED
      BY <3>1
  <2>6. i = last
    BY <1>1, <2>4, <2>5
  <2>. QED
    BY <2>1, <2>2, <2>6 DEF EndsProof
<1>4. ASSUME NEW e \in DOMAIN f, EndsProof(f, last, e)
      PROVE  e \in last + 1..Len(f)
  BY <1>1, <1>4 DEF EndsProof, OpenAt
<1>5. shipped_proof_status(f) = "qed" <=> \E j \in last + 1..Len(f) : f[j].class \in {"Qed", "Defined"}
  BY <1>2
<1>6. shipped_proof_status(f) = "qed" <=>
        \E e \in DOMAIN f : EndsProof(f, last, e) /\ f[e].class \in {"Qed", "Defined"}
  BY <1>3, <1>4, <1>5
<1>. QED
  BY <1>6 DEF last

LEMMA WellCut ==
  ASSUME Accepted(file)
  PROVE  TasksAreWellCut
<1>. DEFINE Proved(p) == /\ p[1] - 1 >= MinPrefix /\ ~file[p[1]].indented
                         /\ EndsProof(file, p[1], p[2]) /\ file[p[2]].class \in {"Qed", "Defined"}
                         /\ file[p[1] + 1].class = "Proof"
            P == {p \in Statements(file, Keyword \ {"Remark"}) \X DOMAIN file : Proved(p)}
            Is(i, b) == [cut |-> i, body |-> b]
            L == {Is(t.cut, t.body) : t \in extract_tasks(file)}
            R == {Is(p[1], SubSeq(file, p[1] + 2, p[2] - 1)) : p \in P}
<1>1. ASSUME NEW i \in Cuttable(file)
      PROVE  \E p \in P : p[1] = i /\ BodyOf(file, i) = SubSeq(file, i + 2, p[2] - 1)
  <2>1. PICK e \in DOMAIN file :
          /\ EndsProof(file, i, e) /\ file[e].class \in {"Qed", "Defined"}
          /\ BodyOf(file, i) = SubSeq(file, i + 2, e - 1)
    BY FirstIsEnd
  <2>2. /\ i \in Statements(file, Keyword \ {"Remark"}) /\ ~file[i].indented
        /\ file[i + 1].class = "Proof" /\ i - 1 >= MinPrefix
    BY DEF Cuttable
  <2>. DEFINE p == <<i, e>>
  <2>3. p \in Statements(file, Keyword \ {"Remark"}) \X DOMAIN file /\ p[1] = i /\ p[2] = e
    BY <2>1, <2>2
  <2>. HIDE DEF p
  <2>4. p \in P
    BY <2>1, <2>2, <2>3
  <2>. QED
    BY <2>1, <2>3, <2>4
<1>2. ASSUME NEW p \in P
      PROVE  p[1] \in Cuttable(file) /\ BodyOf(file, p[1]) = SubSeq(file, p[1] + 2, p[2] - 1)
  <2>1. p[1] \in Statements(file, Keyword \ {"Remark"}) /\ p[2] \in DOMAIN file /\ Proved(p)
    OBVIOUS
  <2>2. p[1] \in DOMAIN file
    BY <2>1 DEF Statements
  <2>3. /\ p[1] < Len(file) /\ Ends(file, p[1]) # {} /\ ~GivenUp(BodyOf(file, p[1]))
        /\ BodyOf(file, p[1]) = SubSeq(file, p[1] + 2, p[2] - 1)
    BY <2>1, <2>2, EndIsFirst
  <2>. QED
    BY <2>1, <2>3 DEF Cuttable
<1>. HIDE DEF Proved, P, Is
<1>3. L = R
  <2>1. ASSUME NEW x \in L PROVE x \in R
    <3>1. PICK t \in extract_tasks(file) : x = Is(t.cut, t.body)
      OBVIOUS
    <3>2. PICK i \in Cuttable(file) : t.cut = i /\ t.body = BodyOf(file, i)
      BY TasksAre
    <3>3. PICK p \in P : p[1] = i /\ BodyOf(file, i) = SubSeq(file, i + 2, p[2] - 1)
      BY <1>1
    <3>. QED
      BY <3>1, <3>2, <3>3
  <2>2. ASSUME NEW x \in R PROVE x \in L
    <3>1. PICK p \in P : x = Is(p[1], SubSeq(file, p[1] + 2, p[2] - 1))
      OBVIOUS
    <3>2. p[1] \in Cuttable(file) /\ BodyOf(file, p[1]) = SubSeq(file, p[1] + 2, p[2] - 1)
      BY <1>2
    <3>3. PICK t \in extract_tasks(file) : t.cut = p[1] /\ t.body = BodyOf(file, p[1])
      BY <3>2, TasksAre
    <3>. QED
      BY <3>1, <3>2, <3>3
  <2>. QED
    BY <2>1, <2>2
<1>4. {[cut |-> t.cut, body |-> t.body] : t \in extract_tasks(file)} =
        {[cut |-> p[1], body |-> SubSeq(file, p[1] + 2, p[2] - 1)] :
           p \in {p \in Statements(file, Keyword \ {"Remark"}) \X DOMAIN file :
                 /\ p[1] - 1 >= MinPrefix /\ ~file[p[1]].indented
                 /\ EndsProof(file, p[1], p[2]) /\ file[p[2]].class \in {"Qed", "Defined"}
                 /\ file[p[1] + 1].class = "Proof"}}
  BY <1>3, Zenon DEF Is, P, Proved
<1>5. \A rec \in Records(file) :
        LET b == build_task(file, rec)
        IN \E i \in DOMAIN file : OpenAt(file, i, b.cut + 1) /\ file[i].name = b.name
  BY CutIsOpen
<1>. QED
  BY <1>4, <1>5, ShippedIsProved, Zenon DEF TasksAreWellCut

\* Every file the prover accepts is cut where the prover would cut it, however many
\* statements it has, however long their proofs are and whatever stands between them
\* (extract_tasks), the tasks of all three sources name the theorem whose proof is open
\* at their cut (build_task), and a proof is said to be shipped for the last statement
\* exactly if it is (shipped_proof_status).
THEOREM EveryFileIsWellCut ==
  ASSUME \A f \in Files : Accepted(f)
  PROVE  Spec => []TasksAreWellCut
<1>. DEFINE Known == pc = "cut" => file \in Files
<1>1. Init => Known
  BY DEF Init
<1>2. Known /\ [Next]_vars => Known'
  <2>1. SUFFICES ASSUME Known, [Next]_vars PROVE (pc = "cut" /\ UNCHANGED file) \/ pc' # "cut"
    BY DEF Known
  <2>. QED
    BY <2>1 DEF Next, Cut, Step, Rollback, State, ToolCall, Again, Fails, Start, Skip, Load,
                RunSession, Through, Judge, WriteRow, Return, Kill, Calling, task, vars
<1>3. Known => TasksAreWellCut
  BY WellCut DEF TasksAreWellCut
<1>. QED
  BY <1>1, <1>2, <1>3, PTL DEF Spec

-----------------------------------------------------------------------------
(***************************************************************************)
(* What the gate reads.                                                    *)
(***************************************************************************)
\* A function can be defined from each argument to the next.
LEMMA RecursionExists ==
  ASSUME NEW A, NEW a \in A, NEW m \in Nat, NEW g \in [1..m -> [A -> A]]
  PROVE  \E f \in [0..m -> A] : f[0] = a /\ \A i \in 1..m : f[i] = g[i][f[i - 1]]
<1>. DEFINE Is(f, k) == f[0] = a /\ \A i \in 1..k : f[i] = g[i][f[i - 1]]
            G == {k \in 0..m : \E f \in [0..k -> A] : Is(f, k)}
<1>1. 0 \in G
  <2>. DEFINE z == [i \in 0..0 |-> a]
  <2>1. Is(z, 0) /\ z \in [0..0 -> A] /\ 0 \in 0..m
    OBVIOUS
  <2>. HIDE DEF z
  <2>. QED
    BY <2>1
<1>2. ASSUME NEW k \in 1..m, k - 1 \in G PROVE k \in G
  <2>1. PICK f \in [0..k - 1 -> A] : Is(f, k - 1)
    BY <1>2
  <2>. DEFINE h == [i \in 0..k |-> IF i = k THEN g[k][f[k - 1]] ELSE f[i]]
  <2>2. /\ h[k] = g[k][f[k - 1]] /\ \A i \in 0..k - 1 : h[i] = f[i]
        /\ h \in [0..k -> A] /\ 0 \in 0..k - 1 /\ k - 1 \in 0..k - 1
    <3>1. k - 1 \in 0..k - 1 /\ 0 \in 0..k - 1 /\ k \in 0..k /\ k \notin 0..k - 1
      OBVIOUS
    <3>2. f[k - 1] \in A /\ g[k] \in [A -> A]
      BY <2>1, <3>1
    <3>3. g[k][f[k - 1]] \in A
      BY <3>2
    <3>4. \A i \in 0..k : i = k \/ i \in 0..k - 1
      OBVIOUS
    <3>. QED
      BY <2>1, <3>1, <3>3, <3>4
  <2>. HIDE DEF h
  <2>3. ASSUME NEW i \in 1..k PROVE h[i] = g[i][h[i - 1]]
    <3>1. i - 1 \in 0..k - 1 /\ (i = k \/ (i \in 1..k - 1 /\ i \in 0..k - 1))
      OBVIOUS
    <3>2. CASE i = k
      BY <2>2, <3>2
    <3>3. CASE i \in 1..k - 1 /\ i \in 0..k - 1
      BY <2>1, <2>2, <3>1, <3>3
    <3>. QED
      BY <3>1, <3>2, <3>3
  <2>4. Is(h, k) /\ k \in 0..m
    BY <2>1, <2>2, <2>3
  <2>. QED
    BY <2>2, <2>4
<1>3. m \in G
  <2>. HIDE DEF G
  <2>1. 0..m \subseteq G
    BY <1>1, <1>2, EveryPosition
  <2>. QED
    BY <2>1
<1>. QED
  BY <1>3

\* What strip_comments knows behind each symbol of a text of symbols in T.
Reader(T) == [out : Seq(T), depth : Nat, inString : BOOLEAN, ahead : BOOLEAN]

Reading(src) ==
  CHOOSE f : f = [i \in 0..Len(src) |-> IF i = 0 THEN Unread ELSE ReadOn(src, i, f[i - 1])]

LEMMA ReadOnType ==
  ASSUME NEW T, Blank \in T, NEW src \in Seq(T), NEW i \in 1..Len(src), NEW s \in Reader(T)
  PROVE  ReadOn(src, i, s) \in Reader(T)
<1>1. src[i] \in T
  OBVIOUS
<1>2. Append(s.out, Blank) \in Seq(T) /\ Append(s.out, src[i]) \in Seq(T)
  BY <1>1 DEF Reader
<1>3. s.depth \in Nat /\ (s.depth > 0 => s.depth - 1 \in Nat) /\ s.depth + 1 \in Nat
  BY DEF Reader
<1>4. (src[i] # Quote) \in BOOLEAN
  OBVIOUS
<1>. QED
  BY <1>2, <1>3, <1>4 DEF Reader, ReadOn

LEMMA ReadingExists ==
  ASSUME NEW R, NEW src
  PROVE  Unread \in R /\ Len(src) \in Nat
         /\ (\A i \in 1..Len(src) : \A s \in R : ReadOn(src, i, s) \in R)
         => \E f \in [0..Len(src) -> R] :
              f[0] = Unread /\ \A i \in 1..Len(src) : f[i] = ReadOn(src, i, f[i - 1])
<1>. DEFINE L == Len(src)
            g == [i \in 1..L |-> [s \in R |-> ReadOn(src, i, s)]]
<1>0. SUFFICES ASSUME Unread \in R, L \in Nat, \A i \in 1..L : \A s \in R : ReadOn(src, i, s) \in R
      PROVE  \E f \in [0..L -> R] : f[0] = Unread /\ \A i \in 1..L : f[i] = ReadOn(src, i, f[i - 1])
  OBVIOUS
<1>1. L \in Nat /\ Unread \in R /\ g \in [1..L -> [R -> R]]
  BY <1>0
<1>2. \E f \in [0..L -> R] : f[0] = Unread /\ \A i \in 1..L : f[i] = g[i][f[i - 1]]
  <2>. HIDE DEF g, L
  <2>. QED
    BY <1>1, RecursionExists
<1>3. PICK f \in [0..L -> R] : f[0] = Unread /\ \A i \in 1..L : f[i] = g[i][f[i - 1]]
  BY <1>2
<1>4. ASSUME NEW i \in 1..L PROVE f[i] = ReadOn(src, i, f[i - 1])
  <2>1. f[i - 1] \in R
    BY <1>1
  <2>. QED
    BY <1>3, <2>1
<1>. QED
  BY <1>3, <1>4

LEMMA ReadingIs ==
  ASSUME NEW T, Blank \in T, NEW src \in Seq(T)
  PROVE  /\ strip_comments(src) = Reading(src)[Len(src)].out
         /\ Reading(src)[0] = Unread
         /\ \A i \in 1..Len(src) : Reading(src)[i] = ReadOn(src, i, Reading(src)[i - 1])
         /\ \A i \in 0..Len(src) : Reading(src)[i] \in Reader(T)
<1>. DEFINE L == Len(src)
            Is(f) == f = [i \in 0..L |-> IF i = 0 THEN Unread ELSE ReadOn(src, i, f[i - 1])]
<1>0. L \in Nat
  OBVIOUS
<1>1. Unread \in Reader(T)
  BY DEF Unread, Reader
<1>2. \A i \in 1..L : \A s \in Reader(T) : ReadOn(src, i, s) \in Reader(T)
  BY ReadOnType
<1>3. PICK f \in [0..L -> Reader(T)] : f[0] = Unread /\ \A i \in 1..L : f[i] = ReadOn(src, i, f[i - 1])
  BY <1>0, <1>1, <1>2, ReadingExists
<1>5. Is(f)
  <2>1. ASSUME NEW i \in 0..L PROVE f[i] = IF i = 0 THEN Unread ELSE ReadOn(src, i, f[i - 1])
    <3>1. i = 0 \/ i \in 1..L
      BY <1>0
    <3>. QED
      BY <1>3, <3>1
  <2>2. f = [i \in 0..L |-> f[i]]
    OBVIOUS
  <2>. QED
    BY <2>1, <2>2
<1>6. Is(Reading(src))
  BY <1>5, Zenon DEF Reading
<1>7. strip_comments(src) = Reading(src)[L].out
  BY Zenon DEF strip_comments, Reading
<1>. DEFINE r == Reading(src)
<1>. HIDE DEF r
<1>8. \A i \in 0..L : r[i] = IF i = 0 THEN Unread ELSE ReadOn(src, i, r[i - 1])
  BY <1>6 DEF r
<1>9. r[0] = Unread
  BY <1>0, <1>8
<1>10. ASSUME NEW i \in 1..L PROVE r[i] = ReadOn(src, i, r[i - 1])
  <2>1. i \in 0..L /\ i # 0
    BY <1>0
  <2>. QED
    BY <1>8, <2>1
<1>11. \A i \in 0..L : r[i] \in Reader(T)
  <2>. DEFINE G == {i \in 0..L : r[i] \in Reader(T)}
  <2>1. 0 \in G
    BY <1>0, <1>1, <1>9
  <2>2. ASSUME NEW i \in 1..L, i - 1 \in G PROVE i \in G
    BY <1>0, <1>10, <2>2, ReadOnType
  <2>. HIDE DEF G
  <2>3. 0..L \subseteq G
    BY <1>0, <2>1, <2>2, EveryPosition
  <2>. QED
    BY <2>3 DEF G
<1>. QED
  BY <1>7, <1>9, <1>10, <1>11 DEF r

\* A text occurs behind position i of another.
Occurs(t, src, i) == i + Len(t) <= Len(src) /\ \A j \in 1..Len(t) : src[i + j] = t[j]

LEMMA OccursConcat ==
  ASSUME NEW T, NEW t \in Seq(T), NEW r \in Seq(T), NEW src \in Seq(T), NEW i \in Nat,
         Occurs(t \o r, src, i)
  PROVE  Occurs(t, src, i) /\ Occurs(r, src, i + Len(t)) /\ Len(t \o r) = Len(t) + Len(r)
<1>. DEFINE c == t \o r
<1>1. /\ Len(t) \in Nat /\ Len(r) \in Nat /\ Len(c) = Len(t) + Len(r) /\ Len(src) \in Nat
      /\ \A j \in 1..Len(t) : c[j] = t[j]
      /\ \A j \in 1..Len(r) : c[Len(t) + j] = r[j]
  OBVIOUS
<1>. HIDE DEF c
<1>2. i + Len(c) <= Len(src) /\ \A j \in 1..Len(c) : src[i + j] = c[j]
  BY DEF Occurs, c
<1>3. Occurs(t, src, i)
  <2>1. \A j \in 1..Len(t) : j \in 1..Len(c)
    BY <1>1
  <2>. QED
    BY <1>1, <1>2, <2>1 DEF Occurs
<1>4. Occurs(r, src, i + Len(t))
  <2>1. ASSUME NEW j \in 1..Len(r) PROVE src[(i + Len(t)) + j] = r[j]
    <3>1. Len(t) + j \in 1..Len(c) /\ i + (Len(t) + j) = (i + Len(t)) + j
      BY <1>1
    <3>. QED
      BY <1>1, <1>2, <3>1
  <2>. QED
    BY <1>1, <1>2, <2>1 DEF Occurs
<1>. QED
  BY <1>1, <1>3, <1>4 DEF c

Special == {"(", "*", ")", Quote}

\* Outside of strings, and inside of one; between symbols that are read together
\* it is neither.
Quiet(s)    == ~s.inString /\ ~s.ahead
InString(s) == s.inString /\ ~s.ahead

Words(s) == {s.out[k] : k \in DOMAIN s.out} \cap Forbidden

\* In u there is what was in s and, if that is outside of comments, a text with
\* this code.
HasRead(s, u, code) ==
  /\ u.depth = s.depth
  /\ Words(u) = Words(s) \cup (IF s.depth = 0 THEN code \cap Forbidden ELSE {})

NoQuoteAt(src, i) == i <= Len(src) => src[i] # Quote

\* What is read where.
LEMMA OneMoreWord ==
  ASSUME NEW T, NEW s \in Reader(T), NEW x \in T, NEW u, u.out = Append(s.out, x)
  PROVE  Words(u) = Words(s) \cup ({x} \cap Forbidden)
<1>1. s.out \in Seq(T)
  BY DEF Reader
<1>. DEFINE o == s.out
            a == Append(o, x)
<1>2. /\ Len(o) \in Nat /\ DOMAIN o = 1..Len(o) /\ DOMAIN a = 1..Len(o) + 1
      /\ a[Len(o) + 1] = x /\ \A k \in 1..Len(o) : a[k] = o[k]
  BY <1>1
<1>. HIDE DEF a, o
<1>3. {a[k] : k \in DOMAIN a} = {o[k] : k \in DOMAIN o} \cup {x}
  <2>1. \A k \in DOMAIN a : k \in DOMAIN o \/ k = Len(o) + 1
    BY <1>2
  <2>2. \A k \in DOMAIN o : k \in DOMAIN a /\ a[k] = o[k]
    BY <1>2
  <2>3. Len(o) + 1 \in DOMAIN a
    BY <1>2
  <2>. QED
    BY <1>2, <2>1, <2>2, <2>3
<1>4. Words(u) = {a[k] : k \in DOMAIN a} \cap Forbidden /\ Words(s) = {o[k] : k \in DOMAIN o} \cap Forbidden
  BY DEF Words, a, o
<1>. QED
  BY <1>3, <1>4

LEMMA ReadNext ==
  ASSUME NEW T, Blank \in T, NEW src \in Seq(T), NEW m \in Nat, m + 1 <= Len(src)
  PROVE  /\ Reading(src)[m] \in Reader(T)
         /\ Reading(src)[m + 1] = ReadOn(src, m + 1, Reading(src)[m])
         /\ src[m + 1] \in T
<1>1. m + 1 \in 1..Len(src) /\ (m + 1) - 1 = m /\ m \in 0..Len(src)
  OBVIOUS
<1>. QED
  BY <1>1, ReadingIs

LEMMA ReaderFields ==
  ASSUME NEW T, NEW s \in Reader(T)
  PROVE  /\ s.out \in Seq(T) /\ s.depth \in Nat /\ s.inString \in BOOLEAN /\ s.ahead \in BOOLEAN
         /\ s = [out |-> s.out, depth |-> s.depth, inString |-> s.inString, ahead |-> s.ahead]
BY DEF Reader

LEMMA ReadWord ==
  ASSUME NEW T, Blank \in T, NEW src \in Seq(T), NEW m \in Nat, m + 1 <= Len(src),
         Quiet(Reading(src)[m]), src[m + 1] \notin Special
  PROVE  Quiet(Reading(src)[m + 1]) /\ HasRead(Reading(src)[m], Reading(src)[m + 1], {src[m + 1]})
<1>. DEFINE s == Reading(src)[m]
            u == Reading(src)[m + 1]
            x == src[m + 1]
<1>1. s \in Reader(T) /\ u = ReadOn(src, m + 1, s) /\ x \in T
  BY ReadNext
<1>2. Quiet(s) /\ x \notin Special /\ s.out \in Seq(T)
  BY <1>1, ReaderFields
<1>3. u = [s EXCEPT !.out = IF s.depth = 0 THEN Append(s.out, x) ELSE s.out]
  <2>. HIDE DEF s, u
  <2>. QED
    BY <1>1, <1>2 DEF ReadOn, Quiet, Special, OpensString
<1>. HIDE DEF s, u, x
<1>4. Quiet(u) /\ u.depth = s.depth /\ u.out = IF s.depth = 0 THEN Append(s.out, x) ELSE s.out
  BY <1>1, <1>2, <1>3 DEF Quiet, Reader
<1>5. s.depth = 0 => Words(u) = Words(s) \cup ({x} \cap Forbidden)
  BY <1>1, <1>4, OneMoreWord
<1>6. s.depth # 0 => Words(u) = Words(s)
  BY <1>4 DEF Words
<1>7. Quiet(u) /\ HasRead(s, u, {x})
  BY <1>4, <1>5, <1>6 DEF HasRead
<1>. QED
  BY <1>7 DEF s, u, x

LEMMA ReadOpening ==
  ASSUME NEW T, Blank \in T, NEW src \in Seq(T), NEW m \in Nat, m + 1 <= Len(src),
         Quiet(Reading(src)[m]), src[m + 1] = Quote
  PROVE  InString(Reading(src)[m + 1]) /\ HasRead(Reading(src)[m], Reading(src)[m + 1], {})
<1>. DEFINE s == Reading(src)[m]
            u == Reading(src)[m + 1]
<1>1. s \in Reader(T) /\ u = ReadOn(src, m + 1, s)
  BY ReadNext
<1>2. Quiet(s) /\ s.out \in Seq(T)
  BY <1>1, ReaderFields
<1>. HIDE DEF s, u
<1>3. u = [s EXCEPT !.inString = TRUE, !.out = IF s.depth = 0 THEN Append(s.out, Blank) ELSE s.out]
  BY <1>1, <1>2 DEF ReadOn, Quiet, OpensString
<1>4. InString(u) /\ u.depth = s.depth /\ u.out = IF s.depth = 0 THEN Append(s.out, Blank) ELSE s.out
  BY <1>1, <1>2, <1>3 DEF Quiet, InString, Reader
<1>5. s.depth = 0 => Words(u) = Words(s) \cup ({Blank} \cap Forbidden)
  BY <1>1, <1>4, OneMoreWord
<1>6. s.depth # 0 => Words(u) = Words(s)
  BY <1>4 DEF Words
<1>7. {Blank} \cap Forbidden = {}
  BY DEF Blank, Forbidden
<1>8. InString(u) /\ HasRead(s, u, {})
  BY <1>4, <1>5, <1>6, <1>7 DEF HasRead
<1>. QED
  BY <1>8 DEF s, u

LEMMA ReadClosing ==
  ASSUME NEW T, Blank \in T, NEW src \in Seq(T), NEW m \in Nat, m + 1 <= Len(src),
         InString(Reading(src)[m]), src[m + 1] = Quote, NoQuoteAt(src, m + 2)
  PROVE  Quiet(Reading(src)[m + 1]) /\ HasRead(Reading(src)[m], Reading(src)[m + 1], {})
<1>. DEFINE s == Reading(src)[m]
            u == Reading(src)[m + 1]
            a == m + 1
<1>1. s \in Reader(T) /\ u = ReadOn(src, a, s)
  BY ReadNext
<1>2. InString(s) /\ src[a] = Quote /\ ~(a < Len(src) /\ src[a + 1] = Quote)
  BY DEF NoQuoteAt
<1>. HIDE DEF s, u, a
<1>3. u = [s EXCEPT !.inString = FALSE]
  BY <1>1, <1>2 DEF ReadOn, InString
<1>4. Quiet(u) /\ u.depth = s.depth /\ u.out = s.out
  BY <1>1, <1>2, <1>3 DEF InString, Quiet, Reader
<1>5. Quiet(u) /\ HasRead(s, u, {})
  BY <1>4 DEF HasRead, Words
<1>. QED
  BY <1>5 DEF s, u, a

\* Two symbols that are read together.
LEMMA ReadPair ==
  ASSUME NEW T, Blank \in T, NEW src \in Seq(T), NEW i \in 1..Len(src), i < Len(src)
  PROVE  LET s == Reading(src)[i - 1]
             u == Reading(src)[i + 1]
         IN  /\ InString(s) /\ src[i] = Quote /\ src[i + 1] = Quote => u = s
             /\ Quiet(s) /\ src[i] = "(" /\ src[i + 1] = "*"
                  => Quiet(u) /\ u.out = s.out /\ u.depth = s.depth + 1
             /\ Quiet(s) /\ s.depth > 0 /\ src[i] = "*" /\ src[i + 1] = ")"
                  => Quiet(u) /\ u.out = s.out /\ u.depth = s.depth - 1
<1>. DEFINE s == Reading(src)[i - 1]
            v == Reading(src)[i]
            u == Reading(src)[i + 1]
<1>1. i - 1 \in 0..Len(src) /\ i + 1 \in 1..Len(src) /\ (i + 1) - 1 = i
  OBVIOUS
<1>2. /\ s \in Reader(T) /\ v \in Reader(T) /\ u \in Reader(T)
      /\ v = ReadOn(src, i, s) /\ u = ReadOn(src, i + 1, v)
  BY <1>1, ReadingIs
<1>. HIDE DEF s, v, u
<1>3. ASSUME v.ahead
      PROVE  u.out = v.out /\ u.depth = v.depth /\ u.inString = v.inString /\ ~u.ahead
  <2>1. u = [v EXCEPT !.ahead = FALSE]
    BY <1>2, <1>3 DEF ReadOn
  <2>. QED
    BY <1>2, <2>1 DEF Reader
<1>4. ASSUME InString(s), src[i] = Quote, src[i + 1] = Quote
      PROVE  u = s
  <2>1. v = [s EXCEPT !.ahead = TRUE]
    BY <1>2, <1>4 DEF ReadOn, InString
  <2>2. v.ahead /\ v.out = s.out /\ v.depth = s.depth /\ v.inString = s.inString
    BY <1>2, <2>1 DEF Reader
  <2>3. u.out = s.out /\ u.depth = s.depth /\ u.inString = s.inString /\ u.ahead = s.ahead
    BY <1>2, <1>3, <1>4, <2>2 DEF InString, Reader
  <2>. QED
    BY <1>2, <2>3 DEF Reader
<1>5. ASSUME Quiet(s), src[i] = "(", src[i + 1] = "*"
      PROVE  Quiet(u) /\ u.out = s.out /\ u.depth = s.depth + 1
  <2>1. v = [s EXCEPT !.depth = @ + 1, !.ahead = TRUE]
    BY <1>2, <1>5 DEF ReadOn, Quiet, OpensString, Quote
  <2>2. v.ahead /\ v.out = s.out /\ v.depth = s.depth + 1 /\ v.inString = s.inString
    BY <1>2, <2>1 DEF Reader
  <2>. QED
    BY <1>3, <1>5, <2>2 DEF Quiet
<1>6. ASSUME Quiet(s), s.depth > 0, src[i] = "*", src[i + 1] = ")"
      PROVE  Quiet(u) /\ u.out = s.out /\ u.depth = s.depth - 1
  <2>1. v = [s EXCEPT !.depth = @ - 1, !.ahead = TRUE]
    BY <1>2, <1>6 DEF ReadOn, Quiet, OpensString, Quote
  <2>2. v.ahead /\ v.out = s.out /\ v.depth = s.depth - 1 /\ v.inString = s.inString
    BY <1>2, <2>1 DEF Reader
  <2>. QED
    BY <1>3, <1>6, <2>2 DEF Quiet
<1>. QED
  BY <1>4, <1>5, <1>6 DEF s, u

\* The inside of a string, in which quotes are doubled, and what else can be written
\* with the symbols in T and what of it is code: each the smallest set that is
\* closed under these ways to write.
Quoted(T) ==
  {t \in Seq(T) : \A S \in SUBSET Seq(T) :
     /\ <<>> \in S
     /\ \A s \in S : s \o <<Quote, Quote>> \in S /\ \A x \in T \ {Quote} : s \o <<x>> \in S
     => t \in S}

Text(T) == [text : Seq(T) \ {<<>>}, code : SUBSET T]

EndsInQuote(p) == p.text[Len(p.text)] = Quote

Grows(S, T) ==
  /\ \A w \in T \ Special : Word(w) \in S
  /\ \A t \in Quoted(T) : Str(t) \in S
  /\ \A p \in S : Com(p.text) \in S
  /\ \A p, q \in S : ~EndsInQuote(p) \/ q.text[1] # Quote => Both(p, q) \in S

Written(T) == {p \in Text(T) : \A S \in SUBSET Text(T) : Grows(S, T) => p \in S}

\* A text is read as it is meant, wherever it stands.
IsRead(T, p) ==
  \A src \in Seq(T) : \A i \in 0..Len(src) :
    LET s == Reading(src)[i]
        u == Reading(src)[i + Len(p.text)]
    IN  /\ Occurs(p.text, src, i) /\ Quiet(s)
        /\ EndsInQuote(p) => NoQuoteAt(src, i + Len(p.text) + 1)
        => Quiet(u) /\ HasRead(s, u, p.code)

LEMMA WordIsRead ==
  ASSUME NEW T, Blank \in T, NEW w \in T \ Special
  PROVE  IsRead(T, Word(w))
<1>. DEFINE p == Word(w)
<1>1. Len(p.text) = 1 /\ p.text[1] = w /\ p.code = {w}
  BY DEF Word
<1>. HIDE DEF p
<1>2. ASSUME NEW src \in Seq(T), NEW i \in 0..Len(src), Occurs(p.text, src, i), Quiet(Reading(src)[i])
      PROVE  Quiet(Reading(src)[i + 1]) /\ HasRead(Reading(src)[i], Reading(src)[i + 1], p.code)
  <2>1. i \in Nat /\ i + 1 <= Len(src) /\ src[i + 1] = w
    BY <1>1, <1>2 DEF Occurs
  <2>2. src[i + 1] \notin Special /\ p.code = {src[i + 1]}
    BY <1>1, <2>1
  <2>3. Quiet(Reading(src)[i + 1]) /\ HasRead(Reading(src)[i], Reading(src)[i + 1], {src[i + 1]})
    BY <1>2, <2>1, <2>2, ReadWord
  <2>. QED
    BY <2>2, <2>3
<1>3. IsRead(T, p)
  BY <1>1, <1>2 DEF IsRead
<1>. QED
  BY <1>3 DEF p

\* The inside of a string is passed over.
LEMMA PassSymbol ==
  ASSUME NEW T, Blank \in T, NEW src \in Seq(T), NEW m \in Nat, m + 1 <= Len(src),
         src[m + 1] # Quote, InString(Reading(src)[m])
  PROVE  Reading(src)[m + 1] = Reading(src)[m]
<1>. DEFINE s == Reading(src)[m]
            u == Reading(src)[m + 1]
<1>1. s \in Reader(T) /\ u = ReadOn(src, m + 1, s) /\ InString(s)
  BY ReadNext
<1>. HIDE DEF s, u
<1>2. s = [s EXCEPT !.inString = TRUE]
  BY <1>1 DEF Reader, InString
<1>3. u = [s EXCEPT !.inString = TRUE]
  BY <1>1, <1>2 DEF ReadOn, InString
<1>. QED
  BY <1>2, <1>3 DEF s, u

LEMMA PassPair ==
  ASSUME NEW T, Blank \in T, NEW src \in Seq(T), NEW m \in Nat, m + 2 <= Len(src),
         src[m + 1] = Quote, src[m + 2] = Quote, InString(Reading(src)[m])
  PROVE  Reading(src)[m + 2] = Reading(src)[m]
<1>. DEFINE a == m + 1
<1>1. /\ a \in 1..Len(src) /\ a < Len(src) /\ a - 1 = m /\ a + 1 = m + 2
      /\ src[a] = Quote /\ src[a + 1] = Quote
  OBVIOUS
<1>. HIDE DEF a
<1>2. InString(Reading(src)[a - 1]) => Reading(src)[a + 1] = Reading(src)[a - 1]
  BY <1>1, ReadPair
<1>. QED
  BY <1>1, <1>2

PassedOver(src, r) ==
  \A k \in 0..Len(src) : Occurs(r, src, k) /\ InString(Reading(src)[k])
                            => Reading(src)[k + Len(r)] = Reading(src)[k]

LEMMA PassConcat ==
  ASSUME NEW T, NEW r \in Seq(T), NEW q \in Seq(T), NEW src \in Seq(T),
         PassedOver(src, r), PassedOver(src, q)
  PROVE  PassedOver(src, r \o q)
<1>. SUFFICES ASSUME NEW k \in 0..Len(src), Occurs(r \o q, src, k), InString(Reading(src)[k])
     PROVE  Reading(src)[k + Len(r \o q)] = Reading(src)[k]
  BY DEF PassedOver
<1>1. k \in Nat /\ Len(r) \in Nat /\ Len(q) \in Nat /\ Len(src) \in Nat
  OBVIOUS
<1>2. Occurs(r, src, k) /\ Occurs(q, src, k + Len(r)) /\ Len(r \o q) = Len(r) + Len(q)
  BY <1>1, OccursConcat
<1>3. Reading(src)[k + Len(r)] = Reading(src)[k]
  BY <1>2 DEF PassedOver
<1>. DEFINE m == k + Len(r)
<1>4. m \in 0..Len(src) /\ k + (Len(r) + Len(q)) = m + Len(q)
  BY <1>1, <1>2 DEF Occurs
<1>5. Reading(src)[m + Len(q)] = Reading(src)[m]
  BY <1>2, <1>3, <1>4 DEF PassedOver
<1>. QED
  BY <1>2, <1>3, <1>4, <1>5

LEMMA QuotedIsRead ==
  ASSUME NEW T, Blank \in T, Special \subseteq T, NEW t \in Quoted(T),
         NEW src \in Seq(T), NEW i \in 0..Len(src), Occurs(t, src, i), InString(Reading(src)[i])
  PROVE  Reading(src)[i + Len(t)] = Reading(src)[i]
<1>. DEFINE S == {r \in Seq(T) : PassedOver(src, r)}
<1>0. Len(src) \in Nat
  OBVIOUS
<1>1. <<>> \in S
  BY DEF PassedOver
<1>2. ASSUME NEW r \in Seq(T), PassedOver(src, r), NEW q \in Seq(T), PassedOver(src, q)
      PROVE  r \o q \in S
  BY <1>2, PassConcat
<1>3. <<Quote, Quote>> \in Seq(T) /\ PassedOver(src, <<Quote, Quote>>)
  <2>. DEFINE q == <<Quote, Quote>>
  <2>1. q \in Seq(T) /\ Len(q) = 2 /\ q[1] = Quote /\ q[2] = Quote
    BY DEF Special
  <2>. HIDE DEF q
  <2>2. ASSUME NEW k \in 0..Len(src), Occurs(q, src, k), InString(Reading(src)[k])
        PROVE  Reading(src)[k + Len(q)] = Reading(src)[k]
    <3>1. k \in Nat /\ k + 2 <= Len(src) /\ src[k + 1] = Quote /\ src[k + 2] = Quote
      BY <1>0, <2>1, <2>2 DEF Occurs
    <3>. QED
      BY <2>1, <2>2, <3>1, PassPair
  <2>. QED
    BY <2>1, <2>2 DEF q, PassedOver
<1>4. ASSUME NEW x \in T \ {Quote} PROVE <<x>> \in Seq(T) /\ PassedOver(src, <<x>>)
  <2>. DEFINE q == <<x>>
  <2>1. q \in Seq(T) /\ Len(q) = 1 /\ q[1] = x
    OBVIOUS
  <2>. HIDE DEF q
  <2>2. ASSUME NEW k \in 0..Len(src), Occurs(q, src, k), InString(Reading(src)[k])
        PROVE  Reading(src)[k + Len(q)] = Reading(src)[k]
    <3>1. k \in Nat /\ k + 1 <= Len(src) /\ src[k + 1] = x /\ x # Quote
      BY <1>0, <2>1, <2>2 DEF Occurs
    <3>. QED
      BY <2>1, <2>2, <3>1, PassSymbol
  <2>. QED
    BY <2>1, <2>2 DEF q, PassedOver
<1>5. S \in SUBSET Seq(T) /\ \A s \in S : s \in Seq(T) /\ PassedOver(src, s)
  OBVIOUS
<1>6. t \in S
  <2>. HIDE DEF S
  <2>1. \A s \in S : s \o <<Quote, Quote>> \in S
    BY <1>2, <1>3, <1>5
  <2>2. \A s \in S : \A x \in T \ {Quote} : s \o <<x>> \in S
    BY <1>2, <1>4, <1>5
  <2>. QED
    BY <1>1, <1>5, <2>1, <2>2, Zenon DEF Quoted
<1>. QED
  BY <1>6 DEF PassedOver

LEMMA ReadTwice ==
  ASSUME NEW s, NEW u, NEW w, NEW c, NEW d, HasRead(s, u, c), HasRead(u, w, d)
  PROVE  HasRead(s, w, c \cup d)
BY DEF HasRead

LEMMA StrIsRead ==
  ASSUME NEW T, Blank \in T, Special \subseteq T, NEW t \in Quoted(T)
  PROVE  IsRead(T, Str(t))
<1>. DEFINE q == <<Quote>>
            a == q \o t
<1>1. t \in Seq(T) /\ q \in Seq(T) /\ Len(q) = 1 /\ q[1] = Quote
  BY DEF Quoted, Special
<1>2. Str(t).text = a \o q /\ Str(t).code = {}
  BY DEF Str
<1>3. a \in Seq(T) /\ Len(a) = 1 + Len(t) /\ Len(a \o q) = Len(t) + 2 /\ Len(t) \in Nat
  BY <1>1
<1>. HIDE DEF q
<1>4. ASSUME NEW src \in Seq(T), NEW i \in 0..Len(src), Occurs(a \o q, src, i),
             Quiet(Reading(src)[i]), NoQuoteAt(src, i + Len(a \o q) + 1)
      PROVE  /\ Quiet(Reading(src)[i + Len(a \o q)])
             /\ HasRead(Reading(src)[i], Reading(src)[i + Len(a \o q)], {})
  <2>0. i \in Nat /\ Len(src) \in Nat
    OBVIOUS
  <2>1. Occurs(a, src, i) /\ Occurs(q, src, i + Len(a))
    <3>. HIDE DEF a
    <3>. QED
      BY <1>1, <1>3, <1>4, <2>0, OccursConcat
  <2>2. Occurs(q, src, i) /\ Occurs(t, src, i + Len(q))
    BY <1>1, <2>0, <2>1, OccursConcat
  <2>. HIDE DEF a
  <2>. DEFINE m == i + (Len(t) + 1)
  <2>3. /\ i + 1 <= Len(src) /\ src[i + 1] = Quote /\ i + 1 \in 0..Len(src)
        /\ m \in Nat /\ m + 1 <= Len(src) /\ src[m + 1] = Quote
        /\ (i + 1) + Len(t) = m /\ i + Len(a \o q) = m + 1 /\ i + Len(a \o q) + 1 = m + 2
        /\ Occurs(t, src, i + 1)
    BY <1>1, <1>3, <2>0, <2>1, <2>2 DEF Occurs
  <2>4. InString(Reading(src)[i + 1]) /\ HasRead(Reading(src)[i], Reading(src)[i + 1], {})
    BY <1>4, <2>0, <2>3, ReadOpening
  <2>. HIDE DEF m
  <2>5. Reading(src)[m] = Reading(src)[i + 1]
    BY <2>3, <2>4, QuotedIsRead
  <2>6. Quiet(Reading(src)[m + 1]) /\ HasRead(Reading(src)[m], Reading(src)[m + 1], {})
    BY <1>4, <2>3, <2>4, <2>5, ReadClosing
  <2>7. HasRead(Reading(src)[i], Reading(src)[m + 1], {} \cup {})
    BY <2>4, <2>5, <2>6, ReadTwice
  <2>. QED
    BY <2>3, <2>6, <2>7
<1>. DEFINE p == Str(t)
<1>5. p.text = a \o q /\ p.code = {} /\ EndsInQuote(p)
  <2>1. (a \o q)[Len(a \o q)] = Quote
    BY <1>1, <1>3
  <2>. HIDE DEF a
  <2>. QED
    BY <1>2, <2>1 DEF EndsInQuote
<1>. HIDE DEF a, p
<1>6. IsRead(T, p)
  BY <1>4, <1>5 DEF IsRead
<1>. QED
  BY <1>6 DEF p

\* Where a comment begins, and where it ends.
LEMMA ReadIn ==
  ASSUME NEW T, Blank \in T, NEW src \in Seq(T), NEW m \in Nat, m + 2 <= Len(src),
         src[m + 1] = "(", src[m + 2] = "*", Quiet(Reading(src)[m])
  PROVE  /\ Quiet(Reading(src)[m + 2]) /\ Reading(src)[m + 2].out = Reading(src)[m].out
         /\ Reading(src)[m + 2].depth = Reading(src)[m].depth + 1
<1>. DEFINE a == m + 1
<1>1. /\ a \in 1..Len(src) /\ a < Len(src) /\ a - 1 = m /\ a + 1 = m + 2
      /\ src[a] = "(" /\ src[a + 1] = "*" /\ Quiet(Reading(src)[a - 1])
  OBVIOUS
<1>. HIDE DEF a
<1>2. /\ Quiet(Reading(src)[a + 1]) /\ Reading(src)[a + 1].out = Reading(src)[a - 1].out
      /\ Reading(src)[a + 1].depth = Reading(src)[a - 1].depth + 1
  BY <1>1, ReadPair
<1>. QED
  BY <1>1, <1>2

LEMMA ReadOut ==
  ASSUME NEW T, Blank \in T, NEW src \in Seq(T), NEW m \in Nat, m + 2 <= Len(src),
         src[m + 1] = "*", src[m + 2] = ")", Quiet(Reading(src)[m]), Reading(src)[m].depth > 0
  PROVE  /\ Quiet(Reading(src)[m + 2]) /\ Reading(src)[m + 2].out = Reading(src)[m].out
         /\ Reading(src)[m + 2].depth = Reading(src)[m].depth - 1
<1>. DEFINE a == m + 1
<1>1. /\ a \in 1..Len(src) /\ a < Len(src) /\ a - 1 = m /\ a + 1 = m + 2
      /\ src[a] = "*" /\ src[a + 1] = ")" /\ Quiet(Reading(src)[a - 1]) /\ Reading(src)[a - 1].depth > 0
  OBVIOUS
<1>. HIDE DEF a
<1>2. /\ Quiet(Reading(src)[a + 1]) /\ Reading(src)[a + 1].out = Reading(src)[a - 1].out
      /\ Reading(src)[a + 1].depth = Reading(src)[a - 1].depth - 1
  BY <1>1, ReadPair
<1>. QED
  BY <1>1, <1>2

LEMMA FullConcat ==
  ASSUME NEW T, NEW a \in Seq(T), NEW b \in Seq(T)
  PROVE  a \o b \in Seq(T) /\ Len(a \o b) = Len(a) + Len(b) /\ (b # <<>> => a \o b # <<>>)
<1>1. /\ Len(a) \in Nat /\ Len(b) \in Nat /\ a \o b \in Seq(T) /\ Len(a \o b) = Len(a) + Len(b)
      /\ (b # <<>> => Len(b) # 0)
  OBVIOUS
<1>2. b # <<>> => Len(a \o b) # 0
  BY <1>1
<1>. QED
  BY <1>1, <1>2

LEMMA ComIsRead ==
  ASSUME NEW T, Blank \in T, Special \subseteq T, NEW p \in Text(T), IsRead(T, p)
  PROVE  IsRead(T, Com(p.text))
<1>. DEFINE b == <<"(", "*">>
            e == <<"*", ")">>
            t == p.text
            a == b \o t
<1>1. /\ t \in Seq(T) /\ Len(t) \in Nat
      /\ b \in Seq(T) /\ Len(b) = 2 /\ b[1] = "(" /\ b[2] = "*"
      /\ e \in Seq(T) /\ Len(e) = 2 /\ e[1] = "*" /\ e[2] = ")"
  BY DEF Text, Special
<1>2. Com(t).text = a \o e /\ Com(t).code = {}
  BY DEF Com
<1>. HIDE DEF b, e, t
<1>3. a \in Seq(T) /\ Len(a) = 2 + Len(t) /\ Len(a \o e) = Len(t) + 4
  <2>1. a \in Seq(T) /\ Len(a) = Len(b) + Len(t)
    BY <1>1, FullConcat
  <2>. HIDE DEF a
  <2>2. Len(a \o e) = Len(a) + Len(e)
    BY <1>1, <2>1, FullConcat
  <2>. QED
    BY <1>1, <2>1, <2>2
<1>4. ASSUME NEW src \in Seq(T), NEW i \in 0..Len(src), Occurs(a \o e, src, i), Quiet(Reading(src)[i])
      PROVE  /\ Quiet(Reading(src)[i + Len(a \o e)])
             /\ HasRead(Reading(src)[i], Reading(src)[i + Len(a \o e)], {})
  <2>0. i \in Nat /\ Len(src) \in Nat
    OBVIOUS
  <2>1. Occurs(a, src, i) /\ Occurs(e, src, i + Len(a))
    <3>. HIDE DEF a
    <3>. QED
      BY <1>1, <1>3, <1>4, <2>0, OccursConcat
  <2>2. Occurs(b, src, i) /\ Occurs(t, src, i + Len(b))
    BY <1>1, <2>0, <2>1, OccursConcat
  <2>. HIDE DEF a
  <2>. DEFINE h == i + 2
              m == h + Len(t)
  <2>3. /\ h \in Nat /\ h <= Len(src) /\ src[i + 1] = "(" /\ src[i + 2] = "*" /\ h \in 0..Len(src)
        /\ m \in Nat /\ m + 2 <= Len(src) /\ src[m + 1] = "*" /\ src[m + 2] = ")" /\ m \in 0..Len(src)
        /\ i + Len(a \o e) = m + 2 /\ Occurs(t, src, h) /\ i + Len(b) = h /\ i + Len(a) = m
    BY <1>1, <1>3, <2>0, <2>1, <2>2 DEF Occurs
  <2>4. /\ Quiet(Reading(src)[h]) /\ Reading(src)[h].out = Reading(src)[i].out
        /\ Reading(src)[h].depth = Reading(src)[i].depth + 1
    BY <1>4, <2>0, <2>3, ReadIn
  <2>5. Reading(src)[i].depth \in Nat
    BY ReadingIs, ReaderFields
  <2>6. NoQuoteAt(src, m + 1)
    BY <2>3 DEF NoQuoteAt, Quote
  <2>. HIDE DEF h
  <2>7. Quiet(Reading(src)[m]) /\ HasRead(Reading(src)[h], Reading(src)[m], p.code)
    BY <2>3, <2>4, <2>6 DEF IsRead, t
  <2>. HIDE DEF m
  <2>8. Reading(src)[m].depth = Reading(src)[i].depth + 1 /\ Words(Reading(src)[m]) = Words(Reading(src)[i])
    BY <2>4, <2>5, <2>7 DEF HasRead, Words
  <2>9. /\ Quiet(Reading(src)[m + 2]) /\ Reading(src)[m + 2].out = Reading(src)[m].out
        /\ Reading(src)[m + 2].depth = Reading(src)[m].depth - 1
    BY <2>3, <2>5, <2>7, <2>8, ReadOut, SMTT(30)
  <2>10. HasRead(Reading(src)[i], Reading(src)[m + 2], {})
    BY <2>5, <2>8, <2>9 DEF HasRead, Words
  <2>. QED
    BY <2>3, <2>9, <2>10
<1>. HIDE DEF a
<1>5. IsRead(T, Com(t))
  BY <1>2, <1>4 DEF IsRead
<1>. QED
  BY <1>5 DEF t

LEMMA BothIsRead ==
  ASSUME NEW T, Blank \in T, NEW p \in Text(T), NEW q \in Text(T), IsRead(T, p), IsRead(T, q),
         ~EndsInQuote(p) \/ q.text[1] # Quote
  PROVE  IsRead(T, Both(p, q))
<1>. DEFINE t == p.text
            w == q.text
<1>1. t \in Seq(T) /\ w \in Seq(T) /\ Len(t) \in Nat /\ Len(w) \in Nat /\ 1 <= Len(w)
      /\ (~EndsInQuote(p) \/ w[1] # Quote)
  BY DEF Text
<1>2. Both(p, q).text = t \o w /\ Both(p, q).code = p.code \cup q.code
      /\ (EndsInQuote(Both(p, q)) <=> EndsInQuote(q))
  <2>1. (t \o w)[Len(t \o w)] = w[Len(w)]
    <3>. HIDE DEF t, w
    <3>. QED
      BY <1>1
  <2>2. Both(p, q).text = t \o w /\ Both(p, q).code = p.code \cup q.code
    BY DEF Both
  <2>. HIDE DEF t
  <2>. QED
    BY <2>1, <2>2 DEF EndsInQuote
<1>. HIDE DEF t, w
<1>3. ASSUME NEW src \in Seq(T), NEW i \in 0..Len(src), Occurs(t \o w, src, i), Quiet(Reading(src)[i]),
             EndsInQuote(q) => NoQuoteAt(src, i + Len(t \o w) + 1)
      PROVE  /\ Quiet(Reading(src)[i + Len(t \o w)])
             /\ HasRead(Reading(src)[i], Reading(src)[i + Len(t \o w)], p.code \cup q.code)
  <2>0. i \in Nat /\ Len(src) \in Nat
    OBVIOUS
  <2>1. Occurs(t, src, i) /\ Occurs(w, src, i + Len(t)) /\ Len(t \o w) = Len(t) + Len(w)
    BY <1>1, <1>3, <2>0, OccursConcat
  <2>. DEFINE m == i + Len(t)
  <2>2. /\ m \in 0..Len(src) /\ src[m + 1] = w[1] /\ Occurs(w, src, m)
        /\ i + Len(t \o w) = m + Len(w)
    BY <1>1, <2>0, <2>1 DEF Occurs
  <2>3. EndsInQuote(p) => NoQuoteAt(src, m + 1)
    BY <1>1, <2>2 DEF NoQuoteAt
  <2>4. Quiet(Reading(src)[m]) /\ HasRead(Reading(src)[i], Reading(src)[m], p.code)
    BY <1>3, <2>1, <2>3 DEF IsRead, t
  <2>. HIDE DEF m
  <2>5. EndsInQuote(q) => NoQuoteAt(src, m + Len(w) + 1)
    BY <1>3, <2>2
  <2>6. Quiet(Reading(src)[m + Len(w)]) /\ HasRead(Reading(src)[m], Reading(src)[m + Len(w)], q.code)
    BY <2>2, <2>4, <2>5 DEF IsRead, w
  <2>. QED
    BY <2>2, <2>4, <2>6, ReadTwice
<1>. DEFINE x == Both(p, q)
<1>4. x.text = t \o w /\ x.code = p.code \cup q.code /\ (EndsInQuote(x) <=> EndsInQuote(q))
  BY <1>2
<1>. HIDE DEF x
<1>5. IsRead(T, x)
  BY <1>3, <1>4 DEF IsRead
<1>. QED
  BY <1>5 DEF x

LEMMA TextGrows ==
  ASSUME NEW T, Blank \in T, Special \subseteq T
  PROVE  Grows(Text(T), T)
<1>1. ASSUME NEW w \in T \ Special PROVE Word(w) \in Text(T)
  <2>1. <<w>> \in Seq(T) \ {<<>>} /\ {w} \in SUBSET T
    OBVIOUS
  <2>. QED
    BY <2>1 DEF Word, Text
<1>2. ASSUME NEW t \in Quoted(T) PROVE Str(t) \in Text(T)
  <2>1. t \in Seq(T) /\ <<Quote>> \in Seq(T)
    BY DEF Quoted, Special
  <2>2. <<Quote>> \o t \o <<Quote>> \in Seq(T) \ {<<>>} /\ {} \in SUBSET T
    BY <2>1, FullConcat
  <2>. QED
    BY <2>2 DEF Str, Text
<1>3. ASSUME NEW x \in Text(T) PROVE Com(x.text) \in Text(T)
  <2>1. x.text \in Seq(T) /\ <<"(", "*">> \in Seq(T) /\ <<"*", ")">> \in Seq(T) /\ <<"*", ")">> # <<>>
    BY DEF Special, Text
  <2>2. <<"(", "*">> \o x.text \o <<"*", ")">> \in Seq(T) \ {<<>>} /\ {} \in SUBSET T
    BY <2>1, FullConcat
  <2>. QED
    BY <2>2 DEF Com, Text
<1>4. ASSUME NEW x \in Text(T), NEW y \in Text(T) PROVE Both(x, y) \in Text(T)
  <2>1. x.text \in Seq(T) /\ y.text \in Seq(T) \ {<<>>} /\ x.code \in SUBSET T /\ y.code \in SUBSET T
    BY DEF Text
  <2>2. x.text \o y.text \in Seq(T) \ {<<>>} /\ x.code \cup y.code \in SUBSET T
    BY <2>1, FullConcat
  <2>. QED
    BY <2>2 DEF Both, Text
<1>. QED
  BY <1>1, <1>2, <1>3, <1>4 DEF Grows

\* Words, strings, comments and these one behind the other are Written.
LEMMA WrittenGrows ==
  ASSUME NEW T, Blank \in T, Special \subseteq T
  PROVE  Grows(Written(T), T)
<1>. DEFINE W == Written(T)
            X == Text(T)
<1>1. Grows(X, T)
  BY TextGrows
<1>2. ASSUME NEW x PROVE x \in W <=> x \in X /\ \A S \in SUBSET X : Grows(S, T) => x \in S
  BY DEF Written
<1>. HIDE DEF W, X
<1>3. \A w \in T \ Special : Word(w) \in W
  BY <1>1, <1>2 DEF Grows
<1>4. \A t \in Quoted(T) : Str(t) \in W
  BY <1>1, <1>2 DEF Grows
<1>5. \A x \in W : Com(x.text) \in W
  BY <1>1, <1>2 DEF Grows
<1>6. \A x, y \in W : ~EndsInQuote(x) \/ y.text[1] # Quote => Both(x, y) \in W
  BY <1>1, <1>2 DEF Grows
<1>. QED
  BY <1>3, <1>4, <1>5, <1>6 DEF Grows, W

LEMMA WrittenIsRead ==
  ASSUME NEW T, Blank \in T, Special \subseteq T, NEW p \in Written(T)
  PROVE  p \in Text(T) /\ IsRead(T, p)
<1>. DEFINE X == Text(T)
            S == {x \in X : IsRead(T, x)}
<1>0. Grows(X, T)
  BY TextGrows
<1>1. \A w \in T \ Special : Word(w) \in S
  BY <1>0, WordIsRead DEF Grows
<1>2. \A t \in Quoted(T) : Str(t) \in S
  BY <1>0, StrIsRead DEF Grows
<1>3. \A x \in S : Com(x.text) \in S
  BY <1>0, ComIsRead DEF Grows
<1>4. \A x, y \in S : ~EndsInQuote(x) \/ y.text[1] # Quote => Both(x, y) \in S
  BY <1>0, BothIsRead DEF Grows
<1>5. p \in X /\ (Grows(S, T) => p \in S)
  <2>1. S \in SUBSET X
    OBVIOUS
  <2>. HIDE DEF S
  <2>. QED
    BY <2>1 DEF Written
<1>6. Grows(S, T)
  <2>. HIDE DEF S
  <2>. QED
    BY <1>1, <1>2, <1>3, <1>4 DEF Grows
<1>. QED
  BY <1>5, <1>6

\* A text in symbols, sentence by sentence.
Rendering(doc) ==
  CHOOSE f : f = [i \in 0..Len(doc) |-> IF i = 0 THEN <<>> ELSE f[i - 1] \o doc[i].text \o <<Blank>>]

LEMMA RenderingExists ==
  ASSUME NEW R, NEW doc
  PROVE  <<>> \in R /\ Len(doc) \in Nat
         /\ (\A i \in 1..Len(doc) : \A s \in R : s \o doc[i].text \o <<Blank>> \in R)
         => \E f \in [0..Len(doc) -> R] :
              f[0] = <<>> /\ \A i \in 1..Len(doc) : f[i] = f[i - 1] \o doc[i].text \o <<Blank>>
<1>. DEFINE L == Len(doc)
            g == [i \in 1..L |-> [s \in R |-> s \o doc[i].text \o <<Blank>>]]
<1>0. SUFFICES ASSUME <<>> \in R, L \in Nat, \A i \in 1..L : \A s \in R : s \o doc[i].text \o <<Blank>> \in R
      PROVE  \E f \in [0..L -> R] :
               f[0] = <<>> /\ \A i \in 1..L : f[i] = f[i - 1] \o doc[i].text \o <<Blank>>
  OBVIOUS
<1>1. L \in Nat /\ g \in [1..L -> [R -> R]]
  BY <1>0
<1>2. \E f \in [0..L -> R] : f[0] = <<>> /\ \A i \in 1..L : f[i] = g[i][f[i - 1]]
  <2>. DEFINE z == <<>>
  <2>1. z \in R
    BY <1>0
  <2>. HIDE DEF g, L, z
  <2>2. \E f \in [0..L -> R] : f[0] = z /\ \A i \in 1..L : f[i] = g[i][f[i - 1]]
    BY <1>1, <2>1, RecursionExists
  <2>. QED
    BY <2>2 DEF z
<1>3. PICK f \in [0..L -> R] : f[0] = <<>> /\ \A i \in 1..L : f[i] = g[i][f[i - 1]]
  BY <1>2
<1>4. ASSUME NEW i \in 1..L PROVE f[i] = f[i - 1] \o doc[i].text \o <<Blank>>
  <2>1. f[i - 1] \in R
    BY <1>1
  <2>. QED
    BY <1>3, <2>1
<1>. QED
  BY <1>3, <1>4

LEMMA RenderIs ==
  ASSUME NEW T, Blank \in T, NEW doc \in Seq(Text(T))
  PROVE  /\ Render(doc) = Rendering(doc)[Len(doc)]
         /\ Rendering(doc)[0] = <<>>
         /\ \A i \in 1..Len(doc) : Rendering(doc)[i] = Rendering(doc)[i - 1] \o doc[i].text \o <<Blank>>
         /\ \A i \in 0..Len(doc) : Rendering(doc)[i] \in Seq(T)
<1>. DEFINE L == Len(doc)
            Is(f) == f = [i \in 0..L |-> IF i = 0 THEN <<>> ELSE f[i - 1] \o doc[i].text \o <<Blank>>]
<1>0. L \in Nat /\ <<>> \in Seq(T) /\ <<Blank>> \in Seq(T)
  OBVIOUS
<1>1. ASSUME NEW i \in 1..L, NEW s \in Seq(T) PROVE s \o doc[i].text \o <<Blank>> \in Seq(T)
  <2>1. doc[i] \in Text(T)
    OBVIOUS
  <2>2. doc[i].text \in Seq(T)
    BY <2>1 DEF Text
  <2>3. s \o doc[i].text \in Seq(T)
    BY <2>2, FullConcat
  <2>. QED
    BY <1>0, <2>3, FullConcat
<1>2. \A i \in 1..L : \A s \in Seq(T) : s \o doc[i].text \o <<Blank>> \in Seq(T)
  BY <1>1
<1>3. PICK f \in [0..L -> Seq(T)] :
        f[0] = <<>> /\ \A i \in 1..L : f[i] = f[i - 1] \o doc[i].text \o <<Blank>>
  BY <1>0, <1>2, RenderingExists, Zenon
<1>5. Is(f)
  <2>1. ASSUME NEW i \in 0..L
        PROVE  f[i] = IF i = 0 THEN <<>> ELSE f[i - 1] \o doc[i].text \o <<Blank>>
    <3>1. i = 0 \/ (i \in 1..L /\ i # 0)
      BY <1>0
    <3>. QED
      BY <1>3, <3>1
  <2>2. f = [i \in 0..L |-> f[i]]
    OBVIOUS
  <2>. QED
    BY <2>1, <2>2
<1>6. Is(Rendering(doc))
  BY <1>5, Zenon DEF Rendering
<1>7. Render(doc) = Rendering(doc)[L]
  BY Zenon DEF Render, Rendering
<1>. DEFINE r == Rendering(doc)
<1>. HIDE DEF r
<1>8. \A i \in 0..L : r[i] = IF i = 0 THEN <<>> ELSE r[i - 1] \o doc[i].text \o <<Blank>>
  BY <1>6 DEF r
<1>9. r[0] = <<>>
  BY <1>0, <1>8
<1>10. ASSUME NEW i \in 1..L PROVE r[i] = r[i - 1] \o doc[i].text \o <<Blank>>
  <2>1. i \in 0..L /\ i # 0
    BY <1>0
  <2>. QED
    BY <1>8, <2>1
<1>11. \A i \in 0..L : r[i] \in Seq(T)
  <2>. DEFINE G == {i \in 0..L : r[i] \in Seq(T)}
  <2>1. 0 \in G
    BY <1>0, <1>9
  <2>2. ASSUME NEW i \in 1..L, i - 1 \in G PROVE i \in G
    <3>1. r[i - 1] \in Seq(T) /\ i \in 0..L
      BY <1>0, <2>2
    <3>. QED
      BY <1>1, <1>10, <3>1
  <2>. HIDE DEF G
  <2>3. 0..L \subseteq G
    BY <1>0, <2>1, <2>2, EveryPosition
  <2>. QED
    BY <2>3 DEF G
<1>. QED
  BY <1>7, <1>9, <1>10, <1>11 DEF r

LEMMA RenderConcat ==
  ASSUME NEW T, Blank \in T, NEW p \in Seq(Text(T)), NEW doc \in Seq(Text(T))
  PROVE  Render(p \o doc) = Render(p) \o Render(doc)
<1>. DEFINE X == Text(T)
            c == p \o doc
            f == Rendering(c)
            g == Rendering(p)
            h == Rendering(doc)
            P == Len(p)
            D == Len(doc)
            b == <<Blank>>
<1>1. /\ c \in Seq(X) /\ P \in Nat /\ D \in Nat /\ Len(c) = P + D
      /\ \A i \in 1..P : c[i] = p[i] /\ p[i] \in X
      /\ \A i \in 1..D : c[P + i] = doc[i] /\ doc[i] \in X
  <2>. HIDE DEF X
  <2>. QED
    BY DEF X
<1>2. b \in Seq(T) /\ \A x \in X : x.text \in Seq(T)
  BY DEF Text
<1>3. /\ Render(c) = f[Len(c)] /\ f[0] = <<>>
      /\ \A i \in 1..Len(c) : f[i] = f[i - 1] \o c[i].text \o b
  BY <1>1, RenderIs
<1>4. /\ Render(p) = g[P] /\ g[0] = <<>> /\ \A i \in 1..P : g[i] = g[i - 1] \o p[i].text \o b
      /\ \A i \in 0..P : g[i] \in Seq(T)
  BY RenderIs
<1>5. /\ Render(doc) = h[D] /\ h[0] = <<>> /\ \A i \in 1..D : h[i] = h[i - 1] \o doc[i].text \o b
      /\ \A i \in 0..D : h[i] \in Seq(T)
  BY RenderIs
<1>. HIDE DEF f, g, h, b, c, X, P, D
<1>6. \A i \in 0..P : f[i] = g[i]
  <2>. DEFINE G == {i \in 0..P : f[i] = g[i]}
  <2>1. 0 \in G
    BY <1>1, <1>3, <1>4
  <2>2. ASSUME NEW i \in 1..P, i - 1 \in G PROVE i \in G
    <3>1. i \in 1..Len(c) /\ i \in 0..P
      BY <1>1
    <3>. QED
      BY <1>1, <1>3, <1>4, <2>2, <3>1, Zenon
  <2>. HIDE DEF G
  <2>3. 0..P \subseteq G
    BY <1>1, <2>1, <2>2, EveryPosition
  <2>. QED
    BY <2>3 DEF G
<1>7. \A i \in 0..D : f[P + i] = g[P] \o h[i]
  <2>. DEFINE G == {i \in 0..D : f[P + i] = g[P] \o h[i]}
  <2>0. g[P] \in Seq(T) /\ f[P] = g[P]
    BY <1>1, <1>4, <1>6
  <2>1. 0 \in G
    <3>1. g[P] \o <<>> = g[P]
      BY <2>0, ConcatEmptySeq
    <3>2. P + 0 = P /\ 0 \in 0..D
      BY <1>1
    <3>. QED
      BY <1>5, <2>0, <3>1, <3>2, Zenon
  <2>2. ASSUME NEW i \in 1..D, i - 1 \in G PROVE i \in G
    <3>1. P + i \in 1..Len(c) /\ (P + i) - 1 = P + (i - 1) /\ i \in 0..D /\ i - 1 \in 0..D
      BY <1>1
    <3>. DEFINE t == doc[i].text
    <3>2. t \in Seq(T) /\ h[i - 1] \in Seq(T) /\ c[P + i] = doc[i]
      BY <1>1, <1>2, <1>5, <3>1
    <3>3. f[P + (i - 1)] = g[P] \o h[i - 1]
      BY <2>2
    <3>4. f[P + i] = f[(P + i) - 1] \o t \o b
      BY <1>3, <3>1, <3>2, Zenon
    <3>5. f[P + i] = (g[P] \o h[i - 1]) \o t \o b
      BY <3>1, <3>3, <3>4
    <3>6. h[i] = h[i - 1] \o t \o b
      BY <1>5
    <3>7. (g[P] \o h[i - 1]) \o t \o b = g[P] \o (h[i - 1] \o t \o b)
      <4>. DEFINE a == g[P]
                  s == h[i - 1]
      <4>1. a \in Seq(T) /\ s \in Seq(T) /\ t \in Seq(T) /\ b \in Seq(T)
        BY <1>2, <2>0, <3>2
      <4>. HIDE DEF a, s, t
      <4>2. s \o t \in Seq(T) /\ (a \o s) \o t = a \o (s \o t)
        <5>1. s \o t \in Seq(T)
          BY <4>1, FullConcat
        <5>2. (a \o s) \o t = a \o (s \o t)
          BY <4>1, ConcatAssociative, SMTT(30)
        <5>. QED
          BY <5>1, <5>2
      <4>. DEFINE u == s \o t
      <4>3. u \in Seq(T) /\ (a \o s) \o t = a \o u
        BY <4>2
      <4>. HIDE DEF u
      <4>4. (a \o u) \o b = a \o (u \o b)
        BY <4>1, <4>3, ConcatAssociative, SMTT(30)
      <4>5. (a \o s) \o t \o b = a \o (u \o b)
        BY <4>3, <4>4
      <4>. QED
        BY <4>5 DEF a, s, u
    <3>. HIDE DEF t
    <3>. QED
      BY <3>1, <3>5, <3>6, <3>7, Zenon
  <2>. HIDE DEF G
  <2>3. 0..D \subseteq G
    BY <1>1, <2>1, <2>2, EveryPosition
  <2>. QED
    BY <2>3 DEF G
<1>8. D \in 0..D
  BY <1>1
<1>. QED
  BY <1>1, <1>3, <1>4, <1>5, <1>7, <1>8, Zenon DEF c

\* Blanks before a text, and then the text sentence by sentence.
LEMMA BlanksAreRead ==
  ASSUME NEW T, Blank \in T, NEW src \in Seq(T), NEW b \in 0..Len(src), \A j \in 1..b : src[j] = Blank
  PROVE  Quiet(Reading(src)[b]) /\ Reading(src)[b].depth = 0 /\ Words(Reading(src)[b]) = {}
<1>. DEFINE G == {j \in 0..b : /\ Quiet(Reading(src)[j]) /\ Reading(src)[j].depth = 0
                               /\ Words(Reading(src)[j]) = {}}
<1>1. 0 \in G
  <2>1. Reading(src)[0] = Unread
    BY ReadingIs
  <2>2. /\ Unread.depth = 0 /\ Unread.out = <<>> /\ Quiet(Unread)
    BY DEF Unread, Quiet
  <2>3. Words(Unread) = {}
    BY <2>2 DEF Words
  <2>4. 0 \in 0..b
    OBVIOUS
  <2>. QED
    BY <2>1, <2>2, <2>3, <2>4
<1>2. ASSUME NEW j \in 1..b, j - 1 \in G PROVE j \in G
  <2>. DEFINE m == j - 1
  <2>1. m \in Nat /\ m + 1 = j /\ m + 1 <= Len(src) /\ j \in 0..b
    OBVIOUS
  <2>2. src[m + 1] = Blank /\ Quiet(Reading(src)[m]) /\ Reading(src)[m].depth = 0 /\ Words(Reading(src)[m]) = {}
    BY <1>2, <2>1
  <2>3. Blank \notin Special /\ {Blank} \cap Forbidden = {}
    BY DEF Blank, Special, Quote, Forbidden
  <2>. HIDE DEF m, G
  <2>4. Quiet(Reading(src)[m + 1]) /\ HasRead(Reading(src)[m], Reading(src)[m + 1], {src[m + 1]})
    BY <2>1, <2>2, <2>3, ReadWord
  <2>5. Reading(src)[m + 1].depth = 0 /\ Words(Reading(src)[m + 1]) = {}
    BY <2>2, <2>3, <2>4 DEF HasRead
  <2>. QED
    BY <2>1, <2>4, <2>5 DEF G
<1>3. b \in Nat
  OBVIOUS
<1>. HIDE DEF G
<1>4. 0..b \subseteq G
  BY <1>1, <1>2, <1>3, EveryPosition
<1>5. b \in 0..b
  BY <1>3
<1>. QED
  BY <1>4, <1>5 DEF G

LEMMA DocIsRead ==
  ASSUME NEW T, Blank \in T, Special \subseteq T, NEW doc \in Seq(Written(T)),
         NEW src \in Seq(T), NEW b \in 0..Len(src), Occurs(Render(doc), src, b), Quiet(Reading(src)[b])
  PROVE  HasRead(Reading(src)[b], Reading(src)[b + Len(Render(doc))], Code(doc))
<1>. DEFINE D == Len(doc)
            h == Rendering(doc)
            Codes(i) == UNION {doc[k].code : k \in 1..i}
            end(i) == b + Len(h[i])
<1>1. D \in Nat /\ b \in Nat /\ Len(src) \in Nat /\ DOMAIN doc = 1..D
  OBVIOUS
<1>2. ASSUME NEW i \in 1..D
      PROVE  doc[i] \in Text(T) /\ IsRead(T, doc[i]) /\ doc[i].text \in Seq(T) /\ Len(doc[i].text) \in Nat
  <2>1. doc[i] \in Written(T)
    OBVIOUS
  <2>2. doc[i] \in Text(T) /\ IsRead(T, doc[i])
    BY <2>1, WrittenIsRead
  <2>. QED
    BY <2>2 DEF Text
<1>3. doc \in Seq(Text(T))
  <2>. DEFINE X == Text(T)
  <2>1. \A i \in 1..Len(doc) : doc[i] \in X
    BY <1>2
  <2>. HIDE DEF X
  <2>2. doc \in Seq(X)
    BY <2>1
  <2>. QED
    BY <2>2 DEF X
<1>4. /\ Render(doc) = h[D] /\ h[0] = <<>>
      /\ \A i \in 1..D : h[i] = h[i - 1] \o doc[i].text \o <<Blank>>
      /\ \A i \in 0..D : h[i] \in Seq(T)
  BY <1>3, RenderIs
<1>. HIDE DEF h, D
<1>5. ASSUME NEW i \in 1..D, Occurs(h[i], src, b)
      PROVE  /\ Occurs(h[i - 1], src, b) /\ end(i - 1) \in 0..Len(src)
             /\ Occurs(doc[i].text, src, end(i - 1))
             /\ end(i) = end(i - 1) + Len(doc[i].text) + 1 /\ end(i) <= Len(src)
             /\ src[end(i)] = Blank
  <2>. DEFINE t == doc[i].text
              s == h[i - 1]
              q == <<Blank>>
              a == s \o t
  <2>1. /\ t \in Seq(T) /\ Len(t) \in Nat /\ s \in Seq(T) /\ Len(s) \in Nat
        /\ q \in Seq(T) /\ Len(q) = 1 /\ q[1] = Blank
        /\ i - 1 \in 0..D
    <3>1. i - 1 \in 0..D
      BY <1>1
    <3>. QED
      BY <1>2, <1>4, <3>1
  <2>2. h[i] = a \o q
    BY <1>4
  <2>. HIDE DEF q, t, s
  <2>3. a \in Seq(T) /\ Len(a) = Len(s) + Len(t)
    BY <2>1, FullConcat
  <2>4. Occurs(a, src, b) /\ Occurs(q, src, b + Len(a)) /\ Len(a \o q) = Len(a) + Len(q)
    <3>1. Occurs(a \o q, src, b) /\ b \in Nat
      BY <1>1, <1>5, <2>2
    <3>2. a \in Seq(T) /\ q \in Seq(T)
      BY <2>1, <2>3
    <3>. HIDE DEF a
    <3>. QED
      BY <3>1, <3>2, OccursConcat
  <2>5. Occurs(s, src, b) /\ Occurs(t, src, b + Len(s))
    BY <1>1, <2>1, <2>4, OccursConcat
  <2>. HIDE DEF a
  <2>6. end(i) = b + Len(s) + Len(t) + 1 /\ end(i - 1) = b + Len(s)
    BY <2>1, <2>2, <2>3, <2>4 DEF s
  <2>7. b + Len(s) + Len(t) + 1 <= Len(src) /\ src[b + Len(s) + Len(t) + 1] = Blank
    BY <1>1, <2>1, <2>3, <2>4 DEF Occurs
  <2>8. b + Len(s) \in 0..Len(src)
    BY <1>1, <2>1, <2>7
  <2>. HIDE DEF end
  <2>. QED
    BY <2>5, <2>6, <2>7, <2>8 DEF s, t
<1>6. \A i \in 0..D : Occurs(h[i], src, b)
  <2>. DEFINE G == {j \in 0..D : Occurs(h[D - j], src, b)}
  <2>1. 0 \in G
    BY <1>1, <1>4
  <2>2. ASSUME NEW j \in 1..D, j - 1 \in G PROVE j \in G
    <3>. DEFINE i == D - (j - 1)
    <3>1. i \in 1..D /\ i - 1 = D - j /\ j \in 0..D
      BY <1>1
    <3>2. Occurs(h[i], src, b)
      BY <2>2
    <3>. HIDE DEF i, end
    <3>3. Occurs(h[i - 1], src, b)
      BY <1>5, <3>1, <3>2
    <3>. QED
      BY <3>1, <3>3
  <2>. HIDE DEF G
  <2>3. 0..D \subseteq G
    BY <1>1, <2>1, <2>2, EveryPosition
  <2>4. ASSUME NEW i \in 0..D PROVE Occurs(h[i], src, b)
    <3>1. D - i \in 0..D /\ D - (D - i) = i
      BY <1>1
    <3>2. D - i \in G
      BY <2>3, <3>1
    <3>. QED
      BY <3>1, <3>2 DEF G
  <2>. QED
    BY <2>4
<1>7. \A i \in 0..D : Quiet(Reading(src)[end(i)]) /\ HasRead(Reading(src)[b], Reading(src)[end(i)], Codes(i))
  <2>. DEFINE G == {i \in 0..D : /\ Quiet(Reading(src)[end(i)])
                                 /\ HasRead(Reading(src)[b], Reading(src)[end(i)], Codes(i))}
  <2>1. 0 \in G
    <3>1. end(0) = b /\ 0 \in 0..D /\ Codes(0) = {}
      BY <1>1, <1>4
    <3>2. HasRead(Reading(src)[b], Reading(src)[b], {})
      BY DEF HasRead
    <3>. QED
      BY <3>1, <3>2
  <2>2. ASSUME NEW i \in 1..D, i - 1 \in G PROVE i \in G
    <3>. DEFINE m == end(i - 1)
                t == doc[i].text
                e == m + Len(t)
    <3>1. /\ m \in 0..Len(src) /\ Occurs(t, src, m) /\ end(i) = e + 1 /\ e + 1 <= Len(src)
          /\ src[e + 1] = Blank /\ i \in 0..D
      <4>1. i \in 0..D
        BY <1>1
      <4>. HIDE DEF end
      <4>. QED
        BY <1>5, <1>6, <4>1
    <3>2. IsRead(T, doc[i]) /\ Len(t) \in Nat /\ e \in Nat
      <4>1. IsRead(T, doc[i]) /\ Len(t) \in Nat
        BY <1>2
      <4>2. m \in Nat
        <5>. HIDE DEF m
        <5>. QED
          BY <1>1, <3>1
      <4>. HIDE DEF m, t
      <4>. QED
        BY <4>1, <4>2 DEF t
    <3>3. Quiet(Reading(src)[m]) /\ HasRead(Reading(src)[b], Reading(src)[m], Codes(i - 1))
      BY <2>2
    <3>4. NoQuoteAt(src, e + 1) /\ Blank \notin Special /\ {Blank} \cap Forbidden = {}
      BY <3>1 DEF NoQuoteAt, Blank, Quote, Special, Forbidden
    <3>. HIDE DEF m, end, Codes, G
    <3>5. Quiet(Reading(src)[e]) /\ HasRead(Reading(src)[m], Reading(src)[e], doc[i].code)
      BY <3>1, <3>2, <3>3, <3>4 DEF IsRead
    <3>. HIDE DEF e
    <3>6. Quiet(Reading(src)[e + 1]) /\ HasRead(Reading(src)[e], Reading(src)[e + 1], {Blank})
      BY <3>1, <3>2, <3>4, <3>5, ReadWord
    <3>7. HasRead(Reading(src)[b], Reading(src)[e + 1], Codes(i - 1) \cup doc[i].code)
      BY <3>3, <3>4, <3>5, <3>6 DEF HasRead
    <3>8. Codes(i) = Codes(i - 1) \cup doc[i].code
      <4>1. 1..i = 1..i - 1 \cup {i}
        OBVIOUS
      <4>. QED
        BY <4>1 DEF Codes
    <3>. QED
      BY <3>1, <3>6, <3>7, <3>8 DEF G
  <2>. HIDE DEF G
  <2>3. 0..D \subseteq G
    BY <1>1, <2>1, <2>2, EveryPosition
  <2>. QED
    BY <2>3 DEF G
<1>8. D \in 0..D /\ Codes(D) = Code(doc)
  BY <1>1 DEF Code, D
<1>. QED
  BY <1>4, <1>7, <1>8

\* How far the prefix has been found in the candidate behind each symbol of it.
FindNext(text, prefix, k, last) ==
  LET next == {j \in Ink(text, last) : text[j] = prefix[k]}
  IN IF last = NoSplit \/ prefix[k] = Blank THEN last
     ELSE IF next # {} THEN CHOOSE j \in next : TRUE
     ELSE NoSplit

Finding(text, prefix) ==
  CHOOSE f : f = [k \in 0..Len(prefix) |-> IF k = 0 THEN 0 ELSE FindNext(text, prefix, k, f[k - 1])]

LEMMA FindingExists ==
  ASSUME NEW text, NEW prefix
  PROVE  Len(prefix) \in Nat
         /\ (\A k \in 1..Len(prefix) : \A i \in Int : FindNext(text, prefix, k, i) \in Int)
         => \E f \in [0..Len(prefix) -> Int] :
              f[0] = 0 /\ \A k \in 1..Len(prefix) : f[k] = FindNext(text, prefix, k, f[k - 1])
<1>. DEFINE L == Len(prefix)
            g == [k \in 1..L |-> [i \in Int |-> FindNext(text, prefix, k, i)]]
<1>0. SUFFICES ASSUME L \in Nat, \A k \in 1..L : \A i \in Int : FindNext(text, prefix, k, i) \in Int
      PROVE  \E f \in [0..L -> Int] : f[0] = 0 /\ \A k \in 1..L : f[k] = FindNext(text, prefix, k, f[k - 1])
  OBVIOUS
<1>1. L \in Nat /\ g \in [1..L -> [Int -> Int]]
  BY <1>0
<1>2. \E f \in [0..L -> Int] : f[0] = 0 /\ \A i \in 1..L : f[i] = g[i][f[i - 1]]
  <2>. DEFINE R == Int
              z == 0
  <2>1. L \in Nat /\ z \in R /\ g \in [1..L -> [R -> R]]
    BY <1>1
  <2>. HIDE DEF g, L, R, z
  <2>2. \E f \in [0..L -> R] : f[0] = z /\ \A i \in 1..L : f[i] = g[i][f[i - 1]]
    BY <2>1, RecursionExists
  <2>. QED
    BY <2>2 DEF R, z
<1>3. PICK f \in [0..L -> Int] : f[0] = 0 /\ \A k \in 1..L : f[k] = g[k][f[k - 1]]
  BY <1>2
<1>4. ASSUME NEW k \in 1..L PROVE f[k] = FindNext(text, prefix, k, f[k - 1])
  <2>1. f[k - 1] \in Int
    <3>1. k - 1 \in 0..L
      BY <1>0
    <3>. HIDE DEF L
    <3>. QED
      BY <3>1
  <2>. QED
    BY <1>3, <2>1
<1>. QED
  BY <1>3, <1>4

LEMMA FindingIs ==
  ASSUME NEW T, NEW text \in Seq(T), NEW prefix \in Seq(T)
  PROVE  /\ split_at_prefix(text, prefix) = Finding(text, prefix)[Len(prefix)]
         /\ Finding(text, prefix)[0] = 0
         /\ \A k \in 1..Len(prefix) :
              Finding(text, prefix)[k] = FindNext(text, prefix, k, Finding(text, prefix)[k - 1])
<1>. DEFINE L == Len(prefix)
            Is(f) == f = [k \in 0..L |-> IF k = 0 THEN 0 ELSE FindNext(text, prefix, k, f[k - 1])]
<1>0. L \in Nat
  OBVIOUS
<1>1. ASSUME NEW k \in 1..L, NEW i \in Int PROVE FindNext(text, prefix, k, i) \in Int
  <2>. DEFINE next == {j \in Ink(text, i) : text[j] = prefix[k]}
  <2>1. next \subseteq Int
    BY DEF Ink
  <2>2. next # {} => (CHOOSE j \in next : TRUE) \in Int
    <3>. HIDE DEF next
    <3>. QED
      BY <2>1
  <2>3. NoSplit \in Int
    BY DEF NoSplit
  <2>4. FindNext(text, prefix, k, i) = IF i = NoSplit \/ prefix[k] = Blank THEN i
                                        ELSE IF next # {} THEN CHOOSE j \in next : TRUE ELSE NoSplit
    BY DEF FindNext
  <2>. HIDE DEF next
  <2>. QED
    BY <2>2, <2>3, <2>4
<1>3. PICK f \in [0..L -> Int] : f[0] = 0 /\ \A k \in 1..L : f[k] = FindNext(text, prefix, k, f[k - 1])
  BY <1>0, <1>1, FindingExists
<1>5. Is(f)
  <2>1. ASSUME NEW k \in 0..L PROVE f[k] = IF k = 0 THEN 0 ELSE FindNext(text, prefix, k, f[k - 1])
    <3>1. k = 0 \/ (k \in 1..L /\ k # 0)
      BY <1>0
    <3>. QED
      BY <1>3, <3>1
  <2>2. f = [k \in 0..L |-> f[k]]
    OBVIOUS
  <2>. QED
    BY <2>1, <2>2
<1>6. Is(Finding(text, prefix))
  BY <1>5, Zenon DEF Finding
<1>7. split_at_prefix(text, prefix) = Finding(text, prefix)[L]
  BY Zenon DEF split_at_prefix, Finding, FindNext
<1>. DEFINE r == Finding(text, prefix)
<1>. HIDE DEF r
<1>8. \A k \in 0..L : r[k] = IF k = 0 THEN 0 ELSE FindNext(text, prefix, k, r[k - 1])
  BY <1>6 DEF r
<1>9. r[0] = 0
  BY <1>0, <1>8
<1>10. ASSUME NEW k \in 1..L PROVE r[k] = FindNext(text, prefix, k, r[k - 1])
  <2>1. k \in 0..L /\ k # 0
    BY <1>0
  <2>. QED
    BY <1>8, <2>1
<1>. QED
  BY <1>7, <1>9, <1>10 DEF r

\* A candidate that begins with the prefix is split at its end, or before blanks there.
LEMMA SplitIs ==
  ASSUME NEW T, NEW p \in Seq(T), NEW w \in Seq(T)
  PROVE  LET s == split_at_prefix(p \o w, p)
         IN  s \in 0..Len(p) /\ \A j \in s + 1..Len(p) : p[j] = Blank
<1>. DEFINE c == p \o w
            L == Len(p)
            f == Finding(c, p)
            G == {k \in 0..L : f[k] \in 0..k /\ \A j \in f[k] + 1..k : p[j] = Blank}
<1>1. c \in Seq(T) /\ L \in Nat /\ Len(c) \in Nat /\ L <= Len(c) /\ \A i \in 1..L : c[i] = p[i]
  OBVIOUS
<1>2. split_at_prefix(c, p) = f[L] /\ f[0] = 0 /\ \A k \in 1..L : f[k] = FindNext(c, p, k, f[k - 1])
  <2>. HIDE DEF c
  <2>. QED
    BY <1>1, FindingIs
<1>. HIDE DEF c, L, f
<1>3. 0 \in G
  BY <1>1, <1>2
<1>4. ASSUME NEW k \in 1..L, k - 1 \in G PROVE k \in G
  <2>. DEFINE last == f[k - 1]
              next == {j \in Ink(c, last) : c[j] = p[k]}
  <2>1. last \in 0..k - 1 /\ last # NoSplit /\ last \in Nat /\ k \in 0..L /\ k \in Nat
        /\ \A j \in last + 1..k - 1 : p[j] = Blank
    BY <1>1, <1>4 DEF NoSplit
  <2>2. f[k] = IF last = NoSplit \/ p[k] = Blank THEN last
               ELSE IF next # {} THEN CHOOSE j \in next : TRUE ELSE NoSplit
    BY <1>2 DEF FindNext
  <2>. HIDE DEF last
  <2>3. CASE p[k] = Blank
    <3>1. f[k] = last
      BY <2>2, <2>3
    <3>2. \A j \in last + 1..k : j \in last + 1..k - 1 \/ j = k
      BY <2>1
    <3>3. last \in 0..k
      BY <2>1
    <3>. QED
      BY <2>1, <2>3, <3>1, <3>2, <3>3
  <2>4. CASE p[k] # Blank
    <3>1. c[k] = p[k] /\ \A j \in last + 1..k - 1 : c[j] = Blank
      <4>1. \A j \in last + 1..k - 1 : j \in 1..L
        BY <1>1, <2>1
      <4>. QED
        BY <1>1, <2>1, <4>1
    <3>2. k \in last + 1..Len(c)
      BY <1>1, <2>1
    <3>3. k \in next
      BY <2>4, <3>1, <3>2 DEF Ink
    <3>4. ASSUME NEW j \in next PROVE j = k
      <4>1. j \in last + 1..Len(c) /\ c[j] # Blank /\ \A i \in last + 1..j - 1 : c[i] = Blank
        BY DEF Ink
      <4>2. ~(j < k)
        <5>1. j < k => j \in last + 1..k - 1
          BY <2>1, <4>1
        <5>. QED
          BY <3>1, <4>1, <5>1
      <4>3. ~(k < j)
        <5>1. k < j => k \in last + 1..j - 1
          BY <2>1, <4>1
        <5>. QED
          BY <2>4, <3>1, <4>1, <5>1
      <4>4. j \in Int
        BY <2>1, <4>1
      <4>. QED
        BY <2>1, <4>2, <4>3, <4>4
    <3>. HIDE DEF next, G
    <3>5. f[k] = k
      BY <2>1, <2>2, <2>4, <3>3, <3>4
    <3>6. k + 1..k = {}
      BY <2>1
    <3>7. k \in 0..k
      BY <2>1
    <3>. QED
      BY <2>1, <3>5, <3>6, <3>7 DEF G
  <2>. QED
    BY <2>3, <2>4
<1>. HIDE DEF G
<1>5. 0..L \subseteq G
  <2>1. L \in Nat
    BY <1>1
  <2>. QED
    BY <1>3, <1>4, <2>1, EveryPosition
<1>6. f[L] \in 0..L /\ \A j \in f[L] + 1..L : p[j] = Blank
  <2>1. L \in 0..L
    BY <1>1
  <2>. QED
    BY <1>5, <2>1 DEF G
<1>. QED
  BY <1>2, <1>6 DEF c, L

\* The last line of an output that is x, or 0.
LEMMA LastLine ==
  ASSUME NEW T, NEW out \in Seq(T), NEW x
  PROVE  LET l == CHOOSE i \in 0..Len(out) :
                    /\ i > 0 => out[i] = x
                    /\ \A j \in i + 1..Len(out) : out[j] # x
         IN  l \in 0..Len(out) /\ (l > 0 => out[l] = x) /\ \A j \in l + 1..Len(out) : out[j] # x
<1>. DEFINE L == Len(out)
            Is(i) == (i > 0 => out[i] = x) /\ \A j \in i + 1..L : out[j] # x
            S == {i \in 1..L : out[i] = x}
<1>1. L \in Nat
  OBVIOUS
<1>2. \E i \in 0..L : Is(i)
  <2>1. CASE S = {}
    <3>1. Is(0) /\ 0 \in 0..L
      BY <1>1, <2>1
    <3>. QED
      BY <3>1
  <2>2. CASE S # {}
    <3>1. SetMax(S) \in S /\ \A j \in S : j <= SetMax(S)
      BY <1>1, <2>2, LastPosition
    <3>. DEFINE i == SetMax(S)
    <3>2. i \in 1..L /\ out[i] = x /\ \A j \in 1..L : out[j] = x => j <= i
      BY <3>1
    <3>. HIDE DEF i, S
    <3>3. i \in 0..L /\ Is(i)
      BY <1>1, <3>2
    <3>. QED
      BY <3>3
  <2>. QED
    BY <2>1, <2>2
<1>. DEFINE l == CHOOSE i \in 0..L : Is(i)
<1>3. l \in 0..L /\ Is(l)
  <2>. HIDE DEF Is, L
  <2>. QED
    BY <1>2
<1>. QED
  BY <1>3

LEMMA AuditIs ==
  ASSUME NEW T, NEW out \in Seq(T), NEW t
  PROVE  LET audit == parse_assumptions(out)
         IN  (audit.found /\ ~audit.unsafe /\ t \notin audit.axioms)
               <=> /\ \E i \in DOMAIN out : out[i] \in Headers
                   /\ LastBlock(out) \cap {"***", t} = {}
<1>. DEFINE Last(x) == CHOOSE i \in 0..Len(out) :
                         /\ i > 0 => out[i] = x
                         /\ \A j \in i + 1..Len(out) : out[j] # x
            a == Last("Axioms:")
            c == Last("closed")
            rest == SubSeq(out, a + 1, Len(out))
            lines == {rest[i] : i \in DOMAIN rest}
            L == Len(out)
<1>1. L \in Nat /\ DOMAIN out = 1..L
  OBVIOUS
<1>2. a \in 0..L /\ (a > 0 => out[a] = "Axioms:") /\ \A j \in a + 1..L : out[j] # "Axioms:"
  BY LastLine, Zenon
<1>3. c \in 0..L /\ (c > 0 => out[c] = "closed") /\ \A j \in c + 1..L : out[j] # "closed"
  BY LastLine, Zenon
<1>4. parse_assumptions(out) =
        CASE c > a -> [found |-> TRUE, axioms |-> {}, unsafe |-> FALSE]
          [] c = 0 /\ a = 0 -> [found |-> FALSE, axioms |-> {}, unsafe |-> FALSE]
          [] OTHER -> [found |-> TRUE, axioms |-> lines \ {"***"}, unsafe |-> "***" \in lines]
  BY DEF parse_assumptions
<1>. HIDE DEF a, c
<1>5. lines = {out[j] : j \in a + 1..L}
  <2>1. DOMAIN rest = 1..L - a /\ \A i \in 1..L - a : rest[i] = out[a + i]
    BY <1>1, <1>2
  <2>. HIDE DEF rest
  <2>2. ASSUME NEW i \in 1..L - a PROVE a + i \in a + 1..L
    BY <1>1, <1>2
  <2>3. ASSUME NEW j \in a + 1..L PROVE j - a \in 1..L - a /\ a + (j - a) = j
    BY <1>1, <1>2
  <2>4. \A x \in lines : \E j \in a + 1..L : x = out[j]
    BY <2>1, <2>2
  <2>5. \A j \in a + 1..L : out[j] \in lines
    BY <2>1, <2>3
  <2>. HIDE DEF lines
  <2>. QED
    BY <2>4, <2>5
<1>. DEFINE Header == \E i \in DOMAIN out : out[i] \in Headers
<1>6. CASE c > a
  <2>1. parse_assumptions(out) = [found |-> TRUE, axioms |-> {}, unsafe |-> FALSE]
    BY <1>4, <1>6
  <2>2. Header
    <3>1. c \in 1..L /\ out[c] = "closed"
      BY <1>1, <1>2, <1>3, <1>6
    <3>. QED
      BY <1>1, <3>1 DEF Headers
  <2>3. LastBlock(out) = {}
    <3>1. ASSUME NEW i \in 1..L, NEW h \in 1..i - 1, out[h] = "Axioms:", \A j \in h + 1..L : out[j] \notin Headers
          PROVE FALSE
      <4>1. h \in 1..L /\ h <= a
        <5>1. h \in 1..L
          BY <1>1
        <5>2. ~(h \in a + 1..L)
          BY <1>2, <3>1
        <5>. QED
          BY <1>1, <1>2, <5>1, <5>2
      <4>2. c \in h + 1..L /\ out[c] = "closed"
        BY <1>1, <1>2, <1>3, <1>6, <4>1
      <4>. QED
        BY <3>1, <4>2 DEF Headers
    <3>. QED
      BY <1>1, <3>1 DEF LastBlock
  <2>. QED
    BY <2>1, <2>2, <2>3
<1>7. CASE c = 0 /\ a = 0
  <2>1. parse_assumptions(out) = [found |-> FALSE, axioms |-> {}, unsafe |-> FALSE]
    BY <1>4, <1>7
  <2>2. ~Header
    BY <1>1, <1>2, <1>3, <1>7 DEF Headers
  <2>. QED
    BY <2>1, <2>2
<1>8. CASE ~(c > a) /\ ~(c = 0 /\ a = 0)
  <2>. DEFINE R == [found |-> TRUE, axioms |-> lines \ {"***"}, unsafe |-> "***" \in lines]
  <2>1. parse_assumptions(out) = R
    <3>. HIDE DEF lines
    <3>. QED
      BY <1>4, <1>8
  <2>2. c <= a /\ a \in 1..L /\ out[a] = "Axioms:"
    BY <1>1, <1>2, <1>3, <1>8
  <2>3. Header
    BY <1>1, <2>2 DEF Headers
  <2>4. \A j \in a + 1..L : out[j] \notin Headers
    <3>1. \A j \in a + 1..L : j \in c + 1..L
      BY <1>1, <1>2, <1>3, <2>2
    <3>. QED
      BY <1>2, <1>3, <3>1 DEF Headers
  <2>5. LastBlock(out) = {out[j] : j \in a + 1..L}
    <3>1. ASSUME NEW i \in 1..L, NEW h \in 1..i - 1, out[h] = "Axioms:", \A j \in h + 1..L : out[j] \notin Headers
          PROVE  i \in a + 1..L
      <4>1. h \in 1..L /\ h \in Int /\ i \in Int
        BY <1>1
      <4>2. ~(a \in h + 1..L)
        BY <2>2, <3>1 DEF Headers
      <4>3. a <= h
        BY <1>1, <2>2, <4>1, <4>2
      <4>. QED
        BY <1>1, <2>2, <4>1, <4>3
    <3>2. ASSUME NEW i \in a + 1..L PROVE i \in 1..L /\ a \in 1..i - 1
      BY <1>1, <2>2
    <3>3. LastBlock(out) = {out[i] : i \in {i \in 1..L : \E h \in 1..i - 1 :
                              out[h] = "Axioms:" /\ \A j \in h + 1..L : out[j] \notin Headers}}
      BY <1>1 DEF LastBlock
    <3>4. {i \in 1..L : \E h \in 1..i - 1 : out[h] = "Axioms:" /\ \A j \in h + 1..L : out[j] \notin Headers}
            = a + 1..L
      BY <2>2, <2>4, <3>1, <3>2
    <3>. QED
      BY <3>3, <3>4
  <2>6. LastBlock(out) = lines
    BY <1>5, <2>5
  <2>. HIDE DEF lines
  <2>7. R.found /\ (R.unsafe <=> "***" \in lines) /\ R.axioms = lines \ {"***"}
    OBVIOUS
  <2>. HIDE DEF R
  <2>8. R.found /\ ~R.unsafe /\ t \notin R.axioms <=> lines \cap {"***", t} = {}
    BY <2>7
  <2>. QED
    BY <2>1, <2>3, <2>6, <2>8
<1>. QED
  BY <1>6, <1>7, <1>8

\* What the gate reads of a candidate: the prefix, and what is behind it.
LEMMA CandidateIsRead ==
  ASSUME NEW T, Blank \in T, Special \subseteq T, NEW above \in Seq(Text(T)), NEW doc \in Seq(Written(T))
  PROVE  LET candidate == Render(above \o doc)
             split     == split_at_prefix(candidate, Render(above))
             region    == strip_comments(SubSeq(candidate, split + 1, Len(candidate)))
         IN  /\ split # NoSplit
             /\ (\E i \in DOMAIN region : region[i] \in Forbidden) <=> Code(doc) \cap Forbidden # {}
<1>. DEFINE p == Render(above)
            w == Render(doc)
            c == p \o w
            x == split_at_prefix(c, p)
            src == SubSeq(c, x + 1, Len(c))
            b == Len(p) - x
            region == strip_comments(src)
<1>1. doc \in Seq(Text(T))
  <2>. DEFINE X == Text(T)
  <2>1. \A i \in 1..Len(doc) : doc[i] \in X
    BY WrittenIsRead
  <2>. HIDE DEF X
  <2>2. doc \in Seq(X)
    BY <2>1
  <2>. QED
    BY <2>2 DEF X
<1>2. Render(above \o doc) = c
  BY <1>1, RenderConcat
<1>3. p \in Seq(T) /\ w \in Seq(T)
  <2>1. Len(above) \in 0..Len(above) /\ Len(doc) \in 0..Len(doc)
    OBVIOUS
  <2>. QED
    BY <1>1, <2>1, RenderIs
<1>. HIDE DEF p, w
<1>4. /\ c \in Seq(T) /\ Len(p) \in Nat /\ Len(w) \in Nat /\ Len(c) = Len(p) + Len(w)
      /\ \A i \in 1..Len(p) : c[i] = p[i]
      /\ \A i \in 1..Len(w) : c[Len(p) + i] = w[i]
  BY <1>3
<1>5. x \in 0..Len(p) /\ \A j \in x + 1..Len(p) : p[j] = Blank
  BY <1>3, SplitIs
<1>. HIDE DEF c, x
<1>6. src \in Seq(T) /\ Len(src) = Len(c) - x /\ \A i \in 1..Len(c) - x : src[i] = c[x + i]
  <2>1. x \in Nat /\ Len(c) \in Nat /\ x <= Len(c) /\ x + 1 \in 1..Len(c) + 1
    BY <1>4, <1>5
  <2>. QED
    BY <1>4, <2>1
<1>. HIDE DEF src
<1>7. b \in 0..Len(src) /\ Len(src) = b + Len(w) /\ Len(src) \in Nat
  BY <1>4, <1>5, <1>6
<1>8. ASSUME NEW j \in 1..b PROVE src[j] = Blank
  <2>1. x + j \in x + 1..Len(p) /\ x + j \in 1..Len(p) /\ j \in 1..Len(c) - x
    BY <1>4, <1>5
  <2>. QED
    BY <1>4, <1>5, <1>6, <2>1
<1>9. Occurs(w, src, b)
  <2>1. ASSUME NEW j \in 1..Len(w) PROVE src[b + j] = w[j]
    <3>1. b + j \in 1..Len(c) - x /\ x + (b + j) = Len(p) + j
      BY <1>4, <1>5
    <3>. HIDE DEF b
    <3>. QED
      BY <1>4, <1>6, <3>1
  <2>. QED
    BY <1>7, <2>1 DEF Occurs
<1>. HIDE DEF b
<1>10. Quiet(Reading(src)[b]) /\ Reading(src)[b].depth = 0 /\ Words(Reading(src)[b]) = {}
  BY <1>6, <1>7, <1>8, BlanksAreRead
<1>11. HasRead(Reading(src)[b], Reading(src)[b + Len(w)], Code(doc))
  BY <1>6, <1>7, <1>9, <1>10, DocIsRead DEF w
<1>12. Words(Reading(src)[Len(src)]) = Code(doc) \cap Forbidden
  BY <1>7, <1>10, <1>11 DEF HasRead
<1>13. region = Reading(src)[Len(src)].out
  BY <1>6, ReadingIs
<1>14. (\E i \in DOMAIN region : region[i] \in Forbidden) <=> Code(doc) \cap Forbidden # {}
  <2>1. Words(Reading(src)[Len(src)]) = {region[k] : k \in DOMAIN region} \cap Forbidden
    BY <1>13 DEF Words
  <2>. HIDE DEF region
  <2>. QED
    BY <1>12, <2>1
<1>15. x # NoSplit
  BY <1>5 DEF NoSplit
<1>. HIDE DEF region
<1>16. region = strip_comments(SubSeq(c, x + 1, Len(c)))
  BY DEF region, src
<1>. QED
  BY <1>2, <1>14, <1>15, <1>16 DEF x, p

\* The verdict on it, and what it should be.
Accepts(above, doc, t, code, code2, out) ==
  check(Render(above \o doc), Render(above), t, code, code2, out) = "solved"

Acceptable(doc, t, code, code2, out) ==
  /\ Code(doc) \cap Forbidden = {}
  /\ code = 0 /\ code2 = 0
  /\ \E i \in DOMAIN out : out[i] \in Headers
  /\ LastBlock(out) \cap {"***", t} = {}

LEMMA VerdictIs ==
  ASSUME NEW T, Blank \in T, Special \subseteq T, NEW above \in Seq(Text(T)), NEW doc \in Seq(Written(T)),
         NEW t, NEW code \in {0, 1}, NEW code2 \in {0, 1}, NEW out, \E S : out \in Seq(S)
  PROVE  Accepts(above, doc, t, code, code2, out) <=> Acceptable(doc, t, code, code2, out)
<1>. DEFINE candidate == Render(above \o doc)
            split  == split_at_prefix(candidate, Render(above))
            region == strip_comments(SubSeq(candidate, split + 1, Len(candidate)))
            audit  == parse_assumptions(out)
            bad    == \E i \in DOMAIN region : region[i] \in Forbidden
            good   == audit.found /\ ~audit.unsafe /\ t \notin audit.axioms
<1>1. split # NoSplit /\ (bad <=> Code(doc) \cap Forbidden # {})
  BY CandidateIsRead
<1>2. good <=> /\ \E i \in DOMAIN out : out[i] \in Headers
               /\ LastBlock(out) \cap {"***", t} = {}
  BY AuditIs
<1>3. check(candidate, Render(above), t, code, code2, out) =
        CASE split = NoSplit -> "prefix_modified"
          [] split # NoSplit /\ bad -> "forbidden_token"
          [] OTHER ->
               IF code # 0 THEN "recompile_failed"
               ELSE IF code2 # 0 THEN "assumption_audit_failed"
               ELSE IF ~audit.found THEN "assumption_parse_failed"
               ELSE IF audit.unsafe THEN "unsafe_flags"
               ELSE IF t \in audit.axioms THEN "target_is_axiom"
               ELSE "solved"
  BY DEF check
<1>. HIDE DEF candidate, split, audit, bad
<1>4. (check(candidate, Render(above), t, code, code2, out) = "solved")
        <=> ~bad /\ code = 0 /\ code2 = 0 /\ good
  BY <1>1, <1>3
<1>. HIDE DEF good
<1>. QED
  BY <1>1, <1>2, <1>4 DEF candidate, Accepts, Acceptable

\* What the agents commit is written with the symbols in T: words, strings and
\* comments.  The text above the statement is any text of them.
IsWrittenWith(T) ==
  /\ Special \cup {Blank} \subseteq T
  /\ Piece \subseteq Written(T) /\ \A s \in SetName : Closer[s] \in Written(T)
  /\ Above \in Seq(Text(T))

CandidatesAreWritten(T) ==
  \A d \in Attempt \X SetName : written[d] \in Seq(Written(T))

LEMMA CandidatesAreWrittenNext ==
  ASSUME NEW T, IsWrittenWith(T), RInv, CandidatesAreWritten(T), [Next]_vars
  PROVE  CandidatesAreWritten(T)'
<1>1. CASE RunSession
  <2>. DEFINE d == <<Current, Set>>
  <2>1. /\ turn \in DOMAIN Attempts /\ sets \in DOMAIN SetNames
        /\ Current \in Attempt /\ Set \in SetName
    BY <1>1, CurrentAttempt DEF RunSession, RInv, UnderWay
  <2>2. mined \in Seq(Piece) /\ written = [e \in Attempt \X SetName |-> written[e]]
    BY DEF RInv, ReplayType
  <2>3. PICK closes \in BOOLEAN :
          IF closes
            THEN \E doc \in Completions(mined, Set) : written' = [written EXCEPT ![d] = doc]
            ELSE UNCHANGED written
    BY <1>1 DEF RunSession, Dir
  <2>4. CASE closes
    <3>1. PICK doc \in Completions(mined, Set) : written' = [written EXCEPT ![d] = doc]
      BY <2>3, <2>4
    <3>. DEFINE W == Written(T)
    <3>2. Piece \subseteq W /\ Closer[Set] \in W
      BY <2>1 DEF IsWrittenWith
    <3>. HIDE DEF W
    <3>3. Len(mined) \in Nat /\ \A i \in 1..Len(mined) : mined[i] \in W
      BY <2>2, <3>2, LenProperties, ElementOfSeq
    <3>4. \A k \in 0..Len(mined) : SubSeq(mined, 1, k) \in Seq(W)
      <4>. SUFFICES ASSUME NEW k \in 0..Len(mined) PROVE SubSeq(mined, 1, k) \in Seq(W)
        OBVIOUS
      <4>1. k \in Nat /\ \A i \in 1..k : mined[i] \in W
        BY <3>3
      <4>. QED
        BY <2>2, <4>1, SubSeqProperties
    <3>5. \A k \in 0..Len(mined) : Append(SubSeq(mined, 1, k), Closer[Set]) \in Seq(W)
      BY <3>2, <3>4, AppendProperties
    <3>6. doc \in Seq(W)
      <4>1. \A k \in 1..Len(mined) : k \in 0..Len(mined)
        BY <3>3
      <4>. QED
        BY <3>4, <3>5, <4>1 DEF Completions
    <3>7. ASSUME NEW e \in Attempt \X SetName PROVE written'[e] = IF e = d THEN doc ELSE written[e]
      BY <2>2, <3>1
    <3>. QED
      BY <3>6, <3>7 DEF CandidatesAreWritten, W
  <2>. QED
    BY <2>3, <2>4 DEF CandidatesAreWritten
<1>2. CASE ~RunSession
  <2>1. UNCHANGED written
    BY <1>2 DEF Next, Cut, Step, Rollback, State, ToolCall, Again, Fails, Start, Skip, Load,
                Judge, WriteRow, Return, Kill, vars
  <2>. QED
    BY <2>1 DEF CandidatesAreWritten
<1>. QED
  BY <1>1, <1>2

\* The gate reads every candidate as it is meant, whatever words, strings and comments
\* the agent wrote, however deep they are nested and however long the proof is, behind
\* whatever prefix: it finds where that ends (split_at_prefix), what of the rest is code
\* (strip_comments) and what the audit says last (parse_assumptions), whatever that
\* printed before.
THEOREM EveryCandidateIsRead ==
  ASSUME NEW T, IsWrittenWith(T), \A out \in Outputs : \E S : out \in Seq(S)
  PROVE  Spec => []GateReadsStructure
<1>1. Init => CandidatesAreWritten(T)
  <2>. DEFINE W == Written(T)
  <2>1. <<>> \in Seq(W)
    BY EmptySeq
  <2>. QED
    BY <2>1 DEF Init, NoDoc, CandidatesAreWritten
<1>2. RInv /\ CandidatesAreWritten(T) => GateReadsStructure
  <2>1. SUFFICES ASSUME RInv, CandidatesAreWritten(T), pc = "judge",
                        NEW code \in {0, 1}, NEW code2 \in {0, 1}, NEW out2 \in Outputs
        PROVE  (check(Candidate, Render(Above), theorem, code, code2, out2) = "solved") <=>
                 /\ Code(written[Dir(Current, Set)]) \cap Forbidden = {}
                 /\ code = 0 /\ code2 = 0
                 /\ \E i \in DOMAIN out2 : out2[i] \in Headers
                 /\ LastBlock(out2) \cap {"***", theorem} = {}
    BY DEF GateReadsStructure
  <2>. DEFINE doc == written[Dir(Current, Set)]
  <2>2. turn \in DOMAIN Attempts /\ sets \in DOMAIN SetNames /\ Current \in Attempt /\ Set \in SetName
    BY <2>1, CurrentAttempt DEF RInv, UnderWay
  <2>3. doc \in Seq(Written(T))
    BY <2>1, <2>2 DEF CandidatesAreWritten, Dir
  <2>4. Blank \in T /\ Special \subseteq T /\ Above \in Seq(Text(T))
    BY DEF IsWrittenWith
  <2>5. Candidate = Render(Above \o doc)
    BY DEF Candidate
  <2>6. \E S : out2 \in Seq(S)
    BY <2>1
  <2>. HIDE DEF doc
  <2>7. Accepts(Above, doc, theorem, code, code2, out2) <=> Acceptable(doc, theorem, code, code2, out2)
    BY <2>3, <2>4, <2>6, VerdictIs
  <2>. QED
    BY <2>5, <2>7 DEF doc, Accepts, Acceptable
<1>3. Spec => []RInv
  BY ReplayInvariant
<1>. QED
  BY <1>1, <1>2, <1>3, CandidatesAreWrittenNext, PTL DEF Spec
=============================================================================
