---------------------------- MODULE ProverProofs ----------------------------
(* Facts about running a text that every proof about the daemon rests on. *)
EXTENDS Prover, TLAPS, WellFoundedInduction, SequenceTheorems

\* Induction on the naturals, stated over a set so that it can be cited.
LEMMA SetInduction ==
  ASSUME NEW S, 0 \in S, \A n \in Nat : n \in S => n + 1 \in S
  PROVE  Nat \subseteq S
<1> DEFINE Miss == {n \in Nat : n \notin S}
<1> SUFFICES ASSUME Miss # {} PROVE FALSE
  OBVIOUS
<1>1. \E x \in Miss : \A y \in Miss : <<y, x>> \notin OpToRel(<, Nat)
  <2>1. Miss \subseteq Nat
    OBVIOUS
  <2> HIDE DEF Miss
  <2> QED BY <2>1, NatLessThanWellFounded, WFMin
<1>2. PICK x \in Miss : \A y \in Miss : <<y, x>> \notin OpToRel(<, Nat)
  BY <1>1
<1>3. x \in Nat \ {0} /\ x - 1 \in Nat /\ x - 1 < x
  OBVIOUS
<1>4. <<x - 1, x>> \in OpToRel(<, Nat)
  <2>1. <<x - 1, x>> \in Nat \X Nat /\ <<x - 1, x>>[1] < <<x - 1, x>>[2]
    BY <1>3
  <2> QED BY <2>1, Zenon DEF OpToRel
<1>5. x - 1 \in S
  BY <1>2, <1>3, <1>4
<1>6. (x - 1) + 1 \in S /\ (x - 1) + 1 = x
  BY <1>3, <1>5
<1> QED BY <1>6

LEMMA LeastExists ==
  ASSUME NEW S \in SUBSET Nat, S # {}
  PROVE  \E i \in S : \A j \in S : i <= j
<1>1. PICK i \in S : \A j \in S : <<j, i>> \notin OpToRel(<, Nat)
  <2> HIDE DEF OpToRel
  <2> QED BY NatLessThanWellFounded, WFMin
<1>2. ASSUME NEW j \in S PROVE ~(j < i)
  <2>1. SUFFICES ASSUME j < i PROVE <<j, i>> \in OpToRel(<, Nat)
    BY <1>1
  <2>2. <<j, i>> \in Nat \X Nat /\ <<j, i>>[1] < <<j, i>>[2]
    BY <2>1
  <2> QED BY <2>2, Zenon DEF OpToRel
<1>3. \A j \in S : i <= j
  BY <1>2
<1> QED BY <1>3

----
\* The run of a text, as a function of how many sentences have been read.
Start(st) == [st |-> st, kept |-> <<>>, done |-> TRUE]

IsRun(f, st, text, n) ==
  f = [i \in 0..n |-> IF i = 0 THEN Start(st) ELSE ExecNext(f[i - 1], text[i])]

\* The recursion in ExecText defines a function.
LEMMA RunExists ==
  ASSUME NEW st, NEW text, NEW n \in Nat
  PROVE  \E f : IsRun(f, st, text, n)
<1> DEFINE S == {m \in Nat : \E f : IsRun(f, st, text, m)}
<1>1. 0 \in S
  <2> DEFINE f == [i \in 0..0 |-> Start(st)]
  <2>1. f = [i \in 0..0 |-> IF i = 0 THEN Start(st) ELSE ExecNext(f[i - 1], text[i])]
    OBVIOUS
  <2> QED BY <2>1 DEF IsRun
<1>2. ASSUME NEW m \in Nat, m \in S PROVE m + 1 \in S
  <2>1. PICK f : IsRun(f, st, text, m)
    BY <1>2
  <2> DEFINE g == [i \in 0..(m + 1) |-> IF i <= m THEN f[i] ELSE ExecNext(f[m], text[m + 1])]
  <2> DEFINE h == [i \in 0..(m + 1) |-> IF i = 0 THEN Start(st) ELSE ExecNext(g[i - 1], text[i])]
  <2>2. ASSUME NEW i \in 0..(m + 1) PROVE g[i] = h[i]
    <3>1. CASE i = 0
      BY <2>1, <3>1 DEF IsRun
    <3>2. CASE i \in 1..m
      <4>1. g[i] = f[i] /\ i - 1 \in 0..(m + 1) /\ i - 1 <= m /\ i \in 0..m /\ i # 0
        BY <3>2
      <4>2. g[i - 1] = f[i - 1]
        BY <4>1
      <4>3. f[i] = ExecNext(f[i - 1], text[i])
        BY <2>1, <4>1 DEF IsRun
      <4>4. h[i] = ExecNext(g[i - 1], text[i])
        BY <4>1
      <4> QED BY <4>1, <4>2, <4>3, <4>4
    <3>3. CASE i = m + 1
      BY <3>3
    <3> QED BY <3>1, <3>2, <3>3
  <2>3. g = h
    BY <2>2
  <2>4. IsRun(g, st, text, m + 1)
    BY <2>3 DEF IsRun
  <2> QED BY <2>4
<1>3. Nat \subseteq S
  <2> HIDE DEF S
  <2> QED BY <1>1, <1>2, SetInduction
<1> QED BY <1>3

\* ExecText is the value of such a run at the text's end.
LEMMA ExecTextIsRun ==
  ASSUME NEW st, NEW text, Len(text) \in Nat
  PROVE  \E f : IsRun(f, st, text, Len(text)) /\ ExecText(st, text) = f[Len(text)]
<1> DEFINE Run(f) == IsRun(f, st, text, Len(text))
<1>1. \E f : Run(f)
  BY RunExists
<1>2. Run(CHOOSE f : Run(f))
  BY <1>1
<1>3. ExecText(st, text) = (CHOOSE f : Run(f))[Len(text)]
  BY DEF ExecText, IsRun, Start
<1> QED BY <1>2, <1>3

\* What a run starts with, how it goes on, and how the sets it passes through
\* are shown.
LEMMA RunSteps ==
  ASSUME NEW st, NEW text, NEW n \in Nat, NEW f, IsRun(f, st, text, n)
  PROVE  /\ f[0] = Start(st)
         /\ \A i \in 1..n : f[i] = ExecNext(f[i - 1], text[i])
<1>1. f[0] = Start(st)
  BY DEF IsRun
<1>2. ASSUME NEW i \in 1..n PROVE f[i] = ExecNext(f[i - 1], text[i])
  <2>1. i \in 0..n /\ i # 0
    BY <1>2
  <2> QED BY <2>1 DEF IsRun
<1> QED BY <1>1, <1>2

LEMMA RunInvariant ==
  ASSUME NEW st, NEW text, NEW n \in Nat, NEW f, IsRun(f, st, text, n),
         NEW S, Start(st) \in S[0],
         \A i \in 1..n : \A r \in S[i - 1] : ExecNext(r, text[i]) \in S[i]
  PROVE  f[n] \in S[n]
<1> DEFINE T == {i \in Nat : i <= n => f[i] \in S[i]}
<1>1. 0 \in T
  BY RunSteps
<1>2. ASSUME NEW i \in Nat, i \in T PROVE i + 1 \in T
  <2>1. SUFFICES ASSUME i + 1 <= n PROVE f[i + 1] \in S[i + 1]
    OBVIOUS
  <2>2. f[i] \in S[i] /\ i + 1 \in 1..n /\ (i + 1) - 1 = i
    BY <1>2, <2>1
  <2>3. f[i + 1] = ExecNext(f[i], text[i + 1])
    BY <2>2, RunSteps
  <2> QED BY <2>2, <2>3
<1>3. Nat \subseteq T
  <2> HIDE DEF T
  <2> QED BY <1>1, <1>2, SetInduction
<1> QED BY <1>3

----
\* A sentence leads from a snapshot to a snapshot, or is rejected.
LEMMA StuckIsNone == Stuck \notin Snapshot
BY DEF Stuck, Snapshot

LEMMA OpeningIsSnapshot == Opening \in Snapshot
BY ProverConstants DEF Opening, Stated, Snapshot

LEMMA ExecType ==
  ASSUME NEW st \in Snapshot, NEW s \in Sentence
  PROVE  Exec(st, s) \in Snapshot \union {Stuck}
<1> USE DEF Snapshot
<1>0. st.goals \in Seq(Goal) /\ st.ctx \in Seq(Frame) /\ s.sel \in Nat
  BY DEF Sentence
<1>1. ASSUME NEW k \in Nat, k \in DOMAIN st.goals
      PROVE  Before(st, k) \in Seq(Goal) /\ Behind(st, k) \in Seq(Goal) /\ st.goals[k] \in Goal
  BY <1>0, <1>1 DEF Before, Behind
<1>2. CASE s.verb \in Tactic
  <2>1. Apply(st, s.verb, s.sel) \in Snapshot \union {Stuck}
    <3>1. CASE s.sel \in DOMAIN st.goals /\ st.goals[s.sel] \in DOMAIN Effect[s.verb]
      <4>1. Effect[s.verb][st.goals[s.sel]] \in Seq(Goal)
        BY <1>2, <3>1, ProverConstants
      <4>2. Before(st, s.sel) \o Effect[s.verb][st.goals[s.sel]] \o Behind(st, s.sel) \in Seq(Goal)
        BY <1>0, <1>1, <3>1, <4>1
      <4> QED BY <3>1, <4>2 DEF Apply
    <3> QED BY <3>1 DEF Apply
  <2>2. s.verb \notin Keyword
    BY <1>2, ProverConstants
  <2> QED BY <1>2, <2>1, <2>2 DEF Exec, IsQuery, ProofOpen, Keyword
<1>3. CASE s.verb = "{"
  <2>1. OpenBlock(st, s.sel) \in Snapshot \union {Stuck}
    <3>1. CASE s.sel \in DOMAIN st.goals
      <4>1. [left |-> Before(st, s.sel), right |-> Behind(st, s.sel)] \in Frame
        BY <1>0, <1>1, <3>1 DEF Frame
      <4>2. Append(st.ctx, [left |-> Before(st, s.sel), right |-> Behind(st, s.sel)]) \in Seq(Frame)
        BY <1>0, <4>1
      <4>3. <<st.goals[s.sel]>> \in Seq(Goal)
        BY <1>0, <1>1, <3>1
      <4> QED BY <3>1, <4>2, <4>3 DEF OpenBlock
    <3> QED BY <3>1 DEF OpenBlock
  <2>2. s.verb \notin Tactic
    BY <1>3, ProverConstants DEF Keyword
  <2> QED BY <1>3, <2>1, <2>2 DEF Exec, IsQuery, ProofOpen
<1>4. CASE s.verb = "}"
  <2>1. CloseBlock(st) \in Snapshot \union {Stuck}
    <3>1. CASE st.goals = <<>> /\ st.ctx # <<>>
      <4> DEFINE f == st.ctx[Len(st.ctx)]
      <4>1. f \in Frame
        BY <1>0, <3>1
      <4>2. f.left \o f.right \in Seq(Goal)
        BY <4>1 DEF Frame
      <4>3. SubSeq(st.ctx, 1, Len(st.ctx) - 1) \in Seq(Frame)
        BY <1>0, <3>1
      <4> QED BY <3>1, <4>2, <4>3 DEF CloseBlock
    <3> QED BY <3>1 DEF CloseBlock
  <2>2. s.verb \notin Tactic
    BY <1>4, ProverConstants DEF Keyword
  <2> QED BY <1>4, <2>1, <2>2 DEF Exec, IsQuery, ProofOpen
<1>5. CASE s.verb \in {"Qed", "Abort", "Search"}
  <2>1. s.verb \notin Tactic
    BY <1>5, ProverConstants DEF Keyword
  <2>2. Ended("qed") \in Snapshot /\ Ended("aborted") \in Snapshot
    BY DEF Ended
  <2> QED BY <1>5, <2>1, <2>2 DEF Exec, IsQuery, ProofOpen
<1>6. CASE s.verb \in {"Lemma", "Definition"}
  <2>1. s.verb \notin Tactic
    BY <1>6, ProverConstants DEF Keyword
  <2>2. Stated(Aside) \in Snapshot
    <3>1. <<Aside>> \in Seq(Goal)
      BY ProverConstants
    <3> QED BY <3>1 DEF Stated
  <2> QED BY <1>6, <2>1, <2>2 DEF Exec, IsQuery, ProofOpen
<1> QED BY <1>2, <1>3, <1>4, <1>5, <1>6 DEF Sentence, Verb, Keyword

----
\* What a caller keeps of a text replays from where it began.
Kept == [text : {s \in Sentence : ~IsQuery(s)}, post : Snapshot]

LEMMA KeptAreSteps == Seq(Kept) \subseteq Seq(Step)
<1>1. Kept \subseteq Step
  BY DEF Kept, Step
<1> QED BY <1>1

LEMMA TextsType ==
  ASSUME NEW steps \in Seq(Step)
  PROVE  Texts(steps) \in Seq(Sentence)
<1>1. ASSUME NEW i \in DOMAIN steps PROVE steps[i].text \in Sentence
  <2>1. steps[i] \in Step
    BY <1>1
  <2> QED BY <2>1 DEF Step
<1> QED BY <1>1 DEF Texts

LEMMA StateAfterType ==
  ASSUME NEW st \in Snapshot, NEW steps \in Seq(Step)
  PROVE  StateAfter(st, steps) \in Snapshot
<1>1. CASE steps # <<>>
  <2>1. Len(steps) \in DOMAIN steps
    BY <1>1
  <2>2. steps[Len(steps)] \in Step
    BY <2>1
  <2> QED BY <1>1, <2>2 DEF StateAfter, Step
<1> QED BY <1>1 DEF StateAfter

LEMMA StateAfterConcat ==
  ASSUME NEW st, NEW a \in Seq(Step), NEW b \in Seq(Step)
  PROVE  StateAfter(st, a \o b) = StateAfter(StateAfter(st, a), b)
<1>1. CASE b = <<>>
  BY <1>1 DEF StateAfter
<1>2. CASE b # <<>>
  <2>1. a \o b # <<>> /\ (a \o b)[Len(a \o b)] = b[Len(b)]
    BY <1>2
  <2> QED BY <1>2, <2>1 DEF StateAfter
<1> QED BY <1>1, <1>2

LEMMA ReplayConcat ==
  ASSUME NEW st, NEW a \in Seq(Step), NEW b \in Seq(Step),
         IsReplay(st, a), IsReplay(StateAfter(st, a), b)
  PROVE  IsReplay(st, a \o b)
<1> DEFINE c == a \o b
<1> SUFFICES ASSUME NEW i \in DOMAIN c
             PROVE  /\ c[i].post # Stuck
                    /\ c[i].post = Exec(IF i = 1 THEN st ELSE c[i - 1].post, c[i].text)
  BY DEF IsReplay
<1>0. Len(a) \in Nat /\ Len(b) \in Nat /\ i \in 1..(Len(a) + Len(b))
  OBVIOUS
<1>1. CASE i <= Len(a)
  <2>1. i \in DOMAIN a /\ c[i] = a[i] /\ (i # 1 => c[i - 1] = a[i - 1])
    BY <1>0, <1>1
  <2> HIDE DEF c
  <2> QED BY <2>1 DEF IsReplay
<1>2. CASE i > Len(a)
  <2> DEFINE j == i - Len(a)
  <2>1. j \in DOMAIN b /\ c[i] = b[j] /\ (j # 1 => c[i - 1] = b[j - 1])
    BY <1>0, <1>2
  <2>2. (IF j = 1 THEN StateAfter(st, a) ELSE b[j - 1].post)
          = (IF i = 1 THEN st ELSE c[i - 1].post)
    <3>1. CASE j = 1 /\ a = <<>>
      BY <1>0, <3>1 DEF StateAfter
    <3>2. CASE j = 1 /\ a # <<>>
      <4>1. i # 1 /\ c[i - 1] = a[Len(a)]
        BY <1>0, <3>2
      <4> HIDE DEF c
      <4> QED BY <3>2, <4>1 DEF StateAfter
    <3>3. CASE j # 1
      <4>1. i # 1
        BY <1>0, <2>1, <3>3
      <4> HIDE DEF c, j
      <4> QED BY <2>1, <3>3, <4>1
    <3> QED BY <3>1, <3>2, <3>3
  <2> HIDE DEF c, j
  <2> QED BY <2>1, <2>2 DEF IsReplay
<1> QED BY <1>0, <1>1, <1>2

LEMMA ExecTextReplays ==
  ASSUME NEW st \in Snapshot, NEW text \in Seq(Sentence)
  PROVE  LET r == ExecText(st, text)
         IN  /\ r.kept \in Seq(Kept)
             /\ r.done \in BOOLEAN
             /\ r.st = StateAfter(st, r.kept)
             /\ IsReplay(st, r.kept)
<1> DEFINE Good == {r \in [st : Snapshot, kept : Seq(Kept), done : BOOLEAN] :
                      r.st = StateAfter(st, r.kept) /\ IsReplay(st, r.kept)}
           n == Len(text)
           S == [i \in 0..n |-> Good]
<1>0. n \in Nat
  OBVIOUS
<1>1. Start(st) \in Good
  BY DEF Start, StateAfter, IsReplay
<1>2. ASSUME NEW s \in Sentence, NEW r \in Good PROVE ExecNext(r, s) \in Good
  <2> DEFINE post == Exec(r.st, s)
             last == [text |-> s, post |-> post]
  <2>1. post \in Snapshot \union {Stuck}
    BY ExecType
  <2>2. CASE ~r.done \/ post = Stuck
    BY <2>2 DEF ExecNext
  <2>3. CASE r.done /\ post # Stuck /\ IsQuery(s)
    <3>1. post = r.st
      BY <2>3, ProverConstants DEF Exec, IsQuery, Keyword
    <3> QED BY <2>1, <2>3, <3>1 DEF ExecNext
  <2>4. CASE r.done /\ post # Stuck /\ ~IsQuery(s)
    <3> HIDE DEF post
    <3>1. last \in Kept
      BY <2>1, <2>4 DEF Kept
    <3>2. Kept \subseteq Step
      BY DEF Kept, Step
    <3>3. <<last>> \in Seq(Step) /\ r.kept \in Seq(Step)
      BY <3>1, <3>2
    <3>4. IsReplay(StateAfter(st, r.kept), <<last>>)
      BY <2>4 DEF IsReplay, post
    <3>5. Append(r.kept, last) = r.kept \o <<last>> /\ Append(r.kept, last) \in Seq(Kept)
      BY <3>1
    <3>6. IsReplay(st, Append(r.kept, last))
      BY <3>3, <3>4, <3>5, ReplayConcat
    <3>7. StateAfter(st, Append(r.kept, last)) = post
      BY <3>5 DEF StateAfter
    <3>8. ExecNext(r, s) = [st |-> post, kept |-> Append(r.kept, last), done |-> TRUE]
      BY <2>4 DEF ExecNext, post
    <3>9. ExecNext(r, s) \in [st : Snapshot, kept : Seq(Kept), done : BOOLEAN]
      BY <2>1, <2>4, <3>5, <3>8
    <3>10. ExecNext(r, s).st = post /\ ExecNext(r, s).kept = Append(r.kept, last)
      BY <3>8
    <3> HIDE DEF last
    <3> QED BY <3>6, <3>7, <3>9, <3>10
  <2> QED BY <2>2, <2>3, <2>4
<1>3. PICK f : IsRun(f, st, text, n) /\ ExecText(st, text) = f[n]
  BY <1>0, ExecTextIsRun
<1>4. f[n] \in S[n]
  <2>1. Start(st) \in S[0]
    BY <1>0, <1>1
  <2>2. \A i \in 1..n : \A r \in S[i - 1] : ExecNext(r, text[i]) \in S[i]
    BY <1>0, <1>2
  <2> HIDE DEF S, n
  <2> QED BY <1>0, <1>3, <2>1, <2>2, RunInvariant
<1> QED BY <1>0, <1>3, <1>4

\* And what replays, without queries, runs through to its last snapshot.
LEMMA ReplayRuns ==
  ASSUME NEW st, NEW steps \in Seq(Kept), IsReplay(st, steps)
  PROVE  ExecText(st, Texts(steps))
           = [st |-> StateAfter(st, steps), kept |-> steps, done |-> TRUE]
<1> DEFINE Upto(i) == SubSeq(steps, 1, i)
           S == [i \in 0..Len(steps) |->
                   {[st |-> StateAfter(st, Upto(i)), kept |-> Upto(i), done |-> TRUE]}]
<1>0. Len(steps) \in Nat /\ Len(Texts(steps)) = Len(steps)
  BY DEF Texts
<1>1. Start(st) \in S[0]
  <2>1. Upto(0) = <<>> /\ 0 \in 0..Len(steps)
    BY <1>0
  <2> QED BY <2>1 DEF Start, StateAfter
<1>2. ASSUME NEW i \in 1..Len(steps), NEW r \in S[i - 1]
      PROVE  ExecNext(r, Texts(steps)[i]) \in S[i]
  <2>1. r = [st |-> StateAfter(st, Upto(i - 1)), kept |-> Upto(i - 1), done |-> TRUE]
    BY <1>0, <1>2
  <2>2. StateAfter(st, Upto(i - 1)) = (IF i = 1 THEN st ELSE steps[i - 1].post)
    <3>1. CASE i = 1
      <4>1. Upto(i - 1) = <<>>
        BY <1>0, <3>1
      <4> HIDE DEF Upto
      <4> QED BY <3>1, <4>1 DEF StateAfter
    <3>2. CASE i # 1
      <4>1. i - 1 \in 1..Len(steps)
        BY <1>0, <3>2
      <4>2. Len(Upto(i - 1)) = i - 1 /\ Upto(i - 1)[i - 1] = steps[i - 1]
        BY <1>0, <4>1
      <4>3. Upto(i - 1) # <<>>
        BY <1>0, <4>1
      <4> HIDE DEF Upto
      <4> QED BY <3>2, <4>2, <4>3 DEF StateAfter
    <3> QED BY <3>1, <3>2
  <2>3. steps[i].post # Stuck /\ steps[i].post = Exec(r.st, steps[i].text)
    BY <1>2, <2>1, <2>2 DEF IsReplay
  <2>4. steps[i] = [text |-> steps[i].text, post |-> steps[i].post] /\ ~IsQuery(steps[i].text)
    <3>1. steps[i] \in Kept
      BY <1>0, <1>2
    <3> QED BY <3>1 DEF Kept
  <2>5. Upto(i) = Append(Upto(i - 1), steps[i]) /\ StateAfter(st, Upto(i)) = steps[i].post
    <3>1. Upto(i) = Append(Upto(i - 1), steps[i])
      BY <1>0, <1>2
    <3>2. Upto(i) # <<>> /\ Len(Upto(i)) = i /\ Upto(i)[i] = steps[i]
      BY <1>0, <1>2
    <3> HIDE DEF Upto
    <3> QED BY <3>1, <3>2 DEF StateAfter
  <2>6. Texts(steps)[i] = steps[i].text
    BY <1>2 DEF Texts
  <2>7. ExecNext(r, steps[i].text)
          = [st |-> steps[i].post, kept |-> Append(r.kept, steps[i]), done |-> TRUE]
    <3> HIDE DEF S, Upto
    <3> QED BY <2>1, <2>3, <2>4 DEF ExecNext
  <2>8. S[i] = {[st |-> StateAfter(st, Upto(i)), kept |-> Upto(i), done |-> TRUE]}
    BY <1>0, <1>2
  <2> HIDE DEF S, Upto
  <2> QED BY <2>1, <2>5, <2>6, <2>7, <2>8
<1>3. PICK f : /\ IsRun(f, st, Texts(steps), Len(steps))
               /\ ExecText(st, Texts(steps)) = f[Len(steps)]
  BY <1>0, ExecTextIsRun
<1>4. f[Len(steps)] \in S[Len(steps)]
  <2> HIDE DEF S
  <2> QED BY <1>0, <1>1, <1>2, <1>3, RunInvariant
<1>5. Upto(Len(steps)) = steps
  BY <1>0
<1>6. S[Len(steps)] = {[st |-> StateAfter(st, Upto(Len(steps))), kept |-> Upto(Len(steps)), done |-> TRUE]}
  BY <1>0
<1> HIDE DEF S, Upto
<1> QED BY <1>3, <1>4, <1>5, <1>6
----
LEMMA BlockSentences ==
  EndBlock \in Sentence /\ \A k \in Nat : Block(k) \in Sentence
BY DEF EndBlock, Say, Block, Sentence, Verb, Keyword

LEMMA TextsConcat ==
  ASSUME NEW a \in Seq(Step), NEW b \in Seq(Step)
  PROVE  Texts(a \o b) = Texts(a) \o Texts(b)
<1>0. a \o b \in Seq(Step) /\ Len(a) \in Nat /\ Len(b) \in Nat
  OBVIOUS
<1>1. Texts(a) \in Seq(Sentence) /\ Texts(b) \in Seq(Sentence) /\ Texts(a \o b) \in Seq(Sentence)
  BY <1>0, TextsType
<1>2. Len(Texts(a)) = Len(a) /\ Len(Texts(b)) = Len(b) /\ Len(Texts(a \o b)) = Len(a) + Len(b)
  BY DEF Texts
<1>3. ASSUME NEW i \in 1..(Len(a) + Len(b))
      PROVE  Texts(a \o b)[i] = (Texts(a) \o Texts(b))[i]
  <2>1. CASE i <= Len(a)
    BY <1>1, <1>2, <1>3, <2>1 DEF Texts
  <2>2. CASE i > Len(a)
    <3>1. i - Len(a) \in 1..Len(b) /\ (a \o b)[i] = b[i - Len(a)]
      BY <2>2
    <3>2. (Texts(a) \o Texts(b))[i] = Texts(b)[i - Len(a)]
      BY <1>1, <1>2, <2>2
    <3> QED BY <3>1, <3>2 DEF Texts
  <2>3. i <= Len(a) \/ i > Len(a)
    BY <1>0
  <2> QED BY <2>1, <2>2, <2>3
<1>4. Texts(a) \o Texts(b) \in Seq(Sentence)
      /\ Len(Texts(a) \o Texts(b)) = Len(a) + Len(b)
  <2>1. ASSUME NEW x \in Seq(Sentence), NEW y \in Seq(Sentence)
        PROVE  x \o y \in Seq(Sentence) /\ Len(x \o y) = Len(x) + Len(y)
    OBVIOUS
  <2> QED BY <1>1, <1>2, <2>1
<1> QED BY <1>0, <1>1, <1>2, <1>3, <1>4

\* A single step of its own is a text of its own.
LEMMA OneStep ==
  ASSUME NEW st \in Snapshot, NEW s \in Sentence, ~IsQuery(s), Exec(st, s) # Stuck
  PROVE  LET one == <<[text |-> s, post |-> Exec(st, s)]>>
         IN  /\ one \in Seq(Kept)
             /\ IsReplay(st, one)
             /\ StateAfter(st, one) = Exec(st, s)
             /\ Texts(one) = <<s>>
<1> DEFINE one == <<[text |-> s, post |-> Exec(st, s)]>>
<1>1. one \in Seq(Kept)
  <2>1. [text |-> s, post |-> Exec(st, s)] \in Kept
    BY ExecType DEF Kept
  <2> QED BY <2>1
<1>2. IsReplay(st, one)
  BY DEF IsReplay
<1>3. StateAfter(st, one) = Exec(st, s)
  BY DEF StateAfter
<1>4. Texts(one) = <<s>>
  BY DEF Texts
<1> QED BY <1>1, <1>2, <1>3, <1>4

----
\* Sentences that neither open nor close a block: they leave the blocks around
\* them alone, unless they end the proof.
Plain == {s \in Sentence : s.verb \notin {"{", "}"}}

\* The snapshots a "K: {" may leave: one goal, in the block f.
InBlock(g, f) == {st \in Snapshot : ProofOpen(st) /\ st.goals = <<g>> /\ st.ctx = <<f>>}

\* Steps that stay within the block f.
StayIn(f, steps) ==
  \A i \in DOMAIN steps : /\ ProofOpen(steps[i].post) /\ steps[i].post.ctx = <<f>>
                          /\ steps[i].text.verb \in Tactic \union {"Definition"}

\* The next sentence of a run is executed, and kept unless it is a query, or it
\* is not executed and the run stands still.
Runs == [st : Snapshot, kept : Seq(Kept), done : BOOLEAN]

LEMMA ExecNextCases ==
  ASSUME NEW r \in Runs, NEW s \in Sentence
  PROVE  LET next == ExecNext(r, s)
             post == Exec(r.st, s)
         IN  /\ next \in Runs
             /\ \/ ~next.done /\ next.st = r.st /\ next.kept = r.kept
                \/ /\ r.done /\ post # Stuck /\ next.st = post
                   /\ \/ IsQuery(s) /\ next.kept = r.kept
                      \/ ~IsQuery(s) /\ next.kept = Append(r.kept, [text |-> s, post |-> post])
<1> DEFINE post == Exec(r.st, s)
           last == [text |-> s, post |-> post]
<1>1. post \in Snapshot \union {Stuck}
  BY ExecType DEF Runs
<1>2. CASE ~r.done \/ post = Stuck
  BY <1>2 DEF ExecNext, Runs
<1>3. CASE r.done /\ post # Stuck /\ IsQuery(s)
  <2> HIDE DEF post
  <2>1. ExecNext(r, s) = [st |-> post, kept |-> r.kept, done |-> TRUE]
    BY <1>3 DEF ExecNext, post
  <2> QED BY <1>1, <1>3, <2>1 DEF Runs, post
<1>4. CASE r.done /\ post # Stuck /\ ~IsQuery(s)
  <2> HIDE DEF post
  <2>1. last \in Kept
    BY <1>1, <1>4 DEF Kept
  <2>2. ExecNext(r, s) = [st |-> post, kept |-> Append(r.kept, last), done |-> TRUE]
    BY <1>4 DEF ExecNext, post
  <2>3. Append(r.kept, last) \in Seq(Kept)
    BY <2>1 DEF Runs
  <2> HIDE DEF last
  <2> QED BY <1>1, <1>4, <2>2, <2>3 DEF Runs, post, last
<1> QED BY <1>2, <1>3, <1>4

LEMMA PlainOutside ==
  ASSUME NEW st \in Snapshot, st.ctx = <<>>, NEW s \in Plain, Exec(st, s) # Stuck
  PROVE  Exec(st, s).ctx = <<>>
<1>. s.verb \in Tactic \union {"Qed", "Abort", "Lemma", "Definition", "Search"} /\ s.sel \in Nat
  BY DEF Plain, Sentence, Verb, Keyword
<1>1. CASE s.verb \in Tactic
  <2>1. s.verb \notin Keyword
    BY <1>1, ProverConstants
  <2>2. ProofOpen(st) /\ Exec(st, s) = Apply(st, s.verb, s.sel)
    BY <1>1, <2>1 DEF Exec, IsQuery, Keyword
  <2> QED BY <2>2 DEF Apply, Snapshot
<1>2. CASE s.verb \in {"Qed", "Abort", "Lemma", "Definition", "Search"}
  <2>1. s.verb \notin Tactic
    BY <1>2, ProverConstants DEF Keyword
  <2> QED BY <1>2, <2>1 DEF Exec, IsQuery, Ended, Stated
<1> QED BY <1>1, <1>2

LEMMA PlainInBlock ==
  ASSUME NEW st \in Snapshot, NEW f \in Frame, ProofOpen(st), st.ctx = <<f>>,
         NEW s \in Plain, Exec(st, s) # Stuck
  PROVE  \/ Exec(st, s).ctx = <<>>
         \/ /\ ProofOpen(Exec(st, s)) /\ Exec(st, s).ctx = <<f>>
            /\ s.verb \in Tactic \union {"Definition", "Search"}
<1>. s.verb \in Tactic \union {"Qed", "Abort", "Lemma", "Definition", "Search"} /\ s.sel \in Nat
  BY DEF Plain, Sentence, Verb, Keyword
<1>1. CASE s.verb \in Tactic
  <2>1. s.verb \notin Keyword
    BY <1>1, ProverConstants
  <2>2. Exec(st, s) = Apply(st, s.verb, s.sel)
    BY <1>1, <2>1 DEF Exec, IsQuery, Keyword, ProofOpen
  <2> QED BY <1>1, <2>2 DEF Apply, Snapshot, ProofOpen
<1>2. CASE s.verb \in {"Qed", "Abort", "Lemma", "Definition", "Search"}
  <2>1. s.verb \notin Tactic
    BY <1>2, ProverConstants DEF Keyword
  <2> QED BY <1>2, <2>1 DEF Exec, IsQuery, Ended, Stated, ProofOpen
<1> QED BY <1>1, <1>2

\* What a sentence does to the focused goals depends neither on the blocks
\* around them nor on a flaw the proof may carry already.
LEMMA SameInAnyBlock ==
  ASSUME NEW st \in Snapshot, NEW there \in Snapshot, ProofOpen(st), ProofOpen(there),
         there.goals = st.goals, NEW s \in Sentence,
         s.verb \in Tactic \union {"Definition"}, Exec(st, s) # Stuck
  PROVE  /\ Exec(there, s) # Stuck /\ ProofOpen(Exec(there, s))
         /\ Exec(there, s).goals = Exec(st, s).goals
         /\ Exec(there, s).ctx = there.ctx
<1>1. CASE s.verb \in Tactic
  <2>1. s.verb \notin Keyword
    BY <1>1, ProverConstants
  <2>2. Exec(st, s) = Apply(st, s.verb, s.sel) /\ Exec(there, s) = Apply(there, s.verb, s.sel)
    BY <1>1, <2>1 DEF Exec, IsQuery, Keyword
  <2>3. s.sel \in DOMAIN st.goals /\ st.goals[s.sel] \in DOMAIN Effect[s.verb]
    BY <2>2 DEF Apply
  <2> DEFINE gs == Before(st, s.sel) \o Effect[s.verb][st.goals[s.sel]] \o Behind(st, s.sel)
  <2>4. Before(there, s.sel) \o Effect[s.verb][there.goals[s.sel]] \o Behind(there, s.sel) = gs
    BY DEF Before, Behind
  <2>5. Exec(st, s).goals = gs
    <3> HIDE DEF gs
    <3> QED BY <2>2, <2>3 DEF Apply, Snapshot, gs
  <2>6. Exec(there, s) = [there EXCEPT !.goals = gs, !.phase = IF s.verb \in Rash THEN "flawed" ELSE @]
    <3> HIDE DEF gs
    <3> QED BY <2>2, <2>3, <2>4 DEF Apply
  <2> HIDE DEF gs
  <2>7. Exec(there, s).goals = gs /\ Exec(there, s).ctx = there.ctx /\ ProofOpen(Exec(there, s))
    BY <2>6 DEF Snapshot, ProofOpen
  <2>8. ~ProofOpen(Stuck)
    BY DEF ProofOpen, Stuck
  <2> QED BY <2>5, <2>7, <2>8
<1>2. CASE s.verb = "Definition"
  <2>1. Exec(there, s) = there /\ Exec(st, s) = st
    BY <1>2, ProverConstants DEF Exec, IsQuery, Keyword
  <2> QED BY <2>1, StuckIsNone
<1> QED BY <1>1, <1>2

\* A text of plain sentences, run outside every block, stays outside.
LEMMA PlainTextOutside ==
  ASSUME NEW st \in Snapshot, st.ctx = <<>>, NEW text \in Seq(Plain)
  PROVE  ExecText(st, text).st.ctx = <<>>
<1> DEFINE n == Len(text)
           Good == {r \in Runs : r.st.ctx = <<>>}
           S == [i \in 0..n |-> Good]
<1>0. n \in Nat
  OBVIOUS
<1>1. Start(st) \in Good
  BY DEF Start, Runs
<1>2. ASSUME NEW s \in Plain, NEW r \in Good PROVE ExecNext(r, s) \in Good
  <2>1. s \in Sentence /\ r.st \in Snapshot
    BY DEF Plain, Runs
  <2> QED BY <2>1, ExecNextCases, PlainOutside, ZenonT(60)
<1>3. PICK f : IsRun(f, st, text, n) /\ ExecText(st, text) = f[n]
  BY <1>0, ExecTextIsRun
<1>4. f[n] \in S[n]
  <2>1. Start(st) \in S[0]
    BY <1>0, <1>1
  <2>2. \A i \in 1..n : \A r \in S[i - 1] : ExecNext(r, text[i]) \in S[i]
    BY <1>0, <1>2
  <2> HIDE DEF S, n
  <2> QED BY <1>0, <1>3, <2>1, <2>2, RunInvariant
<1> QED BY <1>0, <1>3, <1>4

\* A text of plain sentences, run inside a block, stays inside with all that is
\* kept of it, or ends the proof.
LEMMA PlainTextInBlock ==
  ASSUME NEW st \in Snapshot, NEW f \in Frame, ProofOpen(st), st.ctx = <<f>>,
         NEW text \in Seq(Plain)
  PROVE  LET r == ExecText(st, text)
         IN  \/ r.st.ctx = <<>>
             \/ ProofOpen(r.st) /\ r.st.ctx = <<f>> /\ StayIn(f, r.kept)
<1> DEFINE n == Len(text)
           Within(r) == ProofOpen(r.st) /\ r.st.ctx = <<f>> /\ StayIn(f, r.kept)
           Good == {r \in Runs : r.st.ctx = <<>> \/ Within(r)}
           S == [i \in 0..n |-> Good]
<1>0. n \in Nat
  OBVIOUS
<1>1. Start(st) \in Good
  BY DEF Start, Runs, StayIn
<1>2. ASSUME NEW s \in Plain, NEW r \in Good PROVE ExecNext(r, s) \in Good
  <2> DEFINE post == Exec(r.st, s)
             next == ExecNext(r, s)
  <2>1. s \in Sentence /\ r.st \in Snapshot /\ r \in Runs /\ r.kept \in Seq(Kept)
    BY DEF Plain, Runs
  <2>2. next \in Runs
    BY <2>1, ExecNextCases
  <2>3. CASE ~next.done /\ next.st = r.st /\ next.kept = r.kept
    BY <2>2, <2>3
  <2>4. CASE next.st = post /\ post # Stuck /\ post.ctx = <<>>
    BY <2>2, <2>4
  <2>5. CASE /\ next.st = post /\ post # Stuck /\ post.ctx # <<>>
             /\ \/ IsQuery(s) /\ next.kept = r.kept
                \/ ~IsQuery(s) /\ next.kept = Append(r.kept, [text |-> s, post |-> post])
    <3>1. r.st.ctx # <<>>
      BY <2>1, <2>5, PlainOutside
    <3>2. Within(r)
      BY <3>1
    <3>3. ProofOpen(post) /\ post.ctx = <<f>> /\ s.verb \in Tactic \union {"Definition", "Search"}
      BY <2>1, <2>5, <3>2, PlainInBlock
    <3> HIDE DEF post, next
    <3>4. CASE next.kept = r.kept
      BY <2>2, <2>5, <3>2, <3>3, <3>4 DEF next
    <3>5. CASE ~IsQuery(s) /\ next.kept = Append(r.kept, [text |-> s, post |-> post])
      <4>1. ASSUME NEW i \in DOMAIN next.kept
            PROVE  /\ ProofOpen(next.kept[i].post) /\ next.kept[i].post.ctx = <<f>>
                   /\ next.kept[i].text.verb \in Tactic \union {"Definition"}
        <5>1. CASE i \in DOMAIN r.kept
          <6>1. next.kept[i] = r.kept[i]
            BY <2>1, <3>5, <5>1
          <6> QED BY <3>2, <5>1, <6>1 DEF StayIn
        <5>2. CASE i \notin DOMAIN r.kept
          <6>1. next.kept[i] = [text |-> s, post |-> post]
            BY <2>1, <3>5, <4>1, <5>2
          <6> QED BY <3>3, <3>5, <6>1 DEF IsQuery
        <5> QED BY <5>1, <5>2
      <4>2. StayIn(f, next.kept)
        BY <4>1 DEF StayIn
      <4> QED BY <2>2, <2>5, <3>3, <4>2 DEF next
    <3> QED BY <2>5, <3>4, <3>5
  <2> QED BY <2>1, <2>3, <2>4, <2>5, ExecNextCases
<1>3. PICK g : IsRun(g, st, text, n) /\ ExecText(st, text) = g[n]
  BY <1>0, ExecTextIsRun
<1>4. g[n] \in S[n]
  <2>1. Start(st) \in S[0]
    BY <1>0, <1>1
  <2>2. \A i \in 1..n : \A r \in S[i - 1] : ExecNext(r, text[i]) \in S[i]
    BY <1>0, <1>2
  <2> HIDE DEF S, n
  <2> QED BY <1>0, <1>3, <2>1, <2>2, RunInvariant
<1> QED BY <1>0, <1>3, <1>4

\* A block's text, run through outside every block, ends outside every block,
\* whichever goal it was opened on.
LEMMA BlockTextCloses ==
  ASSUME NEW st \in Snapshot, st.ctx = <<>>, NEW k \in Nat,
         NEW inner \in Seq(Sentence),
         \A i \in DOMAIN inner : inner[i].verb \in Tactic \union {"Definition"},
         NEW text, text = <<Block(k)>> \o inner \o <<EndBlock>>, ExecText(st, text).done
  PROVE  ExecText(st, text).st.ctx = <<>>
<1> DEFINE n == Len(inner) + 2
           Inside(r) == \E f \in Frame : ProofOpen(r.st) /\ r.st.ctx = <<f>>
           AtStart == {r \in Runs : r.st.ctx = <<>>}
           InIt == {r \in Runs : r.done => Inside(r)}
           AtEnd == {r \in Runs : r.done => r.st.ctx = <<>>}
           S == [i \in 0..n |-> IF i = 0 THEN AtStart ELSE IF i = n THEN AtEnd ELSE InIt]
<1>0. /\ Len(inner) \in Nat /\ n \in Nat /\ Len(text) = n
      /\ text[1] = Block(k) /\ text[n] = EndBlock
      /\ \A i \in 2..(n - 1) : text[i] = inner[i - 1] /\ i - 1 \in DOMAIN inner
  OBVIOUS
<1>1. Start(st) \in AtStart
  BY DEF Start, Runs
<1>2. ASSUME NEW r \in AtStart PROVE ExecNext(r, Block(k)) \in InIt
  <2> DEFINE post == Exec(r.st, Block(k))
  <2>1. r \in Runs /\ Block(k) \in Sentence /\ r.st \in Snapshot
    BY DEF Runs, Block, Sentence, Verb, Keyword
  <2>2. ASSUME post # Stuck PROVE \E f \in Frame : ProofOpen(post) /\ post.ctx = <<f>>
    <3>1. Block(k).verb = "{" /\ Block(k).sel = k /\ "{" \notin Tactic
      BY ProverConstants DEF Block, Keyword
    <3>2. ProofOpen(r.st) /\ post = OpenBlock(r.st, k)
      BY <2>2, <3>1 DEF Exec, IsQuery
    <3>3. k \in DOMAIN r.st.goals
      BY <2>2, <3>2 DEF OpenBlock
    <3> DEFINE g == [left |-> Before(r.st, k), right |-> Behind(r.st, k)]
    <3>4. g \in Frame
      <4>1. r.st.goals \in Seq(Goal)
        BY <2>1 DEF Snapshot
      <4> QED BY <3>3, <4>1 DEF Frame, Before, Behind
    <3>5. post = [r.st EXCEPT !.goals = <<r.st.goals[k]>>, !.ctx = Append(@, g)]
      BY <3>2, <3>3 DEF OpenBlock
    <3> HIDE DEF g, post
    <3>6. r.st.ctx = <<>> /\ Append(r.st.ctx, g) = <<g>>
      <4>1. r.st.ctx = <<>>
        BY <1>2
      <4>2. ASSUME NEW x PROVE Append(<<>>, x) = <<x>>
        OBVIOUS
      <4> QED BY <4>1, <4>2
    <3> QED BY <2>1, <3>2, <3>4, <3>5, <3>6 DEF Snapshot, ProofOpen
  <2> HIDE DEF post
  <2> QED BY <2>1, <2>2, ExecNextCases DEF post
<1>3. ASSUME NEW s \in Sentence, s.verb \in Tactic \union {"Definition"}, NEW r \in InIt
      PROVE  ExecNext(r, s) \in InIt
  <2>1. r \in Runs /\ r.st \in Snapshot /\ s \in Plain /\ s.verb \notin {"{", "}", "Abort"}
    BY <1>3, ProverConstants DEF Runs, Plain, Keyword
  <2>2. ASSUME r.done, Exec(r.st, s) # Stuck
        PROVE  \E f \in Frame : ProofOpen(Exec(r.st, s)) /\ Exec(r.st, s).ctx = <<f>>
    <3>1. PICK f \in Frame : ProofOpen(r.st) /\ r.st.ctx = <<f>>
      BY <2>2
    <3>2. ProofOpen(Exec(r.st, s)) /\ Exec(r.st, s).ctx = <<f>>
      <4>1. CASE s.verb \in Tactic
        <5>1. s.verb \notin Keyword
          BY <4>1, ProverConstants
        <5>2. Exec(r.st, s) = Apply(r.st, s.verb, s.sel)
          BY <3>1, <4>1, <5>1 DEF Exec, IsQuery, Keyword, ProofOpen
        <5> QED BY <2>1, <2>2, <3>1, <5>2 DEF Apply, Snapshot, ProofOpen
      <4>2. CASE s.verb = "Definition"
        BY <3>1, <4>2, ProverConstants DEF Exec, IsQuery, Keyword
      <4> QED BY <1>3, <4>1, <4>2
    <3> QED BY <3>2
  <2> QED BY <2>1, <2>2, ExecNextCases
<1>4. ASSUME NEW r \in InIt PROVE ExecNext(r, EndBlock) \in AtEnd
  <2> DEFINE post == Exec(r.st, EndBlock)
  <2>1. r \in Runs /\ EndBlock \in Sentence /\ r.st \in Snapshot
    BY DEF Runs, EndBlock, Say, Sentence, Verb, Keyword
  <2>2. ASSUME r.done, post # Stuck PROVE post.ctx = <<>>
    <3>1. PICK f \in Frame : ProofOpen(r.st) /\ r.st.ctx = <<f>>
      BY <2>2
    <3>2. EndBlock.verb = "}" /\ "}" \notin Tactic
      BY ProverConstants DEF EndBlock, Say, Keyword
    <3>3. post = CloseBlock(r.st)
      BY <2>2, <3>1, <3>2 DEF Exec, IsQuery, ProofOpen
    <3>4. Len(<<f>>) = 1 /\ SubSeq(<<f>>, 1, 0) = <<>>
      OBVIOUS
    <3> HIDE DEF post
    <3> QED BY <2>1, <2>2, <3>1, <3>3, <3>4 DEF CloseBlock, Snapshot
  <2> HIDE DEF post
  <2> QED BY <2>1, <2>2, ExecNextCases DEF post
<1>5. PICK g : IsRun(g, st, text, n) /\ ExecText(st, text) = g[n]
  <2> HIDE DEF n
  <2>1. Len(text) \in Nat
    BY <1>0
  <2>2. \E g : IsRun(g, st, text, Len(text)) /\ ExecText(st, text) = g[Len(text)]
    BY <2>1, ExecTextIsRun, Zenon
  <2> QED BY <1>0, <2>2
<1>6. g[n] \in S[n]
  <2>1. Start(st) \in S[0]
    BY <1>0, <1>1
  <2>2. ASSUME NEW i \in 1..n, NEW r \in S[i - 1] PROVE ExecNext(r, text[i]) \in S[i]
    <3>1. CASE i = 1
      <4>1. r \in AtStart /\ S[i] = InIt
        BY <1>0, <2>2, <3>1
      <4> QED BY <1>0, <1>2, <3>1, <4>1
    <3>2. CASE i \in 2..(n - 1)
      <4>1. r \in InIt /\ S[i] = InIt
        BY <1>0, <2>2, <3>2
      <4>2. text[i] \in Sentence /\ text[i].verb \in Tactic \union {"Definition"}
        BY <1>0, <3>2
      <4> QED BY <1>3, <4>1, <4>2
    <3>3. CASE i = n
      <4>1. r \in InIt /\ S[i] = AtEnd
        BY <1>0, <2>2, <3>3
      <4> QED BY <1>0, <1>4, <3>3, <4>1
    <3> QED BY <1>0, <3>1, <3>2, <3>3
  <2> HIDE DEF S, n
  <2> QED BY <1>0, <1>5, <2>1, <2>2, RunInvariant
<1>7. S[n] = AtEnd
  BY <1>0
<1> HIDE DEF S
<1> QED BY <1>5, <1>6, <1>7
----
LEMMA StateAfterStays ==
  ASSUME NEW g \in Goal, NEW f \in Frame, NEW base \in InBlock(g, f),
         NEW steps \in Seq(Kept), StayIn(f, steps)
  PROVE  LET st == StateAfter(base, steps)
         IN  st \in Snapshot /\ ProofOpen(st) /\ st.ctx = <<f>>
<1>1. CASE steps = <<>>
  BY <1>1 DEF StateAfter, InBlock
<1>2. CASE steps # <<>>
  <2>1. Len(steps) \in DOMAIN steps /\ steps[Len(steps)] \in Kept
    BY <1>2
  <2> QED BY <1>2, <2>1 DEF StateAfter, StayIn, Kept
<1> QED BY <1>1, <1>2

\* A block that was emptied somewhere empties the same goal wherever it stands
\* now, and takes that goal alone off the list.
LEMMA BlockReplays ==
  ASSUME NEW st \in Snapshot, ProofOpen(st), st.ctx = <<>>, NEW k \in DOMAIN st.goals,
         NEW f \in Frame, NEW base \in InBlock(st.goals[k], f), NEW steps \in Seq(Kept),
         IsReplay(base, steps), StayIn(f, steps), StateAfter(base, steps).goals = <<>>,
         NEW text, text = <<Block(k)>> \o Texts(steps) \o <<EndBlock>>
  PROVE  LET r == ExecText(st, text)
         IN  r.done /\ r.st.goals = Before(st, k) \o Behind(st, k) /\ r.st.ctx = <<>>
<1> DEFINE m == Len(steps)
           n == m + 2
           h == [left |-> Before(st, k), right |-> Behind(st, k)]
           There(i) == IF i = 0 THEN base ELSE steps[i].post
           Inside(i) == {r \in Runs : /\ r.done /\ ProofOpen(r.st) /\ r.st.ctx = <<h>>
                                      /\ r.st.goals = There(i).goals}
           AtEnd == {r \in Runs : /\ r.done /\ r.st.ctx = <<>>
                                  /\ r.st.goals = Before(st, k) \o Behind(st, k)}
           S == [i \in 0..n |-> IF i = 0 THEN {Start(st)} ELSE IF i = n THEN AtEnd ELSE Inside(i - 1)]
<1>0. /\ st.goals \in Seq(Goal) /\ k \in Nat /\ m \in Nat /\ n \in Nat /\ DOMAIN steps = 1..m
      /\ \A i \in 1..m : steps[i] \in Kept
  BY DEF Snapshot
<1>1. h \in Frame
  BY <1>0 DEF Frame, Before, Behind
<1>2. /\ Len(text) = n /\ text[1] = Block(k) /\ text[n] = EndBlock
      /\ \A i \in 2..(n - 1) : text[i] = steps[i - 1].text /\ i - 1 \in 1..m
  <2>1. Texts(steps) \in Seq(Sentence) /\ Len(Texts(steps)) = m
        /\ \A i \in 1..m : Texts(steps)[i] = steps[i].text
    <3>1. steps \in Seq(Step)
      BY KeptAreSteps
    <3>2. Texts(steps) \in Seq(Sentence)
      BY <3>1, TextsType
    <3>3. \A i \in 1..m : Texts(steps)[i] = steps[i].text
      BY <1>0 DEF Texts
    <3>4. Len(Texts(steps)) = m
      BY <1>0 DEF Texts
    <3> QED BY <3>2, <3>3, <3>4
  <2>2. Block(k) \in Sentence /\ EndBlock \in Sentence
    BY <1>0, BlockSentences
  <2>3. ASSUME NEW x \in Sentence, NEW y \in Seq(Sentence), NEW z \in Sentence
        PROVE  LET w == <<x>> \o y \o <<z>>
               IN  /\ Len(w) = Len(y) + 2 /\ w[1] = x /\ w[Len(y) + 2] = z
                   /\ \A i \in 2..(Len(y) + 1) : w[i] = y[i - 1] /\ i - 1 \in 1..Len(y)
    OBVIOUS
  <2>4. n - 1 = m + 1
    BY <1>0
  <2>5. /\ Len(text) = m + 2 /\ text[1] = Block(k) /\ text[m + 2] = EndBlock
        /\ \A i \in 2..(m + 1) : text[i] = Texts(steps)[i - 1] /\ i - 1 \in 1..m
    BY <2>1, <2>2, <2>3
  <2> QED BY <2>1, <2>4, <2>5
<1>3. ASSUME NEW i \in 0..m
      PROVE  There(i) \in Snapshot /\ ProofOpen(There(i))
  <2>1. CASE i = 0
    BY <2>1 DEF InBlock
  <2>2. CASE i # 0
    <3>1. i \in DOMAIN steps /\ steps[i] \in Kept
      BY <1>0, <2>2
    <3> QED BY <2>2, <3>1 DEF Kept, StayIn
  <2> QED BY <2>1, <2>2
<1>4. There(m).goals = <<>>
  BY <1>0 DEF StateAfter
<1>5. ExecNext(Start(st), Block(k)) \in Inside(0)
  <2> DEFINE post == Exec(st, Block(k))
  <2>1. Block(k).verb = "{" /\ Block(k).sel = k /\ "{" \notin Tactic
    BY ProverConstants DEF Block, Keyword
  <2>2. post = OpenBlock(st, k)
    BY <2>1 DEF Exec, IsQuery
  <2>3. OpenBlock(st, k) = [st EXCEPT !.goals = <<st.goals[k]>>, !.ctx = Append(@, h)]
    BY DEF OpenBlock
  <2> HIDE DEF h, post
  <2>4. Append(st.ctx, h) = <<h>>
    <3>1. Append(<<>>, h) = <<h>>
      OBVIOUS
    <3> QED BY <3>1
  <2>5. ProofOpen(post) /\ post.goals = <<st.goals[k]>> /\ post.ctx = <<h>>
    BY <2>2, <2>3, <2>4 DEF Snapshot, ProofOpen
  <2>6. post # Stuck
    BY <2>5 DEF ProofOpen, Stuck
  <2>7. post \in Snapshot
    BY <1>0, <2>6, BlockSentences, ExecType DEF post
  <2>8. ~IsQuery(Block(k)) /\ Block(k) \in Sentence
    BY <1>0, <2>1, BlockSentences DEF IsQuery
  <2>9. There(0).goals = <<st.goals[k]>>
    BY DEF InBlock
  <2>10. Start(st) \in Runs /\ Start(st).done /\ Start(st).st = st
    BY DEF Start, Runs
  <2>11. ExecNext(Start(st), Block(k)).st = post /\ ExecNext(Start(st), Block(k)).done
    BY <2>6, <2>8, <2>10 DEF ExecNext, post
  <2> QED BY <2>5, <2>8, <2>9, <2>10, <2>11, ExecNextCases
<1>6. ASSUME NEW i \in 1..m, NEW r \in Inside(i - 1)
      PROVE  ExecNext(r, steps[i].text) \in Inside(i)
  <2> DEFINE s == steps[i].text
             post == Exec(r.st, s)
  <2>1. s \in Sentence /\ ~IsQuery(s) /\ s.verb \in Tactic \union {"Definition"}
    <3>1. steps[i] \in Kept /\ i \in DOMAIN steps
      BY <1>0
    <3> QED BY <3>1 DEF Kept, StayIn
  <2>2. There(i - 1) \in Snapshot /\ ProofOpen(There(i - 1))
    <3>1. i - 1 \in 0..m
      BY <1>0
    <3> HIDE DEF There
    <3> QED BY <1>3, <3>1
  <2>3. Exec(There(i - 1), s) # Stuck /\ There(i) = Exec(There(i - 1), s)
    <3>1. i \in DOMAIN steps /\ (i - 1 = 0 <=> i = 1)
      BY <1>0
    <3> QED BY <3>1 DEF IsReplay
  <2>4. r \in Runs /\ r.st \in Snapshot /\ r.done /\ ProofOpen(r.st) /\ r.st.ctx = <<h>>
        /\ r.st.goals = There(i - 1).goals
    BY DEF Runs
  <2> HIDE DEF There, h, s
  <2>5. post # Stuck /\ ProofOpen(post) /\ post.ctx = <<h>> /\ post.goals = There(i).goals
    BY <2>1, <2>2, <2>3, <2>4, SameInAnyBlock
  <2>6. ExecNext(r, s).st = post /\ ExecNext(r, s).done
    <3> HIDE DEF post
    <3> QED BY <2>1, <2>4, <2>5 DEF ExecNext, post
  <2> HIDE DEF post
  <2>7. ExecNext(r, s) \in Runs
    BY <2>1, <2>4, ExecNextCases
  <2> QED BY <2>5, <2>6, <2>7 DEF s
<1>7. ASSUME NEW r \in Inside(m) PROVE ExecNext(r, EndBlock) \in AtEnd
  <2> DEFINE post == Exec(r.st, EndBlock)
  <2>1. r \in Runs /\ r.st \in Snapshot /\ r.done /\ ProofOpen(r.st) /\ r.st.ctx = <<h>> /\ r.st.goals = <<>>
    BY <1>4 DEF Runs
  <2>2. EndBlock.verb = "}" /\ "}" \notin Tactic /\ EndBlock \in Sentence /\ ~IsQuery(EndBlock)
    BY ProverConstants, BlockSentences DEF EndBlock, Say, Keyword, IsQuery
  <2>3. post = CloseBlock(r.st)
    BY <2>1, <2>2 DEF Exec, IsQuery
  <2>4. h.left = Before(st, k) /\ h.right = Behind(st, k)
    OBVIOUS
  <2> HIDE DEF h
  <2>5. Len(<<h>>) = 1 /\ <<h>>[1] = h /\ SubSeq(<<h>>, 1, 0) = <<>> /\ <<h>> # <<>>
    OBVIOUS
  <2> HIDE DEF post
  <2>6. post = [r.st EXCEPT !.goals = h.left \o h.right, !.ctx = <<>>]
    <3>1. /\ r.st.ctx[Len(r.st.ctx)] = h /\ r.st.ctx # <<>>
          /\ SubSeq(r.st.ctx, 1, Len(r.st.ctx) - 1) = <<>>
      BY <2>1, <2>5
    <3> QED BY <2>1, <2>3, <3>1 DEF CloseBlock
  <2>7. post.phase = r.st.phase /\ post.goals = h.left \o h.right /\ post.ctx = <<>>
    BY <2>1, <2>6 DEF Snapshot
  <2>8. post # Stuck
    BY <2>1, <2>7 DEF ProofOpen, Stuck
  <2>9. ExecNext(r, EndBlock).st = post /\ ExecNext(r, EndBlock).done
    BY <2>1, <2>2, <2>8 DEF ExecNext, post
  <2>10. ExecNext(r, EndBlock) \in Runs
    BY <2>1, <2>2, ExecNextCases
  <2> QED BY <2>4, <2>7, <2>9, <2>10
<1>8. PICK run : IsRun(run, st, text, n) /\ ExecText(st, text) = run[n]
  <2> HIDE DEF n
  <2>1. Len(text) \in Nat
    BY <1>0, <1>2
  <2>2. \E run : IsRun(run, st, text, Len(text)) /\ ExecText(st, text) = run[Len(text)]
    BY <2>1, ExecTextIsRun, Zenon
  <2> QED BY <1>2, <2>2
<1>9. run[n] \in S[n]
  <2>1. Start(st) \in S[0]
    BY <1>0
  <2>2. ASSUME NEW i \in 1..n, NEW r \in S[i - 1] PROVE ExecNext(r, text[i]) \in S[i]
    <3> HIDE DEF Inside, AtEnd
    <3>1. CASE i = 1
      <4>1. r = Start(st) /\ S[i] = Inside(0)
        BY <1>0, <2>2, <3>1
      <4> QED BY <1>2, <1>5, <3>1, <4>1
    <3>2. CASE i \in 2..(n - 1)
      <4>1. r \in Inside((i - 1) - 1) /\ S[i] = Inside(i - 1) /\ i - 1 \in 1..m
        BY <1>0, <2>2, <3>2
      <4>2. text[i] = steps[i - 1].text
        BY <1>2, <3>2
      <4> HIDE DEF S, m, n
      <4> QED BY <1>6, <4>1, <4>2
    <3>3. CASE i = n
      <4>1. r \in Inside(m) /\ S[i] = AtEnd
        BY <1>0, <2>2, <3>3
      <4> HIDE DEF S
      <4> QED BY <1>2, <1>7, <3>3, <4>1
    <3>4. i = 1 \/ i \in 2..(n - 1) \/ i = n
      BY <1>0, <2>2
    <3> HIDE DEF S
    <3> QED BY <3>1, <3>2, <3>3, <3>4
  <2> HIDE DEF S, n
  <2> QED BY <1>0, <1>8, <2>1, <2>2, RunInvariant
<1>10. S[n] = AtEnd
  <2> HIDE DEF Inside, AtEnd
  <2>1. n \in 0..n /\ n # 0
    BY <1>0
  <2> HIDE DEF n
  <2> QED BY <2>1
<1> HIDE DEF S
<1> QED BY <1>8, <1>9, <1>10
----
\* The kept sentences of a plain text are plain.
LEMMA PlainKept ==
  ASSUME NEW st \in Snapshot, NEW text \in Seq(Plain)
  PROVE  \A i \in DOMAIN ExecText(st, text).kept : ExecText(st, text).kept[i].text \in Plain
<1> DEFINE n == Len(text)
           Good == {r \in Runs : \A i \in DOMAIN r.kept : r.kept[i].text \in Plain}
           S == [i \in 0..n |-> Good]
<1>0. n \in Nat
  OBVIOUS
<1>1. Start(st) \in Good
  BY DEF Start, Runs
<1>2. ASSUME NEW s \in Plain, NEW r \in Good PROVE ExecNext(r, s) \in Good
  <2> DEFINE next == ExecNext(r, s)
             last == [text |-> s, post |-> Exec(r.st, s)]
  <2>1. s \in Sentence /\ r \in Runs /\ r.kept \in Seq(Kept)
    BY DEF Plain, Runs
  <2>2. next \in Runs /\ (next.kept = r.kept \/ next.kept = Append(r.kept, last))
    BY <2>1, ExecNextCases
  <2>3. ASSUME NEW i \in DOMAIN next.kept PROVE next.kept[i].text \in Plain
    <3> HIDE DEF next
    <3>1. CASE i \in DOMAIN r.kept
      <4>1. next.kept[i] = r.kept[i]
        BY <2>1, <2>2, <3>1
      <4> QED BY <1>2, <3>1, <4>1
    <3>2. CASE i \notin DOMAIN r.kept
      <4>1. next.kept[i] = last
        <5> HIDE DEF last
        <5> QED BY <2>1, <2>2, <2>3, <3>2
      <4> QED BY <4>1
    <3> QED BY <3>1, <3>2
  <2> QED BY <2>2, <2>3
<1>3. PICK f : IsRun(f, st, text, n) /\ ExecText(st, text) = f[n]
  BY <1>0, ExecTextIsRun
<1>4. f[n] \in S[n]
  <2>1. Start(st) \in S[0]
    BY <1>0, <1>1
  <2>2. \A i \in 1..n : \A r \in S[i - 1] : ExecNext(r, text[i]) \in S[i]
    BY <1>0, <1>2
  <2> HIDE DEF S, n
  <2> QED BY <1>0, <1>3, <2>1, <2>2, RunInvariant
<1> QED BY <1>0, <1>3, <1>4

\* Opening a block outside every other, and closing one.
LEMMA BlockOpens ==
  ASSUME NEW st \in Snapshot, st.ctx = <<>>, NEW k \in Nat, Exec(st, Block(k)) # Stuck
  PROVE  /\ k \in DOMAIN st.goals /\ st.goals[k] \in Goal
         /\ \E f \in Frame : Exec(st, Block(k)) \in InBlock(st.goals[k], f)
<1> DEFINE h == [left |-> Before(st, k), right |-> Behind(st, k)]
<1>1. Block(k).verb = "{" /\ Block(k).sel = k /\ "{" \notin Tactic
  BY ProverConstants DEF Block, Keyword
<1>2. ProofOpen(st) /\ Exec(st, Block(k)) = OpenBlock(st, k)
  BY <1>1 DEF Exec, IsQuery, ProofOpen
<1>3. k \in DOMAIN st.goals
  BY <1>2 DEF OpenBlock
<1>4. st.goals \in Seq(Goal) /\ st.goals[k] \in Goal
  BY <1>3 DEF Snapshot
<1>5. h \in Frame
  BY <1>3, <1>4 DEF Frame, Before, Behind
<1>6. OpenBlock(st, k) = [st EXCEPT !.goals = <<st.goals[k]>>, !.ctx = Append(@, h)]
  BY <1>3 DEF OpenBlock
<1> HIDE DEF h
<1>7. Append(st.ctx, h) = <<h>>
  <2>1. Append(<<>>, h) = <<h>>
    OBVIOUS
  <2> QED BY <2>1
<1>8. Exec(st, Block(k)) \in InBlock(st.goals[k], h)
  <2>1. <<st.goals[k]>> \in Seq(Goal) /\ <<h>> \in Seq(Frame)
    BY <1>4, <1>5
  <2> QED BY <1>2, <1>6, <1>7, <2>1 DEF Snapshot, InBlock, ProofOpen
<1> QED BY <1>2, <1>3, <1>4, <1>5, <1>8

LEMMA BlockCloses ==
  ASSUME NEW st \in Snapshot, Exec(st, EndBlock) # Stuck
  PROVE  /\ st.goals = <<>> /\ st.ctx # <<>>
         /\ (\A f \in Frame : st.ctx = <<f>> => Exec(st, EndBlock).ctx = <<>>)
<1>1. EndBlock.verb = "}" /\ "}" \notin Tactic
  BY ProverConstants DEF EndBlock, Say, Keyword
<1>2. Exec(st, EndBlock) = CloseBlock(st)
  BY <1>1 DEF Exec, IsQuery, ProofOpen
<1>3. st.goals = <<>> /\ st.ctx # <<>>
  BY <1>2 DEF CloseBlock
<1>4. ASSUME NEW f \in Frame, st.ctx = <<f>> PROVE Exec(st, EndBlock).ctx = <<>>
  <2>1. SubSeq(st.ctx, 1, Len(st.ctx) - 1) = <<>>
    BY <1>4
  <2>2. Exec(st, EndBlock).ctx = SubSeq(st.ctx, 1, Len(st.ctx) - 1)
    BY <1>2, <1>3 DEF CloseBlock, Snapshot
  <2> QED BY <2>1, <2>2
<1> QED BY <1>3, <1>4
=============================================================================
