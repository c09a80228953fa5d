------------------------- MODULE PrefixCacheProofs --------------------------
(***************************************************************************)
(* Theorems about the way to a session's first snapshot, for every set of  *)
(* files, every prover, every bound, and rebuilds at any time.             *)
(*                                                                         *)
(* The argument: an execution from the pristine state only meets the cache *)
(* when the cache begins with a sentence some file begins with, and when   *)
(* no such sentence stands behind a proof, such a cache was filled by an   *)
(* execution from the pristine state too.                                  *)
(***************************************************************************)
EXTENDS PrefixCacheProperties, WellFoundedInduction, NaturalsInduction, TLAPS

Heads == {src[1] : src \in {s \in Source : s # <<>>}}

\* Steps from the pristine state: each snapshot is the texts so far.
Genuine(steps) ==
  \A i \in DOMAIN steps :
    /\ Len(steps[i].post) = i
    /\ \A j \in 1..i : steps[i].post[j].text = steps[j].text

\* None of their imports is older than v.
FreshSince(steps, v) ==
  \A i \in DOMAIN steps : \A j \in 1..i :
    steps[i].post[j].text \in Import => steps[i].post[j].version >= v

\* What a cache must be to be met from the pristine state.
Safe(c, v) == c # <<>> /\ c[1].text \in Heads => Genuine(c) /\ FreshSince(c, v)

FollowsText ==
  /\ Len(call.acc) <= Len(call.src)
  /\ \A i \in 1..Len(call.acc) : call.acc[i].text = call.src[i]

FollowsCache ==
  call.warm => /\ Len(call.acc) <= Len(cache)
               /\ \A i \in 1..Len(call.acc) : call.acc[i] = cache[i]

\* src is what is left of the file behind its k-th sentence.
Leaves(src, file, k) ==
  /\ Len(src) = Len(file) - k
  /\ \A i \in 1..Len(src) : src[i] = file[k + i]

FromPristine ==
  call.from = Pristine =>
    /\ call.src # <<>> => call.src[1] \in Heads
    /\ call.pieces = <<>>
    /\ Genuine(call.acc) /\ FreshSince(call.acc, fingerprint)

FromElsewhere ==
  call.from # Pristine =>
    /\ call.src # <<>> => call.src[1] \notin Heads
    /\ call.pieces # <<>> /\ call.pieces[1].text \in Heads

Opens ==
  ~call.making => \E k \in 0..Len(call.file) : Leaves(call.src, call.file, k)

Makes ==
  call.making =>
    /\ call.from = Pristine
    /\ call.target # NoTarget => call.src # <<>> /\ call.src[Len(call.src)] = call.target

CallSafe ==
  call # Idle =>
    /\ call.since = fingerprint
    /\ FollowsText /\ FollowsCache
    /\ FromPristine /\ FromElsewhere
    /\ Opens /\ Makes

SessionSafe == BaseIsGenuine /\ BaseIsFresh /\ OpensAtTarget

Inv ==
  /\ fingerprint <= disk
  /\ Safe(cache, fingerprint)
  /\ CallSafe
  /\ SessionSafe

----
(***************************************************************************)
(* Least and greatest positions.                                           *)
(***************************************************************************)
LEMMA LeastPosition ==
  ASSUME NEW S \in SUBSET Nat, S # {}
  PROVE  Min(S) \in S /\ \A j \in S : Min(S) <= j
<1>1. PICK i \in S : \A j \in S : <<j, i>> \notin OpToRel(<, Nat)
  <2> HIDE DEF OpToRel
  <2> QED BY NatLessThanWellFounded, WFMin
<1>2. ASSUME NEW j \in S PROVE ~(j < i)
  <2>1. SUFFICES ASSUME j < i PROVE <<j, i>> \in OpToRel(<, Nat)
    BY <1>1
  <2>2. <<j, i>> \in Nat \X Nat /\ <<j, i>>[1] < <<j, i>>[2]
    BY <2>1
  <2> QED BY <2>2, Zenon DEF OpToRel
<1>3. \E x \in S : \A y \in S : x =< y
  BY <1>2
<1> QED BY <1>3 DEF Min

LEMMA GreatestPosition ==
  ASSUME NEW n \in Nat, NEW S \in SUBSET (1..n), S # {}
  PROVE  Max(S) \in S
<1> DEFINE T == {n - i : i \in S}
<1>1. T \in SUBSET Nat /\ T # {}
  <2>1. \A i \in S : n - i \in Nat
    OBVIOUS
  <2> QED BY <2>1
<1>2. Min(T) \in T /\ \A j \in T : Min(T) <= j
  BY <1>1, LeastPosition
<1>3. PICK i \in S : Min(T) = n - i
  BY <1>2
<1>4. ASSUME NEW j \in S PROVE i >= j
  <2>1. n - j \in T
    OBVIOUS
  <2>2. n - i <= n - j
    <3> HIDE DEF T
    <3> QED BY <1>2, <1>3, <2>1
  <2> QED BY <2>2
<1>5. \E x \in S : \A y \in S : x >= y
  BY <1>4
<1> QED BY <1>5 DEF Max

----
(***************************************************************************)
(* Types.                                                                  *)
(***************************************************************************)
LEMMA TextsType ==
  ASSUME NEW steps \in Seq(Step)
  PROVE  /\ TextsOf(steps) \in Seq(Sentence)
         /\ Len(TextsOf(steps)) = Len(steps)
         /\ \A i \in 1..Len(steps) : TextsOf(steps)[i] = steps[i].text
<1>1. \A i \in 1..Len(steps) : steps[i] \in Step
  OBVIOUS
<1>2. \A i \in 1..Len(steps) : steps[i].text \in Sentence
  BY <1>1 DEF Step
<1>3. TextsOf(steps) = [i \in 1..Len(steps) |-> steps[i].text] /\ Len(steps) \in Nat
  BY DEF TextsOf
<1>4. TextsOf(steps) \in [1..Len(steps) -> Sentence]
  BY <1>2, <1>3
<1> QED BY <1>3, <1>4

\* The fields of a call whose next text begins.
LEMMA BeginType ==
  ASSUME NEW c \in Call, NEW src \in Seq(Sentence), NEW st \in Snapshot, disk \in Nat,
         Begin(c, src, st)
  PROVE  /\ call' \in Call
         /\ call'.file = c.file /\ call'.target = c.target /\ call'.making = c.making
         /\ call'.tries = c.tries /\ call'.pieces = c.pieces
         /\ call'.src = src /\ call'.from = st /\ call'.since = disk
         /\ call'.warm = TRUE /\ call'.acc = <<>>
<1>1. call' = [c EXCEPT !.src = src, !.from = st, !.since = disk, !.warm = TRUE, !.acc = <<>>]
  BY DEF Begin
<1>2. call' = [file |-> c.file, target |-> c.target, making |-> c.making, tries |-> c.tries,
               pieces |-> c.pieces, src |-> src, from |-> st, since |-> disk, warm |-> TRUE,
               acc |-> <<>>]
  BY <1>1 DEF Call
<1>3. <<>> \in Seq(Step)
  OBVIOUS
<1>4. call' \in Call
  BY <1>2, <1>3 DEF Call
<1> QED BY <1>2, <1>4

LEMMA FreshnessType ==
  ASSUME NEW c \in Seq(Step), disk \in Nat, CheckCacheFreshness(c)
  PROVE  cache' \in Seq(Step) /\ fingerprint' \in Nat
BY DEF CheckCacheFreshness

LEMMA AtType ==
  ASSUME TypeOK, call # Idle
  PROVE  At \in Snapshot
<1>1. call \in Call
  BY DEF TypeOK
<1>2. call.acc \in Seq(Step) /\ call.from \in Snapshot
  BY <1>1 DEF Call
<1>3. CASE call.acc = <<>>
  BY <1>2, <1>3 DEF At
<1>4. CASE call.acc # <<>>
  <2>1. Len(call.acc) \in DOMAIN call.acc
    BY <1>2, <1>4
  <2>2. call.acc[Len(call.acc)] \in Step
    BY <1>2, <2>1
  <2> QED BY <1>4, <2>2 DEF At, Step
<1> QED BY <1>3, <1>4

LEMMA SavedType ==
  ASSUME TypeOK, call # Idle
  PROVE  Saved \in Seq(Step)
BY DEF TypeOK, Call, Saved

LEMMA ExecutedType ==
  ASSUME disk \in Nat, NEW s \in Sentence, NEW st \in Snapshot
  PROVE  /\ Executed(s) \in [text : Sentence, version : Nat]
         /\ Executed(s).text = s
         /\ s \in Import => Executed(s).version = disk
         /\ Append(st, Executed(s)) \in Snapshot
<1>1. /\ Executed(s) \in [text : Sentence, version : Nat]
      /\ Executed(s).text = s
      /\ s \in Import => Executed(s).version = disk
  BY DEF Executed
<1> QED BY <1>1 DEF Snapshot

LEMMA StepsType ==
  ASSUME TypeOK, call # Idle
  PROVE  Steps \in Seq(Step)
BY DEF TypeOK, Call, Steps

\* What open finds when it admits a proof.
LEMMA AdmittedType ==
  ASSUME TypeOK, call # Idle, Statements # {}
  PROVE  /\ Broken \in 1..Len(call.acc)
         /\ BeforeBroken \in Snapshot
         /\ AdmittedSteps \in Seq(Step) /\ Len(AdmittedSteps) = 2
         /\ AdmittedSteps[1].text = call.acc[Broken].text
         /\ AdmittedSteps[2].post \in Snapshot /\ AdmittedSteps[2].post # <<>>
<1>1. call \in Call
  BY DEF TypeOK
<1>2. call.acc \in Seq(Step) /\ call.from \in Snapshot /\ Len(call.acc) \in Nat
  BY <1>1 DEF Call
<1>3. Broken \in 1..Len(call.acc)
  <2>1. Statements \in SUBSET (1..Len(call.acc))
    BY <1>2 DEF Statements
  <2> QED BY <1>2, <2>1, GreatestPosition DEF Broken
<1>4. BeforeBroken \in Snapshot
  <2>1. CASE Broken = 1
    BY <1>2, <2>1 DEF BeforeBroken
  <2>2. CASE Broken # 1
    <3>1. Broken - 1 \in 1..Len(call.acc)
      BY <1>2, <1>3, <2>2
    <3>2. call.acc[Broken - 1] \in Step
      BY <1>2, <3>1
    <3> QED BY <2>2, <3>2 DEF BeforeBroken, Step
  <2> QED BY <2>1, <2>2
<1> DEFINE stmt == call.acc[Broken].text
           stated == Append(BeforeBroken, Executed(stmt))
           ended == Append(stated, Executed(Admitted))
<1>5. stmt \in Sentence
  <2>1. call.acc[Broken] \in Step
    BY <1>2, <1>3
  <2> QED BY <2>1 DEF Step
<1>6. stated \in Snapshot
  BY <1>4, <1>5, ExecutedType DEF TypeOK
<1>7. ended \in Snapshot /\ ended # <<>>
  <2>1. Admitted \in Sentence
    BY PrefixCacheConstants
  <2>2. Executed(Admitted) \in [text : Sentence, version : Nat]
    BY <1>6, <2>1, ExecutedType DEF TypeOK
  <2> HIDE DEF stated
  <2> QED BY <1>6, <2>2 DEF Snapshot
<1>8. AdmittedSteps = <<[text |-> stmt, post |-> stated], [text |-> Admitted, post |-> ended]>>
  BY DEF AdmittedSteps
<1>9. /\ [text |-> stmt, post |-> stated] \in Step
      /\ [text |-> Admitted, post |-> ended] \in Step
  <2> HIDE DEF stmt, stated, ended
  <2> QED BY <1>5, <1>6, <1>7, PrefixCacheConstants DEF Step
<1> HIDE DEF stmt, stated, ended
<1>10. AdmittedSteps \in Seq(Step) /\ Len(AdmittedSteps) = 2
  BY <1>8, <1>9
<1>11. AdmittedSteps[1].text = stmt /\ AdmittedSteps[2].post = ended
  BY <1>8
<1> QED BY <1>3, <1>4, <1>7, <1>10, <1>11 DEF stmt

\* The rest of a text is behind a closing command in it.
LEMMA RestType ==
  ASSUME TypeOK, call # Idle
  PROVE  /\ Rest \in Seq(Sentence)
         /\ Rest # <<>> => \E m \in 2..Len(call.src) :
              /\ call.src[m] \in {Qed, Admitted}
              /\ Len(Rest) = Len(call.src) - m
              /\ \A i \in 1..Len(Rest) : Rest[i] = call.src[m + i]
<1>1. call \in Call
  BY DEF TypeOK
<1>2. call.src \in Seq(Sentence) /\ call.acc \in Seq(Step)
  BY <1>1 DEF Call
<1> DEFINE closers == {i \in Position + 1..Len(call.src) : call.src[i] \in {Qed, Admitted}}
<1>3. Position \in Nat /\ Position >= 1
  BY <1>2 DEF Position
<1>4. CASE closers = {}
  BY <1>4 DEF Rest
<1>5. CASE closers # {}
  <2>1. closers \in SUBSET Nat
    BY <1>3
  <2>2. Min(closers) \in closers
    BY <1>5, <2>1, LeastPosition
  <2>3. Rest = SubSeq(call.src, Min(closers) + 1, Len(call.src))
    BY <1>5 DEF Rest
  <2> DEFINE m == Min(closers)
  <2>4. m \in 2..Len(call.src) /\ call.src[m] \in {Qed, Admitted}
    BY <1>2, <1>3, <2>2
  <2> HIDE DEF m, closers
  <2>5. Rest \in Seq(Sentence) /\ Len(Rest) = Len(call.src) - m
    BY <1>2, <2>3, <2>4 DEF m
  <2>6. \A i \in 1..Len(Rest) : Rest[i] = call.src[m + i]
    BY <1>2, <2>3, <2>4, <2>5 DEF m
  <2> QED BY <2>4, <2>5, <2>6
<1> QED BY <1>4, <1>5

----
(***************************************************************************)
(* What each action does, field by field.                                  *)
(***************************************************************************)
Kept(c) ==
  /\ call'.file = c.file /\ call'.target = c.target /\ call'.making = c.making
  /\ call'.pieces = c.pieces /\ call'.src = c.src /\ call'.from = c.from
  /\ call'.since = c.since

LEMMA ExtendType ==
  ASSUME call \in Call, NEW w \in BOOLEAN, NEW x \in Step,
         call' = [call EXCEPT !.warm = w, !.acc = Append(@, x)]
  PROVE  /\ call' \in Call /\ Kept(call)
         /\ call'.warm = w /\ call'.acc = Append(call.acc, x)
<1>1. call.acc \in Seq(Step)
  BY DEF Call
<1>2. Append(call.acc, x) \in Seq(Step)
  BY <1>1
<1>3. call' = [file |-> call.file, target |-> call.target, making |-> call.making,
               tries |-> call.tries, pieces |-> call.pieces, src |-> call.src,
               from |-> call.from, since |-> call.since, warm |-> w,
               acc |-> Append(call.acc, x)]
  BY DEF Call
<1>4. call' \in Call
  BY <1>2, <1>3 DEF Call
<1> QED BY <1>3, <1>4 DEF Kept

LEMMA AdoptEffect ==
  ASSUME TypeOK, AdoptCached
  PROVE  /\ call' \in Call /\ Kept(call)
         /\ Position \in 1..Len(call.src) /\ Position \in 1..Len(cache)
         /\ cache[Position] \in Step /\ cache[Position].text = call.src[Position]
         /\ call.warm /\ call'.warm /\ call'.acc = Append(call.acc, cache[Position])
<1>1. call \in Call
  BY DEF TypeOK, AdoptCached
<1>2. call.acc \in Seq(Step) /\ call.src \in Seq(Sentence) /\ call.warm \in BOOLEAN
  BY <1>1 DEF Call
<1>3. Position \in Nat /\ Position >= 1
  BY <1>2 DEF Position
<1>4. call.warm /\ Position <= Len(cache) /\ cache[Position].text = call.src[Position]
  BY DEF AdoptCached, Hit
<1>5. Position \in 1..Len(call.src) /\ Position \in 1..Len(cache)
  BY <1>2, <1>3, <1>4 DEF AdoptCached, AtEnd, TypeOK
<1>6. cache[Position] \in Step
  BY <1>5 DEF TypeOK
<1>7. call' = [call EXCEPT !.acc = Append(@, cache[Position])]
  BY DEF AdoptCached
<1>8. call' = [call EXCEPT !.warm = TRUE, !.acc = Append(@, cache[Position])]
  BY <1>1, <1>2, <1>4, <1>7 DEF Call
<1> QED BY <1>1, <1>4, <1>5, <1>6, <1>8, ExtendType

LEMMA InterpretEffect ==
  ASSUME TypeOK, Interpret
  PROVE  LET s == call.src[Position]
             x == [text |-> s, post |-> Append(At, Executed(s))]
         IN  /\ call' \in Call /\ Kept(call)
             /\ Position \in 1..Len(call.src) /\ s \in Sentence /\ x \in Step
             /\ ~call'.warm /\ call'.acc = Append(call.acc, x)
<1> DEFINE s == call.src[Position]
           x == [text |-> s, post |-> Append(At, Executed(s))]
<1>1. call \in Call
  BY DEF TypeOK, Interpret
<1>2. call.acc \in Seq(Step) /\ call.src \in Seq(Sentence)
  BY <1>1 DEF Call
<1>3. Position \in 1..Len(call.src)
  BY <1>2 DEF Interpret, AtEnd, Position
<1>4. s \in Sentence
  BY <1>2, <1>3
<1>5. Append(At, Executed(s)) \in Snapshot
  BY <1>4, AtType, ExecutedType DEF TypeOK, Interpret
<1>6. x \in Step
  BY <1>4, <1>5 DEF Step
<1>7. call' = [call EXCEPT !.warm = FALSE, !.acc = Append(@, x)]
  BY DEF Interpret
<1> HIDE DEF s, x
<1>8. call' \in Call /\ Kept(call) /\ ~call'.warm /\ call'.acc = Append(call.acc, x)
  BY <1>1, <1>6, <1>7, ExtendType
<1> QED BY <1>3, <1>4, <1>6, <1>8 DEF s, x

\* The pieces open has when it goes on.
Pieces == call.pieces \o SubSeq(call.acc, 1, Broken - 1) \o AdmittedSteps

LEMMA ContinueEffect ==
  ASSUME TypeOK, AdmitAndContinue
  PROVE  /\ call' \in Call /\ Pieces \in Seq(Step)
         /\ call'.file = call.file /\ call'.target = call.target /\ ~call'.making
         /\ call'.pieces = Pieces /\ call'.src = Rest /\ call'.from = AdmittedSteps[2].post
         /\ call'.from # Pristine /\ call'.since = disk /\ call'.acc = <<>>
<1>1. call \in Call /\ disk \in Nat
  BY DEF TypeOK, AdmitAndContinue, Continue
<1>2. call.acc \in Seq(Step) /\ call.pieces \in Seq(Step) /\ call.tries \in Nat
  BY <1>1 DEF Call
<1>3. /\ Broken \in 1..Len(call.acc)
      /\ AdmittedSteps \in Seq(Step) /\ AdmittedSteps[2].post \in Snapshot
      /\ AdmittedSteps[2].post # <<>>
  BY AdmittedType DEF AdmitAndContinue, Continue, MayAdmit
<1>4. SubSeq(call.acc, 1, Broken - 1) \in Seq(Step)
  BY <1>2, <1>3
<1>5. Pieces \in Seq(Step)
  BY <1>2, <1>3, <1>4 DEF Pieces
<1> PICK c : c = [call EXCEPT !.tries = call.tries + 1, !.pieces = Pieces]
  OBVIOUS
<1>6. c = [file |-> call.file, target |-> call.target, making |-> call.making,
           tries |-> call.tries + 1, pieces |-> Pieces, src |-> call.src, from |-> call.from,
           since |-> call.since, warm |-> call.warm, acc |-> call.acc]
  BY <1>1 DEF Call
<1>7. c \in Call
  BY <1>1, <1>2, <1>5, <1>6 DEF Call
<1>8. [call EXCEPT !.tries = call.tries + 1,
                   !.pieces = @ \o SubSeq(call.acc, 1, Broken - 1) \o AdmittedSteps] = c
  BY <1>1 DEF Call, Pieces
<1>9. Begin(c, Rest, AdmittedSteps[2].post)
  BY <1>8 DEF AdmitAndContinue, Continue
<1>10. Rest \in Seq(Sentence)
  BY RestType DEF AdmitAndContinue, Continue
<1>11. ~call.making
  BY DEF AdmitAndContinue, Continue
<1>12. /\ c.file = call.file /\ c.target = call.target /\ c.making = call.making
       /\ c.pieces = Pieces
  BY <1>6
<1>13. /\ call' \in Call
       /\ call'.file = c.file /\ call'.target = c.target /\ call'.making = c.making
       /\ call'.pieces = c.pieces
       /\ call'.src = Rest /\ call'.from = AdmittedSteps[2].post /\ call'.since = disk
       /\ call'.acc = <<>>
  BY <1>1, <1>3, <1>7, <1>9, <1>10, BeginType
<1> QED BY <1>3, <1>5, <1>11, <1>12, <1>13 DEF Pristine

LEMMA MakeEffect ==
  ASSUME TypeOK, call # Idle, NEW prefix \in Seq(Sentence), Make(prefix)
  PROVE  /\ call' \in Call
         /\ call'.target = call.target /\ call'.making
         /\ call'.pieces = <<>> /\ call'.src = prefix /\ call'.from = Pristine
         /\ call'.since = disk /\ call'.acc = <<>>
<1>1. call \in Call /\ disk \in Nat
  BY DEF TypeOK
<1> PICK c : c = [call EXCEPT !.making = TRUE, !.pieces = <<>>]
  OBVIOUS
<1>2. c = [file |-> call.file, target |-> call.target, making |-> TRUE,
           tries |-> call.tries, pieces |-> <<>>, src |-> call.src, from |-> call.from,
           since |-> call.since, warm |-> call.warm, acc |-> call.acc]
  BY <1>1 DEF Call
<1>3. <<>> \in Seq(Step) /\ Pristine \in Snapshot
  BY DEF Snapshot, Pristine
<1>4. c \in Call
  BY <1>1, <1>2, <1>3 DEF Call
<1>5. Begin(c, prefix, Pristine)
  BY DEF Make
<1>6. c.target = call.target /\ c.making = TRUE /\ c.pieces = <<>>
  BY <1>2
<1> QED BY <1>1, <1>3, <1>4, <1>5, <1>6, BeginType

\* The prefixes open hands to make_session.
LEMMA FoundPrefix ==
  ASSUME TypeOK, call # Idle, Found # {}
  PROVE  /\ PrefixOfTarget \in Seq(Sentence) /\ PrefixOfTarget # <<>>
         /\ PrefixOfTarget[1] = Steps[1].text
         /\ PrefixOfTarget[Len(PrefixOfTarget)] = call.target
<1>1. Steps \in Seq(Step)
  BY StepsType
<1>2. Found \in SUBSET Nat
  BY <1>1 DEF Found
<1>3. Min(Found) \in Found
  BY <1>2, LeastPosition
<1>4. Min(Found) \in 1..Len(Steps) /\ Steps[Min(Found)].text = call.target
  BY <1>1, <1>3 DEF Found, IsTarget
<1> DEFINE m == Min(Found)
           texts == TextsOf(Steps)
<1>5. texts \in Seq(Sentence) /\ Len(texts) = Len(Steps)
      /\ \A i \in 1..Len(Steps) : texts[i] = Steps[i].text
  BY <1>1, TextsType
<1>6. PrefixOfTarget = SubSeq(texts, 1, m)
  BY DEF PrefixOfTarget
<1> HIDE DEF m, texts
<1>7. m \in 1..Len(texts) /\ texts[m] = call.target /\ texts[1] = Steps[1].text
  BY <1>4, <1>5 DEF m
<1>8. /\ PrefixOfTarget \in Seq(Sentence) /\ Len(PrefixOfTarget) = m
      /\ PrefixOfTarget[1] = texts[1] /\ PrefixOfTarget[m] = texts[m]
  BY <1>5, <1>6, <1>7
<1> QED BY <1>7, <1>8

LEMMA ServeEffect ==
  ASSUME TypeOK, NEW target \in Statement \union {NoTarget}, NEW making \in BOOLEAN,
         NEW src \in Source, Serve(target, making, src)
  PROVE  /\ call' \in Call
         /\ call'.file = src /\ call'.target = target /\ call'.making = making
         /\ call'.pieces = <<>> /\ call'.src = src /\ call'.from = Pristine
         /\ call'.since = disk /\ call'.acc = <<>>
<1> DEFINE c == [file |-> src, target |-> target, making |-> making, tries |-> 0,
                 pieces |-> <<>>, src |-> <<>>, from |-> Pristine, since |-> 0,
                 warm |-> TRUE, acc |-> <<>>]
<1>1. <<>> \in Seq(Step) /\ <<>> \in Seq(Sentence) /\ Pristine \in Snapshot
  BY DEF Snapshot, Pristine
<1>2. c \in Call
  BY <1>1 DEF Call
<1>3. Begin(c, src, Pristine) /\ src \in Seq(Sentence) /\ disk \in Nat
  BY PrefixCacheConstants DEF Serve, TypeOK
<1>4. /\ c.file = src /\ c.target = target /\ c.making = making /\ c.pieces = <<>>
  OBVIOUS
<1> HIDE DEF c
<1> QED BY <1>1, <1>2, <1>3, <1>4, BeginType

----
(***************************************************************************)
(* Type correctness.                                                       *)
(***************************************************************************)
LEMMA TypeNext ==
  ASSUME TypeOK, [Next]_vars
  PROVE  TypeOK'
<1>0. /\ disk \in Nat /\ fingerprint \in Nat /\ cache \in Seq(Step)
      /\ call \in Call \union {Idle} /\ base \in Base \union {NoBase}
  BY DEF TypeOK
<1>1. ASSUME NEW src \in Source, NEW target \in Statement \union {NoTarget},
             NEW making \in BOOLEAN, Serve(target, making, src)
      PROVE  TypeOK'
  <2>1. call' \in Call
    BY <1>1, ServeEffect
  <2>2. cache' \in Seq(Step) /\ fingerprint' \in Nat
    BY <1>0, <1>1, FreshnessType DEF Serve
  <2> QED BY <1>0, <1>1, <2>1, <2>2 DEF Serve, TypeOK
<1>2. ASSUME NEW src \in Source, NEW target \in Statement \union {NoTarget}, OpenTool(src, target)
      PROVE  TypeOK'
  BY <1>1, <1>2 DEF OpenTool
<1>3. ASSUME NEW src \in Source, GetSession(src)
      PROVE  TypeOK'
  BY <1>1, <1>3 DEF GetSession
<1>4. CASE AdoptCached
  <2>1. call' \in Call
    BY <1>4, AdoptEffect
  <2> QED BY <1>0, <1>4, <2>1 DEF AdoptCached, TypeOK
<1>5. CASE Interpret
  <2>1. call' \in Call
    BY <1>5, InterpretEffect
  <2> QED BY <1>0, <1>5, <2>1 DEF Interpret, TypeOK
<1>6. CASE AdmitAndContinue
  <2>1. call' \in Call
    BY <1>6, ContinueEffect
  <2>2. CheckCacheFreshness(Saved) /\ call # Idle /\ UNCHANGED <<disk, base>>
    BY <1>6 DEF AdmitAndContinue, Continue
  <2>3. cache' \in Seq(Step) /\ fingerprint' \in Nat
    BY <1>0, <2>2, SavedType, FreshnessType
  <2> QED BY <1>0, <2>1, <2>2, <2>3 DEF TypeOK
<1>7. CASE OpenFinds
  <2>1. call # Idle /\ UNCHANGED <<disk, base>>
    BY <1>7 DEF OpenFinds
  <2>2. PICK prefix \in Seq(Sentence) : Make(prefix)
    <3>1. Found # {} => PrefixOfTarget \in Seq(Sentence)
      BY <2>1, FoundPrefix
    <3>2. TextsOf(Steps) \in Seq(Sentence)
      BY <2>1, StepsType, TextsType
    <3> QED BY <1>7, <3>1, <3>2 DEF OpenFinds
  <2>3. call' \in Call
    BY <2>1, <2>2, MakeEffect
  <2>4. cache' \in Seq(Step) /\ fingerprint' \in Nat
    BY <1>0, <2>1, <2>2, SavedType, FreshnessType DEF Make
  <2> QED BY <1>0, <2>1, <2>3, <2>4 DEF TypeOK
<1>8. CASE OpenFails
  <2>1. cache' \in Seq(Step)
    BY <1>8, SavedType DEF OpenFails
  <2> QED BY <1>0, <1>8, <2>1 DEF OpenFails, TypeOK
<1>9. CASE MakeSession
  <2>1. cache' \in Seq(Step)
    BY <1>9, SavedType DEF MakeSession
  <2>2. call \in Call /\ At \in Snapshot
    BY <1>9, AtType DEF MakeSession, TypeOK
  <2>3. [prefix |-> call.src, st |-> At, since |-> call.since, target |-> call.target] \in Base
    BY <2>2 DEF Call, Base
  <2> QED BY <1>0, <1>9, <2>1, <2>3 DEF MakeSession, TypeOK
<1>10. CASE Rebuild
  BY <1>0, <1>10 DEF Rebuild, TypeOK
<1>11. CASE UNCHANGED vars
  BY <1>0, <1>11 DEF vars, TypeOK
<1> QED BY <1>2, <1>3, <1>4, <1>5, <1>6, <1>7, <1>8, <1>9, <1>10, <1>11 DEF Next

\* Disk, cache, call and session keep their types (prefix_cache,
\* cache_fingerprint, and the values open and make_session pass on).
THEOREM LoaderTypeCorrect == Spec => []TypeOK
<1>1. Init => TypeOK
  BY DEF Init, TypeOK
<1>2. TypeOK /\ [Next]_vars => TypeOK'
  BY TypeNext
<1> QED BY <1>1, <1>2, PTL DEF Spec

----
(***************************************************************************)
(* The cache only grows, or is emptied.                                    *)
(***************************************************************************)
KeepsCache == IsStrictPrefix(TextsOf(cache'), TextsOf(cache)) => cache' = <<>> /\ fingerprint' # fingerprint

LEMMA SameCacheKept ==
  ASSUME cache' = cache
  PROVE  KeepsCache
BY DEF KeepsCache, IsStrictPrefix

LEMMA SavedKept ==
  ASSUME cache' = Saved
  PROVE  KeepsCache
<1>1. CASE IsPrefix(TextsOf(call.acc), TextsOf(cache))
  <2>1. cache' = cache
    BY <1>1 DEF Saved
  <2> QED BY <2>1, SameCacheKept
<1>2. CASE ~IsPrefix(TextsOf(call.acc), TextsOf(cache))
  <2>1. cache' = call.acc
    BY <1>2 DEF Saved
  <2> QED BY <1>2, <2>1 DEF KeepsCache, IsStrictPrefix
<1> QED BY <1>1, <1>2

LEMMA CheckedKept ==
  ASSUME NEW c, c = Saved \/ c = cache, CheckCacheFreshness(c)
  PROVE  KeepsCache
<1>1. CASE disk # fingerprint
  BY <1>1 DEF CheckCacheFreshness, KeepsCache
<1>2. CASE disk = fingerprint
  <2>1. cache' = c
    BY <1>2 DEF CheckCacheFreshness
  <2> QED BY <2>1, SavedKept, SameCacheKept
<1> QED BY <1>1, <1>2

\* A shorter execution of what is cached leaves the cache as it is; it is only
\* emptied when the .vo files on disk differ from the fingerprint (save and
\* check_cache_freshness).
THEOREM CacheStaysWarm == Spec => WarmCacheIsKept
<1>1. ASSUME [Next]_vars PROVE KeepsCache \/ UNCHANGED vars
  <2>1. ASSUME NEW target, NEW making, NEW src, Serve(target, making, src) PROVE KeepsCache
    BY <2>1, CheckedKept DEF Serve
  <2>2. CASE \E src \in Source : \E target \in Statement \union {NoTarget} : OpenTool(src, target)
    BY <2>1, <2>2 DEF OpenTool
  <2>3. CASE \E src \in Source : GetSession(src)
    BY <2>1, <2>3 DEF GetSession
  <2>4. CASE AdoptCached \/ Interpret \/ Rebuild
    BY <2>4, SameCacheKept DEF AdoptCached, Interpret, Rebuild
  <2>5. CASE AdmitAndContinue
    BY <2>5, CheckedKept DEF AdmitAndContinue, Continue
  <2>6. CASE OpenFinds
    BY <2>6, CheckedKept DEF OpenFinds, Make
  <2>7. CASE OpenFails \/ MakeSession
    BY <2>7, SavedKept DEF OpenFails, MakeSession
  <2> QED BY <1>1, <2>2, <2>3, <2>4, <2>5, <2>6, <2>7 DEF Next
<1>2. [Next]_vars => [KeepsCache]_vars
  BY <1>1
<1>3. Spec => [][KeepsCache]_vars
  BY <1>2, PTL DEF Spec
<1> QED BY <1>3 DEF WarmCacheIsKept, KeepsCache

----
(***************************************************************************)
(* Sessions are genuine, fresh and at their theorem.                       *)
(***************************************************************************)
LEMMA ExtendGenuine ==
  ASSUME NEW steps \in Seq(Step), Genuine(steps), NEW x \in Step,
         Len(x.post) = Len(steps) + 1, x.post[Len(steps) + 1].text = x.text,
         \A j \in 1..Len(steps) : x.post[j].text = steps[j].text
  PROVE  Genuine(Append(steps, x))
<1> DEFINE n == Len(steps) + 1
           more == Append(steps, x)
<1>1. n \in Nat /\ Len(more) = n /\ more[n] = x /\ \A i \in 1..Len(steps) : more[i] = steps[i]
  OBVIOUS
<1>2. DOMAIN more = 1..n
  BY <1>1
<1> HIDE DEF more
<1>3. SUFFICES ASSUME NEW i \in 1..n
               PROVE  Len(more[i].post) = i /\ \A j \in 1..i : more[i].post[j].text = more[j].text
  BY <1>2 DEF Genuine, more
<1>4. CASE i = n
  BY <1>1, <1>4
<1>5. CASE i # n
  <2>1. i \in 1..Len(steps) /\ i \in DOMAIN steps
    BY <1>1, <1>5
  <2> QED BY <1>1, <2>1 DEF Genuine
<1> QED BY <1>4, <1>5

LEMMA ExtendFresh ==
  ASSUME NEW steps \in Seq(Step), NEW v \in Nat, FreshSince(steps, v), NEW x \in Step,
         \A j \in 1..Len(steps) + 1 : x.post[j].text \in Import => x.post[j].version >= v
  PROVE  FreshSince(Append(steps, x), v)
<1> DEFINE n == Len(steps) + 1
           more == Append(steps, x)
<1>1. n \in Nat /\ Len(more) = n /\ more[n] = x /\ \A i \in 1..Len(steps) : more[i] = steps[i]
  OBVIOUS
<1>2. DOMAIN more = 1..n
  BY <1>1
<1> HIDE DEF more
<1>3. SUFFICES ASSUME NEW i \in 1..n
               PROVE  \A j \in 1..i : more[i].post[j].text \in Import => more[i].post[j].version >= v
  BY <1>2 DEF FreshSince, more
<1>4. CASE i = n
  BY <1>1, <1>4
<1>5. CASE i # n
  <2>1. i \in 1..Len(steps) /\ i \in DOMAIN steps
    BY <1>1, <1>5
  <2> QED BY <1>1, <2>1 DEF FreshSince
<1> QED BY <1>4, <1>5

LEMMA NothingYet == Genuine(<<>>) /\ \A v : FreshSince(<<>>, v)
BY DEF Genuine, FreshSince

\* Where an execution from the pristine state has got to.
LEMMA AtGenuine ==
  ASSUME TypeOK, call # Idle, call.from = Pristine, Genuine(call.acc),
         NEW v, FreshSince(call.acc, v)
  PROVE  /\ Len(At) = Len(call.acc)
         /\ \A j \in 1..Len(call.acc) :
              /\ At[j].text = call.acc[j].text
              /\ At[j].text \in Import => At[j].version >= v
<1>1. call.acc \in Seq(Step)
  BY DEF TypeOK, Call
<1>2. CASE call.acc = <<>>
  BY <1>2 DEF At, Pristine
<1>3. CASE call.acc # <<>>
  <2>1. Len(call.acc) \in DOMAIN call.acc /\ Len(call.acc) \in Nat
    BY <1>1, <1>3
  <2> QED BY <1>3, <2>1 DEF At, Genuine, FreshSince
<1> QED BY <1>2, <1>3

\* Whatever an execution leaves in the cache is safe.
LEMMA SavedSafe ==
  ASSUME TypeOK, Inv, call # Idle
  PROVE  Safe(Saved, fingerprint)
<1>1. CASE Saved = cache
  BY <1>1 DEF Inv
<1>2. CASE Saved = call.acc
  <2>1. call.acc \in Seq(Step) /\ call.src \in Seq(Sentence)
    BY DEF TypeOK, Call
  <2>2. CASE call.from = Pristine
    BY <1>2, <2>2 DEF Inv, CallSafe, FromPristine, Safe
  <2>3. CASE call.from # Pristine /\ call.acc # <<>>
    <3>1. Len(call.acc) \in Nat /\ 1 \in 1..Len(call.acc) /\ call.src # <<>>
      BY <2>1, <2>3 DEF Inv, CallSafe, FollowsText
    <3>2. call.acc[1].text = call.src[1]
      BY <3>1 DEF Inv, CallSafe, FollowsText
    <3>3. call.src[1] \notin Heads
      BY <2>3, <3>1 DEF Inv, CallSafe, FromElsewhere
    <3> QED BY <1>2, <3>2, <3>3 DEF Safe
  <2>4. CASE call.acc = <<>>
    BY <1>2, <2>4 DEF Safe
  <2> QED BY <2>2, <2>3, <2>4
<1> QED BY <1>1, <1>2 DEF Saved

LEMMA CheckedSafe ==
  ASSUME TypeOK, NEW c, Safe(c, fingerprint), CheckCacheFreshness(c)
  PROVE  Safe(cache', fingerprint') /\ fingerprint' = disk
<1>1. CASE disk = fingerprint
  BY <1>1 DEF CheckCacheFreshness
<1>2. CASE disk # fingerprint
  BY <1>2 DEF CheckCacheFreshness, Safe
<1> QED BY <1>1, <1>2

\* A text that begins from the pristine state, with a sentence a file begins with.
LEMMA PristineBegins ==
  ASSUME call'.from = Pristine, call'.acc = <<>>, call'.pieces = <<>>,
         call'.since = fingerprint', cache' \in Seq(Step), call'.src \in Seq(Sentence),
         call'.src # <<>> => call'.src[1] \in Heads,
         Opens', Makes'
  PROVE  CallSafe'
<1>1. Len(call'.acc) = 0 /\ Len(call'.src) \in Nat /\ Len(cache') \in Nat
  OBVIOUS
<1>2. FollowsText' /\ FollowsCache'
  BY <1>1 DEF FollowsText, FollowsCache
<1>3. FromPristine' /\ FromElsewhere'
  BY NothingYet DEF FromPristine, FromElsewhere
<1> QED BY <1>2, <1>3 DEF CallSafe

LEMMA SessionKept ==
  ASSUME SessionSafe, base' = base
  PROVE  SessionSafe'
BY DEF SessionSafe, BaseIsGenuine, BaseIsFresh, OpensAtTarget

LEMMA ServeSafe ==
  ASSUME TypeOK, TypeOK', Inv, NEW src \in Source,
         NEW target \in Statement \union {NoTarget}, NEW making \in BOOLEAN,
         making => target = NoTarget, Serve(target, making, src)
  PROVE  Inv'
<1>1. /\ call' \in Call
      /\ call'.file = src /\ call'.target = target /\ call'.making = making
      /\ call'.pieces = <<>> /\ call'.src = src /\ call'.from = Pristine
      /\ call'.since = disk /\ call'.acc = <<>>
  BY ServeEffect
<1>2. Safe(cache', fingerprint') /\ fingerprint' = disk /\ disk' = disk /\ base' = base
  BY CheckedSafe DEF Serve, Inv
<1>3. src \in Seq(Sentence)
  BY PrefixCacheConstants
<1>4. call'.src # <<>> => call'.src[1] \in Heads
  BY <1>1 DEF Heads
<1>5. Opens'
  <2>1. 0 \in 0..Len(src) /\ Leaves(src, src, 0)
    BY <1>3 DEF Leaves
  <2> QED BY <1>1, <2>1 DEF Opens
<1>6. Makes'
  BY <1>1 DEF Makes
<1>7. CallSafe'
  BY <1>1, <1>2, <1>3, <1>4, <1>5, <1>6, PristineBegins DEF TypeOK
<1>8. fingerprint' <= disk'
  BY <1>2 DEF TypeOK
<1> QED BY <1>2, <1>7, <1>8, SessionKept DEF Inv

LEMMA AdoptSafe ==
  ASSUME TypeOK, Inv, AdoptCached
  PROVE  Inv'
<1> DEFINE x == cache[Position]
<1>1. call \in Call /\ call # Idle /\ cache \in Seq(Step)
  BY DEF TypeOK, AdoptCached
<1>2. /\ call' \in Call /\ Kept(call)
      /\ Position \in 1..Len(call.src) /\ Position \in 1..Len(cache)
      /\ x \in Step /\ x.text = call.src[Position]
      /\ call.warm /\ call'.warm /\ call'.acc = Append(call.acc, x)
  BY AdoptEffect
<1>3. call.acc \in Seq(Step) /\ call.src \in Seq(Sentence) /\ Position = Len(call.acc) + 1
  BY <1>1 DEF Call, Position
<1>4. UNCHANGED <<disk, cache, fingerprint, base>>
  BY DEF AdoptCached
<1>5. /\ call.since = fingerprint /\ FollowsText /\ FollowsCache
      /\ FromPristine /\ FromElsewhere /\ Opens /\ Makes
  BY <1>1 DEF Inv, CallSafe
<1>6. /\ Len(call'.acc) = Position /\ call'.acc[Position] = x
      /\ \A i \in 1..Len(call.acc) : call'.acc[i] = call.acc[i]
  BY <1>2, <1>3
<1>7. FollowsText'
  BY <1>2, <1>3, <1>5, <1>6 DEF FollowsText, Kept
<1>8. FollowsCache'
  BY <1>2, <1>3, <1>4, <1>5, <1>6 DEF FollowsCache
<1>9. ASSUME call.from = Pristine
      PROVE  Genuine(call'.acc) /\ FreshSince(call'.acc, fingerprint)
  <2>1. cache[1].text = call.src[1] /\ call.src # <<>>
    <3>1. CASE Len(call.acc) = 0
      BY <1>2, <1>3, <3>1
    <3>2. CASE Len(call.acc) # 0
      <4>1. 1 \in 1..Len(call.acc)
        BY <1>3, <3>2
      <4> QED BY <1>2, <1>3, <1>5, <4>1 DEF FollowsText, FollowsCache
    <3> QED BY <3>1, <3>2
  <2>2. cache # <<>> /\ cache[1].text \in Heads
    BY <1>2, <1>5, <1>9, <2>1 DEF FromPristine
  <2>3. Genuine(cache) /\ FreshSince(cache, fingerprint)
    BY <2>2 DEF Inv, Safe
  <2>4. Position \in DOMAIN cache
    BY <1>1, <1>2
  <2>5. Len(x.post) = Position /\ \A j \in 1..Position : x.post[j].text = cache[j].text
    BY <2>3, <2>4 DEF Genuine
  <2>6. \A j \in 1..Position : x.post[j].text \in Import => x.post[j].version >= fingerprint
    BY <2>3, <2>4 DEF FreshSince
  <2>7. \A j \in 1..Len(call.acc) : cache[j].text = call.acc[j].text
    BY <1>2, <1>5 DEF FollowsCache
  <2>8. Genuine(call.acc) /\ FreshSince(call.acc, fingerprint) /\ fingerprint \in Nat
    BY <1>5, <1>9 DEF FromPristine, TypeOK
  <2> HIDE DEF x
  <2>9. Genuine(Append(call.acc, x))
    <3>1. \A j \in 1..Len(call.acc) : x.post[j].text = call.acc[j].text
      BY <1>3, <2>5, <2>7
    <3>2. x.post[Len(call.acc) + 1].text = x.text
      BY <1>2, <1>3, <2>5 DEF x
    <3> QED BY <1>2, <1>3, <2>5, <2>8, <3>1, <3>2, ExtendGenuine
  <2>10. FreshSince(Append(call.acc, x), fingerprint)
    BY <1>2, <1>3, <2>6, <2>8, ExtendFresh
  <2> QED BY <1>2, <2>9, <2>10
<1>10. FromPristine' /\ FromElsewhere'
  BY <1>2, <1>4, <1>5, <1>9 DEF FromPristine, FromElsewhere, Kept
<1>11. Opens' /\ Makes'
  BY <1>2, <1>5 DEF Opens, Makes, Kept
<1>12. CallSafe'
  BY <1>2, <1>4, <1>5, <1>7, <1>8, <1>10, <1>11 DEF CallSafe, Kept
<1> QED BY <1>4, <1>12, SessionKept DEF Inv

LEMMA InterpretSafe ==
  ASSUME TypeOK, Inv, Interpret
  PROVE  Inv'
<1> DEFINE s == call.src[Position]
           x == [text |-> s, post |-> Append(At, Executed(s))]
<1>1. call \in Call /\ call # Idle
  BY DEF TypeOK, Interpret
<1>2. /\ call' \in Call /\ Kept(call)
      /\ Position \in 1..Len(call.src) /\ s \in Sentence /\ x \in Step
      /\ ~call'.warm /\ call'.acc = Append(call.acc, x)
  BY InterpretEffect
<1>3. call.acc \in Seq(Step) /\ call.src \in Seq(Sentence) /\ Position = Len(call.acc) + 1
  BY <1>1 DEF Call, Position
<1>4. UNCHANGED <<disk, cache, fingerprint, base>>
  BY DEF Interpret
<1>5. /\ call.since = fingerprint /\ FollowsText
      /\ FromPristine /\ FromElsewhere /\ Opens /\ Makes
  BY <1>1 DEF Inv, CallSafe
<1>6. x.text = s
  OBVIOUS
<1>7. FollowsText'
  <2> HIDE DEF x
  <2>1. /\ Len(call'.acc) = Position /\ call'.acc[Position] = x
        /\ \A i \in 1..Len(call.acc) : call'.acc[i] = call.acc[i]
    BY <1>2, <1>3
  <2> QED BY <1>2, <1>3, <1>5, <1>6, <2>1 DEF FollowsText, Kept
<1>8. FollowsCache'
  BY <1>2 DEF FollowsCache
<1>9. ASSUME call.from = Pristine
      PROVE  Genuine(call'.acc) /\ FreshSince(call'.acc, fingerprint)
  <2>1. Genuine(call.acc) /\ FreshSince(call.acc, fingerprint)
    BY <1>5, <1>9 DEF FromPristine
  <2>2. /\ Len(At) = Len(call.acc)
        /\ \A j \in 1..Len(call.acc) :
             /\ At[j].text = call.acc[j].text
             /\ At[j].text \in Import => At[j].version >= fingerprint
    BY <1>1, <1>9, <2>1, AtGenuine
  <2>3. At \in Snapshot /\ disk \in Nat /\ fingerprint \in Nat /\ fingerprint <= disk
    BY <1>1, AtType DEF TypeOK, Inv
  <2>4. /\ Executed(s).text = s /\ (s \in Import => Executed(s).version = disk)
        /\ Executed(s) \in [text : Sentence, version : Nat]
    BY <1>2, <2>3, ExecutedType
  <2> DEFINE e == Executed(s)
             after == Append(At, e)
  <2>5. x.post = after
    OBVIOUS
  <2>6. /\ Len(after) = Len(At) + 1 /\ after[Len(At) + 1] = e
        /\ \A j \in 1..Len(At) : after[j] = At[j]
    <3> HIDE DEF e
    <3> QED BY <2>3, <2>4 DEF Snapshot, e
  <2> HIDE DEF x, after
  <2>7. Len(x.post) = Len(call.acc) + 1 /\ x.post[Len(call.acc) + 1].text = x.text
    BY <1>6, <2>2, <2>4, <2>5, <2>6
  <2>8. \A j \in 1..Len(call.acc) : x.post[j].text = call.acc[j].text
    BY <2>2, <2>5, <2>6
  <2>9. \A j \in 1..Len(call.acc) + 1 : x.post[j].text \in Import => x.post[j].version >= fingerprint
    <3>1. TAKE j \in 1..Len(call.acc) + 1
    <3>2. CASE j \in 1..Len(call.acc)
      BY <2>2, <2>5, <2>6, <3>2
    <3>3. CASE j = Len(call.acc) + 1
      BY <2>2, <2>3, <2>4, <2>5, <2>6, <3>3
    <3> QED BY <1>3, <3>1, <3>2, <3>3
  <2> QED BY <1>2, <1>3, <2>1, <2>3, <2>7, <2>8, <2>9, ExtendGenuine, ExtendFresh
<1>10. FromPristine' /\ FromElsewhere'
  BY <1>2, <1>4, <1>5, <1>9 DEF FromPristine, FromElsewhere, Kept
<1>11. Opens' /\ Makes'
  BY <1>2, <1>5 DEF Opens, Makes, Kept
<1>12. CallSafe'
  BY <1>2, <1>4, <1>5, <1>7, <1>8, <1>10, <1>11 DEF CallSafe, Kept
<1> QED BY <1>4, <1>12, SessionKept DEF Inv

\* A text that begins behind an admitted proof.
LEMMA ElsewhereBegins ==
  ASSUME call'.from # Pristine, call'.acc = <<>>, ~call'.making,
         call'.since = fingerprint', cache' \in Seq(Step), call'.src \in Seq(Sentence),
         call'.src # <<>> => call'.src[1] \notin Heads,
         call'.pieces # <<>>, call'.pieces[1].text \in Heads,
         Opens'
  PROVE  CallSafe'
<1>1. Len(call'.acc) = 0 /\ Len(call'.src) \in Nat /\ Len(cache') \in Nat
  OBVIOUS
<1>2. FollowsText' /\ FollowsCache'
  BY <1>1 DEF FollowsText, FollowsCache
<1>3. FromPristine' /\ FromElsewhere' /\ Makes'
  BY DEF FromPristine, FromElsewhere, Makes
<1> QED BY <1>2, <1>3 DEF CallSafe

LEMMA ConcatBegins ==
  ASSUME NEW s \in Seq(Step), NEW more \in Seq(Step)
  PROVE  /\ s \o more \in Seq(Step)
         /\ s # <<>> => s \o more # <<>> /\ (s \o more)[1] = s[1]
         /\ s = <<>> => s \o more = more
<1>1. CASE s # <<>>
  <2>1. Len(s) \in Nat /\ Len(s) >= 1
    BY <1>1
  <2> QED BY <2>1
<1>2. CASE s = <<>>
  BY <1>2
<1> QED BY <1>1, <1>2

\* Whatever open has executed begins with a sentence some file begins with.
LEMMA StepsBegin ==
  ASSUME TypeOK, Inv, call # Idle, Steps # <<>>
  PROVE  Steps[1].text \in Heads
<1>1. call.acc \in Seq(Step) /\ call.pieces \in Seq(Step) /\ call.src \in Seq(Sentence)
  BY DEF TypeOK, Call
<1>2. FollowsText /\ FromPristine /\ FromElsewhere
  BY DEF Inv, CallSafe
<1>3. CASE call.pieces # <<>>
  <2>1. Steps[1] = call.pieces[1]
    BY <1>1, <1>3, ConcatBegins DEF Steps
  <2>2. call.from # Pristine
    BY <1>2, <1>3 DEF FromPristine
  <2> QED BY <1>2, <2>1, <2>2 DEF FromElsewhere
<1>4. CASE call.pieces = <<>>
  <2>1. Steps = call.acc
    BY <1>1, <1>4 DEF Steps
  <2>2. call.from = Pristine
    BY <1>2, <1>4 DEF FromElsewhere
  <2>3. 1 \in 1..Len(call.acc) /\ call.src # <<>>
    BY <1>1, <1>2, <2>1 DEF FollowsText
  <2>4. call.acc[1].text = call.src[1]
    BY <1>2, <2>3 DEF FollowsText
  <2> QED BY <1>2, <2>1, <2>2, <2>3, <2>4 DEF FromPristine
<1> QED BY <1>3, <1>4

LEMMA PiecesBegin ==
  ASSUME TypeOK, Inv, call # Idle, Statements # {}
  PROVE  Pieces # <<>> /\ Pieces[1].text \in Heads
<1>1. call.acc \in Seq(Step) /\ call.pieces \in Seq(Step)
  BY DEF TypeOK, Call
<1>2. /\ Broken \in 1..Len(call.acc)
      /\ AdmittedSteps \in Seq(Step) /\ Len(AdmittedSteps) = 2
      /\ AdmittedSteps[1].text = call.acc[Broken].text
  BY AdmittedType
<1> DEFINE kept == SubSeq(call.acc, 1, Broken - 1)
<1>3. /\ kept \in Seq(Step) /\ Len(kept) = Broken - 1
      /\ \A i \in 1..Broken - 1 : kept[i] = call.acc[i]
  BY <1>1, <1>2
<1>4. Pieces = call.pieces \o kept \o AdmittedSteps
  BY DEF Pieces
<1> HIDE DEF kept
<1>5. Pieces # <<>> /\ Pieces[1].text = Steps[1].text /\ Steps # <<>>
  <2>1. CASE call.pieces # <<>>
    <3>1. /\ call.pieces \o kept \in Seq(Step) /\ call.pieces \o kept # <<>>
          /\ (call.pieces \o kept)[1] = call.pieces[1]
      BY <1>1, <1>3, <2>1, ConcatBegins
    <3>2. Pieces # <<>> /\ Pieces[1] = call.pieces[1]
      BY <1>2, <1>4, <3>1, ConcatBegins
    <3>3. Steps # <<>> /\ Steps[1] = call.pieces[1]
      BY <1>1, <2>1, ConcatBegins DEF Steps
    <3> QED BY <3>2, <3>3
  <2>2. CASE call.pieces = <<>>
    <3>1. Pieces = kept \o AdmittedSteps /\ Steps = call.acc
      BY <1>1, <1>2, <1>3, <1>4, <2>2 DEF Steps
    <3>2. CASE Broken = 1
      <4>1. kept = <<>>
        BY <1>3, <3>2
      <4>2. Pieces = AdmittedSteps
        BY <1>2, <1>3, <3>1, <4>1, ConcatBegins
      <4>3. Steps # <<>> /\ Steps[1] = call.acc[Broken]
        BY <1>1, <1>2, <3>1, <3>2
      <4>4. Pieces # <<>> /\ Pieces[1] = AdmittedSteps[1]
        <5>1. AdmittedSteps # <<>>
          <6>1. Len(AdmittedSteps) = 2
            BY <1>2
          <6>2. \A s \in Seq(Step) : Len(s) = 2 => s # <<>>
            OBVIOUS
          <6> QED BY <1>2, <6>1, <6>2, Zenon
        <5> QED BY <4>2, <5>1, Zenon
      <4> QED BY <1>2, <4>3, <4>4
    <3>3. CASE Broken # 1
      <4>1. kept # <<>> /\ kept[1] = call.acc[1]
        BY <1>1, <1>2, <1>3, <3>3
      <4>2. Pieces # <<>> /\ Pieces[1] = kept[1]
        BY <1>2, <1>3, <3>1, <4>1, ConcatBegins
      <4> QED BY <1>1, <1>2, <3>1, <4>1, <4>2
    <3> QED BY <3>2, <3>3
  <2> QED BY <2>1, <2>2
<1> QED BY <1>5, StepsBegin

\* What is left behind an admitted proof is not what a file begins with.
LEMMA RestBegins ==
  ASSUME TypeOK, Inv, NoLateHeads, call # Idle, ~call.making, Rest # <<>>
  PROVE  /\ Rest[1] \notin Heads
         /\ \E k \in 0..Len(call.file) : Leaves(Rest, call.file, k)
<1>1. call.file \in Source /\ call.file \in Seq(Sentence) /\ call.src \in Seq(Sentence)
  BY PrefixCacheConstants DEF TypeOK, Call
<1>2. PICK m \in 2..Len(call.src) :
        /\ call.src[m] \in {Qed, Admitted}
        /\ Len(Rest) = Len(call.src) - m
        /\ \A i \in 1..Len(Rest) : Rest[i] = call.src[m + i]
  BY RestType
<1>3. PICK k \in 0..Len(call.file) : Leaves(call.src, call.file, k)
  BY DEF Inv, CallSafe, Opens
<1>4. /\ Len(call.src) = Len(call.file) - k
      /\ \A i \in 1..Len(call.src) : call.src[i] = call.file[k + i]
  BY <1>3 DEF Leaves
<1>5. Rest \in Seq(Sentence) /\ Len(Rest) \in Nat /\ Len(Rest) >= 1
  BY RestType
<1> DEFINE n == k + m
<1>6. n \in 0..Len(call.file) /\ Leaves(Rest, call.file, n)
  <2>1. n \in 0..Len(call.file) /\ Len(Rest) = Len(call.file) - n
    BY <1>1, <1>2, <1>4
  <2>2. ASSUME NEW i \in 1..Len(Rest) PROVE Rest[i] = call.file[n + i]
    <3>1. m + i \in 1..Len(call.src) /\ k + (m + i) = n + i
      BY <1>1, <1>2, <1>5
    <3> QED BY <1>2, <1>4, <3>1
  <2> QED BY <2>1, <2>2 DEF Leaves
<1>7. call.file[n] \in {Qed, Admitted} /\ Rest[1] = call.file[n + 1] /\ n + 1 \in 2..Len(call.file)
  <2>1. m \in 1..Len(call.src)
    BY <1>2
  <2>2. call.file[n] = call.src[m]
    BY <1>4, <2>1
  <2>3. n \in Nat /\ n >= 1
    BY <1>2
  <2>4. Len(Rest) = Len(call.file) - n /\ \A i \in 1..Len(Rest) : Rest[i] = call.file[n + i]
    BY <1>6 DEF Leaves
  <2> HIDE DEF n
  <2>5. Rest[1] = call.file[n + 1] /\ n + 1 <= Len(call.file)
    BY <1>1, <1>5, <2>3, <2>4
  <2>6. n + 1 \in 2..Len(call.file)
    BY <1>1, <2>3, <2>5
  <2>7. call.src[m] \in {Qed, Admitted}
    BY <1>2
  <2> QED BY <2>2, <2>5, <2>6, <2>7, Zenon
<1>8. ASSUME NEW s \in Source, s # <<>> PROVE Rest[1] # s[1]
  <2>1. n \in Nat /\ n + 1 - 1 = n
    BY <1>2
  <2> HIDE DEF n
  <2>2. PICK j \in 2..Len(call.file) : j = n + 1 /\ j - 1 = n
    <3>1. n + 1 \in 2..Len(call.file)
      BY <1>7, Zenon
    <3> QED BY <2>1, <3>1
  <2>3. call.file[j - 1] \in {Qed, Admitted} => call.file[j] # s[1]
    BY <1>1, <1>8, Zenon DEF NoLateHeads
  <2> QED BY <1>7, <2>2, <2>3, Zenon
<1>9. Rest[1] \notin Heads
  BY <1>8, Zenon DEF Heads
<1> HIDE DEF n
<1> QED BY <1>6, <1>9, Zenon

LEMMA ContinueSafe ==
  ASSUME TypeOK, TypeOK', Inv, NoLateHeads, AdmitAndContinue
  PROVE  Inv'
<1>1. /\ call # Idle /\ ~call.making /\ Statements # {} /\ Rest # <<>>
      /\ CheckCacheFreshness(Saved) /\ UNCHANGED <<disk, base>>
  BY DEF AdmitAndContinue, Continue, MayAdmit
<1>2. /\ call' \in Call
      /\ call'.file = call.file /\ ~call'.making
      /\ call'.pieces = Pieces /\ call'.src = Rest
      /\ call'.from # Pristine /\ call'.since = disk /\ call'.acc = <<>>
  BY ContinueEffect
<1>3. Safe(cache', fingerprint') /\ fingerprint' = disk
  BY <1>1, SavedSafe, CheckedSafe
<1>4. /\ Rest[1] \notin Heads
      /\ \E k \in 0..Len(call.file) : Leaves(Rest, call.file, k)
  BY <1>1, RestBegins
<1>5. Opens'
  BY <1>2, <1>4 DEF Opens
<1>6. Rest \in Seq(Sentence)
  BY <1>1, RestType
<1>7. Pieces # <<>> /\ Pieces[1].text \in Heads
  BY <1>1, PiecesBegin
<1>8. CallSafe'
  BY <1>2, <1>3, <1>4, <1>5, <1>6, <1>7, ElsewhereBegins DEF TypeOK
<1>9. fingerprint' <= disk'
  BY <1>1, <1>3 DEF TypeOK
<1> QED BY <1>1, <1>3, <1>8, <1>9, SessionKept DEF Inv

LEMMA MakeSafe ==
  ASSUME TypeOK, TypeOK', Inv, call # Idle, NEW prefix \in Seq(Sentence), Make(prefix),
         UNCHANGED <<disk, base>>,
         prefix # <<>> => prefix[1] \in Heads,
         call.target # NoTarget => prefix # <<>> /\ prefix[Len(prefix)] = call.target
  PROVE  Inv'
<1>1. /\ call' \in Call
      /\ call'.target = call.target /\ call'.making
      /\ call'.pieces = <<>> /\ call'.src = prefix /\ call'.from = Pristine
      /\ call'.since = disk /\ call'.acc = <<>>
  BY MakeEffect
<1>2. Safe(cache', fingerprint') /\ fingerprint' = disk
  BY SavedSafe, CheckedSafe DEF Make
<1>3. Opens' /\ Makes'
  BY <1>1 DEF Opens, Makes
<1>4. CallSafe'
  BY <1>1, <1>2, <1>3, PristineBegins DEF TypeOK
<1>5. fingerprint' <= disk'
  BY <1>2 DEF TypeOK
<1> QED BY <1>2, <1>4, <1>5, SessionKept DEF Inv

LEMMA FindsSafe ==
  ASSUME TypeOK, TypeOK', Inv, OpenFinds
  PROVE  Inv'
<1>1. call # Idle /\ UNCHANGED <<disk, base>>
  BY DEF OpenFinds
<1>2. Steps \in Seq(Step)
  BY <1>1, StepsType
<1>3. CASE call.target # NoTarget /\ Found # {} /\ Make(PrefixOfTarget)
  <2>1. /\ PrefixOfTarget \in Seq(Sentence) /\ PrefixOfTarget # <<>>
        /\ PrefixOfTarget[1] = Steps[1].text
        /\ PrefixOfTarget[Len(PrefixOfTarget)] = call.target
    BY <1>1, <1>3, FoundPrefix
  <2>2. Steps # <<>>
    BY <1>2, <1>3 DEF Found
  <2> QED BY <1>1, <1>3, <2>1, <2>2, StepsBegin, MakeSafe
<1>4. CASE call.target = NoTarget /\ Make(TextsOf(Steps))
  <2>1. /\ TextsOf(Steps) \in Seq(Sentence) /\ Len(TextsOf(Steps)) = Len(Steps)
        /\ \A i \in 1..Len(Steps) : TextsOf(Steps)[i] = Steps[i].text
    BY <1>2, TextsType
  <2>2. TextsOf(Steps) # <<>> => Steps # <<>> /\ TextsOf(Steps)[1] = Steps[1].text
    BY <1>2, <2>1
  <2> QED BY <1>1, <1>4, <2>1, <2>2, StepsBegin, MakeSafe
<1> QED BY <1>3, <1>4 DEF OpenFinds

\* The session make_session gives, when the whole prefix was executed.
LEMMA SessionMade ==
  ASSUME TypeOK, Inv, call # Idle, call.making, AtEnd,
         base' = [prefix |-> call.src, st |-> At, since |-> call.since, target |-> call.target]
  PROVE  SessionSafe'
<1>1. call.acc \in Seq(Step) /\ call.src \in Seq(Sentence) /\ call.target \in Statement \union {NoTarget}
  BY DEF TypeOK, Call
<1>2. /\ call.since = fingerprint /\ FollowsText
      /\ call.from = Pristine /\ FromPristine /\ Makes
  BY DEF Inv, CallSafe, Makes
<1>3. Genuine(call.acc) /\ FreshSince(call.acc, fingerprint)
  BY <1>2 DEF FromPristine
<1>4. Len(call.acc) = Len(call.src)
  BY <1>1, <1>2 DEF AtEnd, Position, FollowsText
<1>5. /\ Len(At) = Len(call.acc)
      /\ \A j \in 1..Len(call.acc) :
           /\ At[j].text = call.acc[j].text
           /\ At[j].text \in Import => At[j].version >= fingerprint
  BY <1>2, <1>3, AtGenuine
<1>6. At \in Seq([text : Sentence, version : Nat])
  BY AtType DEF Snapshot
<1>7. DOMAIN At = 1..Len(call.src) /\ Len(At) = Len(call.src) /\ Len(At) \in Nat
  BY <1>1, <1>4, <1>5, <1>6
<1>8. \A j \in 1..Len(call.src) : At[j].text = call.src[j]
  BY <1>2, <1>4, <1>5 DEF FollowsText
<1>9. TextsOf(At) = call.src
  <2>1. TextsOf(At) = [i \in 1..Len(call.src) |-> At[i].text]
    BY <1>7 DEF TextsOf
  <2>2. call.src = [i \in 1..Len(call.src) |-> call.src[i]]
    BY <1>1
  <2> QED BY <1>8, <2>1, <2>2
<1>10. \A j \in DOMAIN At : At[j].text \in Import => At[j].version >= call.since
  BY <1>2, <1>4, <1>5, <1>7
<1>11. ASSUME call.target # NoTarget
       PROVE  /\ call.src # <<>> /\ call.src[Len(call.src)] = call.target
              /\ ProofOpen(At)
  <2>1. call.src # <<>> /\ call.src[Len(call.src)] = call.target
    BY <1>2, <1>11 DEF Makes
  <2>2. Len(At) \in DOMAIN At
    BY <1>1, <1>7, <2>1
  <2>3. At[Len(At)].text \in Statement
    BY <1>1, <1>7, <1>8, <1>11, <2>1, <2>2
  <2>4. \A j \in Len(At) + 1..Len(At) : FALSE
    BY <1>7
  <2> QED BY <2>1, <2>2, <2>3, <2>4 DEF ProofOpen
<1>12. /\ base'.prefix = call.src /\ base'.st = At
       /\ base'.since = call.since /\ base'.target = call.target
  OBVIOUS
<1>13. BaseIsGenuine' /\ BaseIsFresh'
  BY <1>9, <1>10, <1>12 DEF BaseIsGenuine, BaseIsFresh, TextsOf
<1>14. OpensAtTarget'
  BY <1>11, <1>12 DEF OpensAtTarget, ProofOpen
<1> QED BY <1>13, <1>14 DEF SessionSafe

LEMMA EndsSafe ==
  ASSUME TypeOK, Inv, OpenFails \/ MakeSession
  PROVE  Inv'
<1>1. call # Idle /\ cache' = Saved /\ call' = Idle /\ UNCHANGED <<disk, fingerprint>>
  BY DEF OpenFails, MakeSession
<1>2. Safe(cache', fingerprint')
  BY <1>1, SavedSafe
<1>3. SessionSafe'
  <2>1. CASE base' = base
    BY <2>1, SessionKept DEF Inv
  <2>2. CASE MakeSession /\ base' # base
    BY <2>2, SessionMade DEF MakeSession
  <2> QED BY <2>1, <2>2 DEF OpenFails
<1> QED BY <1>1, <1>2, <1>3 DEF Inv, CallSafe

LEMMA InvNext ==
  ASSUME TypeOK, TypeOK', Inv, NoLateHeads, [Next]_vars
  PROVE  Inv'
<1>1. CASE \E src \in Source : \E target \in Statement \union {NoTarget} : OpenTool(src, target)
  BY <1>1, ServeSafe DEF OpenTool
<1>2. CASE \E src \in Source : GetSession(src)
  BY <1>2, ServeSafe DEF GetSession
<1>3. CASE AdoptCached
  BY <1>3, AdoptSafe
<1>4. CASE Interpret
  BY <1>4, InterpretSafe
<1>5. CASE AdmitAndContinue
  BY <1>5, ContinueSafe
<1>6. CASE OpenFinds
  BY <1>6, FindsSafe
<1>7. CASE OpenFails \/ MakeSession
  BY <1>7, EndsSafe
<1>8. CASE Rebuild \/ UNCHANGED vars
  <2>1. UNCHANGED <<cache, fingerprint, call, base>> /\ disk' >= disk
    BY <1>8 DEF Rebuild, vars, TypeOK
  <2>2. fingerprint' <= disk'
    BY <2>1 DEF Inv, TypeOK
  <2>3. CallSafe'
    BY <2>1 DEF Inv, CallSafe, FollowsText, FollowsCache, FromPristine, FromElsewhere, Opens, Makes
  <2> QED BY <2>1, <2>2, <2>3, SessionKept DEF Inv
<1> QED BY <1>1, <1>2, <1>3, <1>4, <1>5, <1>6, <1>7, <1>8 DEF Next

LEMMA InvAlways ==
  ASSUME NoLateHeads
  PROVE  Spec => []Inv
<1>1. Init => Inv
  BY DEF Init, Inv, Safe, CallSafe, SessionSafe, BaseIsGenuine, BaseIsFresh, OpensAtTarget
<1>2. TypeOK /\ TypeOK' /\ Inv /\ [Next]_vars => Inv'
  BY InvNext
<1> QED BY <1>1, <1>2, LoaderTypeCorrect, PTL DEF Spec

\* When imports come first and nowhere else, a session starts from what its own
\* prefix gives, whatever was cached by whichever calls before (exec_text's
\* hits, and the cache being kept from open's continuations too).
THEOREM SessionsAreGenuine ==
  ASSUME NoLateHeads
  PROVE  Spec => []BaseIsGenuine
<1>1. Inv => BaseIsGenuine
  BY DEF Inv, SessionSafe
<1> QED BY <1>1, InvAlways, PTL

\* And its imports were read after make_session began or had not changed since
\* (check_cache_freshness), though rebuilds come between any two sentences.
THEOREM SessionsAreFresh ==
  ASSUME NoLateHeads
  PROVE  Spec => []BaseIsFresh
<1>1. Inv => BaseIsFresh
  BY DEF Inv, SessionSafe
<1> QED BY <1>1, InvAlways, PTL

\* And a session opened for a theorem begins with that theorem's proof open
\* (open's mk_prefix, over pieces with broken proofs admitted).
THEOREM SessionsOpenAtTarget ==
  ASSUME NoLateHeads
  PROVE  Spec => []OpensAtTarget
<1>1. Inv => OpensAtTarget
  BY DEF Inv, SessionSafe
<1> QED BY <1>1, InvAlways, PTL

----
(***************************************************************************)
(* The prefix open puts together runs.                                     *)
(*                                                                         *)
(* A text behind a broken proof may meet the cache too, with the snapshots *)
(* of another proof's continuation: its steps were then executed behind    *)
(* other pieces than the ones before it.  What open adds up runs all the   *)
(* same, for they were behind a closed proof and behind less text.         *)
(***************************************************************************)
\* ProofOpen and Accepts, on texts.
OpenIn(ts) ==
  \E i \in 1..Len(ts) : ts[i] \in Statement /\ \A j \in i + 1..Len(ts) : ts[j] \notin {Qed, Admitted}

Takes(ts, s) ==
  /\ Needs[s] \subseteq {ts[i] : i \in 1..Len(ts)}
  /\ s \in Statement => ~OpenIn(ts)
  /\ s \in Solving \union {Qed, Admitted} => OpenIn(ts)
  /\ s = Qed => ts[Len(ts)] \in Solving

\* The prover accepts the whole text from the beginning.
Runs(ts) == \A n \in 1..Len(ts) : Takes(SubSeq(ts, 1, n - 1), ts[n])

LEMMA OpenConcat ==
  ASSUME NEW b \in Seq(Sentence), NEW t \in Seq(Sentence), ~OpenIn(b)
  PROVE  OpenIn(b \o t) <=> OpenIn(t)
<1> DEFINE bt == b \o t
<1>1. /\ Len(b) \in Nat /\ Len(t) \in Nat /\ Len(bt) = Len(b) + Len(t)
      /\ \A i \in 1..Len(b) : bt[i] = b[i]
      /\ \A i \in 1..Len(t) : bt[Len(b) + i] = t[i]
  OBVIOUS
<1> HIDE DEF bt
<1>2. ASSUME OpenIn(bt) PROVE OpenIn(t)
  <2>1. PICK i \in 1..Len(bt) :
          bt[i] \in Statement /\ \A j \in i + 1..Len(bt) : bt[j] \notin {Qed, Admitted}
    BY <1>2 DEF OpenIn
  <2>2. CASE i <= Len(b)
    <3>1. i \in 1..Len(b) /\ b[i] \in Statement
      BY <1>1, <2>1, <2>2
    <3>2. ASSUME NEW j \in i + 1..Len(b) PROVE b[j] \notin {Qed, Admitted}
      <4>1. j \in i + 1..Len(bt) /\ j \in 1..Len(b)
        BY <1>1, <3>1
      <4> QED BY <1>1, <2>1, <4>1
    <3> QED BY <3>1, <3>2 DEF OpenIn
  <2>3. CASE i > Len(b)
    <3>1. PICK k \in 1..Len(t) : i = Len(b) + k
      <4>1. i - Len(b) \in 1..Len(t) /\ i = Len(b) + (i - Len(b))
        BY <1>1, <2>3
      <4> QED BY <4>1
    <3>2. t[k] \in Statement
      BY <1>1, <2>1, <3>1
    <3>3. ASSUME NEW j \in k + 1..Len(t) PROVE t[j] \notin {Qed, Admitted}
      <4>1. Len(b) + j \in i + 1..Len(bt) /\ j \in 1..Len(t)
        BY <1>1, <3>1
      <4> QED BY <1>1, <2>1, <4>1
    <3> QED BY <3>2, <3>3 DEF OpenIn
  <2> QED BY <1>1, <2>2, <2>3
<1>3. ASSUME OpenIn(t) PROVE OpenIn(bt)
  <2>1. PICK k \in 1..Len(t) :
          t[k] \in Statement /\ \A j \in k + 1..Len(t) : t[j] \notin {Qed, Admitted}
    BY <1>3 DEF OpenIn
  <2>2. Len(b) + k \in 1..Len(bt) /\ bt[Len(b) + k] \in Statement
    BY <1>1, <2>1
  <2>3. ASSUME NEW j \in Len(b) + k + 1..Len(bt) PROVE bt[j] \notin {Qed, Admitted}
    <3>1. j - Len(b) \in k + 1..Len(t) /\ j - Len(b) \in 1..Len(t) /\ j = Len(b) + (j - Len(b))
      BY <1>1
    <3>2. bt[j] = t[j - Len(b)]
      BY <1>1, <3>1
    <3> QED BY <2>1, <3>1, <3>2
  <2> QED BY <2>2, <2>3 DEF OpenIn
<1> QED BY <1>2, <1>3 DEF bt

\* What is accepted behind a closed text is accepted behind another closed text
\* that has all of its sentences.
LEMMA TakesMore ==
  ASSUME NEW b \in Seq(Sentence), NEW p \in Seq(Sentence), NEW t \in Seq(Sentence),
         ~OpenIn(b), ~OpenIn(p), \A i \in 1..Len(b) : \E j \in 1..Len(p) : b[i] = p[j],
         NEW s, Takes(b \o t, s)
  PROVE  Takes(p \o t, s)
<1> DEFINE bt == b \o t
           pt == p \o t
<1>1. /\ Len(b) \in Nat /\ Len(t) \in Nat /\ Len(bt) = Len(b) + Len(t)
      /\ \A i \in 1..Len(b) : bt[i] = b[i]
      /\ \A i \in 1..Len(t) : bt[Len(b) + i] = t[i]
  OBVIOUS
<1>2. /\ Len(p) \in Nat /\ Len(pt) = Len(p) + Len(t)
      /\ \A i \in 1..Len(p) : pt[i] = p[i]
      /\ \A i \in 1..Len(t) : pt[Len(p) + i] = t[i]
  OBVIOUS
<1>3. (OpenIn(bt) <=> OpenIn(t)) /\ (OpenIn(pt) <=> OpenIn(t))
  BY OpenConcat
<1> HIDE DEF bt, pt
<1>4. ASSUME NEW i \in 1..Len(bt) PROVE bt[i] \in {pt[j] : j \in 1..Len(pt)}
  <2>1. CASE i <= Len(b)
    <3>1. i \in 1..Len(b)
      BY <1>1, <2>1
    <3>2. PICK j \in 1..Len(p) : b[i] = p[j]
      BY <3>1
    <3>3. j \in 1..Len(pt) /\ bt[i] = pt[j]
      BY <1>1, <1>2, <3>1, <3>2
    <3> QED BY <3>3
  <2>2. CASE i > Len(b)
    <3>1. PICK k \in 1..Len(t) : i = Len(b) + k
      <4>1. i - Len(b) \in 1..Len(t) /\ i = Len(b) + (i - Len(b))
        BY <1>1, <2>2
      <4> QED BY <4>1
    <3>2. Len(p) + k \in 1..Len(pt) /\ bt[i] = pt[Len(p) + k]
      BY <1>1, <1>2, <3>1
    <3> QED BY <3>2
  <2> QED BY <1>1, <2>1, <2>2
<1>5. Takes(bt, s)
  BY DEF bt
<1>6. Needs[s] \subseteq {pt[j] : j \in 1..Len(pt)}
  BY <1>4, <1>5, ZenonT(60) DEF Takes
<1>7. ASSUME s = Qed PROVE pt[Len(pt)] \in Solving
  <2>1. OpenIn(t)
    BY <1>3, <1>5, <1>7 DEF Takes
  <2>2. Len(t) \in 1..Len(t)
    BY <1>1, <2>1 DEF OpenIn
  <2>3. bt[Len(bt)] = t[Len(t)] /\ pt[Len(pt)] = t[Len(t)]
    BY <1>1, <1>2, <2>2
  <2> QED BY <1>5, <1>7, <2>3 DEF Takes
<1>8. Takes(pt, s)
  BY <1>3, <1>5, <1>6, <1>7 DEF Takes
<1> QED BY <1>8 DEF pt

LEMMA RunsConcat ==
  ASSUME NEW p \in Seq(Sentence), NEW t \in Seq(Sentence), Runs(p),
         \A i \in 1..Len(t) : Takes(p \o SubSeq(t, 1, i - 1), t[i])
  PROVE  Runs(p \o t)
<1> DEFINE pt == p \o t
<1>1. /\ Len(p) \in Nat /\ Len(t) \in Nat /\ pt \in Seq(Sentence) /\ Len(pt) = Len(p) + Len(t)
      /\ \A i \in 1..Len(p) : pt[i] = p[i]
      /\ \A i \in 1..Len(t) : pt[Len(p) + i] = t[i]
  OBVIOUS
<1>2. ASSUME NEW n \in 1..Len(p) PROVE SubSeq(pt, 1, n - 1) = SubSeq(p, 1, n - 1)
  OBVIOUS
<1>3. ASSUME NEW i \in 1..Len(t) PROVE SubSeq(pt, 1, Len(p) + i - 1) = p \o SubSeq(t, 1, i - 1)
  OBVIOUS
<1> HIDE DEF pt
<1>4. ASSUME NEW n \in 1..Len(pt) PROVE Takes(SubSeq(pt, 1, n - 1), pt[n])
  <2>1. CASE n <= Len(p)
    <3>1. n \in 1..Len(p)
      BY <1>1, <2>1
    <3>2. SubSeq(pt, 1, n - 1) = SubSeq(p, 1, n - 1) /\ pt[n] = p[n]
      BY <1>1, <1>2, <3>1
    <3> QED BY <3>1, <3>2 DEF Runs
  <2>2. CASE n > Len(p)
    <3>1. PICK i \in 1..Len(t) : n = Len(p) + i
      <4>1. n - Len(p) \in 1..Len(t) /\ n = Len(p) + (n - Len(p))
        BY <1>1, <2>2
      <4> QED BY <4>1
    <3>2. SubSeq(pt, 1, n - 1) = p \o SubSeq(t, 1, i - 1) /\ pt[n] = t[i]
      BY <1>1, <1>3, <3>1
    <3> QED BY <3>2
  <2> QED BY <1>1, <2>1, <2>2
<1> QED BY <1>4 DEF Runs, pt

LEMMA ConcatFirst ==
  ASSUME NEW p \in Seq(Sentence), NEW t \in Seq(Sentence), NEW n \in 0..Len(t)
  PROVE  SubSeq(p \o t, 1, Len(p) + n) = p \o SubSeq(t, 1, n)
OBVIOUS

LEMMA RunsFirst ==
  ASSUME NEW ts \in Seq(Sentence), Runs(ts), NEW n \in 0..Len(ts)
  PROVE  Runs(SubSeq(ts, 1, n))
<1> DEFINE f == SubSeq(ts, 1, n)
<1>1. Len(f) = n /\ \A m \in 1..n : f[m] = ts[m] /\ m \in 1..Len(ts)
  OBVIOUS
<1>2. ASSUME NEW m \in 1..n PROVE SubSeq(f, 1, m - 1) = SubSeq(ts, 1, m - 1)
  OBVIOUS
<1> HIDE DEF f
<1>3. ASSUME NEW m \in 1..Len(f) PROVE Takes(SubSeq(f, 1, m - 1), f[m])
  <2>1. m \in 1..n /\ m \in 1..Len(ts) /\ f[m] = ts[m]
    BY <1>1
  <2>2. SubSeq(f, 1, m - 1) = SubSeq(ts, 1, m - 1)
    BY <1>2, <2>1
  <2> QED BY <2>1, <2>2 DEF Runs
<1> QED BY <1>3 DEF Runs, f

LEMMA RunsAppend ==
  ASSUME NEW p \in Seq(Sentence), NEW s \in Sentence, Runs(p), Takes(p, s)
  PROVE  Append(p, s) \in Seq(Sentence) /\ Runs(Append(p, s))
<1>1. /\ <<s>> \in Seq(Sentence) /\ Len(<<s>>) = 1 /\ <<s>>[1] = s
      /\ p \o SubSeq(<<s>>, 1, 0) = p /\ p \o <<s>> = Append(p, s)
  OBVIOUS
<1>2. ASSUME NEW i \in 1..Len(<<s>>) PROVE Takes(p \o SubSeq(<<s>>, 1, i - 1), <<s>>[i])
  <2>1. i = 1 /\ i - 1 = 0
    BY <1>1
  <2> QED BY <1>1, <2>1
<1>3. Runs(p \o <<s>>)
  BY <1>1, <1>2, RunsConcat
<1>4. Append(p, s) \in Seq(Sentence)
  OBVIOUS
<1>5. p \o <<s>> = Append(p, s)
  BY <1>1
<1> QED BY <1>3, <1>4, <1>5, Zenon

LEMMA AppendConcat ==
  ASSUME NEW b \in Seq(Sentence), NEW t \in Seq(Sentence), NEW s \in Sentence
  PROVE  Append(b \o t, s) = b \o Append(t, s)
<1> DEFINE bt == b \o t
           ts == Append(t, s)
           n == Len(b) + Len(t) + 1
<1>1. Len(b) \in Nat /\ Len(t) \in Nat
  OBVIOUS
<1>2. bt \in Seq(Sentence) /\ Len(bt) = Len(b) + Len(t)
  OBVIOUS
<1>3. ts \in Seq(Sentence) /\ Len(ts) = Len(t) + 1
  OBVIOUS
<1>4. /\ \A i \in 1..Len(b) : bt[i] = b[i]
      /\ \A i \in 1..Len(t) : bt[Len(b) + i] = t[i]
  OBVIOUS
<1>5. ts[Len(t) + 1] = s /\ \A i \in 1..Len(t) : ts[i] = t[i]
  OBVIOUS
<1> HIDE DEF bt, ts
<1> DEFINE l == Append(bt, s)
           r == b \o ts
<1>6. /\ l \in Seq(Sentence) /\ Len(l) = Len(bt) + 1 /\ l[Len(bt) + 1] = s
      /\ \A i \in 1..Len(bt) : l[i] = bt[i]
  BY <1>2
<1>7. /\ r \in Seq(Sentence) /\ Len(r) = Len(b) + Len(ts)
      /\ \A i \in 1..Len(b) : r[i] = b[i]
      /\ \A i \in 1..Len(ts) : r[Len(b) + i] = ts[i]
  BY <1>3
<1> HIDE DEF l, r
<1>8. ASSUME NEW i \in 1..n PROVE l[i] = r[i]
  <2>1. CASE i <= Len(b)
    <3>1. i \in 1..Len(b) /\ i \in 1..Len(bt)
      BY <1>1, <1>2, <2>1
    <3> QED BY <1>4, <1>6, <1>7, <3>1
  <2>2. CASE i > Len(b)
    <3>1. PICK k \in 1..Len(ts) : i = Len(b) + k
      <4>1. i - Len(b) \in 1..Len(ts) /\ i = Len(b) + (i - Len(b))
        BY <1>1, <1>3, <2>2
      <4> QED BY <4>1
    <3>2. CASE k \in 1..Len(t)
      <4>1. i \in 1..Len(bt)
        BY <1>1, <1>2, <3>1, <3>2
      <4> QED BY <1>4, <1>5, <1>6, <1>7, <3>1, <3>2, <4>1
    <3>3. CASE k = Len(t) + 1
      <4>1. i = Len(bt) + 1
        BY <1>1, <1>2, <3>1, <3>3
      <4> QED BY <1>5, <1>6, <1>7, <3>1, <3>3, <4>1
    <3> QED BY <1>1, <1>3, <3>1, <3>2, <3>3
  <2> QED BY <1>1, <2>1, <2>2
<1>9. Len(l) = n /\ Len(r) = n
  BY <1>1, <1>2, <1>3, <1>6, <1>7
<1>10. l = r
  BY <1>6, <1>7, <1>8, <1>9
<1> QED BY <1>10 DEF l, r, bt, ts

\* No proof is open behind Admitted.
LEMMA ClosedByAdmitted ==
  ASSUME NEW p \in Seq(Sentence)
  PROVE  ~OpenIn(Append(p, Admitted))
<1> DEFINE pa == Append(p, Admitted)
<1>1. Len(p) \in Nat /\ Len(pa) = Len(p) + 1 /\ pa[Len(pa)] = Admitted
  BY PrefixCacheConstants
<1> HIDE DEF pa
<1>2. ASSUME NEW i \in 1..Len(pa), pa[i] \in Statement,
             \A j \in i + 1..Len(pa) : pa[j] \notin {Qed, Admitted}
      PROVE  FALSE
  <2>1. i # Len(pa)
    BY <1>1, <1>2, PrefixCacheConstants
  <2>2. Len(pa) \in i + 1..Len(pa)
    BY <1>1, <2>1
  <2> QED BY <1>1, <1>2, <2>2
<1> QED BY <1>2 DEF OpenIn, pa

----
LEMMA SnapshotTexts ==
  ASSUME NEW st \in Snapshot
  PROVE  /\ TextsOf(st) \in Seq(Sentence) /\ Len(TextsOf(st)) = Len(st)
         /\ \A i \in 1..Len(st) : TextsOf(st)[i] = st[i].text
         /\ ProofOpen(st) <=> OpenIn(TextsOf(st))
         /\ \A s \in Sentence : Accepts(st, s) <=> Takes(TextsOf(st), s)
<1>1. Len(st) \in Nat /\ DOMAIN st = 1..Len(st)
  BY DEF Snapshot
<1>2. \A i \in 1..Len(st) : st[i].text \in Sentence
  <2> DEFINE Entry == [text : Sentence, version : Nat]
  <2>1. \A i \in 1..Len(st) : st[i] \in Entry
    <3>1. st \in Seq(Entry)
      BY DEF Snapshot
    <3> HIDE DEF Entry
    <3> QED BY <3>1
  <2> QED BY <2>1
<1> DEFINE ts == TextsOf(st)
<1>3. ts = [i \in 1..Len(st) |-> st[i].text]
  BY <1>1 DEF TextsOf
<1>4. ts \in Seq(Sentence) /\ Len(ts) = Len(st) /\ \A i \in 1..Len(st) : ts[i] = st[i].text
  BY <1>1, <1>2, <1>3
<1> HIDE DEF ts
<1>5. ProofOpen(st) <=> OpenIn(ts)
  <2>1. ASSUME NEW i \in 1..Len(st), NEW j \in i + 1..Len(st) PROVE st[j].text = ts[j]
    <3>1. j \in 1..Len(st)
      BY <1>1
    <3> QED BY <1>4, <3>1
  <2> QED BY <1>1, <1>4, <2>1 DEF ProofOpen, OpenIn
<1>6. ASSUME NEW s \in Sentence PROVE Accepts(st, s) <=> Takes(ts, s)
  <2>1. {st[i].text : i \in DOMAIN st} = {ts[i] : i \in 1..Len(ts)}
    BY <1>1, <1>4
  <2>2. ASSUME ProofOpen(st) PROVE st[Len(st)].text = ts[Len(ts)]
    <3>1. Len(st) \in 1..Len(st)
      BY <1>1, <2>2 DEF ProofOpen
    <3> QED BY <1>4, <3>1
  <2> QED BY <1>5, <2>1, <2>2 DEF Accepts, Takes
<1> QED BY <1>4, <1>5, <1>6 DEF ts

LEMMA TextsAppend ==
  ASSUME NEW S, NEW steps \in Seq(S), NEW x \in S
  PROVE  TextsOf(Append(steps, x)) = Append(TextsOf(steps), x.text)
BY DEF TextsOf

LEMMA TextsConcat ==
  ASSUME NEW S, NEW steps \in Seq(S), NEW more \in Seq(S)
  PROVE  TextsOf(steps \o more) = TextsOf(steps) \o TextsOf(more)
<1> DEFINE T == {x.text : x \in S}
           both == steps \o more
           n == Len(steps) + Len(more)
<1>1. /\ Len(steps) \in Nat /\ Len(more) \in Nat /\ Len(both) = n /\ DOMAIN both = 1..n
      /\ \A i \in 1..Len(steps) : both[i] = steps[i]
      /\ \A i \in 1..Len(more) : both[Len(steps) + i] = more[i]
  OBVIOUS
<1>2. /\ TextsOf(steps) \in Seq(T) /\ Len(TextsOf(steps)) = Len(steps)
      /\ TextsOf(more) \in Seq(T) /\ Len(TextsOf(more)) = Len(more)
  BY DEF TextsOf
<1>3. \A i \in 1..Len(steps) : TextsOf(steps)[i] = steps[i].text
  BY DEF TextsOf
<1>4. \A i \in 1..Len(more) : TextsOf(more)[i] = more[i].text
  BY DEF TextsOf
<1> HIDE DEF both, T
<1>5. TextsOf(both) = [i \in 1..n |-> both[i].text]
  BY <1>1 DEF TextsOf
<1> DEFINE ab == TextsOf(steps) \o TextsOf(more)
<1>6. /\ ab \in Seq(T) /\ Len(ab) = n
      /\ \A i \in 1..Len(steps) : ab[i] = TextsOf(steps)[i]
      /\ \A i \in 1..Len(more) : ab[Len(steps) + i] = TextsOf(more)[i]
  <2> DEFINE u == TextsOf(steps)
             v == TextsOf(more)
  <2>1. u \in Seq(T) /\ v \in Seq(T)
    BY <1>2
  <2>2. Len(u) = Len(steps) /\ Len(v) = Len(more)
    BY <1>2
  <2> HIDE DEF u, v
  <2>3. /\ u \o v \in Seq(T) /\ Len(u \o v) = Len(u) + Len(v)
        /\ \A i \in 1..Len(u) : (u \o v)[i] = u[i]
        /\ \A i \in 1..Len(v) : (u \o v)[Len(u) + i] = v[i]
    BY <2>1
  <2> QED BY <2>2, <2>3, Zenon DEF u, v
<1> HIDE DEF ab
<1>7. ab = [i \in 1..n |-> ab[i]]
  BY <1>6
<1>8. ASSUME NEW i \in 1..n PROVE both[i].text = ab[i]
  <2>1. CASE i <= Len(steps)
    BY <1>1, <1>3, <1>6, <2>1
  <2>2. CASE i > Len(steps)
    <3>1. PICK k \in 1..Len(more) : i = Len(steps) + k
      <4>1. i - Len(steps) \in 1..Len(more) /\ i = Len(steps) + (i - Len(steps))
        BY <1>1, <2>2
      <4> QED BY <4>1
    <3> QED BY <1>1, <1>4, <1>6, <3>1
  <2> QED BY <1>1, <2>1, <2>2
<1> QED BY <1>5, <1>7, <1>8 DEF both, ab

LEMMA TextsFirst ==
  ASSUME NEW S, NEW steps \in Seq(S), NEW n \in 0..Len(steps)
  PROVE  TextsOf(SubSeq(steps, 1, n)) = SubSeq(TextsOf(steps), 1, n)
<1>1. /\ DOMAIN SubSeq(steps, 1, n) = 1..n
      /\ \A i \in 1..n : SubSeq(steps, 1, n)[i] = steps[i]
  OBVIOUS
<1>2. TextsOf(SubSeq(steps, 1, n)) = [i \in 1..n |-> steps[i].text]
  BY <1>1 DEF TextsOf
<1>3. SubSeq(TextsOf(steps), 1, n) = [i \in 1..n |-> TextsOf(steps)[i]]
  BY DEF SubSeq, TextsOf
<1>4. \A i \in 1..n : TextsOf(steps)[i] = steps[i].text
  BY DEF TextsOf
<1> QED BY <1>2, <1>3, <1>4

\* The texts of the first i steps.
Upto(steps, i) == SubSeq(TextsOf(steps), 1, i)

\* Step i was executed, and accepted, behind a closed text made of sentences in P
\* and the steps before it.
RanOver(steps, i, P) ==
  \E b \in Seq(P) :
    /\ ~OpenIn(b)
    /\ TextsOf(steps[i].post) = b \o Upto(steps, i)
    /\ Takes(b \o Upto(steps, i - 1), steps[i].text)

Over(steps, P) == \A i \in 1..Len(steps) : RanOver(steps, i, P)

LEMMA OverMore ==
  ASSUME NEW steps, NEW P, NEW Q, P \subseteq Q, Over(steps, P)
  PROVE  Over(steps, Q)
<1>1. Seq(P) \subseteq Seq(Q)
  OBVIOUS
<1> QED BY <1>1 DEF Over, RanOver

LEMMA OverFirst ==
  ASSUME NEW steps \in Seq(Step), NEW c \in Seq(Step), NEW P, Over(c, P),
         Len(steps) <= Len(c), \A i \in 1..Len(steps) : steps[i] = c[i]
  PROVE  Over(steps, P)
<1>1. /\ TextsOf(steps) \in Seq(Sentence) /\ Len(TextsOf(steps)) = Len(steps)
      /\ TextsOf(c) \in Seq(Sentence) /\ Len(TextsOf(c)) = Len(c)
      /\ \A i \in 1..Len(steps) : TextsOf(steps)[i] = TextsOf(c)[i]
  BY TextsType
<1> DEFINE ts == TextsOf(steps)
           tc == TextsOf(c)
<1>2. ASSUME NEW i \in 0..Len(steps) PROVE Upto(steps, i) = Upto(c, i)
  <2> HIDE DEF ts, tc
  <2>1. SubSeq(ts, 1, i) = SubSeq(tc, 1, i)
    BY <1>1 DEF ts, tc
  <2> QED BY <2>1 DEF Upto, ts, tc
<1>3. ASSUME NEW i \in 1..Len(steps) PROVE RanOver(steps, i, P)
  <2>1. i \in 1..Len(c) /\ i \in 0..Len(steps) /\ i - 1 \in 0..Len(steps) /\ steps[i] = c[i]
    OBVIOUS
  <2>2. Upto(steps, i) = Upto(c, i) /\ Upto(steps, i - 1) = Upto(c, i - 1)
    BY <1>2, <2>1
  <2>3. RanOver(c, i, P)
    BY <2>1 DEF Over
  <2> QED BY <2>1, <2>2, <2>3 DEF RanOver
<1> QED BY <1>3 DEF Over

LEMMA OverExtend ==
  ASSUME NEW steps \in Seq(Step), NEW P, Over(steps, P), NEW x \in Step,
         NEW b \in Seq(P), ~OpenIn(b),
         TextsOf(x.post) = b \o Append(TextsOf(steps), x.text),
         Takes(b \o TextsOf(steps), x.text)
  PROVE  Over(Append(steps, x), P)
<1> DEFINE more == Append(steps, x)
           n == Len(steps) + 1
           ts == TextsOf(steps)
<1>1. /\ more \in Seq(Step) /\ Len(steps) \in Nat /\ Len(more) = n /\ more[n] = x
      /\ \A i \in 1..Len(steps) : more[i] = steps[i]
  OBVIOUS
<1>2. ts \in Seq(Sentence) /\ Len(ts) = Len(steps)
  BY TextsType
<1>3. x.text \in Sentence
  BY DEF Step
<1>4. TextsOf(more) = Append(ts, x.text)
  BY TextsAppend
<1> HIDE DEF more, ts
<1>5. /\ SubSeq(Append(ts, x.text), 1, n) = Append(ts, x.text)
      /\ SubSeq(Append(ts, x.text), 1, n - 1) = ts
      /\ \A i \in 0..Len(steps) : SubSeq(Append(ts, x.text), 1, i) = SubSeq(ts, 1, i)
  BY <1>1, <1>2, <1>3
<1>6. RanOver(more, n, P)
  <2>1. Upto(more, n) = Append(ts, x.text) /\ Upto(more, n - 1) = ts
    BY <1>4, <1>5 DEF Upto
  <2> QED BY <1>1, <2>1 DEF RanOver, ts
<1>7. ASSUME NEW i \in 1..Len(steps) PROVE RanOver(more, i, P)
  <2>1. i \in 0..Len(steps) /\ i - 1 \in 0..Len(steps)
    BY <1>1
  <2>2. Upto(more, i) = Upto(steps, i) /\ Upto(more, i - 1) = Upto(steps, i - 1)
    BY <1>4, <1>5, <2>1 DEF Upto, ts
  <2>3. RanOver(steps, i, P)
    BY DEF Over
  <2> QED BY <1>1, <2>2, <2>3 DEF RanOver
<1>8. \A i \in 1..n : i = n \/ i \in 1..Len(steps)
  BY <1>1
<1>9. \A i \in 1..n : RanOver(more, i, P)
  BY <1>6, <1>7, <1>8
<1> QED BY <1>1, <1>9 DEF Over, more

----
\* The sentences of steps.
TextSet(steps) == {steps[i].text : i \in 1..Len(steps)}

\* What open has put together runs, and is closed; the text it executes now was
\* executed so far behind some of it, and what the cache offers was too.
OpenRuns ==
  call # Idle =>
    /\ Runs(TextsOf(call.pieces)) /\ ~OpenIn(TextsOf(call.pieces))
    /\ TextsOf(call.from) \in Seq(TextSet(call.pieces)) /\ ~OpenIn(TextsOf(call.from))
    /\ Over(call.acc, TextSet(call.pieces))
    /\ call.from # Pristine /\ cache # <<>> /\ cache[1].text \notin Heads =>
         Over(cache, TextSet(call.pieces))
    /\ call.making /\ call.target # NoTarget => Runs(call.src)

CacheRuns == cache # <<>> /\ cache[1].text \in Heads => Over(cache, {})

RunInv == CacheRuns /\ OpenRuns

LEMMA WhereAt ==
  ASSUME TypeOK, OpenRuns, call # Idle
  PROVE  \E b \in Seq(TextSet(call.pieces)) :
           ~OpenIn(b) /\ TextsOf(At) = b \o TextsOf(call.acc)
<1> DEFINE P == TextSet(call.pieces)
           ts == TextsOf(call.acc)
<1>1. call.acc \in Seq(Step) /\ call.from \in Snapshot
  BY DEF TypeOK, Call
<1>2. ts \in Seq(Sentence) /\ Len(ts) = Len(call.acc)
  BY <1>1, TextsType
<1>3. CASE call.acc = <<>>
  <2>1. At = call.from /\ TextsOf(call.from) \in Seq(P) /\ ~OpenIn(TextsOf(call.from))
    BY <1>3 DEF At, OpenRuns
  <2>2. ts = <<>>
    BY <1>2, <1>3
  <2> DEFINE b == TextsOf(call.from)
  <2>3. b \o <<>> = b
    <3> HIDE DEF b, P
    <3> QED BY <2>1 DEF b
  <2> HIDE DEF P, ts
  <2> QED BY <2>1, <2>2, <2>3 DEF P, ts
<1>4. CASE call.acc # <<>>
  <2>1. Len(call.acc) \in 1..Len(call.acc)
    BY <1>1, <1>4
  <2>2. RanOver(call.acc, Len(call.acc), P)
    BY <2>1 DEF OpenRuns, Over
  <2>3. Upto(call.acc, Len(call.acc)) = ts
    <3> HIDE DEF ts
    <3>1. SubSeq(ts, 1, Len(ts)) = ts
      BY <1>2
    <3> QED BY <1>2, <3>1 DEF Upto, ts
  <2>4. At = call.acc[Len(call.acc)].post
    BY <1>4 DEF At
  <2> QED BY <2>2, <2>3, <2>4 DEF RanOver
<1> QED BY <1>3, <1>4

\* What of open's steps is executed behind, in texts.
LEMMA PiecesCover ==
  ASSUME TypeOK, call # Idle, NEW b \in Seq(TextSet(call.pieces))
  PROVE  /\ b \in Seq(Sentence)
         /\ \A i \in 1..Len(b) : \E j \in 1..Len(TextsOf(call.pieces)) : b[i] = TextsOf(call.pieces)[j]
<1>1. call.pieces \in Seq(Step)
  BY DEF TypeOK, Call
<1>2. /\ TextsOf(call.pieces) \in Seq(Sentence) /\ Len(TextsOf(call.pieces)) = Len(call.pieces)
      /\ \A i \in 1..Len(call.pieces) : TextsOf(call.pieces)[i] = call.pieces[i].text
  BY <1>1, TextsType
<1> DEFINE p == TextsOf(call.pieces)
           P == TextSet(call.pieces)
<1>3. \A s \in P : \E j \in 1..Len(p) : s = p[j]
  BY <1>2 DEF TextSet
<1>4. P \subseteq Sentence
  <2>1. \A j \in 1..Len(p) : p[j] \in Sentence
    BY <1>2
  <2> QED BY <1>3, <2>1
<1> HIDE DEF p, P
<1>5. b \in Seq(Sentence) /\ \A i \in 1..Len(b) : b[i] \in P
  <2>1. b \in Seq(P)
    BY DEF P
  <2> QED BY <1>4, <2>1
<1> QED BY <1>3, <1>5 DEF p

LEMMA StepsRun ==
  ASSUME TypeOK, OpenRuns, call # Idle
  PROVE  /\ TextsOf(Steps) \in Seq(Sentence) /\ Runs(TextsOf(Steps))
         /\ TextsOf(Steps) = TextsOf(call.pieces) \o TextsOf(call.acc)
<1> DEFINE p == TextsOf(call.pieces)
           ts == TextsOf(call.acc)
<1>1. call.acc \in Seq(Step) /\ call.pieces \in Seq(Step) /\ Steps \in Seq(Step)
  BY StepsType DEF TypeOK, Call
<1>2. /\ p \in Seq(Sentence) /\ ts \in Seq(Sentence) /\ Len(ts) = Len(call.acc)
      /\ \A i \in 1..Len(call.acc) : ts[i] = call.acc[i].text
  BY <1>1, TextsType
<1>3. TextsOf(Steps) = p \o ts
  BY <1>1, TextsConcat DEF Steps
<1>4. ASSUME NEW i \in 1..Len(ts) PROVE Takes(p \o SubSeq(ts, 1, i - 1), ts[i])
  <2>1. RanOver(call.acc, i, TextSet(call.pieces))
    BY <1>2 DEF OpenRuns, Over
  <2>2. PICK b \in Seq(TextSet(call.pieces)) :
          ~OpenIn(b) /\ Takes(b \o Upto(call.acc, i - 1), call.acc[i].text)
    BY <2>1 DEF RanOver
  <2>3. Takes(b \o SubSeq(ts, 1, i - 1), ts[i])
    BY <1>2, <2>2 DEF Upto
  <2>4. SubSeq(ts, 1, i - 1) \in Seq(Sentence)
    <3> HIDE DEF ts
    <3> QED BY <1>2
  <2>5. b \in Seq(Sentence) /\ \A k \in 1..Len(b) : \E j \in 1..Len(p) : b[k] = p[j]
    BY PiecesCover
  <2>6. ~OpenIn(p)
    BY DEF OpenRuns
  <2> DEFINE u == SubSeq(ts, 1, i - 1)
             s == ts[i]
  <2> HIDE DEF p, ts
  <2>7. p \in Seq(Sentence) /\ u \in Seq(Sentence) /\ Takes(b \o u, s) /\ ~OpenIn(b)
    BY <1>2, <2>2, <2>3, <2>4
  <2> HIDE DEF u, s
  <2>8. Takes(p \o u, s)
    BY <2>5, <2>6, <2>7, TakesMore
  <2> QED BY <2>8 DEF u, s
<1>5. Runs(p)
  BY DEF OpenRuns
<1>6. Runs(p \o ts) /\ p \o ts \in Seq(Sentence)
  <2> HIDE DEF p, ts
  <2> QED BY <1>2, <1>4, <1>5, RunsConcat
<1> QED BY <1>3, <1>6

----
(***************************************************************************)
(* Action by action.                                                       *)
(***************************************************************************)
LEMMA EmptyRuns ==
  /\ TextsOf(<<>>) = <<>> /\ Runs(<<>>) /\ ~OpenIn(<<>>) /\ \A P : Over(<<>>, P)
BY DEF TextsOf, Runs, OpenIn, Over

\* What a call leaves in the cache.
LEMMA SavedRuns ==
  ASSUME TypeOK, Inv, RunInv, call # Idle
  PROVE  /\ Saved # <<>> /\ Saved[1].text \in Heads => Over(Saved, {})
         /\ call.acc # <<>> /\ Saved # <<>> /\ Saved[1].text \notin Heads =>
              Over(Saved, TextSet(call.pieces))
<1>1. call.acc \in Seq(Step) /\ call.src \in Seq(Sentence) /\ cache \in Seq(Step)
  BY DEF TypeOK, Call
<1>2. ASSUME call.acc # <<>>
      PROVE  IF call.from = Pristine THEN call.acc[1].text \in Heads ELSE call.acc[1].text \notin Heads
  <2>1. 1 \in 1..Len(call.acc) /\ call.src # <<>>
    BY <1>1, <1>2 DEF Inv, CallSafe, FollowsText
  <2>2. call.acc[1].text = call.src[1]
    BY <2>1 DEF Inv, CallSafe, FollowsText
  <2> QED BY <2>1, <2>2 DEF Inv, CallSafe, FromPristine, FromElsewhere
<1>3. Over(call.acc, TextSet(call.pieces))
  BY DEF RunInv, OpenRuns
<1>4. call.from = Pristine => TextSet(call.pieces) = {}
  BY DEF Inv, CallSafe, FromPristine, TextSet
<1>5. CASE Saved = call.acc
  BY <1>2, <1>3, <1>4, <1>5
<1>6. CASE Saved = cache /\ IsPrefix(TextsOf(call.acc), TextsOf(cache))
  <2>1. Saved # <<>> /\ Saved[1].text \in Heads => Over(Saved, {})
    BY <1>6 DEF RunInv, CacheRuns
  <2>2. ASSUME call.acc # <<>>, Saved # <<>>, Saved[1].text \notin Heads
        PROVE  Over(Saved, TextSet(call.pieces))
    <3>1. call.acc[1].text = cache[1].text
      <4>1. 1 \in 1..Len(call.acc) /\ 1 \in 1..Len(cache)
        BY <1>1, <1>6, <2>2
      <4> DEFINE a == TextsOf(call.acc)
                 c == TextsOf(cache)
      <4>2. /\ a \in Seq(Sentence) /\ Len(a) = Len(call.acc) /\ a[1] = call.acc[1].text
            /\ c \in Seq(Sentence) /\ Len(c) = Len(cache) /\ c[1] = cache[1].text
        BY <1>1, <4>1, TextsType
      <4>3. IsPrefix(a, c)
        BY <1>6
      <4> HIDE DEF a, c
      <4>4. a[1] = c[1]
        BY <4>1, <4>2, <4>3 DEF IsPrefix
      <4> QED BY <4>2, <4>4
    <3>2. call.from # Pristine
      BY <1>2, <1>6, <2>2, <3>1
    <3> QED BY <1>6, <2>2, <3>2 DEF RunInv, OpenRuns
  <2> QED BY <2>1, <2>2
<1> QED BY <1>5, <1>6 DEF Saved

LEMMA CheckedIs ==
  ASSUME NEW c, CheckCacheFreshness(c)
  PROVE  cache' = c \/ cache' = <<>>
BY DEF CheckCacheFreshness

\* A text that begins from the pristine state.
LEMMA RunsFromPristine ==
  ASSUME call'.pieces = <<>>, call'.from = Pristine, call'.acc = <<>>,
         call'.making /\ call'.target # NoTarget => Runs(call'.src)
  PROVE  OpenRuns'
<1>1. /\ TextsOf(call'.pieces) = <<>> /\ TextsOf(call'.from) = <<>>
      /\ Over(call'.acc, TextSet(call'.pieces)) /\ Runs(<<>>) /\ ~OpenIn(<<>>)
  BY EmptyRuns DEF Pristine
<1>2. <<>> \in Seq(TextSet(call'.pieces))
  OBVIOUS
<1> QED BY <1>1, <1>2 DEF OpenRuns

LEMMA ServeRuns ==
  ASSUME TypeOK, RunInv, NEW src \in Source,
         NEW target \in Statement \union {NoTarget}, NEW making \in BOOLEAN,
         making => target = NoTarget, Serve(target, making, src)
  PROVE  RunInv'
<1>1. /\ call'.target = target /\ call'.making = making
      /\ call'.pieces = <<>> /\ call'.from = Pristine /\ call'.acc = <<>>
  BY ServeEffect
<1>2. OpenRuns'
  BY <1>1, RunsFromPristine
<1>3. cache' = cache \/ cache' = <<>>
  BY CheckedIs DEF Serve
<1>4. CacheRuns'
  BY <1>3 DEF RunInv, CacheRuns
<1> QED BY <1>2, <1>4 DEF RunInv

LEMMA MakeRuns ==
  ASSUME TypeOK, Inv, RunInv, call # Idle, NEW prefix \in Seq(Sentence), Make(prefix),
         call.target # NoTarget => Runs(prefix)
  PROVE  RunInv'
<1>1. /\ call'.target = call.target /\ call'.making
      /\ call'.pieces = <<>> /\ call'.src = prefix /\ call'.from = Pristine
      /\ call'.acc = <<>>
  BY MakeEffect
<1>2. OpenRuns'
  BY <1>1, RunsFromPristine
<1>3. cache' = Saved \/ cache' = <<>>
  BY CheckedIs DEF Make
<1>4. cache' # <<>> /\ cache'[1].text \in Heads => Over(cache', {})
  BY <1>3, SavedRuns
<1>5. CacheRuns'
  BY <1>4 DEF CacheRuns
<1> QED BY <1>2, <1>5 DEF RunInv

LEMMA FindsRuns ==
  ASSUME TypeOK, Inv, RunInv, OpenFinds
  PROVE  RunInv'
<1>1. call # Idle
  BY DEF OpenFinds
<1>2. CASE call.target # NoTarget /\ Found # {} /\ Make(PrefixOfTarget)
  <2>1. PrefixOfTarget \in Seq(Sentence)
    BY <1>1, <1>2, FoundPrefix
  <2>2. TextsOf(Steps) \in Seq(Sentence) /\ Runs(TextsOf(Steps))
    BY <1>1, StepsRun DEF RunInv
  <2>3. Min(Found) \in 0..Len(TextsOf(Steps))
    <3>1. Steps \in Seq(Step) /\ Found \in SUBSET Nat
      BY <1>1, StepsType DEF Found
    <3>2. Min(Found) \in Found
      BY <1>2, <3>1, LeastPosition
    <3>3. Min(Found) \in 1..Len(Steps)
      BY <3>1, <3>2 DEF Found
    <3>4. Len(TextsOf(Steps)) = Len(Steps)
      BY <3>1, TextsType
    <3> QED BY <3>3, <3>4
  <2>4. Runs(PrefixOfTarget)
    BY <2>2, <2>3, RunsFirst DEF PrefixOfTarget
  <2> QED BY <1>1, <1>2, <2>1, <2>4, MakeRuns
<1>3. CASE call.target = NoTarget /\ Make(TextsOf(Steps))
  <2>1. TextsOf(Steps) \in Seq(Sentence)
    BY <1>1, StepsType, TextsType
  <2> QED BY <1>1, <1>3, <2>1, MakeRuns
<1> QED BY <1>2, <1>3 DEF OpenFinds

LEMMA EndsRuns ==
  ASSUME TypeOK, Inv, RunInv, OpenFails \/ MakeSession
  PROVE  RunInv'
<1>1. call # Idle /\ cache' = Saved /\ call' = Idle
  BY DEF OpenFails, MakeSession
<1>2. cache' # <<>> /\ cache'[1].text \in Heads => Over(cache', {})
  BY <1>1, SavedRuns
<1>3. CacheRuns'
  BY <1>2 DEF CacheRuns
<1> QED BY <1>1, <1>3 DEF RunInv, OpenRuns

\* The execution of a text goes on.
LEMMA RunsOn ==
  ASSUME RunInv, call # Idle, Kept(call), cache' = cache,
         Over(call'.acc, TextSet(call.pieces))
  PROVE  RunInv'
<1>1. call'.pieces = call.pieces /\ call'.from = call.from /\ call'.src = call.src
      /\ call'.making = call.making /\ call'.target = call.target
  BY DEF Kept
<1>2. CacheRuns'
  BY DEF RunInv, CacheRuns
<1>3. OpenRuns'
  BY <1>1 DEF RunInv, OpenRuns
<1> QED BY <1>2, <1>3 DEF RunInv

LEMMA AdoptRuns ==
  ASSUME TypeOK, Inv, RunInv, AdoptCached
  PROVE  RunInv'
<1>1. call \in Call /\ call # Idle /\ cache \in Seq(Step) /\ cache' = cache
  BY DEF TypeOK, AdoptCached
<1>2. /\ call' \in Call /\ Kept(call)
      /\ Position \in 1..Len(call.src) /\ Position \in 1..Len(cache)
      /\ cache[Position] \in Step /\ cache[Position].text = call.src[Position]
      /\ call.warm /\ call'.acc = Append(call.acc, cache[Position])
  BY AdoptEffect
<1>3. call.acc \in Seq(Step) /\ call.src \in Seq(Sentence) /\ Position = Len(call.acc) + 1
  BY <1>1 DEF Call, Position
<1>4. FollowsText /\ FollowsCache /\ FromPristine /\ FromElsewhere
  BY <1>1 DEF Inv, CallSafe
<1>5. cache # <<>> /\ call.src # <<>> /\ cache[1].text = call.src[1]
  <2>1. CASE Len(call.acc) = 0
    BY <1>1, <1>2, <1>3, <2>1
  <2>2. CASE Len(call.acc) # 0
    <3>1. 1 \in 1..Len(call.acc)
      BY <1>3, <2>2
    <3> QED BY <1>1, <1>2, <1>3, <1>4, <3>1 DEF FollowsText, FollowsCache
  <2> QED BY <2>1, <2>2
<1>6. Over(cache, TextSet(call.pieces))
  <2>1. CASE call.from = Pristine
    <3>1. Over(cache, {})
      BY <1>4, <1>5, <2>1 DEF FromPristine, RunInv, CacheRuns
    <3> QED BY <3>1, OverMore
  <2>2. CASE call.from # Pristine
    BY <1>1, <1>4, <1>5, <2>2 DEF FromElsewhere, RunInv, OpenRuns
  <2> QED BY <2>1, <2>2
<1>7. /\ call'.acc \in Seq(Step) /\ Len(call'.acc) <= Len(cache)
      /\ \A i \in 1..Len(call'.acc) : call'.acc[i] = cache[i]
  <2>1. \A i \in 1..Len(call.acc) : call.acc[i] = cache[i]
    BY <1>2, <1>4 DEF FollowsCache
  <2>2. /\ call'.acc \in Seq(Step) /\ Len(call'.acc) = Position
        /\ call'.acc[Position] = cache[Position]
        /\ \A i \in 1..Len(call.acc) : call'.acc[i] = call.acc[i]
    BY <1>2, <1>3
  <2> QED BY <1>2, <1>3, <2>1, <2>2
<1>8. Over(call'.acc, TextSet(call.pieces))
  BY <1>1, <1>6, <1>7, OverFirst
<1> QED BY <1>1, <1>2, <1>8, RunsOn

LEMMA InterpretRuns ==
  ASSUME TypeOK, Inv, RunInv, Interpret
  PROVE  RunInv'
<1> DEFINE s == call.src[Position]
           x == [text |-> s, post |-> Append(At, Executed(s))]
           P == TextSet(call.pieces)
           ts == TextsOf(call.acc)
<1>1. call \in Call /\ call # Idle /\ cache' = cache /\ Accepts(At, s)
  BY DEF TypeOK, Interpret
<1>2. /\ Kept(call) /\ s \in Sentence /\ x \in Step
      /\ call'.acc = Append(call.acc, x)
  BY InterpretEffect
<1>3. call.acc \in Seq(Step)
  BY <1>1 DEF Call
<1>4. At \in Snapshot /\ disk \in Nat
  BY <1>1, AtType DEF TypeOK
<1>5. PICK b \in Seq(P) : ~OpenIn(b) /\ TextsOf(At) = b \o ts
  BY <1>1, WhereAt DEF RunInv
<1>6. Takes(b \o ts, s)
  BY <1>1, <1>2, <1>4, <1>5, SnapshotTexts
<1>7. b \in Seq(Sentence) /\ ts \in Seq(Sentence)
  BY <1>1, <1>3, PiecesCover, TextsType
<1>8. TextsOf(x.post) = b \o Append(ts, x.text)
  <2>1. /\ Executed(s) \in [text : Sentence, version : Nat] /\ Executed(s).text = s
    BY <1>2, <1>4, ExecutedType
  <2>2. TextsOf(Append(At, Executed(s))) = Append(TextsOf(At), s)
    BY <1>4, <2>1, TextsAppend DEF Snapshot
  <2> HIDE DEF s, ts
  <2>3. Append(b \o ts, s) = b \o Append(ts, s)
    BY <1>2, <1>7, AppendConcat
  <2> QED BY <1>5, <2>2, <2>3
<1>9. x.text = s
  OBVIOUS
<1>10. Over(call.acc, P)
  BY <1>1 DEF RunInv, OpenRuns
<1>11. Takes(b \o ts, x.text)
  BY <1>6, <1>9
<1> HIDE DEF s, x, P
<1>12. Over(Append(call.acc, x), P)
  BY <1>2, <1>3, <1>5, <1>8, <1>10, <1>11, OverExtend
<1> QED BY <1>1, <1>2, <1>12, RunsOn DEF P

\* The snapshot behind which a broken proof is admitted.
LEMMA BrokenAt ==
  ASSUME TypeOK, RunInv, call # Idle, Statements # {}
  PROVE  \E b \in Seq(TextSet(call.pieces)) :
           ~OpenIn(b) /\ TextsOf(BeforeBroken) = b \o Upto(call.acc, Broken - 1)
<1> DEFINE P == TextSet(call.pieces)
<1>1. call.acc \in Seq(Step) /\ Broken \in 1..Len(call.acc)
  BY AdmittedType DEF TypeOK, Call
<1>2. CASE Broken = 1
  <2>1. /\ BeforeBroken = call.from
        /\ TextsOf(call.from) \in Seq(P) /\ ~OpenIn(TextsOf(call.from))
    BY <1>2 DEF BeforeBroken, RunInv, OpenRuns
  <2>2. Upto(call.acc, Broken - 1) = <<>>
    <3>1. TextsOf(call.acc) \in Seq(Sentence)
      BY <1>1, TextsType
    <3> DEFINE ts == TextsOf(call.acc)
    <3> HIDE DEF ts
    <3>2. SubSeq(ts, 1, 0) = <<>>
      BY <3>1 DEF ts
    <3> QED BY <1>2, <3>2 DEF Upto, ts
  <2> DEFINE b == TextsOf(call.from)
  <2>3. b \o <<>> = b
    <3> HIDE DEF b, P
    <3> QED BY <2>1 DEF b
  <2> HIDE DEF P
  <2> QED BY <2>1, <2>2, <2>3 DEF P
<1>3. CASE Broken # 1
  <2>1. Broken - 1 \in 1..Len(call.acc) /\ BeforeBroken = call.acc[Broken - 1].post
    BY <1>1, <1>3 DEF BeforeBroken
  <2>2. RanOver(call.acc, Broken - 1, P)
    BY <2>1 DEF RunInv, OpenRuns, Over
  <2> QED BY <2>1, <2>2 DEF RanOver
<1> QED BY <1>2, <1>3

LEMMA TwoMore ==
  ASSUME NEW q \in Seq(Sentence), NEW r \in Sentence, NEW s \in Sentence
  PROVE  q \o <<r, s>> = Append(Append(q, r), s)
OBVIOUS

LEMMA ContinueRuns ==
  ASSUME TypeOK, Inv, RunInv, AdmitAndContinue
  PROVE  RunInv'
<1> DEFINE P == TextSet(call.pieces)
           p == TextsOf(call.pieces)
           ts == TextsOf(call.acc)
           k == SubSeq(ts, 1, Broken - 1)
           q == p \o k
           stmt == call.acc[Broken].text
           stated == Append(BeforeBroken, Executed(stmt))
           r == Append(Append(q, stmt), Admitted)
<1>1. /\ call # Idle /\ Statements # {} /\ CheckCacheFreshness(Saved)
      /\ Accepts(BeforeBroken, stmt) /\ Accepts(AdmittedSteps[1].post, Admitted)
  BY DEF AdmitAndContinue, Continue, MayAdmit
<1>2. /\ ~call'.making /\ call'.pieces = Pieces
      /\ call'.from = AdmittedSteps[2].post /\ call'.acc = <<>>
  BY ContinueEffect
<1>3. call.acc \in Seq(Step) /\ call.pieces \in Seq(Step) /\ disk \in Nat
  BY <1>1 DEF TypeOK, Call
<1>4. /\ Broken \in 1..Len(call.acc) /\ BeforeBroken \in Snapshot
      /\ AdmittedSteps \in Seq(Step)
  BY <1>1, AdmittedType
<1>5. stmt \in Sentence /\ Admitted \in Sentence
  <2>1. call.acc[Broken] \in Step
    BY <1>3, <1>4
  <2> QED BY <2>1, PrefixCacheConstants DEF Step
<1>6. /\ p \in Seq(Sentence) /\ Len(p) = Len(call.pieces)
      /\ ts \in Seq(Sentence) /\ Len(ts) = Len(call.acc)
      /\ \A i \in 1..Len(call.pieces) : p[i] = call.pieces[i].text
  BY <1>3, TextsType
<1>7. k \in Seq(Sentence) /\ q \in Seq(Sentence)
  <2> HIDE DEF p, ts
  <2> QED BY <1>4, <1>6
<1>8. Executed(stmt).text = stmt /\ stated \in Snapshot
      /\ Executed(stmt) \in [text : Sentence, version : Nat]
      /\ Executed(Admitted).text = Admitted
      /\ Executed(Admitted) \in [text : Sentence, version : Nat]
  BY <1>3, <1>4, <1>5, ExecutedType
<1>9. /\ AdmittedSteps = <<[text |-> stmt, post |-> stated],
                           [text |-> Admitted, post |-> Append(stated, Executed(Admitted))]>>
      /\ AdmittedSteps[1].post = stated
      /\ AdmittedSteps[2].post = Append(stated, Executed(Admitted))
  BY DEF AdmittedSteps
<1>10. PICK b \in Seq(P) : ~OpenIn(b) /\ TextsOf(BeforeBroken) = b \o k
  BY <1>1, BrokenAt DEF Upto
<1>11. b \in Seq(Sentence) /\ \A i \in 1..Len(b) : \E j \in 1..Len(p) : b[i] = p[j]
  BY <1>1, PiecesCover
<1>12. Runs(p) /\ ~OpenIn(p)
  BY <1>1 DEF RunInv, OpenRuns
<1>13. Runs(q)
  <2>1. Runs(p \o ts) /\ p \o ts \in Seq(Sentence)
    BY <1>1, StepsRun DEF RunInv
  <2>2. Len(p) + (Broken - 1) \in 0..Len(p \o ts)
    <3> HIDE DEF p, ts
    <3> QED BY <1>4, <1>6
  <2>3. q = SubSeq(p \o ts, 1, Len(p) + (Broken - 1))
    <3> DEFINE n == Broken - 1
    <3> HIDE DEF p, ts
    <3>1. n \in 0..Len(ts)
      BY <1>4, <1>6
    <3> HIDE DEF n
    <3>2. SubSeq(p \o ts, 1, Len(p) + n) = p \o SubSeq(ts, 1, n)
      BY <1>6, <3>1, ConcatFirst
    <3> QED BY <3>2 DEF n
  <2> QED BY <2>1, <2>2, <2>3, RunsFirst
<1>14. Takes(q, stmt)
  <2>1. Takes(b \o k, stmt)
    BY <1>1, <1>4, <1>5, <1>10, SnapshotTexts
  <2> HIDE DEF p, k, stmt
  <2> QED BY <1>6, <1>7, <1>10, <1>11, <1>12, <2>1, TakesMore
<1>15. /\ Append(k, stmt) \in Seq(Sentence)
       /\ TextsOf(stated) = b \o Append(k, stmt)
       /\ Append(q, stmt) = p \o Append(k, stmt)
  <2>1. TextsOf(stated) = Append(TextsOf(BeforeBroken), stmt)
    BY <1>4, <1>8, TextsAppend DEF Snapshot
  <2> HIDE DEF p, k, stmt, stated
  <2>2. Append(k, stmt) \in Seq(Sentence)
    BY <1>5, <1>7
  <2>3. Append(b \o k, stmt) = b \o Append(k, stmt)
    BY <1>5, <1>7, <1>11, AppendConcat
  <2>4. Append(p \o k, stmt) = p \o Append(k, stmt)
    BY <1>5, <1>6, <1>7, AppendConcat
  <2> QED BY <1>10, <2>1, <2>2, <2>3, <2>4
<1>16. Takes(Append(q, stmt), Admitted)
  <2>1. Takes(TextsOf(stated), Admitted)
    BY <1>1, <1>5, <1>8, <1>9, SnapshotTexts
  <2> DEFINE u == Append(k, stmt)
  <2>2. u \in Seq(Sentence) /\ Takes(b \o u, Admitted) /\ Append(q, stmt) = p \o u
    BY <1>15, <2>1
  <2> HIDE DEF p, q, u, stmt
  <2>3. Takes(p \o u, Admitted)
    BY <1>6, <1>10, <1>11, <1>12, <2>2, TakesMore
  <2> QED BY <2>2, <2>3
<1>17. r \in Seq(Sentence) /\ Runs(r) /\ ~OpenIn(r)
  <2> HIDE DEF q, stmt
  <2>1. Append(q, stmt) \in Seq(Sentence) /\ Runs(Append(q, stmt))
    BY <1>5, <1>7, <1>13, <1>14, RunsAppend
  <2> QED BY <1>5, <1>16, <2>1, RunsAppend, ClosedByAdmitted
<1>18. TextsOf(Pieces) = r
  <2> DEFINE kept == SubSeq(call.acc, 1, Broken - 1)
  <2>1. kept \in Seq(Step) /\ Broken - 1 \in 0..Len(call.acc)
    BY <1>3, <1>4
  <2>2. TextsOf(kept) = k
    BY <1>3, <2>1, TextsFirst
  <2>3. TextsOf(AdmittedSteps) = <<stmt, Admitted>>
    BY <1>9 DEF TextsOf
  <2> HIDE DEF kept
  <2>4. call.pieces \o kept \in Seq(Step)
    BY <1>3, <2>1
  <2>5. TextsOf(call.pieces \o kept) = q
    BY <1>3, <2>1, <2>2, TextsConcat
  <2>6. TextsOf((call.pieces \o kept) \o AdmittedSteps) = q \o <<stmt, Admitted>>
    BY <1>4, <2>3, <2>4, <2>5, TextsConcat, ZenonT(60)
  <2>7. Pieces = (call.pieces \o kept) \o AdmittedSteps
    BY DEF Pieces, kept
  <2> HIDE DEF q, stmt
  <2> QED BY <1>5, <1>7, <2>6, <2>7, TwoMore
<1> DEFINE Q == TextSet(Pieces)
<1>19. \A i \in 1..Len(r) : r[i] \in Q
  <2>1. Pieces \in Seq(Step)
    BY ContinueEffect
  <2>2. Len(r) = Len(Pieces) /\ \A i \in 1..Len(Pieces) : r[i] = Pieces[i].text
    BY <1>18, <2>1, TextsType
  <2> HIDE DEF r
  <2> QED BY <2>2 DEF TextSet
<1>20. /\ \A i \in 1..Len(p) : p[i] \in Q
       /\ \A i \in 1..Len(k) : k[i] \in Q
       /\ stmt \in Q /\ Admitted \in Q
  <2> HIDE DEF Q, p, k, stmt
  <2>1. Len(p) \in Nat /\ Len(k) \in Nat
    BY <1>6, <1>7
  <2>2. /\ Len(q) = Len(p) + Len(k)
        /\ \A i \in 1..Len(p) : q[i] = p[i]
        /\ \A i \in 1..Len(k) : q[Len(p) + i] = k[i]
    <3>1. p \in Seq(Sentence) /\ k \in Seq(Sentence)
      BY <1>6, <1>7
    <3> QED BY <3>1
  <2>3. /\ Len(r) = Len(q) + 2 /\ r[Len(q) + 1] = stmt /\ r[Len(q) + 2] = Admitted
        /\ \A i \in 1..Len(q) : r[i] = q[i]
    <3> HIDE DEF q
    <3> QED BY <1>5, <1>7
  <2> HIDE DEF q, r
  <2>4. ASSUME NEW i \in 1..Len(p) PROVE p[i] \in Q
    BY <1>19, <2>1, <2>2, <2>3
  <2>5. ASSUME NEW i \in 1..Len(k) PROVE k[i] \in Q
    BY <1>19, <2>1, <2>2, <2>3
  <2>6. Len(q) + 1 \in 1..Len(r) /\ Len(q) + 2 \in 1..Len(r)
    BY <2>1, <2>2, <2>3
  <2> QED BY <1>19, <2>3, <2>4, <2>5, <2>6
<1>21. P \subseteq Q
  BY <1>6, <1>20 DEF TextSet
<1>22. (Runs(TextsOf(call.pieces)) /\ ~OpenIn(TextsOf(call.pieces)))'
  BY <1>2, <1>17, <1>18
<1>23. (TextsOf(call.from) \in Seq(TextSet(call.pieces)) /\ ~OpenIn(TextsOf(call.from)))'
  <2> DEFINE f == TextsOf(AdmittedSteps[2].post)
  <2>1. f = Append(b \o Append(k, stmt), Admitted)
    <3>1. TextsOf(Append(stated, Executed(Admitted))) = Append(TextsOf(stated), Admitted)
      BY <1>8, TextsAppend DEF Snapshot
    <3> HIDE DEF stated, k, stmt
    <3> QED BY <1>9, <1>15, <3>1
  <2>2. b \in Seq(Q) /\ k \in Seq(Q)
    <3> HIDE DEF P, Q, k, p
    <3>1. \A i \in 1..Len(b) : b[i] \in Q
      BY <1>11, <1>20
    <3>2. \A s \in Seq(Sentence) : (\A i \in 1..Len(s) : s[i] \in Q) => s \in Seq(Q)
      OBVIOUS
    <3> QED BY <1>7, <1>11, <1>20, <3>1, <3>2
  <2>3. f \in Seq(Q)
    <3> HIDE DEF f, Q, k, stmt
    <3>1. Append(k, stmt) \in Seq(Q)
      BY <1>20, <2>2
    <3>2. b \o Append(k, stmt) \in Seq(Q)
      BY <2>2, <3>1
    <3> QED BY <1>20, <2>1, <3>2
  <2>4. ~OpenIn(f)
    <3> HIDE DEF f, k, stmt
    <3>1. b \o Append(k, stmt) \in Seq(Sentence)
      BY <1>11, <1>15
    <3> QED BY <2>1, <3>1, ClosedByAdmitted
  <2> QED BY <1>2, <2>3, <2>4
<1>24. (Over(call.acc, TextSet(call.pieces)))'
  BY <1>2, EmptyRuns
<1>25. cache' = Saved \/ cache' = <<>>
  BY <1>1, CheckedIs
<1>26. (cache # <<>> /\ cache[1].text \notin Heads => Over(cache, TextSet(call.pieces)))'
  <2>1. call.acc # <<>>
    BY <1>3, <1>4
  <2>2. Saved # <<>> /\ Saved[1].text \notin Heads => Over(Saved, Q)
    BY <1>1, <1>21, <2>1, SavedRuns, OverMore
  <2> HIDE DEF Q
  <2> QED BY <1>2, <1>25, <2>2 DEF Q
<1>27. OpenRuns'
  BY <1>2, <1>22, <1>23, <1>24, <1>26 DEF OpenRuns
<1>28. cache' # <<>> /\ cache'[1].text \in Heads => Over(cache', {})
  BY <1>1, <1>25, SavedRuns
<1>29. CacheRuns'
  BY <1>28 DEF CacheRuns
<1> QED BY <1>27, <1>29 DEF RunInv

----
LEMMA RunsNext ==
  ASSUME TypeOK, TypeOK', Inv, RunInv, [Next]_vars
  PROVE  RunInv'
<1>1. CASE \E src \in Source : \E target \in Statement \union {NoTarget} : OpenTool(src, target)
  BY <1>1, ServeRuns DEF OpenTool
<1>2. CASE \E src \in Source : GetSession(src)
  BY <1>2, ServeRuns DEF GetSession
<1>3. CASE AdoptCached
  BY <1>3, AdoptRuns
<1>4. CASE Interpret
  BY <1>4, InterpretRuns
<1>5. CASE AdmitAndContinue
  BY <1>5, ContinueRuns
<1>6. CASE OpenFinds
  BY <1>6, FindsRuns
<1>7. CASE OpenFails \/ MakeSession
  BY <1>7, EndsRuns
<1>8. CASE Rebuild \/ UNCHANGED vars
  <2>1. UNCHANGED <<cache, call>>
    BY <1>8 DEF Rebuild, vars
  <2> QED BY <2>1 DEF RunInv, CacheRuns, OpenRuns
<1> QED BY <1>1, <1>2, <1>3, <1>4, <1>5, <1>6, <1>7, <1>8 DEF Next

\* When make_session executes a prefix that runs, no sentence of it is refused.
LEMMA RunsAreAccepted ==
  ASSUME TypeOK, Inv, RunInv
  PROVE  OpenedPrefixRuns
<1> SUFFICES ASSUME call # Idle, call.making, call.target # NoTarget, Rejected
             PROVE  FALSE
  BY DEF OpenedPrefixRuns
<1>1. call.acc \in Seq(Step) /\ call.src \in Seq(Sentence)
  BY DEF TypeOK, Call
<1>2. FollowsText /\ FromPristine /\ call.from = Pristine /\ Runs(call.src)
  BY DEF Inv, CallSafe, Makes, RunInv, OpenRuns
<1>3. Position \in 1..Len(call.src) /\ Position = Len(call.acc) + 1
  BY <1>1 DEF Rejected, AtEnd, Position
<1>4. Takes(SubSeq(call.src, 1, Len(call.acc)), call.src[Position])
  BY <1>2, <1>3 DEF Runs
<1>5. At \in Snapshot
  BY AtType
<1>6. /\ Len(At) = Len(call.acc)
      /\ \A j \in 1..Len(call.acc) : At[j].text = call.acc[j].text
  BY <1>2, AtGenuine DEF FromPristine
<1>7. TextsOf(At) = SubSeq(call.src, 1, Len(call.acc))
  <2> DEFINE a == TextsOf(At)
             f == SubSeq(call.src, 1, Len(call.acc))
  <2>1. /\ a \in Seq(Sentence) /\ Len(a) = Len(call.acc)
        /\ \A i \in 1..Len(call.acc) : a[i] = call.acc[i].text
    BY <1>5, <1>6, SnapshotTexts
  <2>2. /\ f \in Seq(Sentence) /\ Len(f) = Len(call.acc)
        /\ \A i \in 1..Len(call.acc) : f[i] = call.src[i]
    BY <1>1, <1>3
  <2> HIDE DEF a, f
  <2>3. \A i \in 1..Len(call.acc) : a[i] = f[i]
    BY <1>2, <2>1, <2>2 DEF FollowsText
  <2> QED BY <2>1, <2>2, <2>3 DEF a, f
<1>8. Accepts(At, call.src[Position])
  <2>1. call.src[Position] \in Sentence
    BY <1>1, <1>3
  <2>2. Takes(TextsOf(At), call.src[Position])
    BY <1>4, <1>7
  <2> QED BY <1>5, <2>1, <2>2, SnapshotTexts
<1> QED BY <1>8 DEF Rejected

\* The prefix open puts together, of the pieces of several executions with their
\* broken proofs admitted (go, and mk_prefix), is accepted by the prover from the
\* beginning to its end, when imports come first and nowhere else.
THEOREM OpenedPrefixesRun ==
  ASSUME NoLateHeads
  PROVE  Spec => []OpenedPrefixRuns
<1>1. Init => RunInv
  BY DEF Init, RunInv, CacheRuns, OpenRuns
<1>2. TypeOK /\ TypeOK' /\ Inv /\ RunInv /\ [Next]_vars => RunInv'
  BY RunsNext
<1>3. TypeOK /\ Inv /\ RunInv => OpenedPrefixRuns
  BY RunsAreAccepted
<1> QED BY <1>1, <1>2, <1>3, InvAlways, LoaderTypeCorrect, PTL DEF Spec
=============================================================================
