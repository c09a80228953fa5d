--------------------------- MODULE SessionProofs ----------------------------
(***************************************************************************)
(* Theorems about the single-agent session, for every prover, every set of *)
(* files and texts, and every bound.                                       *)
(*                                                                         *)
(* The argument: a tool hands TryAutoQed a session whose sentences replay  *)
(* from its file (Sound), and TryAutoQed either keeps it or declares it    *)
(* complete with a candidate that closes.                                  *)
(***************************************************************************)
EXTENDS SessionProperties, ProverProofs

\* A session whose committed sentences replay.  Beyond the properties: none of
\* them is a query, which running the script again would drop.
Sound(s) ==
  /\ s \in Session
  /\ s.committed \in Seq(Kept)
  /\ IsReplay(BaseOf(s), s.committed)

\* The bridge flag never says more than what s has loaded.
FlagFits(bridge, s) == bridge \in BOOLEAN /\ (bridge => "zify" \in s.loaded)

Inv ==
  /\ TypeOK
  /\ HasSession => Sound(session) /\ FlagFits(mc_tactics, session)
  /\ CandidateIsTheProof
  /\ CandidateCloses

----
LEMMA StateType ==
  ASSUME NEW s, Sound(s)
  PROVE  State(s) \in Snapshot
<1>1. BaseOf(s) \in Snapshot
  BY SessionConstants DEF Sound, Session, BaseOf
<1> QED BY <1>1, KeptAreSteps, StateAfterType DEF Sound, State

\* A text of one sentence.
LEMMA OneSentence ==
  ASSUME NEW st, NEW s
  PROVE  ExecText(st, <<s>>) = ExecNext(Start(st), s)
<1>1. Len(<<s>>) = 1 /\ 1 \in Nat
  OBVIOUS
<1>2. PICK f : IsRun(f, st, <<s>>, 1) /\ ExecText(st, <<s>>) = f[1]
  BY <1>1, ExecTextIsRun
<1>3. f[0] = Start(st) /\ f[1] = ExecNext(f[1 - 1], <<s>>[1])
  BY <1>1, <1>2, RunSteps
<1> QED BY <1>2, <1>3

\* When Qed is accepted the proof is closed.
LEMMA QedCloses ==
  ASSUME NEW st \in Snapshot, ExecText(st, <<Say("Qed")>>).done
  PROVE  LET r == ExecText(st, <<Say("Qed")>>)
         IN  ~ProofOpen(r.st)
<1> DEFINE r == ExecText(st, <<Say("Qed")>>)
           post == Exec(st, Say("Qed"))
<1>1. r = ExecNext(Start(st), Say("Qed"))
  BY OneSentence
<1>2. Start(st).done /\ Start(st).st = st
  BY DEF Start
<1>3. post # Stuck /\ r.st = post
  <2> HIDE DEF post
  <2>1. ExecNext(Start(st), Say("Qed"))
          = IF ~Start(st).done \/ post = Stuck THEN [Start(st) EXCEPT !.done = FALSE]
            ELSE [st |-> post,
                  kept |-> IF IsQuery(Say("Qed")) THEN Start(st).kept
                           ELSE Append(Start(st).kept, [text |-> Say("Qed"), post |-> post]),
                  done |-> TRUE]
    BY <1>2 DEF ExecNext, post
  <2>2. post # Stuck
    <3>1. SUFFICES ASSUME post = Stuck PROVE FALSE
      OBVIOUS
    <3>2. r = [Start(st) EXCEPT !.done = FALSE]
      BY <1>1, <2>1, <3>1
    <3> QED BY <3>2 DEF Start
  <2> QED BY <1>1, <1>2, <2>1, <2>2
<1>4. post = Stuck \/ post = Ended("qed")
  <2>1. "Qed" \notin Tactic
    BY ProverConstants DEF Keyword
  <2> QED BY <2>1 DEF Exec, Say, IsQuery, ProofOpen
<1> QED BY <1>3, <1>4 DEF Ended, ProofOpen

----
\* Outside every block, the focused goals are all there are.
LEMMA NoBlockNGoals ==
  ASSUME NEW st \in Snapshot, st.ctx = <<>>
  PROVE  NGoals(st) = Len(st.goals)
<1> DEFINE none == [i \in DOMAIN st.ctx |-> Len(st.ctx[i].left) + Len(st.ctx[i].right)]
           Pick(s) == CHOOSE i \in s : TRUE
           Iterates(f) == f = [s \in SUBSET (DOMAIN none) |->
                                 IF s = {} THEN 0 ELSE none[Pick(s)] + f[s \ {Pick(s)}]]
           iter == CHOOSE f : Iterates(f)
           fold == FoldFunction(+, 0, none)
<1>1. DOMAIN none = {} /\ SUBSET (DOMAIN none) = {{}}
  OBVIOUS
<1>2. fold = iter[DOMAIN none]
  BY DEF FoldFunction, FoldFunctionOnSet, MapThenFoldSet
<1>3. NGoals(st) = Len(st.goals) + fold
  BY DEF NGoals
<1>4. iter[{}] = 0
  <2>1. Iterates([s \in {{}} |-> 0])
    BY <1>1
  <2>2. Iterates(iter)
    <3> HIDE DEF Iterates
    <3> QED BY <2>1
  <2> HIDE DEF iter, none
  <2> QED BY <1>1, <2>2
<1>5. Len(st.goals) \in Nat
  BY DEF Snapshot
<1> HIDE DEF fold, iter, none
<1> QED BY <1>1, <1>2, <1>3, <1>4, <1>5

\* When no goal is left, no block is open and the kernel has nothing against the
\* proof, Qed is accepted.
LEMMA QedAccepted ==
  ASSUME NEW st \in Snapshot, ProofOpen(st), NGoals(st) = 0, st.ctx = <<>>, st.phase # "flawed"
  PROVE  ExecText(st, <<Say("Qed")>>).done
<1>0. st.phase = "proof"
  BY DEF ProofOpen
<1>1. st.goals = <<>>
  BY NoBlockNGoals DEF Snapshot
<1>2. Exec(st, Say("Qed")) = Ended("qed")
  <2>1. "Qed" \notin Tactic
    BY ProverConstants DEF Keyword
  <2> QED BY <1>0, <1>1, <2>1 DEF Exec, Say, IsQuery, Solved, ProofOpen
<1>3. Ended("qed") # Stuck
  BY DEF Ended, Stuck
<1>4. Start(st).done /\ Start(st).st = st
  BY DEF Start
<1>5. ExecNext(Start(st), Say("Qed")).done
  <2> DEFINE post == Exec(st, Say("Qed"))
  <2>1. post # Stuck
    BY <1>2, <1>3
  <2> HIDE DEF post
  <2>2. ExecNext(Start(st), Say("Qed"))
          = [st |-> post,
             kept |-> IF IsQuery(Say("Qed")) THEN Start(st).kept
                      ELSE Append(Start(st).kept, [text |-> Say("Qed"), post |-> post]),
             done |-> TRUE]
    BY <1>4, <2>1 DEF ExecNext, post
  <2> QED BY <2>2
<1> QED BY <1>5, OneSentence

----
\* Running a text on a session gives a session that replays further.
LEMMA Extended ==
  ASSUME NEW s, Sound(s), NEW text \in Seq(Sentence)
  PROVE  LET r == ExecText(State(s), text)
             t == [s EXCEPT !.committed = @ \o r.kept]
         IN  /\ Sound(t)
             /\ State(t) = r.st
             /\ t.complete = s.complete /\ t.loaded = s.loaded
<1> DEFINE r == ExecText(State(s), text)
           t == [s EXCEPT !.committed = @ \o r.kept]
<1>1. State(s) \in Snapshot
  BY StateType
<1>2. /\ r.kept \in Seq(Kept)
      /\ r.st = StateAfter(State(s), r.kept)
      /\ IsReplay(State(s), r.kept)
  BY <1>1, ExecTextReplays
<1>3. s.committed \in Seq(Kept) /\ s.committed \in Seq(Step) /\ r.kept \in Seq(Step)
  BY <1>2, KeptAreSteps DEF Sound
<1>4. s.committed \o r.kept \in Seq(Kept) /\ s.committed \o r.kept \in Seq(Step)
  BY <1>2, <1>3
<1> HIDE DEF r
<1>5. /\ t \in Session
      /\ t.committed = s.committed \o r.kept
      /\ t.file = s.file /\ t.loaded = s.loaded /\ BaseOf(t) = BaseOf(s)
      /\ t.complete = s.complete
  BY <1>4 DEF Sound, Session, BaseOf
<1>6. IsReplay(BaseOf(s), s.committed \o r.kept)
  BY <1>2, <1>3, ReplayConcat DEF Sound, State
<1>7. State(t) = r.st
  BY <1>2, <1>3, <1>5, StateAfterConcat DEF State
<1> QED BY <1>4, <1>5, <1>6, <1>7 DEF Sound, r

\* Declaring a session complete whose proof is closed.
LEMMA Declared ==
  ASSUME NEW s, Sound(s), ~ProofOpen(State(s)), FlagFits(mc_tactics', s), Declare(s)
  PROVE  Inv'
<1> DEFINE text == Texts(s.committed)
           t == [s EXCEPT !.complete = TRUE]
<1>1. session' = t /\ t \in Session /\ t # NoSession
  BY SentinelsAreNone DEF Declare, Sound, Session
<1>2. t.committed = s.committed /\ t.file = s.file /\ t.loaded = s.loaded /\ t.complete
      /\ BaseOf(t) = BaseOf(s)
  BY DEF Sound, Session, BaseOf
<1>3. /\ candidate'.file = s.file /\ candidate'.body = text /\ candidate'.loaded = s.loaded
      /\ candidate'.requires = Requires(mc_tactics')
      /\ candidate' \in Candidate /\ candidate' # NoFile
  <2>1. text \in Seq(Sentence) /\ s.file \in File /\ s.loaded \in SUBSET Library
    BY TextsType DEF Sound, Session
  <2>2. Requires(mc_tactics') \in SUBSET Library
    BY DEF Requires, Library
  <2>3. candidate' = [file |-> s.file, requires |-> Requires(mc_tactics'), body |-> text, loaded |-> s.loaded]
    BY DEF Declare
  <2> HIDE DEF text
  <2> QED BY <2>1, <2>2, <2>3, SentinelsAreNone DEF Candidate
<1>4. State(t) = State(s)
  BY <1>2 DEF State
<1>5. Sound(t)
  BY <1>1, <1>2 DEF Sound
<1>6. LET r == ExecText(BaseOf(s), text)
      IN  r.done /\ ~ProofOpen(r.st)
  <2>1. ExecText(BaseOf(s), text)
          = [st |-> State(s), kept |-> s.committed, done |-> TRUE]
    BY ReplayRuns DEF Sound, State
  <2> QED BY <2>1
<1> HIDE DEF t, text
<1>7. TypeOK'
  BY <1>1, <1>3 DEF TypeOK, FlagFits
<1>8. (HasSession => Sound(session) /\ FlagFits(mc_tactics, session))'
  BY <1>1, <1>2, <1>5 DEF Sound, BaseOf, FlagFits
<1>9. CandidateIsTheProof'
  <2>1. FlagTells(session)' => Requires(mc_tactics') = s.loaded
    <3>1. s.loaded \in SUBSET Library
      BY DEF Sound, Session
    <3> QED BY <1>1, <1>2, <3>1 DEF FlagTells, Requires, Library
  <2> QED BY <1>1, <1>2, <1>3, <1>4, <2>1 DEF CandidateIsTheProof, State, BaseOf, text
<1>10. CandidateCloses'
  BY <1>3, <1>6 DEF CandidateCloses, BaseOf
<1> QED BY <1>7, <1>8, <1>9, <1>10 DEF Inv

\* A session that is kept, not complete, beside an old candidate.
LEMMA Undeclared ==
  ASSUME Inv, NEW s, Sound(s), ~s.complete, FlagFits(mc_tactics', s),
         session' = s, UNCHANGED candidate
  PROVE  Inv'
BY DEF Inv, TypeOK, Sound, HasSession, CandidateIsTheProof, CandidateCloses, FlagFits, BaseOf

LEMMA Tried ==
  ASSUME Inv, NEW s, Sound(s), ~s.complete, FlagFits(mc_tactics', s), TryAutoQed(s)
  PROVE  Inv'
<1> DEFINE qed == ExecText(State(s), <<Say("Qed")>>)
<1>1. CASE ~ProofOpen(State(s)) /\ Declare(s)
  BY <1>1, Declared
<1>2. CASE qed.done /\ Declare([s EXCEPT !.committed = @ \o qed.kept])
  <2>1. <<Say("Qed")>> \in Seq(Sentence)
    BY DEF Say, Sentence, Verb, Keyword
  <2>2. ~ProofOpen(qed.st)
    BY <1>2, StateType, QedCloses
  <2> DEFINE t == [s EXCEPT !.committed = @ \o qed.kept]
  <2>3. Sound(t) /\ State(t) = qed.st /\ t.loaded = s.loaded /\ Declare(t)
    BY <1>2, <2>1, Extended
  <2>4. FlagFits(mc_tactics', t)
    BY <2>3 DEF FlagFits
  <2> HIDE DEF t, qed
  <2> QED BY <2>2, <2>3, <2>4, Declared
<1>3. CASE session' = s /\ UNCHANGED candidate
  BY <1>3, Undeclared
<1> QED BY <1>1, <1>2, <1>3 DEF TryAutoQed

LEMMA Committed ==
  ASSUME Inv, NEW s, Sound(s), ~s.complete, FlagFits(mc_tactics', s),
         NEW text \in Seq(Sentence), Commit(s, text)
  PROVE  Inv'
<1> DEFINE t == [s EXCEPT !.committed = @ \o ExecText(State(s), text).kept]
<1>1. Sound(t) /\ ~t.complete /\ t.loaded = s.loaded /\ TryAutoQed(t)
  BY Extended DEF Commit
<1> HIDE DEF t
<1>2. FlagFits(mc_tactics', t)
  BY <1>1 DEF FlagFits
<1> QED BY <1>1, <1>2, Tried

----
LEMMA FreshIsSound ==
  ASSUME NEW f \in File, NEW libs \in Loads(f)
  PROVE  Sound(Fresh(f, libs)) /\ ~Fresh(f, libs).complete /\ FlagFits("zify" \in libs, Fresh(f, libs))
<1>1. libs \in SUBSET Library /\ <<>> \in Seq(Step) /\ <<>> \in Seq(Kept)
  BY DEF Loads
<1>2. Fresh(f, libs) \in Session
  BY <1>1 DEF Fresh, Session
<1> QED BY <1>1, <1>2 DEF Sound, Fresh, IsReplay, FlagFits

LEMMA GetSessionIsSound ==
  ASSUME Inv, NEW g \in GetSession
  PROVE  /\ Sound(g.s) /\ FlagFits(g.bridge, g.s)
         /\ IF session = NoSession THEN ~g.s.complete ELSE g.s = session
<1>1. CASE session # NoSession
  BY <1>1 DEF GetSession, Inv, HasSession, TypeOK
<1>2. CASE session = NoSession /\ Preset # NoFile
  <2>1. PICK libs \in Loads(Preset) :
          g = [s |-> Fresh(Preset, libs), bridge |-> "zify" \in libs]
    BY <1>2 DEF GetSession
  <2>2. Preset \in File
    BY <1>2, SessionConstants
  <2> QED BY <1>2, <2>1, <2>2, FreshIsSound
<1>3. CASE session = NoSession /\ Preset = NoFile
  BY <1>3 DEF GetSession
<1> QED BY <1>1, <1>2, <1>3

----
LEMMA LeastIsIn ==
  ASSUME NEW S \in SUBSET Nat, S # {}
  PROVE  Min(S) \in S
BY LeastExists DEF Min

LEMMA StepToolKeeps ==
  ASSUME Inv, NEW text \in Text, StepTool(text)
  PROVE  Inv'
<1>1. PICK g \in GetSession : mc_tactics' = g.bridge /\ ~g.s.complete /\ Commit(g.s, text)
  BY DEF StepTool
<1>2. text \in Seq(Sentence)
  BY SessionConstants
<1> QED BY <1>1, <1>2, GetSessionIsSound, Committed

\* A session whose script was discarded.
LEMMA EmptiedIsSound ==
  ASSUME NEW s, Sound(s)
  PROVE  LET t == [s EXCEPT !.committed = <<>>]
         IN  Sound(t) /\ t.complete = s.complete /\ t.loaded = s.loaded
<1> DEFINE t == [s EXCEPT !.committed = <<>>]
<1>1. <<>> \in Seq(Step) /\ <<>> \in Seq(Kept)
  OBVIOUS
<1>2. t \in Session /\ t.committed = <<>> /\ t.file = s.file /\ t.complete = s.complete /\ t.loaded = s.loaded
  BY <1>1 DEF Sound, Session
<1>3. IsReplay(BaseOf(t), <<>>)
  BY DEF IsReplay
<1> HIDE DEF t
<1>4. Sound(t)
  BY <1>1, <1>2, <1>3 DEF Sound
<1> QED BY <1>2, <1>4 DEF t

LEMMA CheckToolKeeps ==
  ASSUME Inv, NEW text \in Text, CheckTool(text)
  PROVE  Inv'
<1>1. PICK g \in GetSession :
        /\ mc_tactics' = g.bridge /\ ~g.s.complete
        /\ Commit([g.s EXCEPT !.committed = <<>>], text)
  BY DEF CheckTool
<1> DEFINE s == [g.s EXCEPT !.committed = <<>>]
<1>2. text \in Seq(Sentence)
  BY SessionConstants
<1>3. Sound(s) /\ ~s.complete /\ s.loaded = g.s.loaded
  BY <1>1, GetSessionIsSound, EmptiedIsSound
<1>4. FlagFits(mc_tactics', s)
  BY <1>1, <1>3, GetSessionIsSound DEF FlagFits
<1> HIDE DEF s
<1> QED BY <1>1, <1>2, <1>3, <1>4, Committed DEF s

\* try commits one of its candidates.
LEMMA TryToolCommits ==
  ASSUME NEW cands \in Menu, NEW slow, TryTool(cands, slow)
  PROVE  \E g \in GetSession, text \in Seq(Sentence) :
           mc_tactics' = g.bridge /\ ~g.s.complete /\ Commit(g.s, text)
<1> DEFINE Full(g) == {i \in DOMAIN cands \ slow :
                         cands[i] # <<>> /\ ExecText(State(g.s), cands[i]).done}
<1>1. PICK g \in GetSession :
        /\ mc_tactics' = g.bridge /\ ~g.s.complete
        /\ Full(g) # {} /\ Commit(g.s, cands[Min(Full(g))])
  BY DEF TryTool
<1>2. cands \in Seq(Seq(Sentence))
  BY SessionConstants
<1>3. Min(Full(g)) \in DOMAIN cands
  <2>1. Full(g) \subseteq DOMAIN cands /\ DOMAIN cands \subseteq Nat
    BY <1>2
  <2> HIDE DEF Full
  <2> QED BY <1>1, <2>1, LeastIsIn
<1>4. cands[Min(Full(g))] \in Seq(Sentence)
  BY <1>2, <1>3
<1> QED BY <1>1, <1>4

LEMMA TryToolKeeps ==
  ASSUME Inv, NEW cands \in Menu, NEW slow, TryTool(cands, slow)
  PROVE  Inv'
BY TryToolCommits, GetSessionIsSound, Committed

\* auto_close commits one of its finishers.
LEMMA AutoCloseToolCommits ==
  ASSUME NEW slow, AutoCloseTool(slow)
  PROVE  \E g \in GetSession, text \in Seq(Sentence) :
           mc_tactics' = g.bridge /\ ~g.s.complete /\ Commit(g.s, text)
<1> DEFINE Finishers(g) == IF g.bridge THEN BridgePortfolio \o Portfolio ELSE Portfolio
           Wins(g) == {i \in DOMAIN Finishers(g) \ slow : Finishes(State(g.s), Finishers(g)[i])}
<1>1. PICK g \in GetSession :
        /\ mc_tactics' = g.bridge /\ ~g.s.complete
        /\ Wins(g) # {} /\ Commit(g.s, Finishers(g)[Min(Wins(g))])
  BY DEF AutoCloseTool
<1>2. Finishers(g) \in Seq(Seq(Sentence))
  BY SessionConstants
<1>3. Min(Wins(g)) \in DOMAIN Finishers(g)
  <2> HIDE DEF Finishers
  <2>1. Wins(g) \subseteq DOMAIN Finishers(g) /\ DOMAIN Finishers(g) \subseteq Nat
    BY <1>2
  <2> HIDE DEF Wins
  <2> QED BY <1>1, <2>1, LeastIsIn
<1>4. Finishers(g)[Min(Wins(g))] \in Seq(Sentence)
  <2> HIDE DEF Finishers, Wins
  <2> QED BY <1>2, <1>3
<1> HIDE DEF Finishers, Wins
<1> QED BY <1>1, <1>4

LEMMA AutoCloseToolKeeps ==
  ASSUME Inv, NEW slow, AutoCloseTool(slow)
  PROVE  Inv'
BY AutoCloseToolCommits, GetSessionIsSound, Committed

\* A prefix of what replays, replays.
LEMMA RollbackToolKeeps ==
  ASSUME Inv, NEW n \in Nat, RollbackTool(n)
  PROVE  Inv'
<1>1. PICK g \in GetSession :
        /\ mc_tactics' = g.bridge
        /\ session' = [g.s EXCEPT !.committed = SubSeq(@, 1, Len(@) - n), !.complete = FALSE]
        /\ UNCHANGED candidate
  BY DEF RollbackTool
<1> DEFINE c == g.s.committed
           d == SubSeq(c, 1, Len(c) - n)
           s == [g.s EXCEPT !.committed = d, !.complete = FALSE]
<1>2. Sound(g.s) /\ FlagFits(g.bridge, g.s)
  BY GetSessionIsSound
<1>3. c \in Seq(Kept) /\ c \in Seq(Step) /\ IsReplay(BaseOf(g.s), c)
  BY <1>2, KeptAreSteps DEF Sound
<1>4. d \in Seq(Kept) /\ d \in Seq(Step) /\ DOMAIN d \subseteq DOMAIN c
      /\ \A i \in DOMAIN d : d[i] = c[i] /\ (i # 1 => i - 1 \in DOMAIN d)
  BY <1>3
<1>5. IsReplay(BaseOf(g.s), d)
  <2> HIDE DEF d, c
  <2>1. SUFFICES ASSUME NEW i \in DOMAIN d
                 PROVE  /\ d[i].post # Stuck
                        /\ d[i].post = Exec(IF i = 1 THEN BaseOf(g.s) ELSE d[i - 1].post, d[i].text)
    BY DEF IsReplay
  <2>2. i \in DOMAIN c /\ d[i] = c[i] /\ (i # 1 => d[i - 1] = c[i - 1])
    BY <1>4
  <2> QED BY <1>3, <2>2 DEF IsReplay
<1>6. s \in Session /\ s.committed = d /\ s.file = g.s.file /\ s.loaded = g.s.loaded /\ ~s.complete
  <2> HIDE DEF d
  <2> QED BY <1>2, <1>4 DEF Sound, Session
<1>7. Sound(s)
  <2> HIDE DEF d, s
  <2> QED BY <1>4, <1>5, <1>6 DEF Sound, BaseOf
<1>8. FlagFits(mc_tactics', s)
  <2> HIDE DEF d, s
  <2> QED BY <1>1, <1>2, <1>6 DEF FlagFits
<1> HIDE DEF s
<1> QED BY <1>1, <1>6, <1>7, <1>8, Undeclared DEF s

\* rollback shortens the script, or leaves a session that has none.
LEMMA RollbackRolls ==
  ASSUME Inv, NEW n \in 1..MaxScript, RollbackTool(n)
  PROVE  RolledBack \/ Restarted
<1>1. PICK g \in GetSession :
        session' = [g.s EXCEPT !.committed = SubSeq(@, 1, Len(@) - n), !.complete = FALSE]
  BY DEF RollbackTool
<1> DEFINE c == g.s.committed
           d == SubSeq(c, 1, Len(c) - n)
<1>2. Sound(g.s) /\ c \in Seq(Step) /\ n \in Nat \ {0}
  BY GetSessionIsSound, KeptAreSteps, SessionConstants DEF Sound
<1>3. d \in Seq(Step)
  BY <1>2
<1>4. /\ session' \in Session /\ session' # NoSession
      /\ session'.committed = d /\ ~session'.complete
  <2> HIDE DEF d
  <2> QED BY <1>1, <1>2, <1>3, SentinelsAreNone DEF Sound, Session, d
<1>5. CASE c = <<>>
  <2>1. d = <<>>
    BY <1>2, <1>5
  <2> QED BY <1>4, <2>1 DEF Restarted, HasSession
<1>6. CASE c # <<>>
  <2>1. IsStrictPrefix(d, c)
    BY <1>2, <1>6 DEF IsStrictPrefix, IsPrefix
  <2>2. session # NoSession /\ g.s = session
    <3>1. CASE session = NoSession
      BY <1>6, <3>1 DEF GetSession, Fresh
    <3> QED BY <3>1, GetSessionIsSound
  <2> QED BY <1>4, <2>1, <2>2 DEF RolledBack, HasSession
<1> QED BY <1>5, <1>6

LEMMA OpenToolKeeps ==
  ASSUME Inv, NEW f \in File, OpenTool(f)
  PROVE  Inv'
<1>1. CASE \E libs \in Loads(f) :
             session' = Fresh(f, libs) /\ mc_tactics' = ("zify" \in libs)
  <2>1. PICK libs \in Loads(f) :
          session' = Fresh(f, libs) /\ mc_tactics' = ("zify" \in libs)
    BY <1>1
  <2> QED BY <2>1, FreshIsSound, Undeclared DEF OpenTool
<1>2. CASE mc_tactics' = FALSE /\ UNCHANGED session
  <2>1. UNCHANGED <<session, candidate>>
    BY <1>2 DEF OpenTool
  <2>2. HasSession /\ FlagTells(session)' => FlagTells(session)
    BY <1>2, <2>1 DEF Inv, FlagFits, FlagTells
  <2>3. CandidateIsTheProof'
    BY <2>1, <2>2 DEF Inv, HasSession, CandidateIsTheProof, State, BaseOf
  <2> QED BY <1>2, <2>1, <2>3 DEF Inv, TypeOK, HasSession, CandidateCloses, BaseOf, Sound, FlagFits
<1> QED BY <1>1, <1>2 DEF OpenTool

LEMMA FirstCallKeeps ==
  ASSUME Inv, FirstCall
  PROVE  Inv'
<1>1. PICK g \in GetSession : session' = g.s /\ mc_tactics' = g.bridge
  BY DEF FirstCall
<1> QED BY <1>1, GetSessionIsSound, Undeclared DEF FirstCall

\* The inductive invariant.
LEMMA Invariant == Spec => []Inv
<1>1. Init => Inv
  BY DEF Init, Inv, TypeOK, HasSession, CandidateIsTheProof, CandidateCloses
<1>2. ASSUME Inv, [Next]_vars PROVE Inv'
  <2>1. CASE FirstCall
    BY <1>2, <2>1, FirstCallKeeps
  <2>2. CASE \E text \in Text : StepTool(text)
    BY <1>2, <2>2, StepToolKeeps
  <2>3. CASE \E n \in 1..MaxScript : RollbackTool(n)
    BY <1>2, <2>3, RollbackToolKeeps
  <2>4. CASE \E cands \in Menu : \E slow \in SUBSET DOMAIN cands : TryTool(cands, slow)
    BY <1>2, <2>4, TryToolKeeps
  <2>5. CASE \E slow \in SUBSET (1..Len(BridgePortfolio \o Portfolio)) : AutoCloseTool(slow)
    BY <1>2, <2>5, AutoCloseToolKeeps
  <2>6. CASE \E text \in Text : CheckTool(text)
    BY <1>2, <2>6, CheckToolKeeps
  <2>7. CASE \E f \in File : OpenTool(f)
    BY <1>2, <2>7, OpenToolKeeps
  <2>8. CASE UNCHANGED vars
    BY <1>2, <2>8 DEF vars, Inv, TypeOK, HasSession, CandidateIsTheProof, CandidateCloses, State, Sound,
                         BaseOf, FlagFits, FlagTells
  <2> QED BY <1>2, <2>1, <2>2, <2>3, <2>4, <2>5, <2>6, <2>7, <2>8 DEF Next
<1> QED BY <1>1, <1>2, PTL DEF Spec

----
\* Every variable keeps its type.
THEOREM SessionTypeCorrect == Spec => []TypeOK
<1>1. Inv => TypeOK
  BY DEF Inv
<1> QED BY <1>1, Invariant, PTL

\* What is committed always replays from the snapshot behind the file's prefix and
\* the libraries loaded for it.
THEOREM SessionAlwaysReplays == Spec => []SessionReplays
<1>1. Inv => SessionReplays
  BY DEF Inv, Sound, SessionReplays, BaseOf
<1> QED BY <1>1, Invariant, PTL

\* A session that says COMPLETE has its proof in candidate.v, and with it the
\* Requires of what the session had loaded, unless the bridge flag does not tell.
THEOREM CompleteSessionIsOnDisk == Spec => []CandidateIsTheProof
<1>1. Inv => CandidateIsTheProof
  BY DEF Inv
<1> QED BY <1>1, Invariant, PTL

\* A candidate.v that requires what its session had loaded always closes its own
\* file's proof, whatever the session does next.
THEOREM CandidateAlwaysCloses == Spec => []CandidateCloses
<1>1. Inv => CandidateCloses
  BY DEF Inv
<1> QED BY <1>1, Invariant, PTL

\* Completion is given up by rollback and open only.
THEOREM CompletionIsLasting == Spec => CompletionLasts
<1> DEFINE Lasts == HasSession /\ session.complete =>
                      UNCHANGED <<session, candidate>> \/ RolledBack \/ Restarted
<1>1. ASSUME Inv, [Next]_vars, HasSession, session.complete
      PROVE  UNCHANGED <<session, candidate>> \/ RolledBack \/ Restarted
  <2>1. ASSUME NEW g \in GetSession PROVE g.s = session /\ g.s.complete
    BY <1>1, <2>1, GetSessionIsSound DEF HasSession
  <2>2. CASE FirstCall
    BY <1>1, <2>2 DEF FirstCall, HasSession
  <2>3. CASE \E text \in Text : StepTool(text)
    BY <2>1, <2>3 DEF StepTool
  <2>4. CASE \E n \in 1..MaxScript : RollbackTool(n)
    <3>1. PICK n \in 1..MaxScript : RollbackTool(n)
      BY <2>4
    <3> QED BY <1>1, <3>1, RollbackRolls DEF HasSession
  <2>5. CASE \E cands \in Menu : \E slow \in SUBSET DOMAIN cands : TryTool(cands, slow)
    BY <2>1, <2>5 DEF TryTool
  <2>6. CASE \E slow \in SUBSET (1..Len(BridgePortfolio \o Portfolio)) : AutoCloseTool(slow)
    BY <2>1, <2>6 DEF AutoCloseTool
  <2>7. CASE \E text \in Text : CheckTool(text)
    BY <2>1, <2>7 DEF CheckTool
  <2>8. CASE \E f \in File : OpenTool(f)
    <3>1. CASE UNCHANGED <<session, candidate>>
      BY <3>1
    <3>2. CASE \E f \in File : \E libs \in Loads(f) : session' = Fresh(f, libs)
      <4>0. PICK f \in File : \E libs \in Loads(f) : session' = Fresh(f, libs)
        BY <3>2
      <4>1. PICK libs \in Loads(f) : session' = Fresh(f, libs)
        BY <4>0
      <4>2. session' # NoSession
        BY <4>1, FreshIsSound, SentinelsAreNone DEF Sound
      <4> QED BY <4>1, <4>2 DEF Restarted, HasSession, Fresh
    <3> QED BY <2>8, <3>1, <3>2 DEF OpenTool
  <2>9. CASE UNCHANGED vars
    BY <2>9 DEF vars
  <2> QED BY <1>1, <2>2, <2>3, <2>4, <2>5, <2>6, <2>7, <2>8, <2>9 DEF Next
<1>2. Inv /\ [Next]_vars => Lasts
  BY <1>1
<1>3. Inv /\ [Next]_vars => [Lasts]_vars
  BY <1>2
<1> QED BY <1>3, Invariant, PTL DEF Spec, CompletionLasts

\* What TryAutoQed may leave behind when no goal is left.
Held(s) == State(s).ctx # <<>> \/ State(s).phase = "flawed"

LEMMA NoGoalUnlessBlocked ==
  ASSUME NEW s, Sound(s), TryAutoQed(s), GoalsAreGone(session'), "qed" \notin Mishap
  PROVE  Held(session')
<1> DEFINE qed == ExecText(State(s), <<Say("Qed")>>)
           t == [s EXCEPT !.committed = @ \o qed.kept]
<1>1. ASSUME NEW u, Sound(u), ~ProofOpen(State(u)), Declare(u)
      PROVE  FALSE
  <2>1. session'.file = u.file /\ session'.committed = u.committed /\ session'.loaded = u.loaded
    BY <1>1 DEF Declare, Sound, Session
  <2> QED BY <1>1, <2>1 DEF GoalsAreGone, State, BaseOf
<1>2. CASE ~ProofOpen(State(s)) /\ Declare(s)
  BY <1>1, <1>2
<1>3. CASE qed.done /\ Declare(t)
  <2>1. <<Say("Qed")>> \in Seq(Sentence)
    BY DEF Say, Sentence, Verb, Keyword
  <2>2. Sound(t) /\ State(t) = qed.st /\ ~ProofOpen(qed.st)
    BY <1>3, <2>1, StateType, QedCloses, Extended
  <2> HIDE DEF t, qed
  <2> QED BY <1>1, <1>3, <2>2
<1>4. CASE session' = s /\ ~qed.done
  BY <1>4, StateType, QedAccepted DEF GoalsAreGone, Held
<1> QED BY <1>2, <1>3, <1>4 DEF TryAutoQed

\* A call that leaves no goal finishes the proof, unless a block is still open, the
\* kernel refuses the proof, or Qed itself may run out of time.
THEOREM VictoryIsNeverSilent == Spec => NoSilentVictory
<1> DEFINE Told == HasSession' /\ GoalsAreGone(session') =>
                     \/ UNCHANGED session \/ RolledBack \/ Restarted
                     \/ State(session').ctx # <<>> \/ State(session').phase = "flawed"
                     \/ "qed" \in Mishap
<1>1. ASSUME Inv, [Next]_vars, HasSession', GoalsAreGone(session'), "qed" \notin Mishap
      PROVE  \/ UNCHANGED session \/ RolledBack \/ Restarted
             \/ Held(session')
  <2>1. ASSUME NEW s, Sound(s), NEW text \in Seq(Sentence), Commit(s, text)
        PROVE  Held(session')
    <3> DEFINE t == [s EXCEPT !.committed = @ \o ExecText(State(s), text).kept]
    <3>1. Sound(t) /\ TryAutoQed(t)
      BY <2>1, Extended DEF Commit
    <3> HIDE DEF t
    <3> QED BY <1>1, <3>1, NoGoalUnlessBlocked
  <2>2. CASE FirstCall
    <3>1. PICK g \in GetSession : session' = g.s
      BY <2>2 DEF FirstCall
    <3>2. CASE session = NoSession
      BY <1>1, <3>1, <3>2 DEF GetSession, Fresh, Restarted
    <3> QED BY <2>2, <3>2 DEF FirstCall
  <2>3. CASE \E text \in Text : StepTool(text)
    <3>1. PICK text \in Text : StepTool(text)
      BY <2>3
    <3> QED BY <1>1, <2>1, <3>1, SessionConstants, GetSessionIsSound DEF StepTool
  <2>4. CASE \E n \in 1..MaxScript : RollbackTool(n)
    <3>1. PICK n \in 1..MaxScript : RollbackTool(n)
      BY <2>4
    <3> QED BY <1>1, <3>1, RollbackRolls
  <2>5. CASE \E cands \in Menu : \E slow \in SUBSET DOMAIN cands : TryTool(cands, slow)
    <3>1. PICK cands \in Menu : \E slow \in SUBSET DOMAIN cands : TryTool(cands, slow)
      BY <2>5
    <3>2. PICK slow \in SUBSET DOMAIN cands : TryTool(cands, slow)
      BY <3>1
    <3>3. PICK g \in GetSession, text \in Seq(Sentence) : Commit(g.s, text)
      BY <1>1, <3>2, TryToolCommits
    <3> QED BY <1>1, <2>1, <3>3, GetSessionIsSound
  <2>6. CASE \E slow \in SUBSET (1..Len(BridgePortfolio \o Portfolio)) : AutoCloseTool(slow)
    <3>1. PICK slow : AutoCloseTool(slow)
      BY <2>6
    <3>2. PICK g \in GetSession, text \in Seq(Sentence) : Commit(g.s, text)
      BY <1>1, <3>1, AutoCloseToolCommits
    <3> QED BY <1>1, <2>1, <3>2, GetSessionIsSound
  <2>7. CASE \E text \in Text : CheckTool(text)
    <3>1. PICK text \in Text : CheckTool(text)
      BY <2>7
    <3>2. PICK g \in GetSession : Commit([g.s EXCEPT !.committed = <<>>], text)
      BY <3>1 DEF CheckTool
    <3> QED BY <1>1, <2>1, <3>2, SessionConstants, GetSessionIsSound, EmptiedIsSound
  <2>8. CASE \E f \in File : OpenTool(f)
    BY <1>1, <2>8 DEF OpenTool, Restarted, Fresh
  <2>9. CASE UNCHANGED vars
    BY <2>9 DEF vars
  <2> QED BY <2>2, <2>3, <2>4, <2>5, <2>6, <2>7, <2>8, <2>9, <1>1 DEF Next
<1>2. Inv /\ [Next]_vars => [Told]_vars
  BY <1>1 DEF Held
<1> QED BY <1>2, Invariant, PTL DEF Spec, NoSilentVictory
=============================================================================
