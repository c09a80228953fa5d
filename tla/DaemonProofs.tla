---------------------------- MODULE DaemonProofs ----------------------------
(***************************************************************************)
(* Theorems about the shared-proof daemon, for every set of agents, every  *)
(* prover and every bound.                                                 *)
(*                                                                         *)
(* The argument: a request moves the trunk by committing steps that replay *)
(* from its last snapshot, or not at all, and it moves at most the branch  *)
(* of the agent that asked (TrunkMoves, BranchMoves).  The invariant needs *)
(* no more than that of each action, nor do the action property and the    *)
(* refinement.                                                             *)
(***************************************************************************)
EXTENDS DaemonProperties, ProverProofs

\* What has been committed, and what became of it.  Beyond the properties:
\* nothing committed is a query, and the daemon notices that the proof is closed.
TrunkInv ==
  /\ committed \in Seq(Kept)
  /\ complete \in BOOLEAN
  /\ candidate \in Seq(Sentence) \union {NoFile}
  /\ TrunkReplays
  /\ CandidateIsTheProof
  /\ complete <=> ~ProofOpen(TrunkState)

\* The branch's script and snapshot are steps that replay from a moment of the
\* trunk's history.
Rooted(trunkSteps, b) ==
  \E n \in 0..Len(trunkSteps) : \E steps \in Seq(Kept) :
    LET st == StateAfter(Opening, SubSeq(trunkSteps, 1, n))
    IN  /\ b.script = Texts(steps)
        /\ IsReplay(st, steps)
        /\ b.bstate = StateAfter(st, steps)

\* Beyond the properties: a branch script has its opening sentence, and is rooted.
BranchInv ==
  /\ branches \in [Agent -> Branch \union {NoBranch}]
  /\ claim \in [Agent -> Goal \union {NoGoal}]
  /\ \A a \in Agent : IsOpen(a) => branches[a].script # <<>> /\ Rooted(committed, branches[a])
  /\ OwnershipExclusive

Inv == TrunkInv /\ BranchInv

\* How a request may move the trunk.
TrunkMoves ==
  \/ UNCHANGED trunk
  \/ \E kept \in Seq(Kept) : IsReplay(TrunkState, kept) /\ Commit(kept)

\* What a may hold next: its branch's successor, or a branch on a goal that no
\* other agent's open branch prints like.
MayHold(a, b) ==
  /\ b \in Branch
  /\ b.script # <<>> /\ Rooted(committed, b)
  /\ \/ IsOpen(a) /\ b.concl = branches[a].concl
     \/ \A o \in Agent \ {a} : IsOpen(o) => branches[o].concl # b.concl

BranchMoves(a) ==
  \/ UNCHANGED branches
  \/ branches' = [branches EXCEPT ![a] = NoBranch]
  \/ \E b \in Branch : MayHold(a, b) /\ branches' = [branches EXCEPT ![a] = b]

----
LEMMA TrunkStateType ==
  ASSUME TrunkInv
  PROVE  TrunkState \in Snapshot
BY KeptAreSteps, OpeningIsSnapshot, StateAfterType DEF TrunkInv, TrunkState

----
\* Running a text on the trunk gives it something to commit.
LEMMA RunMovesTrunk ==
  ASSUME TrunkInv, NEW text \in Seq(Sentence), Commit(ExecText(TrunkState, text).kept)
  PROVE  TrunkMoves
BY TrunkStateType, ExecTextReplays DEF TrunkMoves

LEMMA MergeScriptType ==
  ASSUME TrunkInv, NEW b \in Branch, b.script # <<>>
  PROVE  MergeScript(TrunkState, b) \in Seq(Sentence)
<1> DEFINE same == {i \in DOMAIN TrunkState.goals : Concl[TrunkState.goals[i]] = b.concl}
<1>1. MergePosition(TrunkState, b) \in Nat
  <2>1. same \in SUBSET Nat
    BY TrunkStateType DEF Snapshot
  <2>2. CASE same = {}
    BY <2>2 DEF MergePosition, Branch
  <2>3. CASE same # {}
    <3>1. \E i \in same : \A j \in same : i <= j
      BY <2>1, <2>3, LeastExists
    <3>2. (CHOOSE i \in same : \A j \in same : i <= j) \in same
      BY <3>1
    <3> QED BY <2>1, <2>3, <3>2 DEF MergePosition
  <2> QED BY <2>2, <2>3
<1>2. Tail(b.script) \in Seq(Sentence)
  BY DEF Branch
<1>3. <<Block(MergePosition(TrunkState, b))>> \in Seq(Sentence)
  BY <1>1, BlockSentences
<1> QED BY <1>2, <1>3 DEF MergeScript

LEMMA MergeMoves ==
  ASSUME Inv, NEW a \in Agent, NEW b, MayHold(a, b), Merge(a, b)
  PROVE  TrunkMoves /\ BranchMoves(a)
<1> DEFINE r == ExecText(TrunkState, MergeScript(TrunkState, b))
<1>1. TrunkInv /\ b \in Branch /\ b.script # <<>>
  BY DEF Inv, MayHold
<1>2. CASE branches' = [branches EXCEPT ![a] = NoBranch] /\ Commit(r.kept)
  BY <1>1, <1>2, MergeScriptType, RunMovesTrunk DEF BranchMoves
<1>3. CASE branches' = [branches EXCEPT ![a] = b] /\ UNCHANGED trunk
  BY <1>1, <1>3 DEF TrunkMoves, BranchMoves
<1>4. CASE branches' = [branches EXCEPT ![a] = [b EXCEPT !.closed = TRUE]] /\ UNCHANGED trunk
  <2>1. MayHold(a, [b EXCEPT !.closed = TRUE])
    <3>1. Rooted(committed, [b EXCEPT !.closed = TRUE])
      BY <1>1 DEF MayHold, Rooted, Branch
    <3> QED BY <1>1, <3>1 DEF MayHold, Branch
  <2>2. [b EXCEPT !.closed = TRUE] \in Branch
    BY <2>1 DEF MayHold
  <2> QED BY <1>4, <2>1, <2>2 DEF TrunkMoves, BranchMoves
<1> QED BY <1>2, <1>3, <1>4 DEF Merge

\* A branch that goes on from its snapshot stays rooted.
LEMMA RootedGoesOn ==
  ASSUME TrunkInv, NEW b \in Branch, Rooted(committed, b), NEW kept \in Seq(Kept), IsReplay(b.bstate, kept),
         NEW c, c.script = b.script \o Texts(kept), c.bstate = StateAfter(b.bstate, kept)
  PROVE  Rooted(committed, c)
<1>1. PICK n \in 0..Len(committed), steps \in Seq(Kept) :
        /\ b.script = Texts(steps)
        /\ IsReplay(StateAfter(Opening, SubSeq(committed, 1, n)), steps)
        /\ b.bstate = StateAfter(StateAfter(Opening, SubSeq(committed, 1, n)), steps)
  BY DEF Rooted
<1> DEFINE st == StateAfter(Opening, SubSeq(committed, 1, n))
<1> HIDE DEF st
<1>2. steps \o kept \in Seq(Kept)
  BY <1>1
<1>3. Texts(steps \o kept) = Texts(steps) \o Texts(kept)
  BY <1>1, TextsConcat, KeptAreSteps
<1>4. IsReplay(st, steps \o kept)
  BY <1>1, KeptAreSteps, ReplayConcat DEF st
<1>5. StateAfter(st, steps \o kept) = StateAfter(b.bstate, kept)
  BY <1>1, KeptAreSteps, StateAfterConcat DEF st
<1> QED BY <1>1, <1>2, <1>3, <1>4, <1>5 DEF Rooted, st

LEMMA FinishMoves ==
  ASSUME Inv, NEW a \in Agent, NEW b, MayHold(a, b), FinishBranchIfClosed(a, b)
  PROVE  TrunkMoves /\ BranchMoves(a)
<1> DEFINE post == Exec(b.bstate, EndBlock)
           past == [b EXCEPT !.script = Append(@, EndBlock), !.bstate = post]
<1>1. b \in Branch
  BY DEF MayHold
<1>2. CASE branches' = [branches EXCEPT ![a] = b] /\ UNCHANGED trunk
  BY <1>1, <1>2 DEF TrunkMoves, BranchMoves
<1>3. CASE post # Stuck /\ Merge(a, past)
  <2>1. post \in Snapshot
    BY <1>1, <1>3, ExecType, BlockSentences DEF Branch
  <2>2. Append(b.script, EndBlock) \in Seq(Sentence) /\ Append(b.script, EndBlock) # <<>>
    BY <1>1, BlockSentences DEF Branch
  <2>3. past \in Branch /\ past.script # <<>> /\ past.concl = b.concl
    BY <1>1, <2>1, <2>2 DEF Branch
  <2>4. MayHold(a, past)
    <3> DEFINE one == <<[text |-> EndBlock, post |-> post]>>
    <3>1. ~IsQuery(EndBlock) /\ b.bstate \in Snapshot /\ EndBlock \in Sentence
      BY <1>1, BlockSentences DEF IsQuery, EndBlock, Say, Branch
    <3>2. one \in Seq(Kept) /\ IsReplay(b.bstate, one) /\ StateAfter(b.bstate, one) = post
          /\ Texts(one) = <<EndBlock>>
      <4> HIDE DEF past
      <4> QED BY <1>3, <3>1, OneStep
    <3>3. past.script = b.script \o Texts(one) /\ past.bstate = StateAfter(b.bstate, one)
      <4>1. Append(b.script, EndBlock) = b.script \o <<EndBlock>>
        BY <1>1 DEF Branch
      <4> HIDE DEF one, post
      <4> QED BY <1>1, <3>2, <4>1 DEF Branch
    <3>4. Rooted(committed, past)
      <4> HIDE DEF past, one
      <4> QED BY <1>1, <3>2, <3>3, RootedGoesOn DEF MayHold, Inv
    <3> QED BY <2>3, <3>4 DEF MayHold
  <2> HIDE DEF past
  <2> QED BY <1>3, <2>4, MergeMoves
<1> QED BY <1>2, <1>3 DEF FinishBranchIfClosed

LEMMA StepBranchMoves ==
  ASSUME Inv, NEW a \in Agent, NEW sentences \in Seq(Sentence), StepBranch(a, sentences)
  PROVE  TrunkMoves /\ BranchMoves(a)
<1> DEFINE b    == branches[a]
           r    == ExecText(b.bstate, sentences)
           next == [b EXCEPT !.script = @ \o Texts(r.kept), !.bstate = StateAfter(@, r.kept)]
<1>1. IsOpen(a) /\ b \in Branch /\ b.script # <<>>
  BY DEF Inv, BranchInv, StepBranch, IsOpen
<1>2. b.bstate \in Snapshot /\ b.script \in Seq(Sentence)
  BY <1>1 DEF Branch
<1>3. r.kept \in Seq(Step)
  BY <1>2, ExecTextReplays, KeptAreSteps
<1>4. StateAfter(b.bstate, r.kept) \in Snapshot /\ Texts(r.kept) \in Seq(Sentence)
  BY <1>2, <1>3, StateAfterType, TextsType
<1>5. b.script \o Texts(r.kept) \in Seq(Sentence) /\ b.script \o Texts(r.kept) # <<>>
  BY <1>1, <1>2, <1>4
<1>6. next \in Branch /\ next.script # <<>> /\ next.concl = b.concl
  <2> HIDE DEF r
  <2> QED BY <1>1, <1>4, <1>5 DEF Branch
<1>7. MayHold(a, next)
  <2>1. r.kept \in Seq(Kept) /\ IsReplay(b.bstate, r.kept)
    BY <1>2, ExecTextReplays
  <2>2. next.script = b.script \o Texts(r.kept) /\ next.bstate = StateAfter(b.bstate, r.kept)
    BY <1>1 DEF Branch
  <2>3. Rooted(committed, next)
    <3>1. TrunkInv /\ Rooted(committed, b)
      BY <1>1 DEF Inv, BranchInv
    <3> HIDE DEF next, r
    <3> QED BY <1>1, <2>1, <2>2, <3>1, RootedGoesOn
  <2> QED BY <1>1, <1>6, <2>3 DEF MayHold
<1>8. \/ FinishBranchIfClosed(a, next)
      \/ branches' = [branches EXCEPT ![a] = next] /\ UNCHANGED trunk
  BY DEF StepBranch
<1> HIDE DEF next
<1> QED BY <1>6, <1>7, <1>8, FinishMoves DEF TrunkMoves, BranchMoves

LEMMA OpStepMoves ==
  ASSUME Inv, NEW a \in Agent, NEW text \in [line : Seq(Sentence), rest : Seq(Sentence)],
         OpStep(a, text)
  PROVE  ~complete /\ TrunkMoves /\ BranchMoves(a) /\ UNCHANGED claim
<1> DEFINE sentences == text.line \o text.rest
<1>1. sentences \in Seq(Sentence) /\ ~complete
  BY DEF OpStep
<1>2. CASE StepTrunk(a, sentences)
  BY <1>1, <1>2, RunMovesTrunk DEF StepTrunk, BranchMoves, Inv
<1>3. CASE StepBranch(a, sentences)
  BY <1>1, <1>3, StepBranchMoves DEF StepBranch
<1> QED BY <1>1, <1>2, <1>3 DEF OpStep

LEMMA AutoCloseMoves ==
  ASSUME Inv, NEW a \in Agent, NEW slow, AutoClose(a, slow)
  PROVE  ~complete /\ TrunkMoves /\ BranchMoves(a) /\ UNCHANGED claim
<1> DEFINE wins == {i \in DOMAIN Portfolio \ slow : Finishes(AgentState(a), Portfolio[i])}
           winner == CHOOSE i \in wins : \A j \in wins : i <= j
           text == [line |-> Portfolio[winner], rest |-> <<>>]
<1>1. wins # {} /\ wins \in SUBSET Nat /\ wins \subseteq DOMAIN Portfolio /\ OpStep(a, text)
  BY DaemonConstants DEF AutoClose
<1>2. winner \in wins
  <2> HIDE DEF wins
  <2> QED BY <1>1, LeastExists
<1>3. Portfolio[winner] \in Seq(Sentence)
  <2> HIDE DEF wins, winner
  <2> QED BY <1>1, <1>2, DaemonConstants
<1>4. text \in [line : Seq(Sentence), rest : Seq(Sentence)]
  BY <1>3
<1> HIDE DEF text
<1> QED BY <1>1, <1>4, OpStepMoves

LEMMA FocusMoves ==
  ASSUME Inv, NEW a \in Agent, NEW k \in Nat, Focus(a, k)
  PROVE  /\ ~complete /\ TrunkMoves /\ BranchMoves(a)
         /\ claim' \in [Agent -> Goal \union {NoGoal}]
<1> DEFINE st == TrunkState
           inside == Exec(st, Block(k))
           b == [goal_id |-> k, concl |-> ConclAt(st, k), script |-> <<Block(k)>>,
                 bstate |-> inside, closed |-> FALSE]
<1>1. ~complete /\ TrunkMoves
  BY DEF Focus, TrunkMoves
<1>2. CASE FocusFailed(a, k)
  BY <1>1, <1>2 DEF FocusFailed, BranchMoves, Inv, BranchInv
<1>3. CASE FocusGranted(a, k)
  <2>1. st \in Snapshot /\ Block(k) \in Sentence
    BY TrunkStateType, BlockSentences DEF Inv
  <2>2. inside \in Snapshot /\ inside # Stuck
    BY <1>3, <2>1, ExecType DEF FocusGranted
  <2>3. k \in DOMAIN st.goals
    <3>1. Block(k).verb = "{" /\ Block(k).sel = k /\ "{" \notin Tactic
      BY ProverConstants DEF Block, Keyword
    <3>2. inside \in {OpenBlock(st, k), Stuck}
      BY <3>1 DEF Exec, IsQuery, ProofOpen
    <3> QED BY <2>2, <3>2 DEF OpenBlock
  <2>4. st.goals[k] \in Goal
    BY <2>1, <2>3 DEF Snapshot
  <2>5. ConclAt(st, k) \in Digest /\ ConclAt(st, k) # NoDigest
    BY <2>3, <2>4, ProverConstants DEF ConclAt
  <2>6. b \in Branch /\ b.script # <<>> /\ b.concl = ConclAt(st, k)
    <3>1. <<Block(k)>> \in Seq(Sentence)
      BY <2>1
    <3> HIDE DEF inside, st
    <3> QED BY <2>2, <2>5, <3>1 DEF Branch
  <2>7. \A o \in Agent \ {a} : IsOpen(o) => branches[o].concl # ConclAt(st, k)
    BY <2>5 DEF Focus, OwnedByOther
  <2>8. MayHold(a, b)
    <3> DEFINE one == <<[text |-> Block(k), post |-> inside]>>
               n == Len(committed)
    <3>1. one \in Seq(Kept) /\ IsReplay(st, one) /\ StateAfter(st, one) = inside
          /\ Texts(one) = <<Block(k)>>
      <4>1. ~IsQuery(Block(k))
        BY DEF IsQuery, Block
      <4> QED BY <2>1, <2>2, <4>1, OneStep
    <3>2. n \in 0..Len(committed) /\ SubSeq(committed, 1, n) = committed
      BY DEF Inv, TrunkInv
    <3>3. b.script = Texts(one) /\ b.bstate = StateAfter(st, one)
      BY <3>1
    <3>4. Rooted(committed, b)
      <4> HIDE DEF b, one, n
      <4> QED BY <3>1, <3>2, <3>3 DEF Rooted, TrunkState
    <3> QED BY <2>6, <2>7, <3>4 DEF MayHold
  <2>9. branches' = [branches EXCEPT ![a] = b] /\ claim' = [claim EXCEPT ![a] = st.goals[k]]
    BY <1>3 DEF FocusGranted
  <2> HIDE DEF b
  <2> QED BY <1>1, <2>4, <2>6, <2>8, <2>9 DEF BranchMoves, Inv, BranchInv
<1> QED BY <1>1, <1>2, <1>3 DEF Focus

\* Every request, in one statement.
LEMMA NextMoves ==
  ASSUME Inv, Next
  PROVE  /\ ~complete /\ TrunkMoves
         /\ \E a \in Agent : BranchMoves(a)
         /\ claim' \in [Agent -> Goal \union {NoGoal}]
<1> SUFFICES ASSUME NEW a \in Agent,
                    \/ \E k \in 0..MaxGoalId : Focus(a, k)
                    \/ \E text \in Text : OpStep(a, text)
                    \/ \E slow \in SUBSET DOMAIN Portfolio : AutoClose(a, slow)
             PROVE  /\ ~complete /\ TrunkMoves /\ BranchMoves(a)
                    /\ claim' \in [Agent -> Goal \union {NoGoal}]
  BY DEF Next
<1>0. claim \in [Agent -> Goal \union {NoGoal}]
  BY DEF Inv, BranchInv
<1>1. CASE \E k \in 0..MaxGoalId : Focus(a, k)
  BY <1>1, FocusMoves, DaemonConstants
<1>2. CASE \E text \in Text : OpStep(a, text)
  BY <1>0, <1>2, OpStepMoves, DaemonConstants
<1>3. CASE \E slow \in SUBSET DOMAIN Portfolio : AutoClose(a, slow)
  BY <1>0, <1>3, AutoCloseMoves
<1> QED BY <1>1, <1>2, <1>3

----
LEMMA InitInv ==
  ASSUME Init
  PROVE  Inv
<1>1. TrunkState = Opening /\ ProofOpen(TrunkState)
  BY DEF Init, TrunkState, StateAfter, Opening, Stated, ProofOpen
<1>2. TrunkInv
  <2>1. committed \in Seq(Kept) /\ TrunkReplays
    BY DEF Init, TrunkReplays, IsReplay
  <2>2. CandidateIsTheProof
    BY DEF Init, CandidateIsTheProof
  <2> QED BY <1>1, <2>1, <2>2 DEF Init, TrunkInv
<1>3. BranchInv
  BY DEF Init, BranchInv, IsOpen, OwnershipExclusive
<1> QED BY <1>2, <1>3 DEF Inv

LEMMA TrunkMovesInv ==
  ASSUME TrunkInv, ~complete, TrunkMoves
  PROVE  TrunkInv'
<1>1. CASE UNCHANGED trunk
  BY <1>1 DEF trunk, TrunkInv, TrunkReplays, CandidateIsTheProof, TrunkState
<1>2. ASSUME NEW kept \in Seq(Kept), IsReplay(TrunkState, kept), Commit(kept)
      PROVE  TrunkInv'
  <2> DEFINE all == committed \o kept
  <2>1. committed \in Seq(Kept) /\ all \in Seq(Kept) /\ committed' = all
    BY <1>2 DEF TrunkInv, Commit
  <2>2. IsReplay(Opening, all)
    BY <1>2, <2>1, KeptAreSteps, ReplayConcat DEF TrunkInv, TrunkReplays, TrunkState
  <2>3. TrunkState' = StateAfter(Opening, all)
    BY <2>1 DEF TrunkState
  <2>4. CASE all = <<>>
    <3>1. StateAfter(Opening, all) = Opening /\ ProofOpen(Opening) /\ committed = <<>>
      BY <2>1, <2>4 DEF StateAfter, Opening, Stated, ProofOpen
    <3> QED BY <1>2, <2>1, <2>2, <2>3, <2>4, <3>1
        DEF TrunkInv, TrunkReplays, CandidateIsTheProof, Commit
  <2>5. CASE all # <<>> /\ ProofOpen(StateAfter(Opening, all))
    <3> HIDE DEF all
    <3>1. UNCHANGED <<complete, candidate>>
      BY <1>2, <2>5 DEF Commit, all
    <3> QED BY <2>1, <2>2, <2>3, <2>5, <3>1 DEF TrunkInv, TrunkReplays, CandidateIsTheProof
  <2>6. CASE all # <<>> /\ ~ProofOpen(StateAfter(Opening, all))
    <3> HIDE DEF all
    <3>1. complete' = TRUE /\ candidate' = Texts(all)
      BY <1>2, <2>6 DEF Commit, all
    <3>2. Texts(all) \in Seq(Sentence) /\ Texts(all) # NoFile
      BY <2>1, KeptAreSteps, TextsType, DaemonConstants
    <3> QED BY <2>1, <2>2, <2>3, <2>6, <3>1, <3>2 DEF TrunkInv, TrunkReplays, CandidateIsTheProof
  <2> QED BY <2>4, <2>5, <2>6
<1> QED BY <1>1, <1>2 DEF TrunkMoves

\* The trunk's history is never rewritten, so what is rooted in it stays so.
LEMMA RootedStays ==
  ASSUME NEW log \in Seq(Kept), NEW more \in Seq(Kept), NEW b, Rooted(log, b)
  PROVE  Rooted(log \o more, b)
<1>1. PICK n \in 0..Len(log), steps \in Seq(Kept) :
        LET st == StateAfter(Opening, SubSeq(log, 1, n))
        IN  b.script = Texts(steps) /\ IsReplay(st, steps) /\ b.bstate = StateAfter(st, steps)
  BY DEF Rooted
<1>2. n \in 0..Len(log \o more) /\ SubSeq(log \o more, 1, n) = SubSeq(log, 1, n)
  OBVIOUS
<1> QED BY <1>1, <1>2 DEF Rooted

LEMMA TrunkMovesOn ==
  ASSUME TrunkInv, TrunkMoves
  PROVE  \E more \in Seq(Kept) : committed' = committed \o more
<1>1. CASE UNCHANGED trunk
  <2>1. <<>> \in Seq(Kept) /\ committed' = committed \o <<>>
    BY <1>1 DEF trunk, TrunkInv
  <2> QED BY <2>1
<1>2. CASE ~UNCHANGED trunk
  BY <1>2 DEF TrunkMoves, Commit
<1> QED BY <1>1, <1>2

LEMMA BranchMovesInv ==
  ASSUME Inv, TrunkMoves, NEW a \in Agent, BranchMoves(a),
         claim' \in [Agent -> Goal \union {NoGoal}]
  PROVE  BranchInv'
<1>0. \A b : Rooted(committed, b) => Rooted(committed', b)
  BY TrunkMovesOn, RootedStays DEF Inv, TrunkInv
<1>1. CASE UNCHANGED branches
  BY <1>0, <1>1 DEF Inv, BranchInv, IsOpen, OwnershipExclusive
<1>2. CASE branches' = [branches EXCEPT ![a] = NoBranch]
  BY <1>0, <1>2 DEF Inv, BranchInv, IsOpen, OwnershipExclusive
<1>3. ASSUME NEW b \in Branch, MayHold(a, b), branches' = [branches EXCEPT ![a] = b]
      PROVE  BranchInv'
  <2>1. branches' \in [Agent -> Branch \union {NoBranch}] /\ branches'[a] = b
    BY <1>3 DEF Inv, BranchInv
  <2>2. \A o \in Agent \ {a} : branches'[o] = branches[o]
    BY <1>3 DEF Inv, BranchInv
  <2>3. \A o \in Agent \ {a} : IsOpen(o) => branches[o].concl # b.concl
    BY <1>3 DEF Inv, BranchInv, MayHold, OwnershipExclusive
  <2>4. b.script # <<>> /\ Rooted(committed, b)
    BY <1>3 DEF MayHold
  <2>5. \A o \in Agent : IsOpen(o)' => branches'[o].script # <<>> /\ Rooted(committed', branches'[o])
    BY <1>0, <2>1, <2>2, <2>4 DEF Inv, BranchInv, IsOpen
  <2>6. OwnershipExclusive'
    BY <2>1, <2>2, <2>3 DEF Inv, BranchInv, IsOpen, OwnershipExclusive
  <2> QED BY <2>1, <2>5, <2>6 DEF BranchInv
<1> QED BY <1>1, <1>2, <1>3 DEF BranchMoves

LEMMA StepInv ==
  ASSUME Inv, [Next]_vars
  PROVE  Inv'
<1>1. CASE Next
  BY <1>1, NextMoves, TrunkMovesInv, BranchMovesInv DEF Inv
<1>2. CASE UNCHANGED vars
  <2>1. TrunkInv'
    BY <1>2 DEF vars, Inv, TrunkInv, TrunkReplays, CandidateIsTheProof, TrunkState
  <2>2. BranchInv'
    BY <1>2 DEF vars, Inv, BranchInv, IsOpen, OwnershipExclusive
  <2> QED BY <2>1, <2>2 DEF Inv
<1> QED BY <1>1, <1>2

LEMMA Invariant == Spec => []Inv
BY InitInv, StepInv, PTL DEF Spec

----
\* Every variable keeps the type the code gives it.
THEOREM TypeCorrect == Spec => []TypeOK
<1>1. Inv => TypeOK
  BY KeptAreSteps DEF Inv, TrunkInv, BranchInv, TypeOK
<1> QED BY <1>1, Invariant, PTL

\* The trunk, which candidate.v is written from, replays at every moment.
THEOREM TrunkAlwaysReplays == Spec => []TrunkReplays
<1>1. Inv => TrunkReplays
  BY DEF Inv, TrunkInv
<1> QED BY <1>1, Invariant, PTL

\* candidate.v is there when the proof is complete, and is the proof.
THEOREM CandidateCorrect == Spec => []CandidateIsTheProof
<1>1. Inv => CandidateIsTheProof
  BY DEF Inv, TrunkInv
<1> QED BY <1>1, Invariant, PTL

\* No two agents work on goals that print alike.
THEOREM OwnershipIsExclusive == Spec => []OwnershipExclusive
<1>1. Inv => OwnershipExclusive
  BY DEF Inv, BranchInv
<1> QED BY <1>1, Invariant, PTL

\* Every open branch's script still yields its snapshot from some moment of the
\* trunk's history.
THEOREM BranchesReplay == Spec => []BranchReplays
<1>1. ASSUME Inv, NEW a \in Agent, IsOpen(a)
      PROVE  \E n \in 0..Len(committed) :
               LET r == ExecText(StateAfter(Opening, SubSeq(committed, 1, n)), branches[a].script)
               IN  r.done /\ r.st = branches[a].bstate
  <2>1. PICK n \in 0..Len(committed), steps \in Seq(Kept) :
          LET st == StateAfter(Opening, SubSeq(committed, 1, n))
          IN  /\ branches[a].script = Texts(steps)
              /\ IsReplay(st, steps)
              /\ branches[a].bstate = StateAfter(st, steps)
    BY <1>1 DEF Inv, BranchInv, Rooted
  <2> DEFINE st == StateAfter(Opening, SubSeq(committed, 1, n))
  <2>2. ExecText(st, Texts(steps)) = [st |-> StateAfter(st, steps), kept |-> steps, done |-> TRUE]
    <3> HIDE DEF st
    <3> QED BY <2>1, ReplayRuns DEF st
  <2> QED BY <2>1, <2>2
<1>2. Inv => BranchReplays
  BY <1>1 DEF BranchReplays
<1> QED BY <1>2, Invariant, PTL

\* The trunk only grows, and stands still once the proof is complete.
THEOREM TrunkIsAppendOnly == Spec => TrunkOnlyGrows
<1> DEFINE A == IsPrefix(committed, committed') /\ (complete => UNCHANGED vars)
<1>1. ASSUME Inv, [Next]_vars PROVE [A]_vars
  <2>1. ASSUME Next PROVE A
    <3>1. ~complete /\ TrunkMoves
      BY <1>1, <2>1, NextMoves
    <3>2. committed \in Seq(Kept)
      BY <1>1 DEF Inv, TrunkInv
    <3>3. \E more \in Seq(Kept) : committed' = committed \o more
      BY <1>1, <3>1, TrunkMovesOn DEF Inv
    <3>4. IsPrefix(committed, committed')
      BY <3>2, <3>3 DEF IsPrefix
    <3> QED BY <3>1, <3>4
  <2> QED BY <1>1, <2>1
<1> QED BY <1>1, Invariant, PTL DEF Spec, TrunkOnlyGrows

----
\* The abstract specification runs texts as the daemon does.
LEMMA LogRunsTexts ==
  ASSUME NEW st, NEW text
  PROVE  Log!ExecText(st, text) = ExecText(st, text)
BY DEF ExecText, Log!ExecText, ExecNext, Log!ExecNext, Exec, Log!Exec, IsQuery, Log!IsQuery, ProofOpen, Log!ProofOpen, Apply, Log!Apply, OpenBlock, Log!OpenBlock, CloseBlock, Log!CloseBlock, Solved, Log!Solved, Ended, Log!Ended, Stated, Log!Stated, Stuck, Log!Stuck, Before, Log!Before, Behind, Log!Behind

\* Seen through its committed sentences, the daemon is one growing script that
\* the prover accepts from the theorem's statement at every moment.
THEOREM DaemonImplementsProofLog == Spec => ImplementsProofLog
<1>1. Init => Log!LogInit
  BY DEF Init, Log!LogInit, Texts
<1>2. ASSUME Inv, [Next]_vars PROVE [Log!Extend]_(Log!logVars)
  <2>1. CASE UNCHANGED trunk
    BY <2>1 DEF trunk, Log!logVars
  <2>2. ASSUME NEW kept \in Seq(Kept), IsReplay(TrunkState, kept), Commit(kept), ~complete
        PROVE  [Log!Extend]_(Log!logVars)
    <3> DEFINE all == committed \o kept
    <3>1. committed \in Seq(Kept) /\ all \in Seq(Kept) /\ committed' = all
      BY <1>2, <2>2 DEF Inv, TrunkInv, Commit
    <3>2. IsReplay(Opening, all)
      BY <1>2, <2>2, <3>1, KeptAreSteps, ReplayConcat DEF Inv, TrunkInv, TrunkReplays, TrunkState
    <3>3. ExecText(Opening, Texts(all))
            = [st |-> StateAfter(Opening, all), kept |-> all, done |-> TRUE]
      <4> HIDE DEF all
      <4> QED BY <3>1, <3>2, ReplayRuns
    <3>4. Log!ExecText(Log!Opening, Texts(all)) = ExecText(Opening, Texts(all))
      BY LogRunsTexts DEF Log!Opening, Log!Stated, Opening, Stated
    <3>5. TrunkState = StateAfter(Opening, committed) /\ ProofOpen(TrunkState)
      BY <1>2, <2>2 DEF Inv, TrunkInv, TrunkState
    <3>6. CASE kept = <<>>
      <4>1. all = committed
        BY <3>1, <3>6
      <4> HIDE DEF all
      <4>2. UNCHANGED <<committed, complete, candidate>>
        BY <2>2, <3>1, <3>5, <4>1 DEF Commit, all
      <4> QED BY <4>2 DEF Log!logVars
    <3>7. CASE kept # <<>>
      <4>1. IsPrefix(Texts(committed), Texts(all)) /\ Texts(all) # Texts(committed) /\ all # <<>>
        BY <3>1, <3>7 DEF IsPrefix, Texts
      <4>2. /\ complete' = ~ProofOpen(StateAfter(Opening, all))
            /\ candidate' = IF complete' THEN Texts(all) ELSE candidate
        <5> HIDE DEF all
        <5> QED BY <1>2, <2>2, <4>1 DEF Commit, all, Inv, TrunkInv
      <4>3. Log!Extend
        <5>1. Texts(committed)' = Texts(all)
          BY <3>1 DEF Texts
        <5>2. Log!IsPrefix(Texts(committed), Texts(all))
          BY <4>1 DEF IsPrefix, Log!IsPrefix
        <5>3. Log!ExecText(Log!Opening, Texts(all)).done
              /\ Log!ExecText(Log!Opening, Texts(all)).st = StateAfter(Opening, all)
          <6> HIDE DEF all
          <6> QED BY <3>3, <3>4
        <5> HIDE DEF all
        <5> QED BY <2>2, <4>1, <4>2, <5>1, <5>2, <5>3 DEF Log!Extend, Log!ProofOpen, ProofOpen
      <4> QED BY <4>3
    <3> QED BY <3>6, <3>7
  <2> QED BY <1>2, <2>1, <2>2, NextMoves DEF TrunkMoves, vars, trunk
<1> QED BY <1>1, <1>2, Invariant, PTL DEF Spec, ImplementsProofLog, Log!LogSpec
----
(***************************************************************************)
(* Merges.  Two things can defeat a merge that should go through, and the  *)
(* theorems below exclude both, as the runs' values do: agents that open   *)
(* and close blocks of their own, and two goals that print alike.          *)
(***************************************************************************)
BlocksLeftToDaemon ==
  /\ Text \subseteq [line : Seq(Plain), rest : Seq(Plain)]
  /\ Portfolio \in Seq(Seq(Plain))

GoalsPrintApart == \A g, h \in Goal : Concl[g] = Concl[h] => g = h

\* An open branch is at work on the goal g, inside the one block it opened, with
\* a script that shows how it got there; or it left that block (a merge that
\* failed, an Abort) and can never merge.
AtWorkOn(b, g) ==
  /\ g \in Goal /\ b.concl = Concl[g]
  /\ \E k \in Nat, f \in Frame, steps \in Seq(Kept) : \E base \in InBlock(g, f) :
       /\ b.script = <<Block(k)>> \o Texts(steps)
       /\ IsReplay(base, steps) /\ StayIn(f, steps)
       /\ b.bstate = StateAfter(base, steps)

Spent(b) == b.bstate.ctx = <<>>

MergeInv ==
  /\ TrunkState.ctx = <<>>
  /\ \A a \in Agent : IsOpen(a) => Spent(branches[a]) \/ AtWorkOn(branches[a], claim[a])

\* The requests, when agents leave blocks to the daemon.
LEMMA PlainRequests ==
  ASSUME BlocksLeftToDaemon, Next
  PROVE  \E a \in Agent :
           /\ ~complete
           /\ \/ \E k \in Nat : Focus(a, k)
              \/ \E sentences \in Seq(Plain) : StepTrunk(a, sentences) \/ StepBranch(a, sentences)
<1>1. ASSUME NEW a \in Agent, NEW text \in [line : Seq(Plain), rest : Seq(Plain)], OpStep(a, text)
      PROVE  /\ ~complete
             /\ \E sentences \in Seq(Plain) : StepTrunk(a, sentences) \/ StepBranch(a, sentences)
  <2>1. text.line \o text.rest \in Seq(Plain)
    OBVIOUS
  <2> QED BY <1>1, <2>1 DEF OpStep
<1>2. CASE \E a \in Agent, k \in 0..MaxGoalId : Focus(a, k)
  BY <1>2, DaemonConstants DEF Focus
<1>3. CASE \E a \in Agent, text \in Text : OpStep(a, text)
  BY <1>1, <1>3 DEF BlocksLeftToDaemon
<1>4. ASSUME NEW a \in Agent, NEW slow, AutoClose(a, slow)
      PROVE  /\ ~complete
             /\ \E sentences \in Seq(Plain) : StepTrunk(a, sentences) \/ StepBranch(a, sentences)
  <2> DEFINE wins == {i \in DOMAIN Portfolio \ slow : Finishes(AgentState(a), Portfolio[i])}
             winner == CHOOSE i \in wins : \A j \in wins : i <= j
             text == [line |-> Portfolio[winner], rest |-> <<>>]
  <2>1. wins # {} /\ wins \in SUBSET Nat /\ wins \subseteq DOMAIN Portfolio /\ OpStep(a, text)
    BY <1>4, DaemonConstants DEF AutoClose
  <2>2. winner \in wins
    <3> HIDE DEF wins
    <3> QED BY <2>1, LeastExists
  <2>3. Portfolio[winner] \in Seq(Plain)
    <3> HIDE DEF wins, winner
    <3> QED BY <2>1, <2>2 DEF BlocksLeftToDaemon
  <2>4. text \in [line : Seq(Plain), rest : Seq(Plain)]
    BY <2>3
  <2> HIDE DEF text
  <2> QED BY <1>1, <2>1, <2>4
<1> QED BY <1>2, <1>3, <1>4 DEF Next

LEMMA CommitState ==
  ASSUME TrunkInv, NEW kept \in Seq(Kept), Commit(kept)
  PROVE  committed' = committed \o kept /\ TrunkState' = StateAfter(TrunkState, kept)
<1>1. committed \in Seq(Step) /\ kept \in Seq(Step) /\ committed' = committed \o kept
  BY KeptAreSteps DEF TrunkInv, Commit
<1>2. StateAfter(Opening, committed \o kept) = StateAfter(StateAfter(Opening, committed), kept)
  BY <1>1, StateAfterConcat
<1> QED BY <1>1, <1>2 DEF TrunkState

----
\* A branch after a plain text.
LEMMA BranchGoesOn ==
  ASSUME NEW b \in Branch, NEW g, Spent(b) \/ AtWorkOn(b, g), NEW sentences \in Seq(Plain),
         NEW c \in Branch, c.concl = b.concl,
         c.script = b.script \o Texts(ExecText(b.bstate, sentences).kept),
         c.bstate = StateAfter(b.bstate, ExecText(b.bstate, sentences).kept)
  PROVE  Spent(c) \/ AtWorkOn(c, g)
<1> DEFINE r == ExecText(b.bstate, sentences)
<1>1. b.bstate \in Snapshot /\ sentences \in Seq(Sentence)
  <2>1. Plain \subseteq Sentence
    BY DEF Plain
  <2> QED BY <2>1 DEF Branch
<1>2. r.kept \in Seq(Kept) /\ r.st = StateAfter(b.bstate, r.kept) /\ IsReplay(b.bstate, r.kept)
  BY <1>1, ExecTextReplays
<1> HIDE DEF r
<1>3. c.bstate = r.st /\ c.script = b.script \o Texts(r.kept)
  BY <1>2 DEF r
<1>4. CASE Spent(b)
  BY <1>1, <1>3, <1>4, PlainTextOutside DEF Spent, r
<1>5. CASE AtWorkOn(b, g)
  <2>1. g \in Goal /\ b.concl = Concl[g]
    BY <1>5 DEF AtWorkOn
  <2>2. PICK k, f, steps, base :
          /\ k \in Nat /\ f \in Frame /\ steps \in Seq(Kept)
          /\ base \in InBlock(g, f)
          /\ b.script = <<Block(k)>> \o Texts(steps)
          /\ IsReplay(base, steps) /\ StayIn(f, steps)
          /\ b.bstate = StateAfter(base, steps)
    BY <1>5 DEF AtWorkOn
  <2>3. ProofOpen(b.bstate) /\ b.bstate.ctx = <<f>>
    BY <2>1, <2>2, StateAfterStays
  <2>4. CASE r.st.ctx = <<>>
    BY <1>3, <2>4 DEF Spent
  <2>5. CASE StayIn(f, r.kept)
    <3> DEFINE all == steps \o r.kept
    <3>1. all \in Seq(Kept) /\ steps \in Seq(Step) /\ r.kept \in Seq(Step)
      BY <1>2, <2>2, KeptAreSteps
    <3>2. IsReplay(base, all) /\ StateAfter(base, all) = c.bstate
      BY <1>2, <1>3, <2>2, <3>1, ReplayConcat, StateAfterConcat
    <3>3. StayIn(f, all)
      <4>1. ASSUME NEW i \in DOMAIN all
            PROVE  \/ i \in DOMAIN steps /\ all[i] = steps[i]
                   \/ i - Len(steps) \in DOMAIN r.kept /\ all[i] = r.kept[i - Len(steps)]
        BY <3>1
      <4> HIDE DEF all
      <4> QED BY <2>2, <2>5, <4>1 DEF StayIn
    <3>4. c.script = <<Block(k)>> \o Texts(all)
      <4>1. Texts(all) = Texts(steps) \o Texts(r.kept)
        BY <3>1, TextsConcat
      <4>2. Texts(steps) \in Seq(Sentence) /\ Texts(r.kept) \in Seq(Sentence)
            /\ <<Block(k)>> \in Seq(Sentence)
        BY <2>2, <3>1, TextsType, BlockSentences
      <4>3. ASSUME NEW x \in Seq(Sentence), NEW y \in Seq(Sentence), NEW z \in Seq(Sentence)
            PROVE  (x \o y) \o z = x \o (y \o z)
        OBVIOUS
      <4> HIDE DEF all
      <4> QED BY <1>3, <2>2, <4>1, <4>2, <4>3
    <3> HIDE DEF all
    <3>5. c.concl = Concl[g]
      BY <2>1
    <3> QED BY <2>1, <2>2, <3>1, <3>2, <3>3, <3>4, <3>5 DEF AtWorkOn
  <2>6. r.st.ctx = <<>> \/ StayIn(f, r.kept)
    BY <1>1, <2>2, <2>3, PlainTextInBlock DEF r
  <2> QED BY <2>4, <2>5, <2>6
<1> QED BY <1>4, <1>5

LEMMA MergePositionType ==
  ASSUME TrunkInv, NEW b \in Branch
  PROVE  /\ MergePosition(TrunkState, b) \in Nat
         /\ \A i \in DOMAIN TrunkState.goals :
              Concl[TrunkState.goals[i]] = b.concl =>
                LET p == MergePosition(TrunkState, b)
                IN  p \in DOMAIN TrunkState.goals /\ Concl[TrunkState.goals[p]] = b.concl
<1> DEFINE same == {i \in DOMAIN TrunkState.goals : Concl[TrunkState.goals[i]] = b.concl}
<1>1. same \in SUBSET Nat
  BY TrunkStateType DEF Snapshot
<1>2. CASE same = {}
  BY <1>2 DEF MergePosition, Branch
<1>3. CASE same # {}
  <2>1. \E i \in same : \A j \in same : i <= j
    BY <1>1, <1>3, LeastExists
  <2>2. (CHOOSE i \in same : \A j \in same : i <= j) \in same
    BY <2>1
  <2>3. MergePosition(TrunkState, b) \in same
    BY <1>3, <2>2 DEF MergePosition
  <2> QED BY <1>1, <2>3
<1> QED BY <1>2, <1>3

\* The merge of a branch at work on g, past its "}": it leaves no block open on
\* the trunk, and when g is still there it goes through and closes g alone.
LEMMA MergeRuns ==
  ASSUME TrunkInv, TrunkState.ctx = <<>>, ProofOpen(TrunkState),
         NEW b \in Branch, NEW g, AtWorkOn(b, g), Exec(b.bstate, EndBlock) # Stuck,
         NEW c \in Branch, c.concl = b.concl, c.script = Append(b.script, EndBlock),
         c.bstate = Exec(b.bstate, EndBlock),
         NEW r, r = ExecText(TrunkState, MergeScript(TrunkState, c))
  PROVE  /\ Spent(c)
         /\ r.done => r.st.ctx = <<>>
         /\ GoalsPrintApart /\ IsFocusedGoal(g) =>
              r.done /\ WithoutGoal(TrunkState, g, r.st)
<1> DEFINE p == MergePosition(TrunkState, c)
<1>1. g \in Goal /\ c.concl = Concl[g]
  BY DEF AtWorkOn
<1>2. PICK k, f, steps, base :
        /\ k \in Nat /\ f \in Frame /\ steps \in Seq(Kept)
        /\ base \in InBlock(g, f)
        /\ b.script = <<Block(k)>> \o Texts(steps)
        /\ IsReplay(base, steps) /\ StayIn(f, steps)
        /\ b.bstate = StateAfter(base, steps)
  BY DEF AtWorkOn
<1>3. b.bstate \in Snapshot /\ b.bstate.ctx = <<f>>
  BY <1>1, <1>2, StateAfterStays
<1>4. Spent(c) /\ b.bstate.goals = <<>>
  BY <1>2, <1>3, BlockCloses DEF Spent
<1>5. p \in Nat /\ TrunkState \in Snapshot
  BY MergePositionType, TrunkStateType
<1>6. Texts(steps) \in Seq(Sentence)
  BY <1>2, KeptAreSteps, TextsType
<1>7. MergeScript(TrunkState, c) = <<Block(p)>> \o Texts(steps) \o <<EndBlock>>
  <2>1. ASSUME NEW x \in Sentence, NEW y \in Seq(Sentence), NEW z \in Sentence, NEW u \in Sentence
        PROVE  <<u>> \o Tail(Append(<<x>> \o y, z)) = <<u>> \o y \o <<z>>
    <3>1. Append(<<x>> \o y, z) = <<x>> \o Append(y, z)
      OBVIOUS
    <3>2. Append(y, z) \in Seq(Sentence) /\ Append(y, z) = y \o <<z>>
      OBVIOUS
    <3>3. ASSUME NEW w \in Seq(Sentence) PROVE Tail(<<x>> \o w) = w
      OBVIOUS
    <3>4. <<u>> \o (y \o <<z>>) = <<u>> \o y \o <<z>>
      OBVIOUS
    <3>5. Tail(Append(<<x>> \o y, z)) = y \o <<z>>
      BY <3>1, <3>2, <3>3
    <3> QED BY <3>4, <3>5
  <2>2. MergeScript(TrunkState, c) = <<Block(p)>> \o Tail(Append(<<Block(k)>> \o Texts(steps), EndBlock))
    BY <1>2 DEF MergeScript
  <2> HIDE DEF p
  <2>3. Block(k) \in Sentence /\ Block(p) \in Sentence /\ EndBlock \in Sentence
    BY <1>2, <1>5, BlockSentences
  <2> QED BY <1>6, <2>1, <2>2, <2>3
<1> HIDE DEF p
<1>8. r.done => r.st.ctx = <<>>
  <2>1. \A i \in DOMAIN Texts(steps) : Texts(steps)[i].verb \in Tactic \union {"Definition"}
    BY <1>2 DEF StayIn, Texts
  <2> QED BY <1>5, <1>6, <1>7, <2>1, BlockTextCloses
<1>9. ASSUME GoalsPrintApart, IsFocusedGoal(g)
      PROVE  r.done /\ WithoutGoal(TrunkState, g, r.st)
  <2>1. p \in DOMAIN TrunkState.goals /\ Concl[TrunkState.goals[p]] = Concl[g]
    BY <1>1, <1>9, MergePositionType DEF IsFocusedGoal, p
  <2>2. TrunkState.goals[p] = g
    BY <1>1, <1>5, <1>9, <2>1 DEF GoalsPrintApart, Snapshot
  <2>3. base \in InBlock(TrunkState.goals[p], f) /\ StateAfter(base, steps).goals = <<>>
    BY <1>2, <1>4, <2>2
  <2>4. r.done /\ r.st.goals = Before(TrunkState, p) \o Behind(TrunkState, p)
    BY <1>2, <1>5, <1>7, <2>1, <2>3, BlockReplays
  <2> QED BY <2>1, <2>2, <2>4 DEF WithoutGoal
<1> QED BY <1>4, <1>8, <1>9
----
\* A branch past its last "}".
PastItsEnd(b, c) ==
  /\ c \in Branch /\ c.concl = b.concl
  /\ c.script = Append(b.script, EndBlock)
  /\ c.bstate = Exec(b.bstate, EndBlock)

\* A text sent to a branch: the branch goes on, or it was at work, closes its
\* block and is merged.
LEMMA PlainStepBranch ==
  ASSUME Inv, MergeInv, NEW a \in Agent, NEW sentences \in Seq(Plain), StepBranch(a, sentences)
  PROVE  \E b \in Branch, kept \in Seq(Kept) :
           /\ Spent(b) \/ AtWorkOn(b, claim[a])
           /\ b.script = branches[a].script \o Texts(kept)
           /\ \A i \in DOMAIN kept : kept[i].text \in Plain
           /\ \/ branches' = [branches EXCEPT ![a] = b] /\ UNCHANGED trunk
              \/ /\ AtWorkOn(b, claim[a]) /\ Exec(b.bstate, EndBlock) # Stuck
                 /\ \E c \in Branch : PastItsEnd(b, c) /\ Merge(a, c)
<1> DEFINE b0   == branches[a]
           r    == ExecText(b0.bstate, sentences)
           next == [b0 EXCEPT !.script = @ \o Texts(r.kept), !.bstate = StateAfter(@, r.kept)]
           past == [next EXCEPT !.script = Append(@, EndBlock), !.bstate = Exec(next.bstate, EndBlock)]
<1>1. IsOpen(a) /\ b0 \in Branch /\ b0.bstate \in Snapshot /\ b0.script \in Seq(Sentence)
  <2>1. IsOpen(a) /\ b0 \in Branch
    BY DEF Inv, BranchInv, StepBranch, IsOpen
  <2> QED BY <2>1 DEF Branch
<1>2. sentences \in Seq(Sentence)
  <2>1. Plain \subseteq Sentence
    BY DEF Plain
  <2> QED BY <2>1
<1>3. r.kept \in Seq(Kept) /\ r.kept \in Seq(Step)
  BY <1>1, <1>2, ExecTextReplays, KeptAreSteps
<1>4. \A i \in DOMAIN r.kept : r.kept[i].text \in Plain
  BY <1>1, PlainKept
<1>5. StateAfter(b0.bstate, r.kept) \in Snapshot /\ b0.script \o Texts(r.kept) \in Seq(Sentence)
  <2>1. Texts(r.kept) \in Seq(Sentence)
    BY <1>3, TextsType
  <2> QED BY <1>1, <1>3, <2>1, StateAfterType
<1>6. /\ next \in Branch /\ next.concl = b0.concl
      /\ next.script = b0.script \o Texts(r.kept)
      /\ next.bstate = StateAfter(b0.bstate, r.kept)
  <2> HIDE DEF r
  <2> QED BY <1>1, <1>5 DEF Branch
<1>7. Spent(next) \/ AtWorkOn(next, claim[a])
  <2>1. Spent(b0) \/ AtWorkOn(b0, claim[a])
    BY <1>1 DEF MergeInv
  <2> HIDE DEF next
  <2> QED BY <1>1, <1>6, <2>1, BranchGoesOn
<1>8. \/ FinishBranchIfClosed(a, next)
      \/ branches' = [branches EXCEPT ![a] = next] /\ UNCHANGED trunk
  BY DEF StepBranch
<1>9. \/ branches' = [branches EXCEPT ![a] = next] /\ UNCHANGED trunk
      \/ Exec(next.bstate, EndBlock) # Stuck /\ Merge(a, past)
  <2> HIDE DEF next
  <2> QED BY <1>8 DEF FinishBranchIfClosed
<1>10. CASE branches' = [branches EXCEPT ![a] = next] /\ UNCHANGED trunk
  <2> HIDE DEF next, r
  <2> QED BY <1>3, <1>4, <1>6, <1>7, <1>10
<1>11. CASE Exec(next.bstate, EndBlock) # Stuck /\ Merge(a, past)
  <2> HIDE DEF next
  <2>1. next.bstate \in Snapshot /\ next.script \in Seq(Sentence)
    BY <1>6 DEF Branch
  <2>2. AtWorkOn(next, claim[a])
    BY <1>7, <1>11, <2>1, BlockCloses DEF Spent
  <2>3. Exec(next.bstate, EndBlock) \in Snapshot /\ Append(next.script, EndBlock) \in Seq(Sentence)
    BY <1>11, <2>1, ExecType, BlockSentences
  <2>4. PastItsEnd(next, past)
    BY <1>6, <2>3 DEF Branch, PastItsEnd
  <2>5. past \in Branch
    BY <2>4 DEF PastItsEnd
  <2> HIDE DEF past, r
  <2> QED BY <1>3, <1>4, <1>6, <1>11, <2>2, <2>4, <2>5
<1> QED BY <1>9, <1>10, <1>11

LEMMA MergeInvHolds ==
  ASSUME TrunkState.ctx' = <<>>, NEW a \in Agent,
         branches \in [Agent -> Branch \union {NoBranch}], MergeInv,
         \A o \in Agent \ {a} : branches'[o] = branches[o] /\ claim'[o] = claim[o],
         IsOpen(a)' => Spent(branches'[a]) \/ AtWorkOn(branches'[a], claim'[a])
  PROVE  MergeInv'
<1>1. ASSUME NEW o \in Agent, IsOpen(o)'
      PROVE  Spent(branches'[o]) \/ AtWorkOn(branches'[o], claim'[o])
  <2>1. CASE o = a
    BY <1>1, <2>1
  <2>2. CASE o # a
    BY <1>1, <2>2 DEF MergeInv, IsOpen
  <2> QED BY <2>1, <2>2
<1> QED BY <1>1 DEF MergeInv, Spent, AtWorkOn

LEMMA MergeInvStep ==
  ASSUME Inv, MergeInv, BlocksLeftToDaemon, Next
  PROVE  MergeInv'
<1>0. /\ TrunkInv /\ TrunkState.ctx = <<>> /\ branches \in [Agent -> Branch \union {NoBranch}]
      /\ claim \in [Agent -> Goal \union {NoGoal}] /\ TrunkState \in Snapshot
  BY TrunkStateType DEF Inv, BranchInv, MergeInv
<1>1. ASSUME NEW a \in Agent, NEW k \in Nat, Focus(a, k)
      PROVE  MergeInv'
  <2>1. TrunkState.ctx' = <<>>
    BY <1>0, <1>1 DEF Focus, trunk, TrunkState
  <2>2. CASE FocusFailed(a, k)
    BY <1>0, <2>1, <2>2, MergeInvHolds DEF FocusFailed, MergeInv, IsOpen
  <2>3. CASE FocusGranted(a, k)
    <3> DEFINE b == [goal_id |-> k, concl |-> ConclAt(TrunkState, k), script |-> <<Block(k)>>,
                     bstate |-> Exec(TrunkState, Block(k)), closed |-> FALSE]
    <3>1. /\ k \in DOMAIN TrunkState.goals /\ TrunkState.goals[k] \in Goal
          /\ \E f \in Frame : Exec(TrunkState, Block(k)) \in InBlock(TrunkState.goals[k], f)
      BY <1>0, <2>3, BlockOpens DEF FocusGranted
    <3>2. PICK f \in Frame : Exec(TrunkState, Block(k)) \in InBlock(TrunkState.goals[k], f)
      BY <3>1
    <3>3. <<>> \in Seq(Kept) /\ StayIn(f, <<>>) /\ Texts(<<>>) = <<>>
          /\ IsReplay(b.bstate, <<>>) /\ StateAfter(b.bstate, <<>>) = b.bstate
      BY DEF StayIn, Texts, IsReplay, StateAfter
    <3>4. b.script = <<Block(k)>> \o <<>>
      OBVIOUS
    <3>5. b.concl = Concl[TrunkState.goals[k]] /\ b.bstate \in InBlock(TrunkState.goals[k], f)
      BY <3>1, <3>2 DEF ConclAt
    <3>6. AtWorkOn(b, TrunkState.goals[k])
      <4> HIDE DEF b
      <4> QED BY <3>1, <3>3, <3>4, <3>5 DEF AtWorkOn
    <3>7. branches' = [branches EXCEPT ![a] = b] /\ claim' = [claim EXCEPT ![a] = TrunkState.goals[k]]
      BY <2>3 DEF FocusGranted
    <3> HIDE DEF b
    <3>8. branches'[a] = b /\ claim'[a] = TrunkState.goals[k]
          /\ \A o \in Agent \ {a} : branches'[o] = branches[o] /\ claim'[o] = claim[o]
      BY <1>0, <3>7
    <3> QED BY <1>0, <2>1, <3>6, <3>8, MergeInvHolds
  <2> QED BY <1>1, <2>2, <2>3 DEF Focus
<1>2. ASSUME NEW a \in Agent, NEW sentences \in Seq(Plain), StepTrunk(a, sentences)
      PROVE  MergeInv'
  <2> DEFINE r == ExecText(TrunkState, sentences)
  <2>1. sentences \in Seq(Sentence)
    <3>1. Plain \subseteq Sentence
      BY DEF Plain
    <3> QED BY <3>1
  <2>2. r.kept \in Seq(Kept) /\ r.st = StateAfter(TrunkState, r.kept) /\ Commit(r.kept)
    BY <1>0, <1>2, <2>1, ExecTextReplays DEF StepTrunk
  <2>3. r.st.ctx = <<>>
    BY <1>0, PlainTextOutside
  <2> HIDE DEF r
  <2>4. TrunkState.ctx' = <<>>
    BY <1>0, <2>2, <2>3, CommitState
  <2> QED BY <1>0, <1>2, <2>4, MergeInvHolds DEF StepTrunk, MergeInv, IsOpen
<1>3. ASSUME NEW a \in Agent, NEW sentences \in Seq(Plain), StepBranch(a, sentences), ~complete
      PROVE  MergeInv'
  <2>1. claim' = claim
    BY <1>3 DEF StepBranch
  <2>2. PICK b \in Branch :
          /\ Spent(b) \/ AtWorkOn(b, claim[a])
          /\ \/ branches' = [branches EXCEPT ![a] = b] /\ UNCHANGED trunk
             \/ /\ AtWorkOn(b, claim[a]) /\ Exec(b.bstate, EndBlock) # Stuck
                /\ \E c \in Branch : PastItsEnd(b, c) /\ Merge(a, c)
    BY <1>3, PlainStepBranch
  <2>3. CASE branches' = [branches EXCEPT ![a] = b] /\ UNCHANGED trunk
    <3>1. TrunkState.ctx' = <<>>
      BY <1>0, <2>3 DEF trunk, TrunkState
    <3>2. branches'[a] = b /\ \A o \in Agent \ {a} : branches'[o] = branches[o]
      BY <1>0, <2>3
    <3> QED BY <1>0, <2>1, <2>2, <3>1, <3>2, MergeInvHolds
  <2>4. ASSUME NEW c \in Branch, PastItsEnd(b, c), Merge(a, c),
               AtWorkOn(b, claim[a]), Exec(b.bstate, EndBlock) # Stuck
        PROVE  MergeInv'
    <3> DEFINE r == ExecText(TrunkState, MergeScript(TrunkState, c))
    <3>1. ProofOpen(TrunkState)
      BY <1>0, <1>3 DEF TrunkInv
    <3>2. Spent(c) /\ (r.done => r.st.ctx = <<>>)
      BY <1>0, <2>4, <3>1, MergeRuns DEF PastItsEnd
    <3>3. c.script # <<>>
      BY <2>4 DEF PastItsEnd, Branch
    <3>4. MergeScript(TrunkState, c) \in Seq(Sentence)
      BY <1>0, <3>3, MergeScriptType
    <3>5. r.kept \in Seq(Kept) /\ r.st = StateAfter(TrunkState, r.kept)
      BY <1>0, <3>4, ExecTextReplays
    <3>6. CASE r.done /\ branches' = [branches EXCEPT ![a] = NoBranch] /\ Commit(r.kept)
      <4>1. TrunkState.ctx' = <<>>
        BY <1>0, <3>2, <3>5, <3>6, CommitState
      <4>2. ~IsOpen(a)' /\ \A o \in Agent \ {a} : branches'[o] = branches[o]
        BY <1>0, <3>6 DEF IsOpen
      <4> QED BY <1>0, <2>1, <4>1, <4>2, MergeInvHolds
    <3>7. CASE branches' = [branches EXCEPT ![a] = c] /\ UNCHANGED trunk
      <4>1. TrunkState.ctx' = <<>>
        BY <1>0, <3>7 DEF trunk, TrunkState
      <4>2. branches'[a] = c /\ \A o \in Agent \ {a} : branches'[o] = branches[o]
        BY <1>0, <3>7
      <4> QED BY <1>0, <2>1, <3>2, <4>1, <4>2, MergeInvHolds
    <3>8. CASE branches' = [branches EXCEPT ![a] = [c EXCEPT !.closed = TRUE]] /\ UNCHANGED trunk
      <4>1. TrunkState.ctx' = <<>>
        BY <1>0, <3>8 DEF trunk, TrunkState
      <4>2. ~IsOpen(a)' /\ \A o \in Agent \ {a} : branches'[o] = branches[o]
        BY <1>0, <3>8 DEF IsOpen, Branch
      <4> QED BY <1>0, <2>1, <4>1, <4>2, MergeInvHolds
    <3> QED BY <2>4, <3>6, <3>7, <3>8 DEF Merge
  <2> QED BY <2>2, <2>3, <2>4
<1> QED BY <1>1, <1>2, <1>3, PlainRequests

LEMMA MergeInvariant ==
  ASSUME BlocksLeftToDaemon
  PROVE  Spec => [](Inv /\ MergeInv)
<1>1. Init => Inv /\ MergeInv
  <2>1. ASSUME Init PROVE MergeInv
    <3>1. TrunkState.ctx = <<>>
      BY <2>1 DEF Init, TrunkState, StateAfter, Opening, Stated
    <3> QED BY <2>1, <3>1 DEF Init, MergeInv, IsOpen
  <2> QED BY <2>1, InitInv
<1>2. Inv /\ MergeInv /\ [Next]_vars => (Inv /\ MergeInv)'
  <2>1. ASSUME MergeInv, UNCHANGED vars PROVE MergeInv'
    <3>1. TrunkState' = TrunkState
      BY <2>1 DEF vars, TrunkState
    <3> QED BY <2>1, <3>1 DEF vars, MergeInv, IsOpen, Spent, AtWorkOn
  <2> QED BY <2>1, StepInv, MergeInvStep
<1> QED BY <1>1, <1>2, PTL DEF Spec

\* Where agents leave blocks to the daemon and no two goals print alike, a merge
\* closes the goal the agent claimed, wherever that goal has moved since, and
\* leaves its siblings as they were, in order.
THEOREM MergesCloseTheirGoal ==
  ASSUME BlocksLeftToDaemon, GoalsPrintApart
  PROVE  Spec => MergeClosesItsGoal
<1>1. ASSUME Inv, MergeInv, Next, NEW a \in Agent, Merged(a), IsFocusedGoal(claim[a])
      PROVE  /\ WithoutGoal(TrunkState, claim[a], TrunkState')
             /\ TrunkState'.ctx = TrunkState.ctx
  <2>0. TrunkInv /\ branches \in [Agent -> Branch \union {NoBranch}]
        /\ committed' # committed /\ branches[a] # NoBranch /\ branches'[a] = NoBranch
    BY <1>1 DEF Inv, BranchInv, Merged, IsOpen
  <2>1. PICK o \in Agent : /\ ~complete
                           /\ \/ \E k \in Nat : Focus(o, k)
                              \/ \E sentences \in Seq(Plain) : StepTrunk(o, sentences) \/ StepBranch(o, sentences)
    BY <1>1, PlainRequests
  <2>2. PICK sentences \in Seq(Plain) : StepBranch(o, sentences)
    BY <2>0, <2>1 DEF Focus, trunk, StepTrunk
  <2>3. PICK b \in Branch :
          \/ branches' = [branches EXCEPT ![o] = b] /\ UNCHANGED trunk
          \/ /\ AtWorkOn(b, claim[o]) /\ Exec(b.bstate, EndBlock) # Stuck
             /\ \E c \in Branch : PastItsEnd(b, c) /\ Merge(o, c)
    BY <1>1, <2>2, PlainStepBranch
  <2>4. PICK c \in Branch : PastItsEnd(b, c) /\ Merge(o, c) /\ AtWorkOn(b, claim[o])
                            /\ Exec(b.bstate, EndBlock) # Stuck
    BY <2>0, <2>3 DEF trunk
  <2> DEFINE r == ExecText(TrunkState, MergeScript(TrunkState, c))
  <2>5. r.done /\ branches' = [branches EXCEPT ![o] = NoBranch] /\ Commit(r.kept)
    BY <2>0, <2>4 DEF Merge, trunk
  <2>6. o = a
    BY <2>0, <2>5
  <2>7. TrunkState.ctx = <<>> /\ ProofOpen(TrunkState) /\ TrunkState \in Snapshot
    BY <1>1, <2>0, <2>1, TrunkStateType DEF MergeInv, TrunkInv
  <2>8. r.st.ctx = <<>> /\ WithoutGoal(TrunkState, claim[a], r.st)
    <3>1. AtWorkOn(b, claim[a]) /\ Exec(b.bstate, EndBlock) # Stuck /\ c.concl = b.concl
          /\ c.script = Append(b.script, EndBlock) /\ c.bstate = Exec(b.bstate, EndBlock)
      BY <2>4, <2>6 DEF PastItsEnd
    <3> HIDE DEF r
    <3> QED BY <1>1, <2>0, <2>5, <2>7, <3>1, MergeRuns DEF r
  <2>9. r.kept \in Seq(Kept) /\ r.st = StateAfter(TrunkState, r.kept)
    <3>1. c.script # <<>>
      BY <2>4 DEF PastItsEnd, Branch
    <3>2. MergeScript(TrunkState, c) \in Seq(Sentence)
      BY <2>0, <3>1, MergeScriptType
    <3> QED BY <2>7, <3>2, ExecTextReplays
  <2>10. TrunkState' = r.st
    BY <2>0, <2>5, <2>9, CommitState
  <2> QED BY <2>7, <2>8, <2>10
<1> DEFINE A == \A a \in Agent : Merged(a) /\ IsFocusedGoal(claim[a]) =>
                  /\ WithoutGoal(TrunkState, claim[a], TrunkState')
                  /\ TrunkState'.ctx = TrunkState.ctx
<1>2. Inv /\ MergeInv /\ [Next]_vars => [A]_vars
  BY <1>1
<1>3. Spec => [](Inv /\ MergeInv)
  BY MergeInvariant
<1> QED BY <1>2, <1>3, PTL DEF Spec, MergeClosesItsGoal

\* Under the same conditions, and where nothing goes wrong but a rejected
\* sentence, a merge fails only when the goal the agent claimed is gone.
THEOREM ReplaysNeverConflict ==
  ASSUME BlocksLeftToDaemon, GoalsPrintApart, Mishap = {}
  PROVE  Spec => ReplaysDoNotConflict
<1>1. ASSUME Inv, MergeInv, Next, NEW a \in Agent, MergeFailed(a), IsFocusedGoal(claim[a])
      PROVE  FALSE
  <2>0. TrunkInv /\ branches \in [Agent -> Branch \union {NoBranch}]
        /\ branches[a] # NoBranch /\ branches'[a] # NoBranch
        /\ branches'[a].script # branches[a].script
        /\ branches'[a].script[Len(branches'[a].script)] = EndBlock
    BY <1>1 DEF Inv, BranchInv, MergeFailed, IsOpen
  <2>1. PICK o \in Agent : /\ ~complete
                           /\ \/ \E k \in Nat : Focus(o, k)
                              \/ \E sentences \in Seq(Plain) : StepTrunk(o, sentences) \/ StepBranch(o, sentences)
    BY <1>1, PlainRequests
  <2>2. ASSUME NEW k \in Nat, Focus(o, k) PROVE FALSE
    <3>1. CASE FocusFailed(o, k)
      BY <2>0, <3>1 DEF FocusFailed
    <3>2. CASE FocusGranted(o, k)
      <4>1. branches'[a].script = <<Block(k)>>
        BY <2>0, <3>2 DEF FocusGranted
      <4>2. Block(k) # EndBlock
        BY DEF Block, EndBlock, Say
      <4> QED BY <2>0, <4>1, <4>2
    <3> QED BY <2>2, <3>1, <3>2 DEF Focus
  <2>3. ASSUME NEW sentences \in Seq(Plain), StepBranch(o, sentences) PROVE FALSE
    <3>1. PICK b \in Branch, kept \in Seq(Kept) :
            /\ b.script = branches[o].script \o Texts(kept)
            /\ \A i \in DOMAIN kept : kept[i].text \in Plain
            /\ \/ branches' = [branches EXCEPT ![o] = b] /\ UNCHANGED trunk
               \/ /\ AtWorkOn(b, claim[o]) /\ Exec(b.bstate, EndBlock) # Stuck
                  /\ \E c \in Branch : PastItsEnd(b, c) /\ Merge(o, c)
      BY <1>1, <2>3, PlainStepBranch
    <3>2. CASE branches' = [branches EXCEPT ![o] = b]
      <4>1. o = a /\ branches'[a] = b
        BY <2>0, <3>2
      <4>2. branches[a].script \in Seq(Sentence) /\ Texts(kept) \in Seq(Sentence)
            /\ b.script = branches[a].script \o Texts(kept)
        <5>1. branches[a] \in Branch
          BY <2>0
        <5> QED BY <3>1, <4>1, <5>1, KeptAreSteps, TextsType DEF Branch
      <4>3. Texts(kept) # <<>>
        BY <2>0, <4>1, <4>2
      <4>4. Len(Texts(kept)) \in DOMAIN kept
            /\ b.script[Len(b.script)] = Texts(kept)[Len(Texts(kept))]
        <5>1. DOMAIN Texts(kept) = DOMAIN kept
          BY DEF Texts
        <5>2. Len(Texts(kept)) \in DOMAIN Texts(kept)
          BY <4>2, <4>3
        <5>3. b.script[Len(b.script)] = Texts(kept)[Len(Texts(kept))]
          BY <4>2, <4>3
        <5> QED BY <5>1, <5>2, <5>3
      <4>5. EndBlock \in Plain
        BY <2>0, <3>1, <4>1, <4>4 DEF Texts
      <4> QED BY <4>5 DEF Plain, EndBlock, Say
    <3>3. ASSUME NEW c \in Branch, PastItsEnd(b, c), Merge(o, c), AtWorkOn(b, claim[o]),
                 Exec(b.bstate, EndBlock) # Stuck
          PROVE  FALSE
      <4> DEFINE r == ExecText(TrunkState, MergeScript(TrunkState, c))
      <4>1. o = a
        BY <2>0, <3>3 DEF Merge
      <4>2. TrunkState.ctx = <<>> /\ ProofOpen(TrunkState)
        BY <1>1, <2>0, <2>1 DEF MergeInv, TrunkInv
      <4>3. r.done
        <5>1. AtWorkOn(b, claim[a]) /\ c.concl = b.concl
              /\ c.script = Append(b.script, EndBlock) /\ c.bstate = Exec(b.bstate, EndBlock)
          BY <3>3, <4>1 DEF PastItsEnd
        <5> HIDE DEF r
        <5> QED BY <1>1, <2>0, <3>3, <4>2, <5>1, MergeRuns DEF r
      <4>4. branches'[a] = NoBranch
        BY <2>0, <3>3, <4>1, <4>3 DEF Merge
      <4> QED BY <2>0, <4>4
    <3> QED BY <3>1, <3>2, <3>3
  <2>4. ASSUME NEW sentences \in Seq(Plain), StepTrunk(o, sentences) PROVE FALSE
    BY <2>0, <2>4 DEF StepTrunk
  <2> QED BY <2>1, <2>2, <2>3, <2>4
<1> DEFINE A == \A a \in Agent : MergeFailed(a) => ~IsFocusedGoal(claim[a])
<1>2. Inv /\ MergeInv /\ [Next]_vars => [A]_vars
  BY <1>1
<1>3. Spec => [](Inv /\ MergeInv)
  BY MergeInvariant
<1> QED BY <1>2, <1>3, PTL DEF Spec, ReplaysDoNotConflict
=============================================================================
