-------------------------- MODULE DaemonProperties --------------------------
(* What the shared-proof daemon must get right. *)
EXTENDS Daemon

TypeOK ==
  /\ committed \in Seq(Step)
  /\ complete \in BOOLEAN
  /\ branches \in [Agent -> Branch \union {NoBranch}]
  /\ candidate \in Seq(Sentence) \union {NoFile}
  /\ claim \in [Agent -> Goal \union {NoGoal}]

\* Whatever mix of trunk steps, merges, failed merges and refocusing produced
\* it, the trunk replays: every committed sentence yields its recorded
\* snapshot from the snapshot before it.  candidate.v is these sentences.
TrunkReplays == IsReplay(Opening, committed)

\* candidate.v exists exactly when the proof was declared complete, holds
\* exactly the committed sentences, and those close the proof.
CandidateIsTheProof ==
  /\ complete <=> candidate # NoFile
  /\ complete => candidate = Texts(committed) /\ ~ProofOpen(TrunkState)

\* Two agents never hold open branches on goals that print alike (op_focus's
\* conflict guard, through any order of focusing, merging and renumbering).
OwnershipExclusive ==
  \A a, o \in Agent :
    a # o /\ IsOpen(a) /\ IsOpen(o) => branches[a].concl # branches[o].concl

\* A branch is never a dead end of its own making: its script, replayed from
\* some moment of the trunk's history, still yields its private snapshot, the
\* branch kept after a failed merge included.
BranchReplays ==
  \A a \in Agent : IsOpen(a) =>
    \E n \in 0..Len(committed) :
      LET r == ExecText(StateAfter(Opening, SubSeq(committed, 1, n)), branches[a].script)
      IN  r.done /\ r.st = branches[a].bstate

\* Nothing committed is ever taken back or changed, and once the proof is
\* declared complete no request changes anything.
TrunkOnlyGrows ==
  [][IsPrefix(committed, committed') /\ (complete => UNCHANGED vars)]_vars

----
(* Merges, seen from outside: a's branch goes and the trunk grows. *)
Merged(a) == IsOpen(a) /\ branches'[a] = NoBranch /\ committed' # committed

\* The branch is kept although it went past its last "}".
MergeFailed(a) ==
  /\ IsOpen(a) /\ branches'[a] # NoBranch
  /\ branches'[a].script # branches[a].script
  /\ branches'[a].script[Len(branches'[a].script)] = EndBlock

IsFocusedGoal(g) == \E i \in DOMAIN TrunkState.goals : TrunkState.goals[i] = g

\* post's focused goals are st's, in order, without one occurrence of g.
WithoutGoal(st, g, post) ==
  \E i \in DOMAIN st.goals : st.goals[i] = g /\ post.goals = Before(st, i) \o Behind(st, i)

\* However the trunk was renumbered since the branch was opened, a merge closes
\* the goal the agent claimed and leaves its siblings as they were, in order.
MergeClosesItsGoal ==
  [][\A a \in Agent : Merged(a) /\ IsFocusedGoal(claim[a]) =>
       /\ WithoutGoal(TrunkState, claim[a], TrunkState')
       /\ TrunkState'.ctx = TrunkState.ctx]_vars

\* Replays cannot conflict (file header): a merge fails only when the goal the
\* agent claimed is no longer there.
ReplaysDoNotConflict ==
  [][\A a \in Agent : MergeFailed(a) => ~IsFocusedGoal(claim[a])]_vars

\* A branch is merged when its subgoal is fully closed (file header): the
\* trunk then has one open goal less, and no block left open by the merge.
MergedSubgoalIsClosed ==
  [][\A a \in Agent : Merged(a) =>
       /\ NGoals(TrunkState') = NGoals(TrunkState) - 1
       /\ TrunkState'.ctx = TrunkState.ctx]_vars

\* The goals listing names as a goal's owner an agent whose branch was opened
\* on a goal that prints like it.
OwnersAreCurrent ==
  \A k \in DOMAIN TrunkState.goals : \A a \in ListedOwners(k) :
    branches[a].concl = ConclAt(TrunkState, k)

----
(* The daemon implements a single growing proof script. *)
Log == INSTANCE ProofLog WITH log <- Texts(committed), done <- complete, file <- candidate

\* Refinement: seen through its committed sentences, the daemon with all its
\* branches behaves as one script that the prover accepts as it grows.
ImplementsProofLog == Log!LogSpec
=============================================================================
