------------------------------- MODULE Daemon -------------------------------
(***************************************************************************)
(* The shared-proof daemon (src/psession/rocq_agent_daemon.ml): one live   *)
(* proof, the trunk, and one private branch per agent that has claimed a   *)
(* goal.  The daemon answers one request at a time, so each request is one *)
(* action.  hello, state, goals, status and try change nothing and are     *)
(* operators or absent; so are the refusals of focus and step.             *)
(*                                                                         *)
(* A definition introduced by a remark in parentheses is a plausible       *)
(* mistake in the one that follows it, kept to show which property it      *)
(* would break; Spec uses none of them.                                    *)
(***************************************************************************)
EXTENDS Prover

CONSTANTS
  Agent,      \* agent ids
  NoBranch,   \* an agent with no entry in the branch table
  NoFile,     \* candidate.v has not been written
  NoGoal,     \* history: the agent never claimed a goal
  Text,       \* the texts agents send to step
  Portfolio,  \* auto_close's finishers, in order, each a list of sentences
  Mishap,     \* what may go wrong besides a rejected sentence: time limits, anomalies
  MaxGoalId,  \* bound: agents ask to focus on 0..MaxGoalId
  MaxScript,  \* bound: sentences in the trunk, and in a branch script
  MaxBlocks   \* bound: blocks open at once in a snapshot

ASSUME DaemonConstants ==
  /\ NoGoal \notin Goal
  /\ NoFile \notin Seq(Sentence)
  /\ Portfolio \in Seq(Seq(Sentence))
  /\ Mishap \subseteq {"timeout", "anomaly"}
  /\ MaxGoalId \in Nat /\ MaxScript \in Nat /\ MaxBlocks \in Nat
  \* A text is what the request holds: the sentences up to its first newline,
  \* and the ones after it.
  /\ \A t \in Text : t \in [line : Seq(Sentence), rest : Seq(Sentence)]

Branch ==
  [goal_id : Nat,              \* position among the trunk's goals when it was opened
   concl   : Digest \union {NoDigest},
   script  : Seq(Sentence),    \* oldest first, beginning with its "K: {"
   bstate  : Snapshot,
   closed  : BOOLEAN]

ASSUME NoBranchIsNone == NoBranch \notin Branch

VARIABLES
  committed,  \* the trunk's sentences with their snapshots, oldest first
  complete,   \* the daemon has declared the proof complete
  branches,   \* the branch table, by agent
  candidate,  \* the sentences in candidate.v
  claim       \* history: the goal the agent's branch was opened on

vars == <<committed, complete, branches, candidate, claim>>
trunk == <<committed, complete, candidate>>

TrunkState == StateAfter(Opening, committed)

Init ==
  /\ committed = <<>>
  /\ complete = FALSE
  /\ branches = [a \in Agent |-> NoBranch]
  /\ candidate = NoFile
  /\ claim = [a \in Agent |-> NoGoal]

----
(***************************************************************************)
(* Reading the table.                                                      *)
(***************************************************************************)
IsOpen(a) == branches[a] # NoBranch /\ ~branches[a].closed

AgentState(a) == IF IsOpen(a) THEN branches[a].bstate ELSE TrunkState

\* (Ownership by position, as before the conclusion digest.)
OwnedByPosition(a, k) == \E o \in Agent \ {a} : IsOpen(o) /\ branches[o].goal_id = k

\* op_focus: an open branch of another agent prints like the goal asked for.
OwnedByOther(a, k) ==
  LET d == ConclAt(TrunkState, k)
  IN  d # NoDigest /\ \E o \in Agent \ {a} : IsOpen(o) /\ branches[o].concl = d

\* goals_json: the agents the listing may name as owner of the k-th goal (the
\* last one a hash-table walk meets, when there are several).
ListedOwners(k) == {a \in Agent : IsOpen(a) /\ branches[a].goal_id = k}

WithinBounds ==
  /\ Len(committed) <= MaxScript
  /\ Len(TrunkState.ctx) <= MaxBlocks
  /\ \A a \in Agent : IsOpen(a) => /\ Len(branches[a].script) <= MaxScript
                                   /\ Len(branches[a].bstate.ctx) <= MaxBlocks

----
(***************************************************************************)
(* Completion: the proof is closed and something was committed.            *)
(***************************************************************************)
\* (The candidate written before the last sentences are committed.)
CommitWritingFirst(steps) ==
  LET all == committed \o steps
  IN  /\ committed' = all
      /\ IF ~ProofOpen(StateAfter(Opening, all)) /\ all # <<>>
         THEN complete' = TRUE /\ candidate' = Texts(committed)
         ELSE UNCHANGED <<complete, candidate>>

\* (Completion as soon as no goal is left, Qed or not.)
CommitWithoutQed(steps) ==
  LET all == committed \o steps
  IN  /\ committed' = all
      /\ IF NGoals(StateAfter(Opening, all)) = 0
         THEN complete' = TRUE /\ candidate' = Texts(all)
         ELSE UNCHANGED <<complete, candidate>>

Commit(steps) ==
  LET all == committed \o steps
  IN  /\ committed' = all
      /\ IF ~ProofOpen(StateAfter(Opening, all)) /\ all # <<>>
         THEN complete' = TRUE /\ candidate' = Texts(all)
         ELSE UNCHANGED <<complete, candidate>>

(***************************************************************************)
(* focus.  The agent's own open branch is dropped before the goal is       *)
(* looked at, so a refused or failed focus leaves the agent without one;   *)
(* only goal 0 of an open proof is refused (List.nth_opt raises) earlier.  *)
(***************************************************************************)
FocusGranted(a, k) ==
  LET st == TrunkState
      inside == Exec(st, Block(k))
  IN  /\ inside # Stuck
      /\ branches' = [branches EXCEPT ![a] =
           [goal_id |-> k, concl |-> ConclAt(st, k), script |-> <<Block(k)>>,
            bstate |-> inside, closed |-> FALSE]]
      /\ claim' = [claim EXCEPT ![a] = st.goals[k]]

FocusFailed(a, k) ==
  /\ Exec(TrunkState, Block(k)) = Stuck \/ "timeout" \in Mishap
  /\ branches' = IF IsOpen(a) /\ (k >= 1 \/ ~ProofOpen(TrunkState))
                 THEN [branches EXCEPT ![a] = NoBranch] ELSE branches
  /\ UNCHANGED claim

Focus(a, k) ==
  /\ ~complete
  /\ ~OwnedByOther(a, k)
  /\ FocusGranted(a, k) \/ FocusFailed(a, k)
  /\ UNCHANGED trunk
  /\ WithinBounds'

----
(***************************************************************************)
(* Merging a closed branch: replay its script on the trunk as it is now.   *)
(***************************************************************************)
\* (No renumbering.)
MergePositionAsOpened(st, b) == b.goal_id

\* The branch goal's current position: the first focused goal that prints
\* like it, else the position it had when the branch was opened.
MergePosition(st, b) ==
  LET same == {i \in DOMAIN st.goals : Concl[st.goals[i]] = b.concl}
  IN  IF same = {} THEN b.goal_id
      ELSE CHOOSE i \in same : \A j \in same : i <= j

\* (The position is found but the selector is not rewritten.)
MergeScriptAsOpened(st, b) == b.script

\* The script with its leading selector rewritten.
MergeScript(st, b) == <<Block(MergePosition(st, b))>> \o Tail(b.script)

\* (The branch's sentences are committed with the branch's own snapshot.)
MergeWithoutReplay(a, b) ==
  /\ branches' = [branches EXCEPT ![a] = NoBranch]
  /\ Commit([i \in DOMAIN b.script |-> [text |-> b.script[i], post |-> b.bstate]])

\* merge_branch and what finish_branch_if_closed makes of its result; b is
\* already past its "}".  An anomaly is an exception exec_text lets through:
\* it leaves the branch marked closed, and in the table.
Merge(a, b) ==
  LET r == ExecText(TrunkState, MergeScript(TrunkState, b))
  IN  \/ /\ r.done
         /\ branches' = [branches EXCEPT ![a] = NoBranch]
         /\ Commit(r.kept)
      \/ /\ ~r.done \/ "timeout" \in Mishap
         /\ branches' = [branches EXCEPT ![a] = b]
         /\ UNCHANGED trunk
      \/ /\ "anomaly" \in Mishap
         /\ branches' = [branches EXCEPT ![a] = [b EXCEPT !.closed = TRUE]]
         /\ UNCHANGED trunk

\* (The closing brace is not recorded in the script.)
FinishForgettingBrace(a, b) ==
  LET post == Exec(b.bstate, EndBlock)
  IN  \/ /\ post = Stuck \/ "timeout" \in Mishap
         /\ branches' = [branches EXCEPT ![a] = b]
         /\ UNCHANGED trunk
      \/ /\ post # Stuck
         /\ Merge(a, [b EXCEPT !.bstate = post])

FinishBranchIfClosed(a, b) ==
  LET post == Exec(b.bstate, EndBlock)
  IN  \/ /\ post = Stuck \/ "timeout" \in Mishap
         /\ branches' = [branches EXCEPT ![a] = b]
         /\ UNCHANGED trunk
      \/ /\ post # Stuck
         /\ Merge(a, [b EXCEPT !.script = Append(@, EndBlock), !.bstate = post])

----
(***************************************************************************)
(* step.                                                                   *)
(***************************************************************************)
\* The rejected commands; the regexp's "." stops at a newline, so the filter
\* reads the text's first line only.
Rejected(text) == \E i \in DOMAIN text.line : text.line[i].verb = "Abort"

StepTrunk(a, sentences) ==
  /\ ~IsOpen(a)
  /\ Commit(ExecText(TrunkState, sentences).kept)
  /\ UNCHANGED <<branches, claim>>

StepBranch(a, sentences) ==
  LET b    == branches[a]
      r    == ExecText(b.bstate, sentences)
      next == [b EXCEPT !.script = @ \o Texts(r.kept),
                        !.bstate = StateAfter(@, r.kept)]
  IN  /\ IsOpen(a)
      /\ IF NFocused(next.bstate) = 0
         THEN FinishBranchIfClosed(a, next)
         ELSE branches' = [branches EXCEPT ![a] = next] /\ UNCHANGED trunk
      /\ UNCHANGED claim

\* (No check that the proof is already complete.)
OpStepAfterCompletion(a, text) ==
  LET sentences == text.line \o text.rest
  IN  /\ ~Rejected(text)
      /\ StepTrunk(a, sentences) \/ StepBranch(a, sentences)
      /\ WithinBounds'

OpStep(a, text) ==
  LET sentences == text.line \o text.rest
  IN  /\ ~complete
      /\ ~Rejected(text)
      /\ StepTrunk(a, sentences) \/ StepBranch(a, sentences)
      /\ WithinBounds'

(***************************************************************************)
(* auto_close: the first finisher that runs through and leaves fewer open  *)
(* goals, or none of the proof, is committed through step.  A finisher may *)
(* run out of its (shorter) time limit.                                    *)
(***************************************************************************)
AutoClose(a, slow) ==
  LET wins == {i \in DOMAIN Portfolio \ slow : Finishes(AgentState(a), Portfolio[i])}
      winner == CHOOSE i \in wins : \A j \in wins : i <= j
  IN  /\ wins # {}
      /\ OpStep(a, [line |-> Portfolio[winner], rest |-> <<>>])

----
Next ==
  \/ \E a \in Agent, k \in 0..MaxGoalId : Focus(a, k)
  \/ \E a \in Agent, text \in Text : OpStep(a, text)
  \/ \E a \in Agent, slow \in SUBSET DOMAIN Portfolio : AutoClose(a, slow)

Spec == Init /\ [][Next]_vars
=============================================================================
