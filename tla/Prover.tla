------------------------------- MODULE Prover -------------------------------
(***************************************************************************)
(* The proof engine as the shared-proof daemon sees it, and the driver     *)
(* that wraps it (src/psession/rocq_driver.ml).                            *)
(*                                                                         *)
(* A snapshot (Vernacstate.t) is an immutable value.  What the daemon can  *)
(* tell of one is whether a proof is open, which goals are focused, and    *)
(* which goals wait behind a "K: {" that has not been closed.  The kernel  *)
(* and the tactics are external: a tactic is a partial function from goals *)
(* to the goals it leaves, and a goal's printed conclusion is a digest     *)
(* that two different goals may share.                                     *)
(***************************************************************************)
EXTENDS Integers, Sequences, SequencesExt

CONSTANTS
  Goal,     \* the goals of the proof
  Root,     \* the theorem's statement
  Aside,    \* the statement of a further lemma an agent's text may bring
  Digest,   \* printed conclusions
  Concl,    \* the conclusion each goal prints as
  Tactic,   \* tactic names
  Effect,   \* Effect[t][g]: the goals tactic t leaves of g; g \notin DOMAIN
            \* Effect[t] when t fails on g
  Rash,     \* tactics that leave a proof the kernel will refuse at Qed: guard
            \* condition, universes, goals given up
  NoDigest  \* the empty string first_goal_view gives for "no such goal"

Keyword == {"{", "}", "Qed", "Abort", "Lemma", "Definition", "Search"}

ASSUME ProverConstants ==
  /\ Root \in Goal /\ Aside \in Goal
  /\ Concl \in [Goal -> Digest]
  /\ NoDigest \notin Digest
  /\ Tactic \cap Keyword = {}
  /\ DOMAIN Effect = Tactic /\ Rash \subseteq Tactic
  /\ \A t \in Tactic : /\ DOMAIN Effect[t] \subseteq Goal
                       /\ \A g \in DOMAIN Effect[t] : Effect[t][g] \in Seq(Goal)

(***************************************************************************)
(* Sentences.  A sentence is a verb and the goal selector in front of it   *)
(* (1 when there is none): "2: {", "nra.", "Search foo.", "Qed.".          *)
(***************************************************************************)
Verb == Tactic \union Keyword
Sentence == [verb : Verb, sel : Nat]

Say(v) == [verb |-> v, sel |-> 1]
Block(k) == [verb |-> "{", sel |-> k]
EndBlock == Say("}")

\* Search, Check, Print, ...: no effect on the state, never committed.
IsQuery(s) == s.verb = "Search"

(***************************************************************************)
(* Snapshots.  "goals" is the focused list.  "ctx" is the stack of focused *)
(* blocks, outermost first: the goals to the left and to the right of the  *)
(* one each block was opened on.  A "flawed" proof is open like any other, *)
(* and only its Qed is refused.                                            *)
(***************************************************************************)
Frame == [left : Seq(Goal), right : Seq(Goal)]
Snapshot == [phase : {"proof", "flawed", "qed", "aborted"}, goals : Seq(Goal), ctx : Seq(Frame)]
Stuck == [phase |-> "stuck", goals |-> <<>>, ctx |-> <<>>]

\* A statement has just been made: its proof is open on that one goal.
Stated(g) == [phase |-> "proof", goals |-> <<g>>, ctx |-> <<>>]

\* The state behind the task prefix.
Opening == Stated(Root)
Ended(how) == [phase |-> how, goals |-> <<>>, ctx |-> <<>>]

ProofOpen(st) == st.phase \in {"proof", "flawed"}

\* Every open goal of the proof, the ones outside the focused block included.
NGoals(st) ==
  LET FrameSize(i) == Len(st.ctx[i].left) + Len(st.ctx[i].right)
  IN  Len(st.goals) + FoldFunction(+, 0, [i \in DOMAIN st.ctx |-> FrameSize(i)])

\* goal_digest's count: the focused goals alone.
NFocused(st) == Len(st.goals)

\* The conclusion of the k-th focused goal, the empty string when there is none.
ConclAt(st, k) == IF k \in DOMAIN st.goals THEN Concl[st.goals[k]] ELSE NoDigest

----
(***************************************************************************)
(* One sentence.  Exec yields the next snapshot, or Stuck when the prover  *)
(* rejects the sentence.                                                   *)
(***************************************************************************)
Before(st, k) == SubSeq(st.goals, 1, k - 1)
Behind(st, k) == SubSeq(st.goals, k + 1, Len(st.goals))

Apply(st, t, k) ==
  IF k \in DOMAIN st.goals /\ st.goals[k] \in DOMAIN Effect[t]
  THEN [st EXCEPT !.goals = Before(st, k) \o Effect[t][st.goals[k]] \o Behind(st, k),
                  !.phase = IF t \in Rash THEN "flawed" ELSE @]
  ELSE Stuck

OpenBlock(st, k) ==
  IF k \in DOMAIN st.goals
  THEN [st EXCEPT !.goals = <<st.goals[k]>>,
                  !.ctx = Append(@, [left |-> Before(st, k), right |-> Behind(st, k)])]
  ELSE Stuck

\* "}" is accepted once the block's own goals are gone.
CloseBlock(st) ==
  IF st.goals = <<>> /\ st.ctx # <<>>
  THEN LET f == st.ctx[Len(st.ctx)]
       IN  [st EXCEPT !.goals = f.left \o f.right,
                      !.ctx = SubSeq(@, 1, Len(@) - 1)]
  ELSE Stuck

\* Qed wants no goal left and no block open: unlike a bullet, a "{" whose goals
\* are gone is not closed for the agent ("cannot be unfocused this way").  And the
\* kernel has to accept the proof.
Solved(st) == st.goals = <<>> /\ st.ctx = <<>> /\ st.phase = "proof"

\* Proofs are not nested.  A Definition, or any other command that only adds to
\* the environment, is accepted anywhere and is no query.
Exec(st, s) ==
  CASE IsQuery(s) \/ s.verb = "Definition" -> st
    [] s.verb = "Lemma" -> IF ProofOpen(st) THEN Stuck ELSE Stated(Aside)
    [] ~ProofOpen(st) /\ s.verb \in Tactic \union {"{", "}", "Qed", "Abort"} -> Stuck
    [] ProofOpen(st) /\ s.verb \in Tactic -> Apply(st, s.verb, s.sel)
    [] ProofOpen(st) /\ s.verb = "{"   -> OpenBlock(st, s.sel)
    [] ProofOpen(st) /\ s.verb = "}"   -> CloseBlock(st)
    [] ProofOpen(st) /\ s.verb = "Qed" -> IF Solved(st) THEN Ended("qed") ELSE Stuck
    [] ProofOpen(st) /\ s.verb = "Abort" -> Ended("aborted")

----
(***************************************************************************)
(* A text.  exec_text parses and executes sentence after sentence and      *)
(* stops at the first one the prover rejects; every caller then keeps the  *)
(* executed sentences that are not queries, each with its snapshot.        *)
(***************************************************************************)
Step == [text : Sentence, post : Snapshot]

\* (A driver that went on past a rejected sentence.)
ExecNextPastErrors(r, s) ==
  [st |-> Exec(r.st, s), done |-> TRUE,
   kept |-> Append(r.kept, [text |-> s, post |-> Exec(r.st, s)])]

\* The run so far, r, and the next sentence.
ExecNext(r, s) ==
  LET post == Exec(r.st, s)
  IN  IF ~r.done \/ post = Stuck
      THEN [r EXCEPT !.done = FALSE]
      ELSE [st   |-> post,
            kept |-> IF IsQuery(s) THEN r.kept ELSE Append(r.kept, [text |-> s, post |-> post]),
            done |-> TRUE]

\* A recursive function rather than a fold: ProverProofs reasons about it.
ExecText(st, text) ==
  LET run[i \in 0..Len(text)] ==
        IF i = 0 THEN [st |-> st, kept |-> <<>>, done |-> TRUE]
        ELSE ExecNext(run[i - 1], text[i])
  IN  run[Len(text)]

\* The snapshot after a list of steps that began at st.
StateAfter(st, steps) == IF steps = <<>> THEN st ELSE steps[Len(steps)].post

\* What replays: each step's snapshot is what its sentence yields from the
\* snapshot before it.
IsReplay(st, steps) ==
  \A i \in DOMAIN steps :
    /\ steps[i].post # Stuck
    /\ steps[i].post = Exec(IF i = 1 THEN st ELSE steps[i - 1].post, steps[i].text)

\* A finisher is worth committing when it runs through and leaves fewer open
\* goals, or no proof to finish.
Finishes(st, finisher) ==
  LET r == ExecText(st, finisher)
  IN  r.done /\ (~ProofOpen(r.st) \/ NGoals(r.st) < NGoals(st))

Texts(steps) == [i \in DOMAIN steps |-> steps[i].text]
=============================================================================
