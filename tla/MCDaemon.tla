------------------------------ MODULE MCDaemon ------------------------------
(* Values for Daemon's constants. *)
EXTENDS DaemonProperties, TLC

Line(ss) == [line |-> ss, rest |-> <<>>]
One(v) == Line(<<Say(v)>>)

\* thm splits into A and B, and B into C; or (Wide) thm into B and A, and B into
\* C and D, which moves A and puts another goal lra solves in its place.
MCGoal == {"thm", "A", "B", "C", "D"}
MCDigest == {"thm", "p", "q", "r", "s"}
MCTactic == {"split", "lra", "nra", "fix"}
Solving ==
  "lra" :> ("A" :> <<>> @@ "D" :> <<>>) @@ "nra" :> ("C" :> <<>>) @@ "fix" :> ("C" :> <<>>)
MCEffect == "split" :> ("thm" :> <<"A", "B">> @@ "B" :> <<"C">>) @@ Solving
WideEffect == "split" :> ("thm" :> <<"B", "A">> @@ "B" :> <<"C", "D">>) @@ Solving

\* Every goal prints differently.
DistinctConcl == "thm" :> "thm" @@ "A" :> "p" @@ "B" :> "q" @@ "C" :> "r" @@ "D" :> "s"
\* A and C print alike: same conclusion, different hypotheses.
TwinConcl == "thm" :> "thm" @@ "A" :> "p" @@ "B" :> "q" @@ "C" :> "p" @@ "D" :> "s"

\* Agents that leave blocks to the daemon.
PlainText ==
  {One(v) : v \in {"split", "lra", "nra", "fix", "Qed"}}
  \union {Line(<<[verb |-> "lra", sel |-> 2]>>),
          Line(<<Say("Search"), Say("lra"), Say("Qed"), Say("Lemma")>>),
          [line |-> <<Say("Search")>>, rest |-> <<Say("Abort")>>]}

\* Agents that also open and close blocks of their own.
BlockText ==
  {One(v) : v \in {"split", "lra", "nra", "}"}}
  \union {Line(<<Block(1), Say("nra")>>),
          Line(<<Say("Search"), Say("lra"), Say("Qed")>>)}

LraOnly == << <<Say("lra")>> >>
MCPortfolio == << <<Say("lra")>>, <<Say("split"), Say("nra")>>, <<Say("nra")>> >>

AgentSymmetry == Permutations(Agent)
=============================================================================
