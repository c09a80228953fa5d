----------------------------- MODULE MCSession ------------------------------
(* Values for Session's constants. *)
EXTENDS SessionProperties, TLC

\* Two files: thm splits into A and B, lem is one lra away where lra is loaded.
MCGoal == {"thm", "lem", "dark", "A", "B"}
MCDigest == {"p"}
MCConcl == [g \in MCGoal |-> "p"]
MCTactic == {"split", "lra", "nra", "fix", "auto"}
MCEffect ==
  "split" :> ("thm" :> <<"A", "B">>) @@
  "lra" :> ("A" :> <<>> @@ "lem" :> <<>>) @@
  "fix" :> ("A" :> <<>> @@ "lem" :> <<>>) @@
  "nra" :> ("A" :> <<>> @@ "B" :> <<>>) @@
  "auto" :> [g \in MCGoal |-> <<g>>]

MCBase ==
  "main" :> [libs \in SUBSET Library |-> Stated("thm")] @@
  "mathcomp" :> [libs \in SUBSET Library |-> Stated(IF "lra" \in libs THEN "lem" ELSE "dark")] @@
  "done" :> [libs \in SUBSET Library |-> Ended("qed")]

\* Every sentence of the proof by itself, and texts of several.
MCText ==
  {<<Say(v)>> : v \in {"split", "lra", "fix", "Lemma", "Definition", "Search"}}
  \union {<<Say("split"), Say("Search"), Say("lra")>>,
          <<Say("split"), Say("lra"), Say("nra"), Say("Qed")>>,
          <<Say("lra"), Say("Qed"), Say("Lemma")>>,
          <<Block(1), Say("lra"), EndBlock>>,
          <<Say("Abort")>>}

MCMenu == {<< <<Say("Qed")>>, <<Say("lra")>>, <<Say("split"), Say("lra")>> >>,
           << <<Say("Search")>>, <<Say("nra")>> >>}
MCPortfolio == << <<Say("auto")>>, <<Say("nra")>> >>
MCBridgePortfolio == << <<Say("lra")>> >>
=============================================================================
