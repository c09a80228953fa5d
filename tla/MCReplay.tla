------------------------------ MODULE MCReplay ------------------------------
(***************************************************************************)
(* Instances of the replay for TLC.                                        *)
(***************************************************************************)
EXTENDS ReplayProperties

Tactic == Word("lia")
Shown  == Str(<<"Axiom", Quote, Quote, "(", "*">>)
Nested == Com(Com(<<"lia">>).text \o <<"Admitted">> \o Str(<<"(", "*">>).text)
Odd    == [text |-> Shown.text \o Nested.text, code |-> {}]

MCPiece == {Word("Admitted"), Odd}

MCAbove == <<Word("Axiom"), Com(Str(<<"*", ")">>).text \o <<Blank, "Lemma">>)>>

MCAttempts == <<"a1", "a2">>
MCSetNames == <<"v2_shipped", "v3_intros">>
MCCloser == [s \in {"v2_shipped", "v3_intros"} |-> IF s = "v2_shipped" THEN Tactic ELSE Nested]

\* The output of an audit, with and without a block of the file's own before it.
MCOutputs ==
  {<<>>, <<"Axioms:", "a">>, <<"Axioms:", "***", "f">>,
   <<"Axioms:", "a", "closed">>, <<"closed", "Axioms:", "a">>, <<"Axioms:", "a", "Axioms:", "classic">>}

\* Files of two statements, each with a proof or without, and with other sentences
\* above, between and behind them; the last one may be left open.
Other == <<Sentence("Other")>>

Proof(opened, n, ends) ==
  (IF opened THEN <<Sentence("Proof")>> ELSE <<>>)
    \o SubSeq(<<Sentence("tactic")>> \o Other, 1, n) \o ends

Closed == {<<Sentence(closer)>> : closer \in {"Qed", "Defined", "Admitted", "Abort"}}
Proofs(ends) == {Proof(opened, n, e) : opened \in BOOLEAN, n \in 0..2, e \in ends}

Aside == <<Sentence("Goal")>> \o Proof(TRUE, 1, <<Sentence("Qed")>>)

MCFiles ==
  {above \o <<Statement("Lemma", "a", FALSE)>> \o p1 \o between
         \o <<Statement(kw, "b", indented)>> \o p2 :
     above \in {<<>>, Other}, p1 \in Proofs(Closed), between \in {<<>>, Other, Aside},
     kw \in {"Theorem", "Remark"}, indented \in BOOLEAN,
     p2 \in Proofs(Closed \cup {<<>>}) \cup {p \o Aside : p \in Proofs({<<Sentence("Admitted")>>})}}

ASSUME \A f \in MCFiles : Accepted(f)
=============================================================================
