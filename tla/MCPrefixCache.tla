--------------------------- MODULE MCPrefixCache ----------------------------
(* Values for PrefixCache's constants. *)
EXTENDS PrefixCacheProperties, TLC

MCStatement == {"a", "b", "c"}
MCSentence == MCStatement \union {"Require X", "Require Y", "def", "tac", "bad", "undefined", "Qed", "Admitted"}
MCNeeds == [s \in MCSentence |->
              CASE s = "bad" -> {"undefined"}
                [] s = "c" -> {"Require X"}
                [] OTHER -> {}]

\* Imports first.  Proofs break in a tactic, at Qed, or not at all; a file ends
\* with an open statement, with an admitted one, or cannot be loaded.
ImportsFirst ==
  {<<"Require X", "Require Y", "a", "bad", "tac", "Qed", "b", "tac", "Qed", "c">>,
   <<"Require X", "Require Y", "a", "tac", "Qed", "b", "def", "Qed", "c", "tac", "Qed">>,
   <<"Require X", "Require Y", "b", "tac", "Qed", "def", "c", "Admitted">>,
   <<"Require Y", "bad", "def">>}

\* An import behind a broken proof begins another file.
LateImport ==
  {<<"Require X", "a", "bad", "Qed", "Require Y", "b", "tac", "Qed">>,
   <<"Require Y", "c">>}
=============================================================================
