------------------------------ MODULE MCSweep ------------------------------
(***************************************************************************)
(* An instance of the sweep for TLC.                                       *)
(***************************************************************************)
EXTENDS SweepProperties, TLC

CONSTANTS e1, e2, e3, h1, h2, h3

MCBuckets == <<"easy", "hard">>
MCPools   == [b \in {"easy", "hard"} |-> IF b = "easy" THEN {e1, e2, e3} ELSE {h1, h2, h3}]
MCNs      == <<1, 2>>

\* The problems of a difficulty are alike.
MCSymmetry == Permutations({e1, e2, e3}) \cup Permutations({h1, h2, h3})
=============================================================================
