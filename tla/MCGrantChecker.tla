--------------------------- MODULE MCGrantChecker ---------------------------
(***************************************************************************)
(* GrantChecker for TLC: model values for callers and keys.                *)
(***************************************************************************)
EXTENDS GrantChecker, TLC

CONSTANTS c1, c2, g1, bad

MCCallers   == {c1, c2}
MCGrants    == {g1}
MCMalformed == {bad}

\* Callers differ in nothing but their name.
CallerSymmetry == Permutations(Callers)
=============================================================================
