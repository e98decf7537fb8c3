----------------------------- MODULE MCHttpApi -----------------------------
(***************************************************************************)
(* HttpApi for TLC: two goroutines share two builders, each derived from   *)
(* the other or from itself any number of times.                           *)
(***************************************************************************)
EXTENDS HttpClaims, TLC

CONSTANTS p1, p2, v1, v2

MCGoroutines == {p1, p2}
MCBuilders   == {v1, v2}
MCSettings   == {<<"Content-Type", "form">>, <<"Content-Type", "json">>,
                 <<"content-type", "form">>}
MCBodies     == {"values", "data", "bad"}
MCTimeouts   == {0, 5}
MCMethods    == {"GET", "POST"}

\* Goroutines and variables differ in nothing but their name.
Symmetry == {p @@ q : p \in Permutations(Goroutines), q \in Permutations(Builders)}
=============================================================================
