-------------------------- MODULE MCRequestContext --------------------------
(***************************************************************************)
(* RequestContext for TLC: four contexts of one request or of several, and *)
(* loggers derived from each other and bound to them.                      *)
(***************************************************************************)
EXTENDS RequestContext

CONSTANTS c1, c2, c3, c4, k1, k2, k3, t1

MCContexts == {c1, c2, c3, c4}
MCLoggers  == {k1, k2, k3}
MCTenants  == {t1}

\* Contexts, and the loggers made later, differ in nothing but their names.
Symmetry ==
    {c @@ k : c \in Permutations(Contexts), k \in Permutations(Loggers \ {Base})}
=============================================================================
