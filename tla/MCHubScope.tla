----------------------------- MODULE MCHubScope -----------------------------
(***************************************************************************)
(* HubScope for TLC: two requests, two operations, and goroutines that     *)
(* report on any of their contexts.                                        *)
(***************************************************************************)
EXTENDS HubClaims, HubOverlap

CONSTANTS p1, p2, r1, r2, n1, n2, t1

MCGoroutines == {p1, p2}
MCRequests   == {r1, r2}
MCOperations == {n1, n2}
MCTenants    == {t1}

\* Goroutines, requests and operations differ in nothing but their names.
Symmetry ==
    {p @@ r @@ n : p \in Permutations(Goroutines), r \in Permutations(Requests),
                   n \in Permutations(Operations)}
=============================================================================
