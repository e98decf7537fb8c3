----------------------------- MODULE MCService -----------------------------
(***************************************************************************)
(* Service for TLC: two requests, three endpoints, and a good token beside *)
(* one that is not.                                                        *)
(***************************************************************************)
EXTENDS Service, TLC

CONSTANTS c1, c2, g1, bad

MCCallers   == {c1, c2}
MCGrants    == {g1}
MCMalformed == {bad}

\* Two keys, as during a rotation, and no default key.
MCPublicKeys == [old |-> "key1", new |-> "key2"]

Good == [alg |-> "RS256", kid |-> "old", signer |-> "key1", iss |-> "us",
         aud |-> {"ordering-api"}, nbf |-> 0, exp |-> 9,
         grant |-> g1, scopes |-> {"orders"}]

\* A good token, and one that is expired from 2 on, with the leeway; until then
\* it lacks the scope of the first endpoint, and the second one, which asks for
\* none, has it refused for its tenant.
MCTokens == {Good, [Good EXCEPT !.exp = 1, !.grant = bad, !.scopes = {}]}

MCEndpoints ==
    {[adapter |-> "http", scopes |-> {"orders"}, checksGrants |-> TRUE,
      ownVerifier |-> FALSE],
     [adapter |-> "grpc", scopes |-> {}, checksGrants |-> TRUE,
      ownVerifier |-> TRUE],
     [adapter |-> "http with error handler", scopes |-> {"orders"},
      checksGrants |-> FALSE, ownVerifier |-> FALSE]}

CallerSymmetry == Permutations(Callers)
=============================================================================
