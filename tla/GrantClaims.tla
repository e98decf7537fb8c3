----------------------------- MODULE GrantClaims -----------------------------
(***************************************************************************)
(* A sentence of oauth's comments about the cache, read literally, beside  *)
(* the code of GrantChecker. It is refuted by a short behaviour; the       *)
(* README says how far the code falls short of it.                         *)
(***************************************************************************)
EXTENDS GrantChecker

(***************************************************************************)
(* grant.go:60: the TTL "is the fleet-wide upper bound on revocation       *)
(* latency". A call whose query did not fail is granted only if the row    *)
(* was active TTL before the call, or later.                               *)
(***************************************************************************)
RevokedWithinTTL ==
    \A c \in Callers :
       pc[c] = "granted" /\ ~retry[c] =>
         HeldSince(grant[c], "active", calledAt[c] - TTL)
=============================================================================
