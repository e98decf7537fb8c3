------------------------- MODULE InterceptorClaims -------------------------
(***************************************************************************)
(* Sentences about the interceptors that the code does not live up to.     *)
(***************************************************************************)
EXTENDS Interceptors

(***************************************************************************)
(* interceptor.go:140: "For internal calls via grpc-gateway, this path     *)
(* [the fallback] shouldn't be hit since the registry lookup should        *)
(* succeed." Here for the calls whose callers still wait for them.         *)
(***************************************************************************)
InternalLookupSucceeds ==
    \A x \in Calls :
       Started(x) /\ span[x] # NoSpan /\ client[x] # "gaveUp" =>
         via[x] = "registry"

(***************************************************************************)
(* README.md, changelog: "the server interceptor no longer repoint[s] a    *)
(* shared hub's scope". CurrentHub is the hub every handler shares.        *)
(***************************************************************************)
SharedHubIsLeftAlone == globalSpan = NoSpan
=============================================================================
