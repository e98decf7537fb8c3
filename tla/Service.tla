------------------------------ MODULE Service ------------------------------
(***************************************************************************)
(* The requests of Authorize over the checker of GrantChecker: a service   *)
(* with its default cache, where authorize (oauth/authorize.go) calls      *)
(* GrantChecker.Active (oauth/grant.go) in the goroutine of the request.   *)
(* The two parts share the rows and the calls of Active; every other step  *)
(* is of one of them and leaves the other alone.                           *)
(*                                                                         *)
(* stage says of each call what Authorize can tell of it.                  *)
(***************************************************************************)
EXTENDS GrantChecker, Authorize

\* What is GrantChecker's only.
inside == <<cache, group, pc, retry, seen, began, result>>
service == <<pipeline, inside>>

\* How far the calls of Active are for Authorize: a call is degraded from the
\* moment its query has failed.
Stages ==
    [c \in Callers |-> IF Returned(c) THEN pc[c]
                       ELSE IF retry[c] THEN "degraded" ELSE "pending"]

ServiceInit == RequestsInit /\ Init

\* Requests that need no verdict on a grant.
RefuseRequest(c, e, t) == Refuse(c, e, t) /\ UNCHANGED inside
AdmitRequest(c, e, t) == Admit(c, e, t) /\ UNCHANGED inside

\* authorize calls Active with the tenant and the subject of the claims.
CallActive(c, e, t) ==
    /\ Verified(c, e, t)
    /\ Active(c, t.grant)
    /\ stage' = Stages'

\* Active returns to authorize.
AnswerRequest(c) == Answer(c) /\ UNCHANGED inside

\* A step of the checker, of the database or of the clock.
CheckerMoves ==
    /\ \/ Environment
       \/ \E c \in Callers : Step(c) \/ ReadRow(c) \/ Fail(c)
    /\ stage' = Stages'
    /\ UNCHANGED requests

ServiceRest == RequestsRest /\ UNCHANGED inside

ServiceNext ==
    \/ CheckerMoves \/ ServiceRest
    \/ \E c \in Callers :
          \/ AnswerRequest(c)
          \/ \E e \in Endpoints, t \in Tokens \cup {NoToken} :
                RefuseRequest(c, e, t) \/ AdmitRequest(c, e, t) \/ CallActive(c, e, t)

ServiceSpec == ServiceInit /\ [][ServiceNext]_service

-----------------------------------------------------------------------------
(* Properties.                                                             *)

(***************************************************************************)
(* Requests see of the cache, the group and the queries no more than what  *)
(* GrantPromise promises: a service over the real checker does nothing     *)
(* that one over the promise would not do, so whatever is true of requests *)
(* over the promise is true of it (authorize.go:43).                       *)
(***************************************************************************)
ImplementsAuthorize == RequestsSpec

(***************************************************************************)
(* Grace is for outages: a handler that runs on a grant which nobody held  *)
(* any more TTL + QueryTimeout before the request came runs so because the *)
(* query of this very request failed ("serve a TTL-expired entry up to     *)
(* grace when the DB errors", grant.go:65), never on account of another    *)
(* request's failed query or of an entry that outlived its TTL.            *)
(***************************************************************************)
GraceIsForOutages ==
    \A c \in Callers :
       reply[c] = "handled" /\ endpoint[c].checksGrants /\ ~retry[c] =>
         HeldSince(token[c].grant, "active", arrivedAt[c] - (TTL + QueryTimeout))
=============================================================================
