----------------------------- MODULE Authorize -----------------------------
(***************************************************************************)
(* Requests on their way to a handler: the adapters Middleware             *)
(* (oauth/http.go) and UnaryServerInterceptor (oauth/grpc.go), authorize   *)
(* (oauth/authorize.go) with the verifier (oauth/verifier.go), the scopes  *)
(* an endpoint requires and, where it asks for it, GrantChecker.Active.    *)
(* Of the latter we use what it promises: its calls are those of           *)
(* GrantPromise, which GrantChecker implements.                            *)
(*                                                                         *)
(* A token is abstract: who signed it, with what header, and its claims.   *)
(* Signatures and parsing are the jwt library's.                           *)
(***************************************************************************)
EXTENDS GrantRows

CONSTANTS
    Tokens,        \* bearer tokens
    Endpoints,     \* adapters in use, with their options
    PublicKeys,    \* KeySource: PublicKeys[kid], all the same for a StaticKey
    Issuer, Audience, Leeway,  \* Config of the verifier
    NoToken,       \* the request carries no bearer token
    NoGrant,       \* the claims lack the tenant or the subject
    NoExpiry       \* the claims lack exp

Errors == {"ErrTokenMissing", "ErrTokenInvalid", "ErrInsufficientScope",
           "ErrGrantRevoked", "ErrGrantUnavailable", "unknown"}

ASSUME TokensAssumption ==
    /\ NoToken \notin Tokens
    /\ NoGrant \notin Grants \cup Malformed
    /\ \A t \in Tokens : /\ t.grant \in Grants \cup Malformed \cup {NoGrant}
                         /\ t.exp \in Int \cup {NoExpiry}
                         /\ t.nbf \in Int

ASSUME LeewayAssumption == Leeway \in Nat

ASSUME EndpointsAssumption ==
    /\ Endpoints # {}
    /\ \A e \in Endpoints :
          /\ e.adapter \in {"http", "http with error handler", "grpc"}
          /\ e.checksGrants \in BOOLEAN
          /\ e.ownVerifier \in BOOLEAN

VARIABLES
    stage,      \* stage[c]: how far the call of Active is, as in GrantPromise
    reply,      \* reply[c]: how far the request of c is, or its answer
    endpoint,   \* endpoint[c]: where it came in
    token,      \* token[c]: the token it carries
    arrivedAt   \* arrivedAt[c]: when

checker  == <<now, db, heldUntil, stage, grant, calledAt>>
requests == <<reply, endpoint, token, arrivedAt>>
pipeline == <<checker, requests>>

Checker == INSTANCE GrantPromise

RequestsInit ==
    /\ Checker!Init
    /\ reply = [c \in Callers |-> "none"]
    /\ endpoint = [c \in Callers |-> CHOOSE e \in Endpoints : TRUE]
    /\ token = [c \in Callers |-> NoToken]
    /\ arrivedAt = [c \in Callers |-> 0]

-----------------------------------------------------------------------------
(* Verify.                                                                 *)

\* keyFunc finds a key for the token's kid and the signature fits it.
Signed(t) ==
    /\ t.alg = "RS256"
    /\ t.kid \in DOMAIN PublicKeys
    /\ t.signer = PublicKeys[t.kid]

\* The parser's tests of exp and nbf, by a clock that may be off by Leeway.
Live(t, at) ==
    /\ t.exp # NoExpiry
    /\ at < t.exp + Leeway
    /\ t.nbf - Leeway <= at

Valid(t, at) ==
    /\ Signed(t)
    /\ t.iss = Issuer
    /\ Audience \in t.aud
    /\ Live(t, at)
    /\ t.grant # NoGrant

Verify(t) ==
    IF t = NoToken THEN "ErrTokenMissing"
    ELSE IF Valid(t, now) THEN "ok" ELSE "ErrTokenInvalid"

-----------------------------------------------------------------------------
(* The statuses.                                                           *)

HttpStatus ==
    [ErrTokenMissing |-> "401", ErrTokenInvalid |-> "401",
     ErrGrantRevoked |-> "401", ErrInsufficientScope |-> "403",
     ErrGrantUnavailable |-> "503", unknown |-> "500"]

\* Mutant of GrpcStatus: no default, and the zero value of a code is OK.
GrpcStatusWithoutDefault ==
    [ErrTokenMissing |-> "Unauthenticated",
     ErrTokenInvalid |-> "Unauthenticated",
     ErrGrantRevoked |-> "Unauthenticated",
     ErrInsufficientScope |-> "PermissionDenied",
     ErrGrantUnavailable |-> "Unavailable", unknown |-> "OK"]

GrpcStatus ==
    [ErrTokenMissing |-> "Unauthenticated",
     ErrTokenInvalid |-> "Unauthenticated",
     ErrGrantRevoked |-> "Unauthenticated",
     ErrInsufficientScope |-> "PermissionDenied",
     ErrGrantUnavailable |-> "Unavailable", unknown |-> "Internal"]

\* The status of the answer; errHandler's is the application's choice.
Response(e, err) ==
    CASE e.adapter = "http" -> HttpStatus[err]
      [] e.adapter = "grpc" -> GrpcStatus[err]
      [] OTHER -> "custom"

-----------------------------------------------------------------------------
(* The request.                                                            *)

\* A goroutine serves one request.
Free(c) == reply[c] = "none"

Waiting(c) == reply[c] = "waiting"

\* claims.hasAllScopes, the scope claim taken for its set of words.
HasAllScopes(t, required) == required \subseteq t.scopes

\* What can come of Verify and the scopes. A verifier of the application's
\* may fail for reasons of its own.
BeforeGrant(e, t) ==
    (IF e.ownVerifier THEN {"unknown"} ELSE {}) \cup
    {IF Verify(t) = "ok" /\ ~HasAllScopes(t, e.scopes)
       THEN "ErrInsufficientScope" ELSE Verify(t)}

Arrive(c, e, t) ==
    /\ now <= MaxTime
    /\ Free(c)
    /\ endpoint' = [endpoint EXCEPT ![c] = e]
    /\ token' = [token EXCEPT ![c] = t]
    /\ arrivedAt' = [arrivedAt EXCEPT ![c] = now]

\* authorize returns an error and the handler is not called.
Refuse(c, e, t) ==
    /\ Arrive(c, e, t)
    /\ \E err \in BeforeGrant(e, t) \ {"ok"} :
          reply' = [reply EXCEPT ![c] = Response(e, err)]
    /\ UNCHANGED checker

\* No grant check: the handler is called.
Admit(c, e, t) ==
    /\ Arrive(c, e, t)
    /\ "ok" \in BeforeGrant(e, t)
    /\ ~e.checksGrants
    /\ reply' = [reply EXCEPT ![c] = "handled"]
    /\ UNCHANGED checker

\* The token is good: what is left to ask is whether its grant is active.
Verified(c, e, t) ==
    /\ Arrive(c, e, t)
    /\ "ok" \in BeforeGrant(e, t)
    /\ e.checksGrants
    /\ reply' = [reply EXCEPT ![c] = "waiting"]

\* Active begins, with the claims of the token.
CheckGrant(c, e, t) ==
    /\ Verified(c, e, t)
    /\ Checker!Begin(c, t.grant,
                     IF t.grant \in Malformed THEN "denied" ELSE "pending")

\* Mutant of GrantError: whatever Active says against a grant, it is gone.
AlwaysRevoked(c) == "ErrGrantRevoked"

\* Active's error; it has none for a grant that is active.
GrantError(c) ==
    IF stage[c] = "denied" THEN "ErrGrantRevoked" ELSE "ErrGrantUnavailable"

\* Mutant of Answer: only a revocation keeps the handler from being called.
AnswerUnlessRevoked(c) ==
    /\ Waiting(c)
    /\ Checker!Returned(c)
    /\ reply' = [reply EXCEPT ![c] =
                   IF stage[c] # "denied" THEN "handled"
                   ELSE Response(endpoint[c], GrantError(c))]
    /\ UNCHANGED <<checker, endpoint, token, arrivedAt>>

\* Active returns to authorize, which returns to the adapter.
Answer(c) ==
    /\ Waiting(c)
    /\ Checker!Returned(c)
    /\ reply' = [reply EXCEPT ![c] =
                   IF stage[c] = "granted" THEN "handled"
                   ELSE Response(endpoint[c], GrantError(c))]
    /\ UNCHANGED <<checker, endpoint, token, arrivedAt>>

-----------------------------------------------------------------------------
(* What goes on meanwhile.                                                 *)

\* Time stands still at the bound only if no call of Active is under way.
ClockTicks ==
    /\ now < MaxTime \/ \E c \in Callers : ~Checker!Returned(c)
    /\ Checker!Tick
    /\ UNCHANGED requests

RowChanges(g, s) ==
    /\ now < MaxTime
    /\ \A u \in Status : heldUntil[g][u] + MinHold <= now
    /\ Checker!ChangeRow(g, s)
    /\ UNCHANGED requests

\* A call of Active moves on, maybe together with others.
ActiveMoves == Checker!Proceed /\ UNCHANGED requests

\* The end of the bounded clock, with every request answered.
RequestsRest == now >= MaxTime /\ (\A c \in Callers : ~Waiting(c)) /\ UNCHANGED pipeline

RequestsNext ==
    \/ ClockTicks \/ ActiveMoves \/ RequestsRest
    \/ \E g \in Grants, s \in Status : RowChanges(g, s)
    \/ \E c \in Callers :
          \/ Answer(c)
          \/ \E e \in Endpoints, t \in Tokens \cup {NoToken} :
                Refuse(c, e, t) \/ Admit(c, e, t) \/ CheckGrant(c, e, t)

RequestsSpec == RequestsInit /\ [][RequestsNext]_pipeline

-----------------------------------------------------------------------------
(* Properties.                                                             *)

Statuses == {"401", "403", "503", "500", "custom",
             "Unauthenticated", "PermissionDenied", "Unavailable", "Internal"}

RequestsTypeOK ==
    /\ now \in Nat
    /\ db \in [Grants -> Status]
    /\ heldUntil \in [Grants -> [Status -> Int]]
    /\ stage \in [Callers ->
                    Checker!Verdict \cup {"idle", "pending", "degraded"}]
    /\ grant \in [Callers -> Grants \cup Malformed]
    /\ calledAt \in [Callers -> Nat]
    /\ reply \in [Callers -> {"none", "waiting", "handled"} \cup Statuses]
    /\ endpoint \in [Callers -> Endpoints]
    /\ token \in [Callers -> Tokens \cup {NoToken}]
    /\ arrivedAt \in [Callers -> Nat]

\* As far as a call of Active may look back, with a degraded one's grace.
Horizon == TTL + QueryTimeout + Grace

Accepted(c) == token[c] # NoToken /\ Valid(token[c], arrivedAt[c])

(***************************************************************************)
(* A handler is called only for a token that was valid when the request    *)
(* came, has every scope of the endpoint, and, where the endpoint checks   *)
(* grants, stands for a grant that was active at most Horizon before,      *)
(* whatever became of the row, of the queries and of other requests in     *)
(* between: an outage never opens the door (authorize.go:35).              *)
(***************************************************************************)
HandlersAreEntitled ==
    \A c \in Callers :
       reply[c] = "handled" =>
         /\ Accepted(c)
         /\ endpoint[c].scopes \subseteq token[c].scopes
         /\ endpoint[c].checksGrants =>
              /\ token[c].grant \in Grants
              /\ HeldSince(token[c].grant, "active",
                                   arrivedAt[c] - Horizon)

\* The row has not been active all the time from t on.
NotAllActive(g, t) ==
    HeldSince(g, "revoked", t) \/ HeldSince(g, "absent", t)

(***************************************************************************)
(* A refusal names whose fault it is, the same for HTTP and gRPC: a client *)
(* is told that its token is no good only if it was not, or its grant was  *)
(* not active at some time in the window, never because the database was   *)
(* away ("It is NOT the client's fault", errors.go:28); it is told that it *)
(* lacks a scope only for a valid token; and to try again only if the      *)
(* endpoint checks grants and a query failed.                              *)
(***************************************************************************)
RefusalsNameTheFault ==
    \A c \in Callers :
       /\ reply[c] \in {"401", "Unauthenticated"} /\ Accepted(c) =>
            /\ endpoint[c].checksGrants
            /\ \/ token[c].grant \in Malformed
               \/ NotAllActive(token[c].grant, arrivedAt[c] - Horizon)
       /\ reply[c] \in {"403", "PermissionDenied"} =>
            Accepted(c) /\ ~ endpoint[c].scopes \subseteq token[c].scopes
       /\ reply[c] \in {"503", "Unavailable"} =>
            endpoint[c].checksGrants /\ Accepted(c) /\ stage[c] = "unavailable"
       /\ reply[c] \in {"500", "Internal"} => endpoint[c].ownVerifier
=============================================================================
