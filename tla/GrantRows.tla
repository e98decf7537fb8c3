----------------------------- MODULE GrantRows -----------------------------
(***************************************************************************)
(* What oauth.GrantChecker and its callers share: the clock, the rows of   *)
(* oauth_grants and the calls of Active as their callers see them. The     *)
(* rows belong to the environment. heldUntil is a history of them: the     *)
(* properties compare a verdict with what the row was.                     *)
(***************************************************************************)
EXTENDS Integers

CONSTANTS
    Callers,       \* goroutines that call Active
    Grants,        \* cache keys (tenant, subject) with a well-formed tenant
    Malformed,     \* keys whose tenant label tenantSchema refuses
    TTL, Grace,    \* cfg.ttl, cfg.grace after NewGrantChecker's defaults
    QueryTimeout,  \* grantQueryTimeout
    MaxTime,       \* bound: no call starts after it, the row rests from it on
    MinHold        \* bound: ticks between two changes of one row

ASSUME TimingAssumption ==
    /\ TTL \in Nat \ {0}
    /\ Grace \in Nat
    /\ QueryTimeout \in Nat \ {0}
    /\ MaxTime \in Nat
    /\ MinHold \in Nat

\* A key either is looked up or is refused.
ASSUME KeysAssumption == Grants \cap Malformed = {}

VARIABLES
    now,        \* the clock GrantChecker and memCache read
    db,         \* db[g]: status in the row of g, "absent" if there is none
    heldUntil,  \* history: when the row of g last stopped having status s
    grant,      \* grant[c]: the key of c's latest call
    calledAt    \* calledAt[c]: when it began

Status == {"active", "revoked", "absent"}

\* A time before every window a call can look back to.
Never == -(TTL + Grace + QueryTimeout + MinHold + 1)

\* The row of g had status s at some time from t on.
HeldSince(g, s, t) == db[g] = s \/ heldUntil[g][s] >= t
=============================================================================
