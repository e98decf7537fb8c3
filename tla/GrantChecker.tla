---------------------------- MODULE GrantChecker ----------------------------
(***************************************************************************)
(* oauth.GrantChecker.Active (oauth/grant.go) over its default memCache    *)
(* (oauth/cache.go), for any number of goroutines: the cache lookup, the   *)
(* lazy eviction under the write lock, the singleflight group that merges  *)
(* concurrent misses into one query, the query on a detached context with  *)
(* its own timeout, and the stale fallback when that query failed.         *)
(*                                                                         *)
(* Time is counted in ticks. A goroutine's steps take less than a tick and *)
(* a flight ends by its deadline, when the context's timer fires; only the *)
(* database may keep a flight waiting (the guard of Tick).                 *)
(***************************************************************************)
EXTENDS GrantRows

CONSTANTS
    NoEntry,       \* the cache has no entry for a key
    NoCaller       \* the singleflight group has no flight for a key

ASSUME NoCallerAssumption == NoCaller \notin Callers

Cached == {"active", "revoked"}
Keys   == Grants \cup Malformed
Entry  == [value : Cached, at : Int]
MaxAge == TTL + Grace

ASSUME NoEntryAssumption == NoEntry \notin Entry

VARIABLES
    cache,      \* memCache.data
    group,      \* group[g]: the caller that runs g's flight
    pc,         \* pc[c]: the next step of c's call of Active, or its result
    retry,      \* retry[c]: the query failed, this is the fallback lookup
    seen,       \* seen[c]: the entry read under the RLock
    began,      \* began[c]: when c's query was sent, while c leads a flight
    result      \* result[c]: what that query has returned so far

env   == <<now, db, heldUntil>>
local == <<pc, grant, calledAt, retry, seen, began, result>>
vars  == <<env, cache, group, local>>

Results == {"granted", "denied", "unavailable"}
Returned(c) == pc[c] \in Results \cup {"idle"}

\* The pcs of a flight's leader: query sent, row read and reply on its way,
\* function returned. From "publish" on the flight is over but for its result.
Leading(c) == pc[c] \in {"query", "reply", "publish"}

Age(entry) == now - entry.at
Deadline(c) == began[c] + QueryTimeout

Init ==
    /\ now = 0
    /\ db \in [Grants -> Status]
    /\ heldUntil = [g \in Grants |-> [s \in Status |-> Never]]
    /\ cache = [g \in Grants |-> NoEntry]
    /\ group = [g \in Grants |-> NoCaller]
    /\ pc = [c \in Callers |-> "idle"]
    /\ grant \in [Callers -> Grants]
    /\ calledAt = [c \in Callers |-> 0]
    /\ retry = [c \in Callers |-> FALSE]
    /\ seen = [c \in Callers |-> NoEntry]
    /\ began = [c \in Callers |-> 0]
    /\ result = [c \in Callers |-> "none"]

-----------------------------------------------------------------------------
(* The environment: the clock and the row.                                 *)

Tick ==
    /\ now < MaxTime \/ \E c \in Callers : Leading(c)
    /\ \A c \in Callers : Leading(c) => now < Deadline(c)
    /\ now' = now + 1
    /\ UNCHANGED <<db, heldUntil, cache, group, local>>

ChangeRow(g, s) ==
    /\ now < MaxTime
    /\ s # db[g]
    /\ \A u \in Status : heldUntil[g][u] + MinHold <= now
    /\ db' = [db EXCEPT ![g] = s]
    /\ heldUntil' = [heldUntil EXCEPT ![g][db[g]] = now]
    /\ UNCHANGED <<now, cache, group, local>>

-----------------------------------------------------------------------------
(* Active, up to the query.                                                *)

\* The mapping of activeOrRevoked: anything but "active" is ErrGrantRevoked.
ActiveOrRevoked(status) == IF status = "active" THEN "granted" ELSE "denied"

\* c leaves with a result: the locals of the call are gone.
Return(c, res) ==
    /\ pc' = [pc EXCEPT ![c] = res]
    /\ seen' = [seen EXCEPT ![c] = NoEntry]

\* A malformed tenant label is answered before the cache is looked at.
Active(c, g) ==
    /\ now <= MaxTime
    /\ Returned(c)
    /\ pc' = [pc EXCEPT ![c] = IF g \in Malformed THEN "denied" ELSE "get"]
    /\ grant' = [grant EXCEPT ![c] = g]
    /\ calledAt' = [calledAt EXCEPT ![c] = now]
    /\ retry' = [retry EXCEPT ![c] = FALSE]
    /\ UNCHANGED <<env, cache, group, seen, began, result>>

\* Mutant of Miss: any lookup without an entry is taken for an outage.
MissIsOutage(c) == Return(c, "unavailable")

\* ok is false: the first lookup goes on to the group, the fallback gives up.
Miss(c) == Return(c, IF retry[c] THEN "unavailable" ELSE "do")

\* memCache.Get up to RUnlock. The entry is judged later, with another now().
Lookup(c) ==
    /\ pc[c] = "get"
    /\ IF cache[grant[c]] = NoEntry
         THEN Miss(c)
         ELSE /\ pc' = [pc EXCEPT ![c] = "judge"]
              /\ seen' = [seen EXCEPT ![c] = cache[grant[c]]]
    /\ UNCHANGED <<env, cache, group, grant, calledAt, retry, began, result>>

\* Mutant of Usable: the stale bound, whether or not a query has failed.
UsableWithoutFailure(c) == TTL + Grace

\* Mutant of Usable: age < ttl.
UsableBefore(c) == (IF retry[c] THEN TTL + Grace ELSE TTL) - 1

\* How old an entry this lookup accepts.
Usable(c) == IF retry[c] THEN TTL + Grace ELSE TTL

\* The rest of Get and Active's test of the age it returns.
Judge(c) ==
    /\ pc[c] = "judge"
    /\ LET age == Age(seen[c]) IN
         \/ /\ age > MaxAge
            /\ pc' = [pc EXCEPT ![c] = "evict"]
            /\ UNCHANGED seen
         \/ /\ age <= MaxAge
            /\ IF age <= Usable(c)
                 THEN Return(c, ActiveOrRevoked(seen[c].value))
                 ELSE Miss(c)
    /\ UNCHANGED <<env, cache, group, grant, calledAt, retry, began, result>>

\* Mutant of Expired: no re-check once the write lock is held.
ExpiredWhenRead(g) == cache[g] # NoEntry

\* The entry now in the map is older than maxAge.
Expired(g) == cache[g] # NoEntry /\ Age(cache[g]) > MaxAge

\* Get under the write lock: delete what is still expired, report a miss.
Evict(c) ==
    /\ pc[c] = "evict"
    /\ cache' = [cache EXCEPT ![grant[c]] =
                   IF Expired(grant[c]) THEN NoEntry ELSE @]
    /\ Miss(c)
    /\ UNCHANGED <<env, group, grant, calledAt, retry, began, result>>

\* group.Do joins the flight for the key, or starts one and sends the query.
Join(c) ==
    /\ pc[c] = "do"
    /\ group[grant[c]] # NoCaller
    /\ pc' = [pc EXCEPT ![c] = "wait"]
    /\ UNCHANGED <<env, cache, group, grant, calledAt, retry, seen, began, result>>

\* Mutant of Lead: every miss runs its own query.
LeadAnyway(c) ==
    /\ pc[c] = "do"
    /\ group' = [group EXCEPT ![grant[c]] = c]
    /\ pc' = [pc EXCEPT ![c] = "query"]
    /\ began' = [began EXCEPT ![c] = now]
    /\ UNCHANGED <<env, cache, grant, calledAt, retry, seen, result>>

Lead(c) ==
    /\ pc[c] = "do"
    /\ group[grant[c]] = NoCaller
    /\ group' = [group EXCEPT ![grant[c]] = c]
    /\ pc' = [pc EXCEPT ![c] = "query"]
    /\ began' = [began EXCEPT ![c] = now]
    /\ UNCHANGED <<env, cache, grant, calledAt, retry, seen, result>>

-----------------------------------------------------------------------------
(* The flight. Its leader's request context does not reach it: nothing but *)
(* the database and grantQueryTimeout decides how it ends.                 *)

\* The database reads the row; its reply is on the way.
ReadRow(c) ==
    /\ pc[c] = "query"
    /\ pc' = [pc EXCEPT ![c] = "reply"]
    /\ result' = [result EXCEPT ![c] = db[grant[c]]]
    /\ UNCHANGED <<env, cache, group, grant, calledAt, retry, seen, began>>

\* Mutant of Store: absence is cached like a status.
StoreAnything(c) ==
    /\ pc[c] = "reply"
    /\ pc' = [pc EXCEPT ![c] = "publish"]
    /\ cache' = [cache EXCEPT ![grant[c]] = [value |-> result[c], at |-> now]]
    /\ UNCHANGED <<env, group, grant, calledAt, retry, seen, began, result>>

\* queryStatus returns: a status is cached, with the time of Set, not of the
\* read; absence is not.
Store(c) ==
    /\ pc[c] = "reply"
    /\ pc' = [pc EXCEPT ![c] = "publish"]
    /\ cache' = IF result[c] = "absent"
                  THEN cache
                  ELSE [cache EXCEPT ![grant[c]] = [value |-> result[c], at |-> now]]
    /\ UNCHANGED <<env, group, grant, calledAt, retry, seen, began, result>>

\* queryStatus returns an error: from the database or the connection at any
\* time, from the context at the deadline.
Fail(c) ==
    /\ pc[c] \in {"query", "reply"}
    /\ pc' = [pc EXCEPT ![c] = "publish"]
    /\ result' = [result EXCEPT ![c] = "error"]
    /\ UNCHANGED <<env, cache, group, grant, calledAt, retry, seen, began>>

\* Mutant of TimeOut: a query without a timeout of its own.
NoTimeOut(c) == FALSE /\ Fail(c)

TimeOut(c) == now >= Deadline(c) /\ Fail(c)

\* The callers that get the result of the flight c leads.
Party(c) == {c} \cup {w \in Callers : pc[w] = "wait" /\ grant[w] = grant[c]}

\* doCall's deferred part: the group forgets the key and every waiter wakes,
\* with the status, or with the error that sends it to the fallback lookup.
Publish(c) ==
    /\ pc[c] = "publish"
    /\ group' = [group EXCEPT ![grant[c]] = NoCaller]
    /\ pc' = [w \in Callers |->
                IF w \notin Party(c) THEN pc[w]
                ELSE IF result[c] = "error" THEN "get"
                ELSE ActiveOrRevoked(result[c])]
    /\ retry' = [w \in Callers |->
                   retry[w] \/ (w \in Party(c) /\ result[c] = "error")]
    /\ began' = [began EXCEPT ![c] = 0]
    /\ result' = [result EXCEPT ![c] = "none"]
    /\ UNCHANGED <<env, cache, grant, calledAt, seen>>

-----------------------------------------------------------------------------
Environment ==
    \/ Tick
    \/ \E g \in Grants, s \in Status : ChangeRow(g, s)

Step(c) ==
    \/ Lookup(c) \/ Judge(c) \/ Evict(c)
    \/ Join(c) \/ Lead(c)
    \/ Store(c) \/ TimeOut(c) \/ Publish(c)

\* The end of the bounded clock: nobody is left waiting, or TLC reports a
\* deadlock.
Rest ==
    /\ now >= MaxTime
    /\ \A c \in Callers : Returned(c)
    /\ UNCHANGED vars

Next ==
    \/ Environment
    \/ Rest
    \/ \E c \in Callers, g \in Keys : Active(c, g)
    \/ \E c \in Callers : Step(c) \/ ReadRow(c) \/ Fail(c)

Spec == Init /\ [][Next]_vars

\* The scheduler runs every goroutine and the clock moves. The database owes
\* nothing: ReadRow and Fail may never happen.
Fairness == WF_vars(Tick) /\ \A c \in Callers : WF_vars(Step(c))

FairSpec == Spec /\ Fairness

-----------------------------------------------------------------------------
(* Properties.                                                             *)

TypeOK ==
    /\ now \in Nat
    /\ db \in [Grants -> Status]
    /\ heldUntil \in [Grants -> [Status -> Int]]
    /\ cache \in [Grants -> Entry \cup {NoEntry}]
    /\ group \in [Grants -> Callers \cup {NoCaller}]
    /\ pc \in [Callers -> Results \cup {"idle", "get", "judge", "evict", "do",
                                         "wait", "query", "reply", "publish"}]
    /\ grant \in [Callers -> Keys]
    /\ calledAt \in [Callers -> Nat]
    /\ retry \in [Callers -> BOOLEAN]
    /\ seen \in [Callers -> Entry \cup {NoEntry}]
    /\ began \in [Callers -> Nat]
    /\ result \in [Callers -> Status \cup {"none", "error"}]

\* How far before its start a call may look back.
Window(c) == TTL + QueryTimeout + (IF retry[c] THEN Grace ELSE 0)

(***************************************************************************)
(* Every verdict rests on a status the row had recently: "granted" on an   *)
(* active row, "denied" on a revoked one or on no row at all, at most      *)
(* TTL + QueryTimeout before the call, with Grace more only if its query   *)
(* failed. This is the bound on revocation latency that WithTTL and        *)
(* WithStaleGrace promise, corrected by the time a query takes, over every *)
(* interleaving of lookups, evictions, stores and shared flights. Absence  *)
(* has no such window: it is never served from the cache (grant.go:121).   *)
(***************************************************************************)
VerdictJustified ==
    \A c \in Callers :
       /\ pc[c] = "granted" =>
            HeldSince(grant[c], "active", calledAt[c] - Window(c))
       /\ pc[c] = "denied" /\ grant[c] \in Grants =>
            \/ HeldSince(grant[c], "revoked", calledAt[c] - Window(c))
            \/ HeldSince(grant[c], "absent", calledAt[c] - QueryTimeout)

(***************************************************************************)
(* At most one query per key is under way, and nobody waits for a flight   *)
(* that is not there (singleflight, grant.go:95).                          *)
(***************************************************************************)
SingleFlight ==
    \A c \in Callers :
       /\ Leading(c) => group[grant[c]] = c
       /\ pc[c] = "wait" => /\ group[grant[c]] # NoCaller
                            /\ Leading(group[grant[c]])

(***************************************************************************)
(* The cache never goes back in time: a stored status was still in the row *)
(* when the entry it replaces was stored. Two flights for one key that     *)
(* overlapped could store their replies in the wrong order and bring a     *)
(* revoked grant back for a TTL.                                           *)
(***************************************************************************)
CacheMovesForward ==
    [][\A g \in Grants :
         cache[g] # NoEntry /\ cache'[g] # NoEntry /\ cache'[g] # cache[g] =>
           HeldSince(g, cache'[g].value, cache[g].at)]_vars

(***************************************************************************)
(* Eviction spares an entry that is usable, even if the caller that evicts *)
(* decided so on an older entry: the fallback of a later outage needs it   *)
(* (the re-check under the write lock, cache.go:52).                       *)
(***************************************************************************)
EvictionSparesUsable ==
    [][\A g \in Grants :
         cache[g] # NoEntry /\ cache'[g] = NoEntry => Age(cache[g]) > MaxAge]_vars

(***************************************************************************)
(* The cache spares the database: a call queries although there is a fresh *)
(* entry only if that entry was stored after the call began, by a flight   *)
(* that ended between its lookup and group.Do (grant.go:106).              *)
(***************************************************************************)
QueriesAreNeeded ==
    [][\A c \in Callers :
         pc[c] = "do" /\ pc'[c] = "query" /\ cache[grant[c]] # NoEntry =>
           \/ Age(cache[grant[c]]) > TTL
           \/ cache[grant[c]].at >= calledAt[c]]_vars

(***************************************************************************)
(* Every call of Active returns, although the database may never answer    *)
(* and the query does not end with its caller's context: no caller waits   *)
(* for a flight that is over, and the timeout ends each flight.            *)
(***************************************************************************)
EveryCallReturns == \A c \in Callers : ~Returned(c) ~> Returned(c)

(***************************************************************************)
(* The cache, the group and the fallback implement the promise of          *)
(* GrantPromise: a call is degraded from the moment its query has failed.  *)
(***************************************************************************)
Promise == INSTANCE GrantPromise WITH
    stage <- [c \in Callers |->
                IF Returned(c) THEN pc[c]
                ELSE IF retry[c] THEN "degraded" ELSE "pending"]

KeepsPromise == Promise!Spec
=============================================================================
