------------------------- MODULE GrantCheckerProofs -------------------------
(***************************************************************************)
(* Proofs about GrantChecker, for any number of callers and grants, any    *)
(* TTL, Grace, QueryTimeout and any bounds on clock and row.               *)
(*                                                                         *)
(* VerdictJustified is not inductive: a verdict comes from an entry read   *)
(* earlier, the entry from a reply, the reply from the row. The invariant  *)
(* says for each of these places how old the evidence in it can be.        *)
(***************************************************************************)
EXTENDS GrantChecker, TLAPS

\* Only a refused call has a key without a row.
LiveKeys == \A c \in Callers : pc[c] # "denied" => grant[c] \in Grants

\* No call starts in the future.
CalledBefore == \A c \in Callers : calledAt[c] <= now

\* An entry was stored at most QueryTimeout after the row was read.
EntryTrue(g, e) ==
    /\ e \in Entry
    /\ e.at <= now
    /\ HeldSince(g, e.value, e.at - QueryTimeout)

CacheTrue == \A g \in Grants : cache[g] # NoEntry => EntryTrue(g, cache[g])

SeenTrue ==
    \A c \in Callers : pc[c] \in {"judge", "evict"} => EntryTrue(grant[c], seen[c])

\* A flight is not past its deadline, and its result is from its own time.
FlightTrue ==
    \A c \in Callers :
       /\ Leading(c) => began[c] <= now /\ now <= Deadline(c)
       /\ pc[c] = "reply" => result[c] # "error"
       /\ pc[c] \in {"reply", "publish"} /\ result[c] # "error" =>
            /\ result[c] \in Status
            /\ HeldSince(grant[c], result[c], began[c])

Evidence == TypeOK /\ LiveKeys /\ CalledBefore /\ CacheTrue /\ SeenTrue /\ FlightTrue

-----------------------------------------------------------------------------
(* Type correctness.                                                       *)

\* A new checker, with an empty cache and no flight, is type-correct.
LEMMA InitType == Init => TypeOK
BY TimingAssumption DEF Init, TypeOK, Keys, Status, Never

\* The clock keeps the types.
LEMMA TickType == TypeOK /\ Tick => TypeOK'
BY DEF Tick, TypeOK, local

\* So does a change of a row.
LEMMA ChangeRowType ==
  ASSUME TypeOK, NEW g \in Grants, NEW s \in Status, ChangeRow(g, s)
  PROVE  TypeOK'
BY DEF ChangeRow, TypeOK, local, Status

\* So does the start of a call.
LEMMA ActiveType ==
  ASSUME TypeOK, NEW c \in Callers, NEW g \in Keys, Active(c, g)
  PROVE  TypeOK'
BY DEF Active, TypeOK, env, Results

\* So does the lookup under the RLock: a call that is past the tenant label
\* has a key with a cache entry to read.
LEMMA LookupType ==
  ASSUME TypeOK, LiveKeys, NEW c \in Callers, Lookup(c)
  PROVE  TypeOK'
<1>1. grant[c] \in Grants
  BY DEF Lookup, LiveKeys
<1>2. seen' \in [Callers -> Entry \cup {NoEntry}]
  BY <1>1 DEF Lookup, Miss, Return, TypeOK
<1> QED BY <1>2 DEF Lookup, Miss, Return, TypeOK, env, Results

\* So does the test of the entry's age.
LEMMA JudgeType ==
  ASSUME TypeOK, NEW c \in Callers, Judge(c)
  PROVE  TypeOK'
BY DEF Judge, Miss, Return, ActiveOrRevoked, TypeOK, env, Results

\* So does the eviction under the write lock.
LEMMA EvictType ==
  ASSUME TypeOK, NEW c \in Callers, Evict(c)
  PROVE  TypeOK'
BY DEF Evict, Miss, Return, TypeOK, env, Results

\* So does entering the singleflight group, as leader or as waiter.
LEMMA DoType ==
  ASSUME TypeOK, NEW c \in Callers, Join(c) \/ Lead(c)
  PROVE  TypeOK'
<1>1. CASE Join(c)
  BY <1>1 DEF Join, TypeOK, env, Results
<1>2. CASE Lead(c)
  BY <1>2 DEF Lead, TypeOK, env, Results
<1> QED BY <1>1, <1>2

\* So does the query: the row read is a status, or it is an error.
LEMMA QueryType ==
  ASSUME TypeOK, LiveKeys, NEW c \in Callers, ReadRow(c) \/ Fail(c)
  PROVE  TypeOK'
<1>1. CASE ReadRow(c)
  <2>1. db[grant[c]] \in Status
    BY <1>1 DEF ReadRow, LiveKeys, TypeOK
  <2> QED BY <1>1, <2>1 DEF ReadRow, TypeOK, env, Results
<1>2. CASE Fail(c)
  BY <1>2 DEF Fail, TypeOK, env, Results
<1> QED BY <1>1, <1>2

\* So does the end of queryStatus: what it stores is a status, never absence.
LEMMA StoreType ==
  ASSUME TypeOK, FlightTrue, NEW c \in Callers, Store(c)
  PROVE  TypeOK'
<1>1. result[c] \in Status
  BY DEF Store, FlightTrue
<1>2. cache' \in [Grants -> Entry \cup {NoEntry}]
  <2>1. CASE result[c] = "absent"
    BY <2>1 DEF Store, TypeOK
  <2>2. CASE result[c] # "absent"
    <3>1. [value |-> result[c], at |-> now] \in Entry
      BY <1>1, <2>2 DEF Status, Cached, Entry, TypeOK
    <3> QED BY <2>2, <3>1 DEF Store, TypeOK
  <2> QED BY <2>1, <2>2
<1> QED BY <1>2 DEF Store, TypeOK, env, Results

\* So does the wake-up of everyone in a flight.
LEMMA PublishType ==
  ASSUME TypeOK, NEW c \in Callers, Publish(c)
  PROVE  TypeOK'
BY DEF Publish, ActiveOrRevoked, TypeOK, env, Results

-----------------------------------------------------------------------------
(* Evidence does not get lost.                                             *)

\* Only the environment moves the clock or changes a row.
LEMMA EnvironmentMoves ==
  ASSUME Next
  PROVE  \/ Tick
         \/ \E g \in Grants, s \in Status : ChangeRow(g, s)
         \/ UNCHANGED <<now, db, heldUntil>>
<1>1. CASE Environment
  BY <1>1 DEF Environment
<1>2. CASE Rest
  BY <1>2 DEF Rest, vars, env
<1>3. ASSUME NEW c \in Callers, NEW g \in Keys, Active(c, g)
      PROVE  UNCHANGED <<now, db, heldUntil>>
  BY <1>3 DEF Active, env
<1>4. ASSUME NEW c \in Callers, Step(c) \/ ReadRow(c) \/ Fail(c)
      PROVE  UNCHANGED <<now, db, heldUntil>>
  BY <1>4 DEF Step, ReadRow, Fail, Lookup, Judge, Evict, Join, Lead, Store,
              TimeOut, Publish, env
<1> QED BY <1>1, <1>2, <1>3, <1>4 DEF Next

\* What the row was at some time from t on stays true as rows change.
LEMMA HeldSinceStable ==
  ASSUME TypeOK, Next, NEW g \in Grants, NEW s \in Status, NEW t \in Int,
         t <= now, HeldSince(g, s, t)
  PROVE  HeldSince(g, s, t)'
<1>1. CASE UNCHANGED <<db, heldUntil>>
  BY <1>1 DEF HeldSince
<1>2. ASSUME NEW h \in Grants, NEW u \in Status, ChangeRow(h, u)
      PROVE  HeldSince(g, s, t)'
  BY <1>2 DEF ChangeRow, HeldSince, TypeOK
<1> QED BY <1>1, <1>2, EnvironmentMoves DEF Tick

\* The clock only moves forward.
LEMMA NowMoves ==
  ASSUME TypeOK, Next
  PROVE  now \in Nat /\ now' \in Nat /\ now' >= now
<1>1. now \in Nat
  BY DEF TypeOK
<1> QED BY <1>1, EnvironmentMoves DEF Tick, ChangeRow

\* So an entry that was true stays true, wherever it is kept.
LEMMA EntryTrueStable ==
  ASSUME TypeOK, Next, NEW g \in Grants, NEW e, EntryTrue(g, e)
  PROVE  EntryTrue(g, e)'
<1>1. e \in Entry /\ e.at <= now /\ HeldSince(g, e.value, e.at - QueryTimeout)
  BY DEF EntryTrue
<1>2. e.value \in Status /\ e.at \in Int
  BY <1>1 DEF Entry, Cached, Status
<1>3. e.at - QueryTimeout \in Int /\ e.at - QueryTimeout <= now
  BY <1>1, <1>2, NowMoves, TimingAssumption
<1>4. HeldSince(g, e.value, e.at - QueryTimeout)'
  <2>1. \A t \in Int : t <= now /\ HeldSince(g, e.value, t) => HeldSince(g, e.value, t)'
    BY <1>2, HeldSinceStable
  <2> QED BY <1>1, <1>3, <2>1
<1>5. e.at <= now'
  BY <1>1, <1>2, NowMoves
<1> QED BY <1>1, <1>4, <1>5 DEF EntryTrue, HeldSince

-----------------------------------------------------------------------------
(* Every step keeps the evidence.                                          *)

\* Every step keeps the types, given how old the evidence can be.
LEMMA TypeStep ==
  ASSUME Evidence, Next
  PROVE  TypeOK'
<1> USE DEF Evidence
<1>1. CASE Environment
  BY <1>1, TickType, ChangeRowType DEF Environment
<1>2. CASE Rest
  BY <1>2 DEF Rest, vars, env, local, TypeOK
<1>3. CASE \E c \in Callers, g \in Keys : Active(c, g)
  BY <1>3, ActiveType
<1>4. ASSUME NEW c \in Callers, Step(c) \/ ReadRow(c) \/ Fail(c)
      PROVE  TypeOK'
  BY <1>4, LookupType, JudgeType, EvictType, DoType, QueryType, StoreType,
     PublishType DEF Step, TimeOut
<1> QED BY <1>1, <1>2, <1>3, <1>4 DEF Next

\* What a step does to the call of a caller d: nothing, or one of its own
\* steps, or the end of the flight d waits for.
LEMMA CallMoves ==
  ASSUME TypeOK, Next, NEW d \in Callers
  PROVE  \/ /\ pc'[d] = pc[d] /\ grant'[d] = grant[d] /\ calledAt'[d] = calledAt[d]
            /\ retry'[d] = retry[d] /\ seen'[d] = seen[d]
            /\ began'[d] = began[d] /\ result'[d] = result[d]
         \/ \E g \in Keys : Active(d, g)
         \/ Lookup(d) \/ Judge(d) \/ Evict(d) \/ Join(d) \/ Lead(d)
         \/ ReadRow(d) \/ Store(d) \/ Fail(d)
         \/ \E c \in Callers : d \in Party(c) /\ Publish(c)
<1> DEFINE Same == /\ pc'[d] = pc[d] /\ grant'[d] = grant[d]
                   /\ calledAt'[d] = calledAt[d]
                   /\ retry'[d] = retry[d] /\ seen'[d] = seen[d]
                   /\ began'[d] = began[d] /\ result'[d] = result[d]
<1>1. CASE Environment \/ Rest
  BY <1>1 DEF Environment, Tick, ChangeRow, Rest, vars, local
<1>2. ASSUME NEW c \in Callers, c # d,
             \/ \E g \in Keys : Active(c, g)
             \/ Lookup(c) \/ Judge(c) \/ Evict(c) \/ Join(c) \/ Lead(c)
             \/ ReadRow(c) \/ Store(c) \/ Fail(c)
      PROVE  Same
  <2>1. CASE \E g \in Keys : Active(c, g)
    BY <1>2, <2>1 DEF Active, TypeOK
  <2>2. CASE Lookup(c) \/ Judge(c) \/ Evict(c)
    BY <1>2, <2>2 DEF Lookup, Judge, Evict, Miss, Return, TypeOK
  <2>3. CASE Join(c) \/ Lead(c)
    BY <1>2, <2>3 DEF Join, Lead, TypeOK
  <2>4. CASE ReadRow(c) \/ Store(c) \/ Fail(c)
    BY <1>2, <2>4 DEF ReadRow, Store, Fail, TypeOK
  <2> QED BY <1>2, <2>1, <2>2, <2>3, <2>4
<1>3. ASSUME NEW c \in Callers, Publish(c), d \notin Party(c)
      PROVE  Same
  BY <1>3 DEF Publish, Party, TypeOK
<1> QED BY <1>1, <1>2, <1>3 DEF Next, Step, TimeOut

\* Every step keeps refused keys away from the cache: a malformed tenant label
\* ends the call before the lookup.
LEMMA LiveKeysStep ==
  ASSUME Evidence, Next
  PROVE  LiveKeys'
<1> USE DEF Evidence
<1> SUFFICES ASSUME NEW d \in Callers, pc'[d] # "denied"
             PROVE  grant'[d] \in Grants
  BY DEF LiveKeys
<1>1. CASE \E g \in Keys : Active(d, g)
  BY <1>1 DEF Active, Keys, TypeOK
<1>2. CASE \E c \in Callers : d \in Party(c) /\ Publish(c)
  BY <1>2 DEF Publish, Party, LiveKeys, TypeOK
<1>3. CASE \/ Lookup(d) \/ Judge(d) \/ Evict(d) \/ Join(d) \/ Lead(d)
           \/ ReadRow(d) \/ Store(d) \/ Fail(d)
  BY <1>3 DEF Lookup, Judge, Evict, Join, Lead, ReadRow, Store, Fail, LiveKeys
<1> QED BY <1>1, <1>2, <1>3, CallMoves DEF LiveKeys

\* Every step keeps the start of a call in the past.
LEMMA CalledBeforeStep ==
  ASSUME Evidence, Next
  PROVE  CalledBefore'
<1> USE DEF Evidence
<1> SUFFICES ASSUME NEW d \in Callers
             PROVE  calledAt'[d] <= now'
  BY DEF CalledBefore
<1>1. calledAt[d] \in Nat /\ calledAt[d] <= now
  BY DEF CalledBefore, TypeOK
<1>2. CASE \E g \in Keys : Active(d, g)
  BY <1>2, NowMoves DEF Active, TypeOK
<1>3. CASE calledAt'[d] = calledAt[d]
  BY <1>1, <1>3, NowMoves
<1>4. CASE \E c \in Callers : d \in Party(c) /\ Publish(c)
  BY <1>3, <1>4 DEF Publish
<1>5. CASE \/ Lookup(d) \/ Judge(d) \/ Evict(d) \/ Join(d) \/ Lead(d)
           \/ ReadRow(d) \/ Store(d) \/ Fail(d)
  BY <1>3, <1>5 DEF Lookup, Judge, Evict, Join, Lead, ReadRow, Store, Fail
<1> QED BY <1>2, <1>3, <1>4, <1>5, CallMoves

\* The cache changes in two ways: an entry goes, or a flight stores its reply.
LEMMA CacheMoves ==
  ASSUME TypeOK, Next, NEW g \in Grants
  PROVE  \/ cache'[g] = cache[g]
         \/ cache'[g] = NoEntry
         \/ \E c \in Callers : /\ Store(c) /\ grant[c] = g /\ result[c] # "absent"
                               /\ cache'[g] = [value |-> result[c], at |-> now]
<1>1. CASE Environment \/ Rest
  BY <1>1 DEF Environment, Tick, ChangeRow, Rest, vars
<1>2. CASE \E c \in Callers, h \in Keys : Active(c, h)
  BY <1>2 DEF Active
<1>3. ASSUME NEW c \in Callers,
             Lookup(c) \/ Judge(c) \/ Join(c) \/ Lead(c) \/ Publish(c)
             \/ ReadRow(c) \/ Fail(c)
      PROVE  cache'[g] = cache[g]
  BY <1>3 DEF Lookup, Judge, Join, Lead, Publish, ReadRow, Fail
<1>4. ASSUME NEW c \in Callers, Evict(c)
      PROVE  cache'[g] = cache[g] \/ cache'[g] = NoEntry
  BY <1>4 DEF Evict, TypeOK
<1>5. ASSUME NEW c \in Callers, Store(c)
      PROVE  \/ cache'[g] = cache[g]
             \/ /\ grant[c] = g /\ result[c] # "absent"
                /\ cache'[g] = [value |-> result[c], at |-> now]
  BY <1>5 DEF Store, TypeOK
<1> QED BY <1>1, <1>2, <1>3, <1>4, <1>5 DEF Next, Step, TimeOut

\* Every step keeps the cache true: what Set stores was read in its flight,
\* which is at most QueryTimeout old.
LEMMA CacheStep ==
  ASSUME Evidence, Next
  PROVE  CacheTrue'
<1> USE DEF Evidence
<1> SUFFICES ASSUME NEW g \in Grants, cache'[g] # NoEntry
             PROVE  EntryTrue(g, cache[g])'
  BY DEF CacheTrue
<1>1. CASE cache'[g] = cache[g]
  <2>1. PICK e : e = cache[g]
    OBVIOUS
  <2>2. EntryTrue(g, e)
    BY <1>1, <2>1 DEF CacheTrue
  <2>3. EntryTrue(g, e)'
    BY <2>2, EntryTrueStable
  <2> QED BY <1>1, <2>1, <2>3
<1>2. ASSUME NEW c \in Callers, Store(c), grant[c] = g, result[c] # "absent",
             cache'[g] = [value |-> result[c], at |-> now]
      PROVE  EntryTrue(g, cache[g])'
  <2>1. /\ result[c] \in Cached
        /\ HeldSince(g, result[c], began[c])
        /\ now - QueryTimeout <= began[c]
    <3>1. result[c] \in Cached
      BY <1>2 DEF Store, FlightTrue, Status, Cached
    <3>2. HeldSince(g, result[c], began[c])
      BY <1>2 DEF Store, FlightTrue
    <3>3. now <= began[c] + QueryTimeout
      BY <1>2 DEF Store, FlightTrue, Leading, Deadline
    <3> QED BY <3>1, <3>2, <3>3, TimingAssumption DEF TypeOK
  <2>2. HeldSince(g, result[c], now - QueryTimeout)
    BY <2>1, TimingAssumption DEF HeldSince, TypeOK, Cached, Status
  <2>3. now' = now /\ db' = db /\ heldUntil' = heldUntil
    BY <1>2 DEF Store, env
  <2>4. now \in Nat
    BY DEF TypeOK
  <2> QED BY <1>2, <2>1, <2>2, <2>3, <2>4 DEF EntryTrue, Entry, HeldSince
<1> QED BY <1>1, <1>2, CacheMoves

\* Every step keeps snapshots true: an entry read under the RLock does not
\* become false while the caller goes on to judge or evict it.
LEMMA SeenStep ==
  ASSUME Evidence, Next
  PROVE  SeenTrue'
<1> USE DEF Evidence
<1> SUFFICES ASSUME NEW d \in Callers, pc'[d] \in {"judge", "evict"}
             PROVE  EntryTrue(grant[d], seen[d])'
  BY DEF SeenTrue
<1>1. /\ grant'[d] = grant[d] /\ grant[d] \in Grants
      /\ \/ pc[d] \in {"judge", "evict"} /\ seen'[d] = seen[d]
         \/ cache[grant[d]] # NoEntry /\ seen'[d] = cache[grant[d]]
  <2>1. CASE \E g \in Keys : Active(d, g)
    BY <2>1 DEF Active, TypeOK
  <2>2. CASE \E c \in Callers : d \in Party(c) /\ Publish(c)
    BY <2>2 DEF Publish, ActiveOrRevoked, TypeOK
  <2>3. CASE Lookup(d)
    BY <2>3 DEF Lookup, Miss, Return, LiveKeys, TypeOK
  <2>4. CASE Judge(d)
    BY <2>4 DEF Judge, Miss, Return, ActiveOrRevoked, LiveKeys, TypeOK
  <2>5. CASE Evict(d) \/ Join(d) \/ Lead(d) \/ ReadRow(d) \/ Store(d) \/ Fail(d)
    BY <2>5 DEF Evict, Join, Lead, ReadRow, Store, Fail, Miss, Return, TypeOK
  <2> QED BY <2>1, <2>2, <2>3, <2>4, <2>5, CallMoves DEF LiveKeys
<1>2. PICK g \in Grants : g = grant[d]
  BY <1>1
<1>3. PICK e : e = seen'[d]
  OBVIOUS
<1>4. EntryTrue(g, e)
  BY <1>1, <1>2, <1>3 DEF SeenTrue, CacheTrue
<1>5. EntryTrue(g, e)'
  BY <1>4, EntryTrueStable
<1> QED BY <1>1, <1>2, <1>3, <1>5

\* Every step keeps flights within their deadline and their results true.
LEMMA FlightStep ==
  ASSUME Evidence, Next
  PROVE  FlightTrue'
<1> USE DEF Evidence
<1> DEFINE Within(d)  == began[d] <= now /\ now <= Deadline(d)
           Current(d) == result[d] \in Status /\ HeldSince(grant[d], result[d], began[d])
<1> SUFFICES ASSUME NEW d \in Callers
             PROVE  /\ Leading(d)' => Within(d)'
                    /\ pc'[d] = "reply" => result'[d] # "error"
                    /\ pc'[d] \in {"reply", "publish"} /\ result'[d] # "error" =>
                         Current(d)'
  BY DEF FlightTrue
<1> HIDE DEF Current
<1>1. began[d] \in Nat /\ now \in Nat /\ now' \in Nat /\ now <= now'
  BY NowMoves DEF TypeOK
\* While d leads, only Tick moves the clock, and it heeds d's deadline.
<1>2. ASSUME Leading(d), began'[d] = began[d]
      PROVE  Within(d)'
  <2>1. Within(d)
    BY <1>2 DEF FlightTrue
  <2>2. CASE Tick
    BY <1>1, <1>2, <2>1, <2>2, TimingAssumption DEF Tick, Deadline
  <2>3. CASE now' = now
    BY <1>1, <1>2, <2>1, <2>3, TimingAssumption DEF Deadline
  <2> QED BY <2>2, <2>3, EnvironmentMoves DEF ChangeRow
<1>3. ASSUME Current(d), Within(d), grant[d] \in Grants,
             grant'[d] = grant[d], result'[d] = result[d], began'[d] = began[d]
      PROVE  Current(d)'
  <2>1. PICK g \in Grants : g = grant[d]
    BY <1>3
  <2>2. PICK s \in Status : s = result[d] /\ HeldSince(g, s, began[d])
    BY <1>3, <2>1 DEF Current
  <2>3. PICK t \in Int : t = began[d] /\ t <= now
    BY <1>1, <1>3
  <2>4. HeldSince(g, s, t)'
    BY <2>2, <2>3, HeldSinceStable
  <2> QED BY <1>3, <2>1, <2>2, <2>3, <2>4 DEF Current
\* The call does not move, or its flight begins or goes on.
<1>4. CASE /\ pc'[d] = pc[d] /\ grant'[d] = grant[d]
           /\ began'[d] = began[d] /\ result'[d] = result[d]
  <2>1. Leading(d)' => Within(d)'
    BY <1>2, <1>4 DEF Leading
  <2>2. pc'[d] = "reply" => result'[d] # "error"
    BY <1>4 DEF FlightTrue
  <2>3. ASSUME pc'[d] \in {"reply", "publish"}, result'[d] # "error"
        PROVE  Current(d)'
    <3>1. Current(d) /\ Within(d) /\ grant[d] \in Grants
      BY <1>4, <2>3 DEF FlightTrue, Leading, LiveKeys, Current
    <3> QED BY <1>3, <1>4, <3>1
  <2> QED BY <2>1, <2>2, <2>3
<1>5. CASE ReadRow(d)
  <2>1. /\ pc[d] = "query" /\ pc'[d] = "reply" /\ result'[d] = db[grant[d]]
        /\ began' = began /\ grant' = grant /\ db' = db
    BY <1>5 DEF ReadRow, env, TypeOK
  <2>2. db[grant[d]] \in Status
    BY <2>1 DEF LiveKeys, TypeOK
  <2>3. Within(d)'
    BY <1>2, <2>1 DEF Leading
  <2>4. Current(d)' /\ result'[d] # "error"
    BY <2>1, <2>2 DEF Current, HeldSince, Status
  <2> QED BY <2>1, <2>3, <2>4
<1>6. CASE Store(d)
  <2>1. /\ pc[d] = "reply" /\ pc'[d] = "publish"
        /\ began' = began /\ grant' = grant /\ result' = result
    BY <1>6 DEF Store, TypeOK
  <2>2. Within(d)'
    BY <1>2, <2>1 DEF Leading
  <2>3. Current(d) /\ Within(d) /\ grant[d] \in Grants
    BY <2>1 DEF FlightTrue, Leading, LiveKeys, Current
  <2> QED BY <1>3, <2>1, <2>2, <2>3
<1>7. CASE Fail(d)
  <2>1. /\ Leading(d) /\ pc'[d] = "publish" /\ began' = began /\ result'[d] = "error"
    BY <1>7 DEF Fail, Leading, TypeOK
  <2> QED BY <1>2, <2>1
<1>8. CASE Lead(d)
  <2>1. pc'[d] = "query" /\ began'[d] = now /\ now' = now
    BY <1>8 DEF Lead, env, TypeOK
  <2> QED BY <1>1, <2>1, TimingAssumption DEF Deadline
\* Any other step leaves d without a flight.
<1>9. CASE pc'[d] \notin {"query", "reply", "publish"}
  BY <1>9 DEF Leading
<1>10. CASE \/ \E g \in Keys : Active(d, g)
            \/ Lookup(d) \/ Judge(d) \/ Evict(d) \/ Join(d)
            \/ \E c \in Callers : d \in Party(c) /\ Publish(c)
  <2>1. CASE \E g \in Keys : Active(d, g)
    BY <1>9, <2>1 DEF Active, TypeOK
  <2>2. CASE Lookup(d) \/ Judge(d) \/ Evict(d) \/ Join(d)
    BY <1>9, <2>2 DEF Lookup, Judge, Evict, Join, Miss, Return, ActiveOrRevoked, TypeOK
  <2>3. CASE \E c \in Callers : d \in Party(c) /\ Publish(c)
    BY <1>9, <2>3 DEF Publish, ActiveOrRevoked, TypeOK
  <2> QED BY <1>10, <2>1, <2>2, <2>3
<1> QED BY <1>4, <1>5, <1>6, <1>7, <1>8, <1>10, CallMoves

\* The evidence in the cache, in a snapshot and in a flight is always as
\* recent as Evidence says, in every interleaving of Active's callers.
THEOREM EvidenceInvariant == Spec => []Evidence
<1>1. Init => Evidence
  <2> SUFFICES ASSUME Init PROVE Evidence
    OBVIOUS
  <2>1. TypeOK
    BY InitType
  <2>2. LiveKeys /\ CalledBefore /\ CacheTrue /\ SeenTrue /\ FlightTrue
    BY DEF Init, LiveKeys, CalledBefore, CacheTrue, SeenTrue, FlightTrue, Leading
  <2> QED BY <2>1, <2>2 DEF Evidence
<1>2. Evidence /\ [Next]_vars => Evidence'
  <2> SUFFICES ASSUME Evidence, [Next]_vars PROVE Evidence'
    OBVIOUS
  <2>1. CASE Next
    BY <2>1, TypeStep, LiveKeysStep, CalledBeforeStep, CacheStep, SeenStep,
       FlightStep DEF Evidence
  <2>2. CASE UNCHANGED vars
    BY <2>2 DEF vars, env, local, Evidence, TypeOK, LiveKeys, CalledBefore,
                CacheTrue, SeenTrue, FlightTrue, EntryTrue, HeldSince, Leading,
                Deadline
  <2> QED BY <2>1, <2>2
<1> QED BY <1>1, <1>2, PTL DEF Spec

\* GrantChecker is type-correct; in particular the cache never holds absence.
THEOREM TypeCorrect == Spec => []TypeOK
BY EvidenceInvariant, PTL DEF Evidence

-----------------------------------------------------------------------------
(* Every verdict is justified.                                             *)

\* A status that was held at some time was held since any earlier time.
LEMMA HeldSinceEarlier ==
  ASSUME TypeOK, NEW g \in Grants, NEW s \in Status, NEW t \in Int, NEW u \in Int,
         u <= t, HeldSince(g, s, t)
  PROVE  HeldSince(g, s, u)
BY DEF HeldSince, TypeOK

\* A verdict from the cache: its entry is no older than the lookup accepts.
LEMMA JudgeVerdict ==
  ASSUME Evidence, NEW d \in Callers, Judge(d), pc'[d] \in {"granted", "denied"}
  PROVE  \E s \in Cached :
            /\ pc'[d] = ActiveOrRevoked(s)
            /\ HeldSince(grant[d], s, calledAt[d] - Window(d))
<1> USE DEF Evidence
<1>1. /\ pc'[d] = ActiveOrRevoked(seen[d].value)
      /\ Age(seen[d]) <= Usable(d)
  BY DEF Judge, Miss, Return, TypeOK
<1>2. EntryTrue(grant[d], seen[d]) /\ grant[d] \in Grants
  BY DEF Judge, SeenTrue, LiveKeys
<1>3. /\ seen[d].value \in Cached /\ seen[d].at \in Int
      /\ HeldSince(grant[d], seen[d].value, seen[d].at - QueryTimeout)
  BY <1>2 DEF EntryTrue, Entry
<1>4. /\ now - seen[d].at <= TTL + (IF retry[d] THEN Grace ELSE 0)
      /\ calledAt[d] <= now /\ calledAt[d] \in Int /\ now \in Int
  BY <1>1, TimingAssumption DEF Usable, Age, CalledBefore, TypeOK
<1>5. /\ calledAt[d] - Window(d) \in Int /\ seen[d].at - QueryTimeout \in Int
      /\ calledAt[d] - Window(d) <= seen[d].at - QueryTimeout
  BY <1>3, <1>4, TimingAssumption DEF Window
<1>6. HeldSince(grant[d], seen[d].value, calledAt[d] - Window(d))
  BY <1>2, <1>3, <1>5, HeldSinceEarlier DEF Cached, Status
<1> QED BY <1>1, <1>3, <1>6

\* A verdict from a flight: its row was read while the flight was under way,
\* and that began at most QueryTimeout before the call that shares it.
LEMMA PublishVerdict ==
  ASSUME Evidence, NEW c \in Callers, NEW d \in Party(c), Publish(c),
         pc'[d] \in {"granted", "denied"}
  PROVE  \E s \in Status :
            /\ pc'[d] = ActiveOrRevoked(s)
            /\ grant[d] \in Grants
            /\ HeldSince(grant[d], s, calledAt[d] - QueryTimeout)
<1> USE DEF Evidence
<1>1. /\ d \in Callers /\ grant[d] = grant[c] /\ pc[c] = "publish"
      /\ pc'[d] = IF result[c] = "error" THEN "get" ELSE ActiveOrRevoked(result[c])
  BY DEF Publish, Party, TypeOK
<1>2. /\ result[c] \in Status /\ pc'[d] = ActiveOrRevoked(result[c])
      /\ HeldSince(grant[c], result[c], began[c])
      /\ grant[c] \in Grants
  BY <1>1 DEF FlightTrue, LiveKeys
<1>3. now <= began[c] + QueryTimeout /\ calledAt[d] <= now
  BY <1>1 DEF FlightTrue, Leading, Deadline, CalledBefore
<1>4. /\ calledAt[d] - QueryTimeout \in Int /\ began[c] \in Int
      /\ calledAt[d] - QueryTimeout <= began[c]
  BY <1>1, <1>3, TimingAssumption DEF TypeOK
<1>5. HeldSince(grant[c], result[c], calledAt[d] - QueryTimeout)
  BY <1>2, <1>4, HeldSinceEarlier
<1> QED BY <1>1, <1>2, <1>5

\* The evidence a verdict of d needs.
Justified(d) ==
    /\ pc[d] = "granted" => HeldSince(grant[d], "active", calledAt[d] - Window(d))
    /\ pc[d] = "denied" /\ grant[d] \in Grants =>
         \/ HeldSince(grant[d], "revoked", calledAt[d] - Window(d))
         \/ HeldSince(grant[d], "absent", calledAt[d] - QueryTimeout)

\* Every step keeps verdicts justified: new ones come from the cache or from a
\* flight, and old ones stay true of the row's history.
LEMMA VerdictStep ==
  ASSUME Evidence, VerdictJustified, Next
  PROVE  VerdictJustified'
<1> USE DEF Evidence
<1> SUFFICES ASSUME NEW d \in Callers, pc'[d] \in {"granted", "denied"}
             PROVE  Justified(d)'
  BY DEF VerdictJustified, Justified
<1>1. /\ calledAt[d] \in Nat /\ calledAt[d] <= now /\ now \in Nat
      /\ Window(d) \in Nat /\ calledAt[d] - Window(d) \in Int
      /\ calledAt[d] - Window(d) <= now
      /\ calledAt[d] - QueryTimeout \in Int
      /\ calledAt[d] - QueryTimeout <= now
      /\ calledAt[d] - Window(d) <= calledAt[d] - QueryTimeout
  BY TimingAssumption DEF TypeOK, CalledBefore, Window
\* A verdict that is there already keeps its evidence.
<1>2. CASE /\ pc'[d] = pc[d] /\ grant'[d] = grant[d] /\ calledAt'[d] = calledAt[d]
           /\ retry'[d] = retry[d]
  <2>1. Window(d)' = Window(d)
    BY <1>2 DEF Window
  <2>2. ASSUME NEW s \in Status, NEW t \in Int, t <= now, grant[d] \in Grants,
               HeldSince(grant[d], s, t)
        PROVE  HeldSince(grant[d], s, t)'
    <3>1. PICK g \in Grants : g = grant[d]
      BY <2>2
    <3>2. HeldSince(g, s, t)'
      BY <2>2, <3>1, HeldSinceStable
    <3> QED BY <1>2, <3>1, <3>2
  <2>3. Justified(d) /\ (pc[d] = "granted" => grant[d] \in Grants)
    BY DEF VerdictJustified, Justified, LiveKeys
  <2>4. PICK t \in Int, u \in Int : /\ t = calledAt[d] - Window(d)
                                    /\ u = calledAt[d] - QueryTimeout
                                    /\ t <= now /\ u <= now
    BY <1>1
  <2>5. (calledAt[d] - Window(d))' = t /\ (calledAt[d] - QueryTimeout)' = u
    BY <1>2, <2>1, <2>4
  <2>6. pc'[d] = "granted" => HeldSince(grant[d], "active", t)'
    BY <1>2, <2>2, <2>3, <2>4 DEF Justified, Status
  <2>7. pc'[d] = "denied" /\ grant'[d] \in Grants =>
          HeldSince(grant[d], "revoked", t)' \/ HeldSince(grant[d], "absent", u)'
    BY <1>2, <2>2, <2>3, <2>4 DEF Justified, Status
  <2> QED BY <2>5, <2>6, <2>7 DEF Justified
\* A refused call has no row.
<1>3. CASE \E g \in Keys : Active(d, g)
  BY <1>3, KeysAssumption DEF Active, Justified, TypeOK
<1>4. CASE Judge(d)
  <2>1. PICK s \in Cached : /\ pc'[d] = ActiveOrRevoked(s)
                            /\ HeldSince(grant[d], s, calledAt[d] - Window(d))
    BY <1>4, JudgeVerdict
  <2>2. /\ grant' = grant /\ calledAt' = calledAt /\ retry' = retry
        /\ db' = db /\ heldUntil' = heldUntil
    BY <1>4 DEF Judge, env
  <2> QED BY <2>1, <2>2 DEF Justified, ActiveOrRevoked, Cached, HeldSince, Window
<1>5. ASSUME NEW c \in Callers, d \in Party(c), Publish(c)
      PROVE  Justified(d)'
  <2>1. PICK s \in Status : /\ pc'[d] = ActiveOrRevoked(s)
                            /\ grant[d] \in Grants
                            /\ HeldSince(grant[d], s, calledAt[d] - QueryTimeout)
    BY <1>5, PublishVerdict
  <2>2. /\ grant' = grant /\ calledAt' = calledAt
        /\ db' = db /\ heldUntil' = heldUntil
    BY <1>5 DEF Publish, env
  <2>3. /\ calledAt[d] - Window(d)' \in Int
        /\ calledAt[d] - Window(d)' <= calledAt[d] - QueryTimeout
    BY <1>1, TimingAssumption DEF Window
  <2>4. HeldSince(grant[d], s, calledAt[d] - Window(d)')
    BY <1>1, <2>1, <2>3, HeldSinceEarlier
  <2> QED BY <2>1, <2>2, <2>4 DEF Justified, ActiveOrRevoked, Status, HeldSince
<1>6. CASE Lookup(d) \/ Evict(d) \/ Join(d) \/ Lead(d) \/ ReadRow(d) \/ Store(d) \/ Fail(d)
  BY <1>6 DEF Lookup, Evict, Join, Lead, ReadRow, Store, Fail, Miss, Return, TypeOK
<1> QED BY <1>2, <1>3, <1>4, <1>5, <1>6, CallMoves

\* Active grants and denies only on a status the row had in the window of the
\* call: TTL + QueryTimeout, with Grace more after a failed query.
THEOREM VerdictsAreJustified == Spec => []VerdictJustified
<1>1. Init => VerdictJustified
  BY DEF Init, VerdictJustified
<1>2. Evidence /\ VerdictJustified /\ [Next]_vars => VerdictJustified'
  <2>1. ASSUME UNCHANGED vars, VerdictJustified
        PROVE  VerdictJustified'
    BY <2>1 DEF vars, env, local, VerdictJustified, HeldSince, Window
  <2> QED BY <2>1, VerdictStep
<1> QED BY <1>1, <1>2, EvidenceInvariant, PTL DEF Spec

-----------------------------------------------------------------------------
(* The singleflight group.                                                 *)

\* The group's view: a flight it knows is led by its caller.
FlightsHaveLeaders ==
    \A g \in Grants :
       group[g] # NoCaller => Leading(group[g]) /\ grant[group[g]] = g

\* Every step keeps one leader per key in the group, and a flight for everyone
\* who waits.
LEMMA GroupStep ==
  ASSUME Evidence, SingleFlight, FlightsHaveLeaders, Next
  PROVE  SingleFlight' /\ FlightsHaveLeaders'
<1> USE DEF Evidence
<1>1. CASE Environment \/ Rest
  BY <1>1 DEF Environment, Tick, ChangeRow, Rest, vars, local, SingleFlight,
              FlightsHaveLeaders, Leading
\* Steps of callers that are in no flight.
<1>2. ASSUME NEW c \in Callers, ~Leading(c), pc[c] # "wait", group' = group,
             \A d \in Callers \ {c} : pc'[d] = pc[d] /\ grant'[d] = grant[d],
             pc'[c] \notin {"query", "reply", "publish", "wait"}
      PROVE  SingleFlight' /\ FlightsHaveLeaders'
  <2>1. ASSUME NEW d \in Callers, pc'[d] \in {"query", "reply", "publish", "wait"}
        PROVE  d # c /\ pc'[d] = pc[d] /\ grant'[d] = grant[d]
    BY <1>2, <2>1
  <2>2. ASSUME NEW d \in Callers, Leading(d)
        PROVE  Leading(d)' /\ grant'[d] = grant[d]
    BY <1>2, <2>2 DEF Leading
  <2>3. ASSUME NEW d \in Callers, Leading(d)'
        PROVE  group'[grant'[d]] = d
    BY <1>2, <2>1, <2>3 DEF SingleFlight, Leading
  <2>4. ASSUME NEW d \in Callers, pc'[d] = "wait"
        PROVE  group'[grant'[d]] # NoCaller /\ Leading(group[grant[d]])'
    <3>1. /\ group'[grant'[d]] = group[grant[d]] /\ grant[d] \in Grants
          /\ group[grant[d]] # NoCaller /\ Leading(group[grant[d]])
      BY <1>2, <2>1, <2>4 DEF SingleFlight, LiveKeys
    <3>2. PICK l \in Callers : l = group[grant[d]]
      BY <3>1 DEF TypeOK
    <3> QED BY <2>2, <3>1, <3>2 DEF Leading
  <2>5. FlightsHaveLeaders'
    BY <1>2, <2>2, NoCallerAssumption DEF FlightsHaveLeaders, Leading, TypeOK
  <2> QED BY <2>3, <2>4, <2>5 DEF SingleFlight
<1>3. ASSUME NEW c \in Callers, \E g \in Keys : Active(c, g)
      PROVE  SingleFlight' /\ FlightsHaveLeaders'
  <2>1. /\ ~Leading(c) /\ pc[c] # "wait" /\ group' = group
        /\ \A d \in Callers \ {c} : pc'[d] = pc[d] /\ grant'[d] = grant[d]
        /\ pc'[c] \notin {"query", "reply", "publish", "wait"}
    BY <1>3 DEF Active, Returned, Results, Leading, TypeOK
  <2> QED BY <1>2, <2>1
<1>4. ASSUME NEW c \in Callers, Lookup(c) \/ Judge(c) \/ Evict(c)
      PROVE  SingleFlight' /\ FlightsHaveLeaders'
  <2>1. /\ ~Leading(c) /\ pc[c] # "wait" /\ group' = group /\ grant' = grant
        /\ \A d \in Callers \ {c} : pc'[d] = pc[d]
        /\ pc'[c] \notin {"query", "reply", "publish", "wait"}
    BY <1>4 DEF Lookup, Judge, Evict, Miss, Return, ActiveOrRevoked, Leading, TypeOK
  <2> QED BY <1>2, <2>1
<1>5. ASSUME NEW c \in Callers, Join(c)
      PROVE  SingleFlight' /\ FlightsHaveLeaders'
  <2>1. /\ pc[c] = "do" /\ pc' = [pc EXCEPT ![c] = "wait"]
        /\ group' = group /\ grant' = grant
        /\ grant[c] \in Grants /\ group[grant[c]] # NoCaller
    BY <1>5 DEF Join, LiveKeys
  <2> QED BY <2>1 DEF SingleFlight, FlightsHaveLeaders, Leading, TypeOK
<1>6. ASSUME NEW c \in Callers, Lead(c)
      PROVE  SingleFlight' /\ FlightsHaveLeaders'
  <2>1. /\ pc[c] = "do" /\ pc' = [pc EXCEPT ![c] = "query"] /\ grant' = grant
        /\ group' = [group EXCEPT ![grant[c]] = c]
        /\ grant[c] \in Grants /\ group[grant[c]] = NoCaller
    BY <1>6 DEF Lead, LiveKeys
  <2> QED BY <2>1, NoCallerAssumption DEF SingleFlight, FlightsHaveLeaders, Leading, TypeOK
<1>7. ASSUME NEW c \in Callers, ReadRow(c) \/ Store(c) \/ Fail(c)
      PROVE  SingleFlight' /\ FlightsHaveLeaders'
  <2>1. PICK next \in {"reply", "publish"} :
           /\ Leading(c) /\ pc' = [pc EXCEPT ![c] = next]
           /\ group' = group /\ grant' = grant
    BY <1>7 DEF ReadRow, Store, Fail, Leading
  <2> QED BY <2>1 DEF SingleFlight, FlightsHaveLeaders, Leading, TypeOK
<1>8. ASSUME NEW c \in Callers, Publish(c)
      PROVE  SingleFlight' /\ FlightsHaveLeaders'
  <2>1. /\ pc[c] = "publish" /\ Leading(c) /\ grant' = grant
        /\ group' = [group EXCEPT ![grant[c]] = NoCaller]
        /\ grant[c] \in Grants /\ group[grant[c]] = c
        /\ \A d \in Callers \ Party(c) : pc'[d] = pc[d]
        /\ \A d \in Party(c) : pc'[d] \in {"get", "granted", "denied"}
    BY <1>8 DEF Publish, Party, ActiveOrRevoked, LiveKeys, SingleFlight, Leading
  \* Who still leads or waits does so for another key.
  <2>2. ASSUME NEW d \in Callers, Leading(d)' \/ pc'[d] = "wait"
        PROVE  pc'[d] = pc[d] /\ d # c /\ grant[d] # grant[c]
    BY <2>1, <2>2 DEF Party, Leading, SingleFlight
  <2>3. SingleFlight'
    BY <2>1, <2>2 DEF SingleFlight, FlightsHaveLeaders, Leading, Party, LiveKeys, TypeOK
  <2>4. FlightsHaveLeaders'
    BY <2>1, <2>2 DEF SingleFlight, FlightsHaveLeaders, Leading, Party, LiveKeys, TypeOK
  <2> QED BY <2>3, <2>4
<1> QED BY <1>1, <1>3, <1>4, <1>5, <1>6, <1>7, <1>8 DEF Next, Step, TimeOut

\* The group never runs two queries for one key at a time, and no caller of
\* Active waits for a flight that is over.
THEOREM FlightsAreSingle == Spec => []SingleFlight
<1>1. Init => SingleFlight /\ FlightsHaveLeaders
  BY NoCallerAssumption DEF Init, SingleFlight, FlightsHaveLeaders, Leading
<1>2. Evidence /\ SingleFlight /\ FlightsHaveLeaders /\ [Next]_vars
        => SingleFlight' /\ FlightsHaveLeaders'
  <2>1. ASSUME UNCHANGED vars, SingleFlight, FlightsHaveLeaders
        PROVE  SingleFlight' /\ FlightsHaveLeaders'
    BY <2>1 DEF vars, env, local, SingleFlight, FlightsHaveLeaders, Leading
  <2> QED BY <2>1, GroupStep
<1> QED BY <1>1, <1>2, EvidenceInvariant, PTL DEF Spec

-----------------------------------------------------------------------------
(* How the cache may change.                                               *)

\* A flight that may still store began after the entry it will replace.
StoresInOrder ==
    \A c \in Callers :
       pc[c] \in {"query", "reply"} /\ cache[grant[c]] # NoEntry =>
         cache[grant[c]].at <= began[c]

\* Every step keeps flights younger than the entry they will replace.
LEMMA OrderStep ==
  ASSUME Evidence, SingleFlight, StoresInOrder, Next
  PROVE  StoresInOrder'
<1> USE DEF Evidence
<1> SUFFICES ASSUME NEW d \in Callers, pc'[d] \in {"query", "reply"},
                    cache'[grant'[d]] # NoEntry
             PROVE  cache'[grant'[d]].at <= began'[d]
  BY DEF StoresInOrder
<1>1. \/ Lead(d)
      \/ /\ pc[d] \in {"query", "reply"} /\ began'[d] = began[d]
         /\ grant'[d] = grant[d]
  <2>1. CASE \E g \in Keys : Active(d, g)
    BY <2>1 DEF Active, TypeOK
  <2>2. CASE Lookup(d) \/ Judge(d) \/ Evict(d) \/ Join(d) \/ Store(d) \/ Fail(d)
    BY <2>2 DEF Lookup, Judge, Evict, Join, Store, Fail, Miss, Return,
                ActiveOrRevoked, TypeOK
  <2>3. CASE \E c \in Callers : d \in Party(c) /\ Publish(c)
    BY <2>3 DEF Publish, ActiveOrRevoked, TypeOK
  <2>4. CASE ReadRow(d)
    BY <2>4 DEF ReadRow
  <2> QED BY <2>1, <2>2, <2>3, <2>4, CallMoves
<1>2. CASE Lead(d)
  <2>1. grant[d] \in Grants /\ grant' = grant /\ cache' = cache /\ began'[d] = now
    BY <1>2 DEF Lead, LiveKeys, TypeOK
  <2> QED BY <2>1 DEF CacheTrue, EntryTrue
<1>3. CASE /\ pc[d] \in {"query", "reply"} /\ began'[d] = began[d]
           /\ grant'[d] = grant[d]
  <2>1. PICK g \in Grants : g = grant[d]
    BY <1>3 DEF LiveKeys
  \* No other flight for this key can be storing now.
  <2>2. ASSUME NEW c \in Callers, Store(c), grant[c] = g
        PROVE  FALSE
    <3>1. c = d
      BY <1>3, <2>1, <2>2 DEF SingleFlight, Leading, Store
    <3> QED BY <2>2, <3>1 DEF Store, TypeOK
  <2>3. cache'[g] = cache[g]
    BY <1>3, <2>1, <2>2, CacheMoves
  <2> QED BY <1>3, <2>1, <2>3 DEF StoresInOrder
<1> QED BY <1>1, <1>2, <1>3

\* A flight that has not stored its reply began after the entry now in the
\* cache was stored: with one flight per key, stores cannot overtake.
THEOREM OrderInvariant == Spec => []StoresInOrder
<1>1. Init => StoresInOrder
  BY DEF Init, StoresInOrder
<1>2. Evidence /\ SingleFlight /\ StoresInOrder /\ [Next]_vars => StoresInOrder'
  <2>1. ASSUME UNCHANGED vars, StoresInOrder
        PROVE  StoresInOrder'
    BY <2>1 DEF vars, local, StoresInOrder
  <2> QED BY <2>1, OrderStep
<1> QED BY <1>1, <1>2, EvidenceInvariant, FlightsAreSingle, PTL DEF Spec

\* memCache.Set never replaces an entry by an older status of the row.
THEOREM CacheOnlyMovesForward == Spec => CacheMovesForward
<1>1. ASSUME Evidence, StoresInOrder, [Next]_vars, NEW g \in Grants,
             cache[g] # NoEntry, cache'[g] # NoEntry, cache'[g] # cache[g]
      PROVE  HeldSince(g, cache'[g].value, cache[g].at)
  <2> USE DEF Evidence
  <2>1. CASE UNCHANGED vars
    BY <1>1, <2>1 DEF vars
  <2>2. CASE Next
    <3>1. PICK c \in Callers : /\ Store(c) /\ grant[c] = g
                               /\ cache'[g] = [value |-> result[c], at |-> now]
      BY <1>1, <2>2, CacheMoves
    <3>2. /\ result[c] \in Status /\ HeldSince(g, result[c], began[c])
          /\ cache[g].at <= began[c]
      BY <1>1, <3>1 DEF Store, FlightTrue, StoresInOrder
    <3>3. cache[g].at \in Int /\ began[c] \in Int
      BY <1>1 DEF TypeOK, Entry
    <3>4. HeldSince(g, result[c], cache[g].at)
      BY <1>1, <3>2, <3>3, HeldSinceEarlier
    <3> QED BY <3>1, <3>4
  <2> QED BY <1>1, <2>1, <2>2
<1>2. Evidence /\ StoresInOrder /\ [Next]_vars =>
        [\A g \in Grants :
           cache[g] # NoEntry /\ cache'[g] # NoEntry /\ cache'[g] # cache[g] =>
             HeldSince(g, cache'[g].value, cache[g].at)]_vars
  BY <1>1
<1> QED BY <1>2, EvidenceInvariant, OrderInvariant, PTL DEF Spec, CacheMovesForward

\* memCache.Get deletes only entries past TTL + Grace, whatever the caller
\* read before it took the write lock.
THEOREM EvictionSparesUsableEntries == Spec => EvictionSparesUsable
<1>1. ASSUME Evidence, [Next]_vars, NEW g \in Grants,
             cache[g] # NoEntry, cache'[g] = NoEntry
      PROVE  Age(cache[g]) > MaxAge
  <2> USE DEF Evidence
  <2>1. cache' # cache
    BY <1>1
  <2>2. PICK c \in Callers : Evict(c) \/ Store(c)
    BY <1>1, <2>1 DEF Next, Environment, Tick, ChangeRow, Rest, vars, Active, Step,
         Lookup, Judge, Join, Lead, ReadRow, TimeOut, Fail, Publish
  <2>3. CASE Evict(c)
    BY <1>1, <2>3 DEF Evict, Expired, TypeOK
  <2>4. CASE Store(c)
    <3>1. result[c] = "absent" \/ [value |-> result[c], at |-> now] \in Entry
      <4>1. result[c] \in Status /\ now \in Int
        BY <1>1, <2>4 DEF Store, FlightTrue, TypeOK
      <4> QED BY <4>1 DEF Entry, Cached, Status
    <3> QED BY <1>1, <2>1, <2>4, <3>1, NoEntryAssumption DEF Store, TypeOK
  <2> QED BY <2>2, <2>3, <2>4
<1>2. Evidence /\ [Next]_vars =>
        [\A g \in Grants :
           cache[g] # NoEntry /\ cache'[g] = NoEntry => Age(cache[g]) > MaxAge]_vars
  BY <1>1
<1> QED BY <1>2, EvidenceInvariant, PTL DEF Spec, EvictionSparesUsable

-----------------------------------------------------------------------------
(* When a call queries.                                                    *)

\* The entry e, in the cache when a call that began at t missed, is no use to
\* it or came too late for it.
Excused(e, t) == e = NoEntry \/ Age(e) > TTL \/ e.at >= t

\* A call that has missed had to, and a snapshot is outdated only by an entry
\* that is younger than the call.
MissesAreTrue ==
    \A c \in Callers :
       /\ pc[c] = "do" => Excused(cache[grant[c]], calledAt[c])
       /\ pc[c] \in {"judge", "evict"} =>
            \/ cache[grant[c]] \in {NoEntry, seen[c]}
            \/ cache[grant[c]].at >= calledAt[c]
       /\ pc[c] = "evict" => Age(seen[c]) > MaxAge

\* MissesAreTrue after a step, for one caller.
MissIsTrueNext(d) ==
    /\ pc'[d] = "do" => Excused(cache[grant[d]], calledAt[d])'
    /\ pc'[d] \in {"judge", "evict"} =>
         \/ cache'[grant'[d]] \in {NoEntry, seen'[d]}
         \/ cache'[grant'[d]].at >= calledAt'[d]
    /\ pc'[d] = "evict" => Age(seen[d])' > MaxAge

\* A call keeps its excuse while others act: the clock moves on, an entry goes,
\* or a flight stores one now.
LEMMA OthersKeepMisses ==
  ASSUME Evidence, MissesAreTrue, Next, NEW d \in Callers,
         pc'[d] = pc[d], grant'[d] = grant[d], calledAt'[d] = calledAt[d],
         seen'[d] = seen[d]
  PROVE  MissIsTrueNext(d)
<1> USE DEF Evidence
<1> SUFFICES ASSUME pc[d] \in {"do", "judge", "evict"}
             PROVE  MissIsTrueNext(d)
  BY DEF MissIsTrueNext
<1>1. PICK g \in Grants : g = grant[d]
  BY DEF LiveKeys
<1>2. PICK t \in Nat : t = calledAt[d] /\ t <= now
  BY DEF TypeOK, CalledBefore
<1>3. now \in Nat /\ now' \in Nat /\ now' >= now
  BY NowMoves
<1>4. cache[g] = NoEntry \/ cache[g].at \in Int
  BY DEF TypeOK, Entry
<1>5. cache'[g] = cache[g] \/ cache'[g] = NoEntry \/ cache'[g].at >= t
  <2>1. ASSUME NEW c \in Callers, cache'[g] = [value |-> result[c], at |-> now]
        PROVE  cache'[g].at >= t
    BY <1>2, <2>1
  <2> QED BY <2>1, CacheMoves
<1>6. pc'[d] = "do" => Excused(cache[grant[d]], calledAt[d])'
  <2>1. PICK e : e = cache[g]
    OBVIOUS
  <2>2. CASE pc[d] = "do" /\ cache'[g] = e /\ e # NoEntry
    <3>1. now - e.at > TTL \/ e.at >= t
      BY <1>1, <1>2, <2>1, <2>2 DEF MissesAreTrue, Excused, Age
    <3>2. now' - e.at > TTL \/ e.at >= t
      BY <1>3, <1>4, <2>1, <2>2, <3>1, TimingAssumption
    <3> QED BY <1>1, <1>2, <2>2, <3>2 DEF Excused, Age
  <2>3. CASE cache'[g] = NoEntry \/ cache'[g].at >= t
    BY <1>1, <1>2, <2>3 DEF Excused
  <2> QED BY <1>5, <2>1, <2>2, <2>3
<1>7. pc'[d] \in {"judge", "evict"} =>
        \/ cache'[grant'[d]] \in {NoEntry, seen'[d]}
        \/ cache'[grant'[d]].at >= calledAt'[d]
  BY <1>1, <1>2, <1>5 DEF MissesAreTrue
<1>8. pc'[d] = "evict" => Age(seen[d])' > MaxAge
  <2>1. PICK e : e = seen[d]
    OBVIOUS
  <2>2. pc[d] = "evict" => e.at \in Int /\ now - e.at > MaxAge
    BY <2>1 DEF SeenTrue, EntryTrue, Entry, MissesAreTrue, Age
  <2>3. pc[d] = "evict" => now' - e.at > MaxAge
    BY <1>3, <2>2, TimingAssumption DEF MaxAge
  <2> QED BY <2>1, <2>3 DEF Age, MaxAge
<1> QED BY <1>6, <1>7, <1>8 DEF MissIsTrueNext

\* The lookup misses on no entry, or takes the snapshot.
LEMMA LookupKeepsMisses ==
  ASSUME Evidence, NEW d \in Callers, Lookup(d)
  PROVE  MissIsTrueNext(d)
<1>1. cache' = cache /\ grant' = grant
  BY DEF Lookup
<1>2. CASE cache[grant[d]] = NoEntry
  BY <1>1, <1>2 DEF Evidence, Lookup, Miss, Return, TypeOK, MissIsTrueNext, Excused
<1>3. CASE cache[grant[d]] # NoEntry
  BY <1>1, <1>3 DEF Evidence, Lookup, TypeOK, MissIsTrueNext
<1> QED BY <1>2, <1>3

\* The judgement misses on a snapshot past its TTL.
LEMMA JudgeKeepsMisses ==
  ASSUME Evidence, MissesAreTrue, NEW d \in Callers, Judge(d)
  PROVE  MissIsTrueNext(d)
<1> USE DEF Evidence
<1>1. /\ cache' = cache /\ grant' = grant /\ calledAt' = calledAt /\ now' = now
      /\ pc[d] = "judge"
  BY DEF Judge, env
<1>2. CASE Age(seen[d]) > MaxAge /\ pc' = [pc EXCEPT ![d] = "evict"] /\ seen' = seen
  BY <1>1, <1>2 DEF MissesAreTrue, MissIsTrueNext, Age, TypeOK
<1>3. CASE Age(seen[d]) <= MaxAge
  <2>1. pc'[d] \in {"granted", "denied", "unavailable", "do"}
    BY <1>3, TimingAssumption
       DEF Judge, Miss, Return, ActiveOrRevoked, TypeOK, SeenTrue, EntryTrue,
           Entry, Age, MaxAge
  <2>2. pc'[d] = "do" => Age(seen[d]) > TTL
    <3>1. Age(seen[d]) \in Int
      BY <1>1 DEF TypeOK, SeenTrue, EntryTrue, Entry, Age
    <3>2. Age(seen[d]) <= Usable(d) => pc'[d] # "do"
      BY <1>3, <3>1, TimingAssumption
         DEF Judge, Return, ActiveOrRevoked, TypeOK, MaxAge
    <3>3. ~(Age(seen[d]) <= Usable(d)) /\ pc'[d] = "do" => ~retry[d]
      BY <1>3, <3>1, TimingAssumption DEF Judge, Miss, Return, TypeOK, MaxAge
    <3> QED BY <3>1, <3>2, <3>3, TimingAssumption DEF Usable
  <2>3. pc'[d] = "do" => Excused(cache[grant[d]], calledAt[d])
    BY <1>1, <2>2 DEF MissesAreTrue, Excused
  <2> QED BY <1>1, <2>1, <2>3 DEF MissIsTrueNext, Excused, Age
<1> QED BY <1>2, <1>3 DEF Judge

\* What the eviction leaves in the cache is not what the call had read.
LEMMA EvictKeepsMisses ==
  ASSUME Evidence, MissesAreTrue, NEW d \in Callers, Evict(d)
  PROVE  MissIsTrueNext(d)
<1> USE DEF Evidence
<1>1. PICK g \in Grants : g = grant[d]
  BY DEF Evict, LiveKeys
<1>2. /\ pc[d] = "evict" /\ grant' = grant /\ calledAt' = calledAt
      /\ pc'[d] \in {"unavailable", "do"}
      /\ cache'[g] = IF Expired(g) THEN NoEntry ELSE cache[g]
  BY <1>1 DEF Evict, Miss, Return, TypeOK
<1>3. Age(seen[d]) > MaxAge
  BY <1>2 DEF MissesAreTrue
<1>4. cache'[g] = NoEntry \/ cache'[g].at >= calledAt[d]
  BY <1>1, <1>2, <1>3 DEF MissesAreTrue, Expired
<1> QED BY <1>1, <1>2, <1>4 DEF MissIsTrueNext, Excused

\* Every step keeps the misses true.
LEMMA MissesStep ==
  ASSUME Evidence, MissesAreTrue, Next
  PROVE  MissesAreTrue'
<1> USE DEF Evidence
<1> SUFFICES ASSUME NEW d \in Callers
             PROVE  MissIsTrueNext(d)
  BY DEF MissesAreTrue, MissIsTrueNext
<1>1. CASE \/ \E g \in Keys : Active(d, g)
           \/ \E c \in Callers : d \in Party(c) /\ Publish(c)
  <2>1. pc'[d] \notin {"do", "judge", "evict"}
    BY <1>1 DEF Active, Publish, ActiveOrRevoked, TypeOK
  <2> QED BY <2>1 DEF MissIsTrueNext
<1>2. CASE Join(d) \/ Lead(d) \/ ReadRow(d) \/ Store(d) \/ Fail(d)
  <2>1. pc'[d] \notin {"do", "judge", "evict"}
    BY <1>2 DEF Join, Lead, ReadRow, Store, Fail, TypeOK
  <2> QED BY <2>1 DEF MissIsTrueNext
<1> QED BY <1>1, <1>2, CallMoves, OthersKeepMisses, LookupKeepsMisses,
           JudgeKeepsMisses, EvictKeepsMisses

\* A call that reaches the group has missed: what it read was no entry or one
\* past its TTL, and what is there now is that or younger than the call.
THEOREM MissesInvariant == Spec => []MissesAreTrue
<1>1. Init => MissesAreTrue
  BY DEF Init, MissesAreTrue
<1>2. Evidence /\ MissesAreTrue /\ [Next]_vars => MissesAreTrue'
  <2>1. ASSUME UNCHANGED vars, MissesAreTrue
        PROVE  MissesAreTrue'
    BY <2>1 DEF vars, env, local, MissesAreTrue, Excused, Age
  <2> QED BY <2>1, MissesStep
<1> QED BY <1>1, <1>2, EvidenceInvariant, PTL DEF Spec

\* Active queries past a fresh entry only if that entry was stored while the
\* call was between its lookup and group.Do.
THEOREM QueriesAreOnlyWhereNeeded == Spec => QueriesAreNeeded
<1>1. ASSUME MissesAreTrue, NEW c \in Callers, pc[c] = "do",
             cache[grant[c]] # NoEntry
      PROVE  \/ Age(cache[grant[c]]) > TTL
             \/ cache[grant[c]].at >= calledAt[c]
  BY <1>1 DEF MissesAreTrue, Excused
<1>2. MissesAreTrue /\ [Next]_vars =>
        [\A c \in Callers :
           pc[c] = "do" /\ pc'[c] = "query" /\ cache[grant[c]] # NoEntry =>
             \/ Age(cache[grant[c]]) > TTL
             \/ cache[grant[c]].at >= calledAt[c]]_vars
  BY <1>1
<1> QED BY <1>2, MissesInvariant, PTL DEF Spec, QueriesAreNeeded
=============================================================================
