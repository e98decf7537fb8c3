--------------------------- MODULE GrantRefinement ---------------------------
(***************************************************************************)
(* GrantChecker implements GrantPromise, for any number of callers and any *)
(* timing: every step of Active, of its cache and of its flights is a step *)
(* of the promise, or changes nothing the promise speaks of.               *)
(***************************************************************************)
EXTENDS GrantCheckerProofs

\* How far the call of c is for GrantPromise.
Stage(c) ==
    IF Returned(c) THEN pc[c]
    ELSE IF retry[c] THEN "degraded" ELSE "pending"

\* A call whose query has failed queries no more.
OneQueryPerCall ==
    \A c \in Callers :
       retry[c] /\ ~Returned(c) => pc[c] \in {"get", "judge", "evict"}

\* Every step keeps it so: the fallback lookup never enters the group.
LEMMA OneQueryStep ==
  ASSUME Evidence, OneQueryPerCall, Next
  PROVE  OneQueryPerCall'
<1> USE DEF Evidence
<1> SUFFICES ASSUME NEW d \in Callers, retry'[d], ~Returned(d)'
             PROVE  pc'[d] \in {"get", "judge", "evict"}
  BY DEF OneQueryPerCall
<1>1. CASE pc'[d] = pc[d] /\ retry'[d] = retry[d]
  BY <1>1 DEF OneQueryPerCall, Returned
<1>2. CASE \E g \in Keys : Active(d, g)
  BY <1>2 DEF Active, TypeOK
<1>3. CASE Lookup(d) \/ Judge(d) \/ Evict(d)
  BY <1>3 DEF Lookup, Judge, Evict, Miss, Return, ActiveOrRevoked, Returned, Results,
              TypeOK
<1>4. CASE Join(d) \/ Lead(d) \/ ReadRow(d) \/ Store(d) \/ Fail(d)
  <2>1. retry' = retry /\ pc[d] \in {"do", "query", "reply"}
    BY <1>4 DEF Join, Lead, ReadRow, Store, Fail
  <2> QED BY <2>1 DEF OneQueryPerCall, Returned, Results
<1>5. CASE \E c \in Callers : d \in Party(c) /\ Publish(c)
  BY <1>5 DEF Publish, ActiveOrRevoked, Returned, Results, TypeOK
<1> QED BY <1>1, <1>2, <1>3, <1>4, <1>5, CallMoves

\* A call of Active queries the database at most once.
THEOREM CallsQueryOnce == Spec => []OneQueryPerCall
<1>1. Init => OneQueryPerCall
  BY DEF Init, OneQueryPerCall
<1>2. Evidence /\ OneQueryPerCall /\ [Next]_vars => OneQueryPerCall'
  <2>1. ASSUME UNCHANGED vars, OneQueryPerCall
        PROVE  OneQueryPerCall'
    BY <2>1 DEF vars, local, OneQueryPerCall, Returned
  <2> QED BY <2>1, OneQueryStep
<1> QED BY <1>1, <1>2, EvidenceInvariant, PTL DEF Spec

-----------------------------------------------------------------------------
(* Steps of the promise.                                                   *)

\* What the promise sees of a step that moves the calls of C on to st.
Moves(C, st) ==
    /\ \A c \in Callers : Stage(c)' = IF c \in C THEN st ELSE Stage(c)
    /\ UNCHANGED <<now, db, heldUntil, grant, calledAt>>

\* Such a step is Together of the promise.
LEMMA MovesTogether ==
  ASSUME NEW C, NEW st, Moves(C, st)
  PROVE  Promise!Together(C, st)
BY DEF Moves, Stage, Promise!Together, Returned, Results

\* A step that moves nobody is none.
LEMMA NobodyMoves ==
  ASSUME UNCHANGED <<now, db, heldUntil, grant, calledAt>>,
         \A c \in Callers : Stage(c)' = Stage(c)
  PROVE  UNCHANGED Promise!vars
BY DEF Stage, Promise!vars, Returned, Results

\* The initial states are the promise's.
LEMMA PromiseInit ==
  ASSUME Init
  PROVE  Promise!Init
BY DEF Init, Never, Status, Returned, Promise!Init, Promise!Status, Promise!Never

\* The clock and the row move as the promise says.
LEMMA EnvironmentRefines ==
  ASSUME Environment
  PROVE  Promise!Next
<1>1. CASE Tick
  <2>1. Promise!Tick
    BY <1>1 DEF Tick, local, Promise!Tick, Returned
  <2> QED BY <2>1 DEF Promise!Next
<1>2. ASSUME NEW g \in Grants, NEW s \in Status, ChangeRow(g, s)
      PROVE  Promise!Next
  <2>1. Promise!ChangeRow(g, s)
    BY <1>2 DEF ChangeRow, local, Promise!ChangeRow, Returned
  <2> QED BY <2>1 DEF Promise!Next, Promise!Status, Status
<1> QED BY <1>1, <1>2 DEF Environment

\* A call begins pending, or is denied at once for its tenant label.
LEMMA ActiveRefines ==
  ASSUME TypeOK, NEW c \in Callers, NEW g \in Keys, Active(c, g)
  PROVE  Promise!Next
<1> DEFINE st == IF g \in Malformed THEN "denied" ELSE "pending"
<1>1. /\ Returned(c) /\ grant' = [grant EXCEPT ![c] = g]
      /\ calledAt' = [calledAt EXCEPT ![c] = now]
      /\ UNCHANGED <<now, db, heldUntil>>
  BY DEF Active, env
<1>2. ASSUME NEW d \in Callers
      PROVE  Stage(d)' = IF d = c THEN st ELSE Stage(d)
  BY DEF Active, Stage, Returned, Results, TypeOK
<1>3. Promise!Begin(c, g, st)
  BY <1>1, <1>2 DEF Promise!Begin, Promise!Returned, Promise!Verdict, Returned,
                    Results, Stage
<1>4. CASE g \in Malformed
  BY <1>3, <1>4 DEF Promise!Next
<1>5. CASE g \notin Malformed
  BY <1>3, <1>5 DEF Promise!Next, Keys
<1> QED BY <1>4, <1>5

\* A call that gives up has failed its query before.
LEMMA GivesUp ==
  ASSUME NEW c \in Callers, Moves({c}, "unavailable"), Stage(c) = "degraded"
  PROVE  Promise!Proceed
<1>1. Promise!Together({c}, "unavailable")
  BY MovesTogether
<1>2. Promise!GiveUp(c)
  BY <1>1 DEF Promise!GiveUp, Stage, Returned, Results
<1> QED BY <1>2 DEF Promise!Proceed

\* A group of calls may be granted, or denied, on the evidence of a status.
LEMMA Decides ==
  ASSUME TypeOK, NEW C \in SUBSET Callers, NEW s \in Status,
         Moves(C, ActiveOrRevoked(s)),
         \A c \in C : /\ ~Returned(c)
                      /\ HeldSince(grant[c], s, calledAt[c] -
                           (IF s = "absent" THEN QueryTimeout ELSE Window(c)))
  PROVE  Promise!Proceed
<1>1. Promise!Together(C, ActiveOrRevoked(s))
  BY MovesTogether
<1>2. ASSUME NEW c \in C
      PROVE  /\ ~Promise!Returned(c)
             /\ HeldSince(grant[c], s, calledAt[c] -
                  (IF s = "absent" THEN QueryTimeout ELSE Promise!Window(c)))
  BY <1>2 DEF Promise!Returned, Promise!Verdict, Promise!Window, Returned, Results,
              Window, TypeOK
<1>3. CASE s = "active"
  <2>1. Promise!GrantCalls(C)
    BY <1>1, <1>2, <1>3 DEF ActiveOrRevoked, Promise!GrantCalls, Promise!HeldSince,
                            HeldSince
  <2> QED BY <2>1 DEF Promise!Proceed
<1>4. CASE s # "active"
  <2>1. Promise!DenyCalls(C)
    BY <1>1, <1>2, <1>4 DEF ActiveOrRevoked, Promise!DenyCalls, Promise!HeldSince,
                            HeldSince, Status
  <2> QED BY <2>1 DEF Promise!Proceed
<1> QED BY <1>3, <1>4

\* A lookup, its age test and its eviction are nothing to the promise, unless
\* they end the call.
LEMMA LookupRefines ==
  ASSUME Evidence, NEW c \in Callers, Lookup(c) \/ Judge(c) \/ Evict(c)
  PROVE  Promise!Proceed \/ UNCHANGED Promise!vars
<1> USE DEF Evidence
<1>1. /\ pc[c] \in {"get", "judge", "evict"} /\ retry' = retry
      /\ UNCHANGED <<now, db, heldUntil, grant, calledAt>>
      /\ \A d \in Callers \ {c} : pc'[d] = pc[d]
      /\ \/ pc'[c] \in {"judge", "evict"}
         \/ pc'[c] = "do" /\ ~retry[c]
         \/ pc'[c] = "unavailable" /\ retry[c]
         \/ pc'[c] \in {"granted", "denied"} /\ Judge(c)
  BY DEF Lookup, Judge, Evict, Miss, Return, ActiveOrRevoked, TypeOK, env
<1>2. CASE pc'[c] \in {"judge", "evict", "do"}
  BY <1>1, <1>2, NobodyMoves DEF Stage, Returned, Results
<1>3. CASE pc'[c] = "unavailable" /\ retry[c]
  <2>1. Moves({c}, "unavailable") /\ Stage(c) = "degraded"
    BY <1>1, <1>3 DEF Moves, Stage, Returned, Results
  <2> QED BY <2>1, GivesUp
<1>4. CASE pc'[c] \in {"granted", "denied"} /\ Judge(c)
  <2>1. PICK s \in Cached : /\ pc'[c] = ActiveOrRevoked(s)
                            /\ HeldSince(grant[c], s, calledAt[c] - Window(c))
    BY <1>4, JudgeVerdict
  <2>2. Moves({c}, ActiveOrRevoked(s)) /\ ~Returned(c)
    BY <1>1, <2>1 DEF Moves, Stage, Returned, Results, ActiveOrRevoked
  <2> QED BY <2>1, <2>2, Decides DEF Cached, Status
<1> QED BY <1>1, <1>2, <1>3, <1>4

\* Entering the group and running the query are nothing to the promise.
LEMMA FlightRefines ==
  ASSUME TypeOK, NEW c \in Callers,
         Join(c) \/ Lead(c) \/ ReadRow(c) \/ Store(c) \/ Fail(c)
  PROVE  UNCHANGED Promise!vars
<1>1. /\ pc[c] \in {"do", "query", "reply"}
      /\ pc'[c] \in {"wait", "query", "reply", "publish"} /\ retry' = retry
      /\ UNCHANGED <<now, db, heldUntil, grant, calledAt>>
      /\ \A d \in Callers \ {c} : pc'[d] = pc[d]
  BY DEF Join, Lead, ReadRow, Store, Fail, TypeOK, env
<1> QED BY <1>1, NobodyMoves DEF Stage, Returned, Results

\* The end of a flight decides, or degrades, the calls of its party together.
LEMMA PublishRefines ==
  ASSUME Evidence, OneQueryPerCall, NEW c \in Callers, Publish(c)
  PROVE  Promise!Proceed
<1> USE DEF Evidence
<1>1. /\ Party(c) \in SUBSET Callers /\ c \in Party(c)
      /\ UNCHANGED <<now, db, heldUntil, grant, calledAt>>
      /\ \A d \in Party(c) : pc[d] \in {"wait", "publish"} /\ ~retry[d]
      /\ \A d \in Callers \ Party(c) : pc'[d] = pc[d] /\ retry'[d] = retry[d]
  <2>1. /\ Party(c) \in SUBSET Callers /\ c \in Party(c)
        /\ \A d \in Party(c) : pc[d] \in {"wait", "publish"}
    BY DEF Publish, Party
  <2>2. \A d \in Party(c) : ~retry[d]
    BY <2>1 DEF OneQueryPerCall, Returned, Results
  <2>3. UNCHANGED <<now, db, heldUntil, grant, calledAt>>
    BY DEF Publish, env
  <2>4. ASSUME NEW d \in Callers \ Party(c)
        PROVE  pc'[d] = pc[d] /\ retry'[d] = retry[d]
    <3>1. pc'[d] = pc[d] /\ retry'[d] = (retry[d] \/ FALSE) /\ retry[d] \in BOOLEAN
      BY DEF Publish, TypeOK
    <3> QED BY <3>1
  <2> QED BY <2>1, <2>2, <2>3, <2>4
<1>2. CASE result[c] = "error"
  <2>1. \A d \in Party(c) : pc'[d] = "get" /\ retry'[d]
    BY <1>1, <1>2 DEF Publish, TypeOK
  <2>2. Moves(Party(c), "degraded")
    BY <1>1, <2>1 DEF Moves, Stage, Returned, Results
  <2>3. PICK C \in SUBSET Callers : C = Party(c)
    BY <1>1
  <2>4. Promise!Together(C, "degraded")
    BY <2>2, <2>3, MovesTogether
  <2>5. Promise!Degrade(C)
    BY <1>1, <2>3, <2>4 DEF Promise!Degrade, Returned, Results
  <2> QED BY <2>5 DEF Promise!Proceed
<1>3. CASE result[c] # "error"
  <2> DEFINE s == result[c]
  <2>1. s \in Status
    BY <1>3 DEF Publish, FlightTrue
  <2>2. \A d \in Party(c) : pc'[d] = ActiveOrRevoked(s)
    BY <1>1, <1>3 DEF Publish, TypeOK
  <2>3. Moves(Party(c), ActiveOrRevoked(s))
    BY <1>1, <2>2 DEF Moves, Stage, Returned, Results, ActiveOrRevoked
  <2>4. ASSUME NEW d \in Party(c)
        PROVE  HeldSince(grant[d], s, calledAt[d] -
                 (IF s = "absent" THEN QueryTimeout ELSE Window(d)))
    <3>1. /\ grant[d] \in Grants /\ calledAt[d] \in Int /\ began[c] \in Int
          /\ HeldSince(grant[d], s, began[c]) /\ calledAt[d] <= began[c] + QueryTimeout
      <4>1. grant[d] = grant[c] /\ pc[c] = "publish" /\ d \in Callers
        BY <1>1 DEF Publish, Party
      <4>2. grant[c] \in Grants /\ HeldSince(grant[c], s, began[c])
        BY <1>3, <4>1 DEF FlightTrue, LiveKeys
      <4>3. now <= began[c] + QueryTimeout /\ calledAt[d] <= now
        BY <4>1 DEF FlightTrue, Leading, Deadline, CalledBefore
      <4>4. now \in Int /\ calledAt[d] \in Int /\ began[c] \in Int
        BY <4>1 DEF TypeOK
      <4> QED BY <4>1, <4>2, <4>3, <4>4, TimingAssumption
    <3>2. /\ calledAt[d] - QueryTimeout \in Int /\ calledAt[d] - Window(d) \in Int
          /\ calledAt[d] - QueryTimeout <= began[c]
          /\ calledAt[d] - Window(d) <= began[c]
      BY <3>1, TimingAssumption DEF Window
    <3> QED BY <2>1, <3>1, <3>2, HeldSinceEarlier
  <2>5. \A d \in Party(c) : ~Returned(d)
    BY <1>1 DEF Returned, Results
  <2> HIDE DEF s
  <2> QED BY <1>1, <2>1, <2>3, <2>4, <2>5, Decides
<1> QED BY <1>2, <1>3

\* GrantChecker keeps the promise: each of its verdicts is one that GrantPromise
\* allows, and only a call whose query has failed looks Grace further back.
THEOREM PromiseKept == Spec => KeepsPromise
<1>1. Init => Promise!Init
  BY PromiseInit
<1>2. Evidence /\ OneQueryPerCall /\ [Next]_vars
        => Promise!Next \/ UNCHANGED Promise!vars
  <2> SUFFICES ASSUME Evidence, OneQueryPerCall, [Next]_vars
               PROVE  Promise!Next \/ UNCHANGED Promise!vars
    OBVIOUS
  <2>1. CASE Environment
    BY <2>1, EnvironmentRefines
  <2>2. CASE Rest \/ UNCHANGED vars
    BY <2>2 DEF Rest, vars, env, local, Promise!vars, Returned
  <2>3. CASE \E c \in Callers, g \in Keys : Active(c, g)
    BY <2>3, ActiveRefines DEF Evidence
  <2>4. ASSUME NEW c \in Callers, Step(c) \/ ReadRow(c) \/ Fail(c)
        PROVE  Promise!Next \/ UNCHANGED Promise!vars
    BY <2>4, LookupRefines, FlightRefines, PublishRefines
    DEF Step, TimeOut, Evidence, Promise!Next
  <2> QED BY <2>1, <2>2, <2>3, <2>4 DEF Next
<1> QED BY <1>1, <1>2, EvidenceInvariant, CallsQueryOnce, PTL
        DEF Spec, KeepsPromise, Promise!Spec
=============================================================================
