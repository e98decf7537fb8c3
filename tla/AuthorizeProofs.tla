-------------------------- MODULE AuthorizeProofs --------------------------
(***************************************************************************)
(* Handlers run for entitled requests only and refusals name the fault,    *)
(* for any tokens, endpoints, keys and windows and any number of requests. *)
(* A request is followed from its arrival to its answer: what it holds     *)
(* while Active is under way (InFlight) decides what it may be answered.   *)
(***************************************************************************)
EXTENDS Authorize, TLAPS

\* The verdict of Active on c's grant has a reason.
HasReason(c) ==
    /\ stage[c] = "granted" =>
         /\ grant[c] \in Grants
         /\ HeldSince(grant[c], "active", arrivedAt[c] - Horizon)
    /\ stage[c] = "denied" =>
         \/ grant[c] \in Malformed
         \/ NotAllActive(grant[c], arrivedAt[c] - Horizon)

\* While Active is under way the token is good but for its grant.
InFlight(c) ==
    /\ Accepted(c)
    /\ endpoint[c].scopes \subseteq token[c].scopes
    /\ endpoint[c].checksGrants
    /\ grant[c] = token[c].grant
    /\ calledAt[c] = arrivedAt[c]
    /\ stage[c] # "idle"
    /\ stage[c] \in {"pending", "degraded"} => grant[c] \in Grants
    /\ HasReason(c)

\* HandlersAreEntitled and RefusalsNameTheFault for one request.
Entitled(c) ==
    reply[c] = "handled" =>
      /\ Accepted(c)
      /\ endpoint[c].scopes \subseteq token[c].scopes
      /\ endpoint[c].checksGrants =>
           /\ token[c].grant \in Grants
           /\ HeldSince(token[c].grant, "active",
                                arrivedAt[c] - Horizon)

Named(c) ==
    /\ reply[c] \in {"401", "Unauthenticated"} /\ Accepted(c) =>
         /\ endpoint[c].checksGrants
         /\ \/ token[c].grant \in Malformed
            \/ NotAllActive(token[c].grant, arrivedAt[c] - Horizon)
    /\ reply[c] \in {"403", "PermissionDenied"} =>
         Accepted(c) /\ ~ endpoint[c].scopes \subseteq token[c].scopes
    /\ reply[c] \in {"503", "Unavailable"} =>
         endpoint[c].checksGrants /\ Accepted(c) /\ stage[c] = "unavailable"
    /\ reply[c] \in {"500", "Internal"} => endpoint[c].ownVerifier

Sound(c) ==
    /\ arrivedAt[c] <= now
    /\ Waiting(c) => InFlight(c)
    /\ ~Waiting(c) => Checker!Returned(c)
    /\ Entitled(c)
    /\ Named(c)

\* The inductive invariant.
Inv == RequestsTypeOK /\ \A c \in Callers : Sound(c)

-----------------------------------------------------------------------------
(* Tokens, errors and statuses.                                            *)

\* A valid token stands for a grant, well-formed or not.
LEMMA ValidGrant ==
  ASSUME NEW t \in Tokens, NEW at, Valid(t, at)
  PROVE  t.grant \in Grants \cup Malformed
BY TokensAssumption DEF Valid

\* Which statuses an error can get.
LEMMA ResponseStatus ==
  ASSUME NEW e \in Endpoints, NEW err \in Errors
  PROVE  /\ Response(e, err) \in Statuses
         /\ Response(e, err) \in {"401", "Unauthenticated"} =>
              err \in {"ErrTokenMissing", "ErrTokenInvalid", "ErrGrantRevoked"}
         /\ Response(e, err) \in {"403", "PermissionDenied"} =>
              err = "ErrInsufficientScope"
         /\ Response(e, err) \in {"503", "Unavailable"} =>
              err = "ErrGrantUnavailable"
         /\ Response(e, err) \in {"500", "Internal"} => err = "unknown"
<1>1. CASE e.adapter = "http"
  BY <1>1 DEF Response, HttpStatus, Errors, Statuses
<1>2. CASE e.adapter = "grpc"
  BY <1>2 DEF Response, GrpcStatus, Errors, Statuses
<1>3. CASE e.adapter = "http with error handler"
  BY <1>3 DEF Response, Statuses
<1> QED BY <1>1, <1>2, <1>3, EndpointsAssumption

\* A status neither lets a request wait nor calls the handler.
LEMMA StatusAnswers ==
  ASSUME NEW st \in Statuses
  PROVE  st \notin {"none", "waiting", "handled"}
BY DEF Statuses

\* What goes wrong before the grant is looked at.
LEMMA ErrorsBeforeGrant ==
  ASSUME NEW e \in Endpoints, NEW t \in Tokens \cup {NoToken},
         NEW err \in BeforeGrant(e, t)
  PROVE  /\ err \in {"ok", "ErrTokenMissing", "ErrTokenInvalid",
                     "ErrInsufficientScope", "unknown"}
         /\ err = "ok" => /\ t # NoToken /\ Valid(t, now)
                          /\ e.scopes \subseteq t.scopes
         /\ err \in {"ErrTokenMissing", "ErrTokenInvalid"} =>
              ~(t # NoToken /\ Valid(t, now))
         /\ err = "ErrInsufficientScope" =>
              t # NoToken /\ Valid(t, now) /\ ~ e.scopes \subseteq t.scopes
         /\ err = "unknown" => e.ownVerifier
<1>1. \/ err = "unknown" /\ e.ownVerifier
      \/ err = IF Verify(t) = "ok" /\ ~ e.scopes \subseteq t.scopes
                 THEN "ErrInsufficientScope" ELSE Verify(t)
  BY DEF BeforeGrant, HasAllScopes
<1> QED BY <1>1 DEF Verify

-----------------------------------------------------------------------------
(* What a request holds stays true while rows change.                      *)

\* Only the clock and the environment change rows.
LEMMA RowsMove ==
  ASSUME [RequestsNext]_pipeline
  PROVE  \/ ClockTicks
         \/ \E g \in Grants, s \in Status : RowChanges(g, s)
         \/ UNCHANGED <<now, db, heldUntil>>
<1>1. CASE UNCHANGED pipeline
  BY <1>1 DEF pipeline, checker
<1>2. CASE RequestsRest
  BY <1>2 DEF RequestsRest, pipeline, checker
<1>3. CASE ActiveMoves
  BY <1>3 DEF ActiveMoves, Checker!Proceed, Checker!Degrade, Checker!GrantCalls,
              Checker!DenyCalls, Checker!GiveUp, Checker!Together
<1>4. ASSUME NEW c \in Callers, Answer(c)
      PROVE  UNCHANGED <<now, db, heldUntil>>
  BY <1>4 DEF Answer, checker
<1>5. ASSUME NEW c \in Callers, NEW e \in Endpoints,
             NEW t \in Tokens \cup {NoToken},
             Refuse(c, e, t) \/ Admit(c, e, t) \/ CheckGrant(c, e, t)
      PROVE  UNCHANGED <<now, db, heldUntil>>
  BY <1>5 DEF Refuse, Admit, CheckGrant, checker, Checker!Begin
<1> QED BY <1>1, <1>2, <1>3, <1>4, <1>5 DEF RequestsNext

\* The clock moves forward.
LEMMA ClockMoves ==
  ASSUME RequestsTypeOK, [RequestsNext]_pipeline
  PROVE  now \in Nat /\ now' \in Nat /\ now <= now'
<1>1. now \in Nat
  BY DEF RequestsTypeOK
<1> QED BY <1>1, RowsMove DEF ClockTicks, Checker!Tick, RowChanges, Checker!ChangeRow

\* What a row was at some time from t on it was.
LEMMA HeldSinceStays ==
  ASSUME RequestsTypeOK, [RequestsNext]_pipeline, NEW g \in Grants, NEW s \in Status,
         NEW t \in Int, t <= now, HeldSince(g, s, t)
  PROVE  HeldSince(g, s, t)'
<1>1. CASE UNCHANGED <<db, heldUntil>>
  BY <1>1 DEF HeldSince
<1>2. ASSUME NEW h \in Grants, NEW u \in Status, RowChanges(h, u)
      PROVE  HeldSince(g, s, t)'
  BY <1>2 DEF RowChanges, Checker!ChangeRow, HeldSince, RequestsTypeOK
<1> QED BY <1>1, <1>2, RowsMove DEF ClockTicks, Checker!Tick

\* A request that a step leaves alone stays sound.
LEMMA OthersStaySound ==
  ASSUME RequestsTypeOK, [RequestsNext]_pipeline, NEW c \in Callers, Sound(c),
         reply'[c] = reply[c], endpoint'[c] = endpoint[c],
         token'[c] = token[c], arrivedAt'[c] = arrivedAt[c],
         stage'[c] = stage[c], grant'[c] = grant[c], calledAt'[c] = calledAt[c]
  PROVE  Sound(c)'
<1>1. PICK t \in Int : t = arrivedAt[c] - Horizon /\ t <= now
  BY TimingAssumption DEF RequestsTypeOK, Sound, Horizon
<1>2. (arrivedAt[c] - Horizon)' = t
  BY <1>1
<1>3. \A g \in Grants, s \in Status :
        HeldSince(g, s, t) => HeldSince(g, s, t)'
  BY <1>1, HeldSinceStays
<1>4. \A g \in Grants : NotAllActive(g, t) => NotAllActive(g, t)'
  BY <1>3 DEF NotAllActive, Status
<1>5. Accepted(c)' <=> Accepted(c)
  BY DEF Accepted
<1>6. Accepted(c) => token[c].grant \in Grants \cup Malformed
  BY ValidGrant DEF Accepted, RequestsTypeOK
<1>7. (arrivedAt[c] <= now)'
  BY ClockMoves DEF Sound, RequestsTypeOK
<1>8. (Waiting(c) => InFlight(c))'
  <2>1. SUFFICES ASSUME Waiting(c)' PROVE InFlight(c)'
    OBVIOUS
  <2>2. InFlight(c) /\ grant[c] \in Grants \cup Malformed
    BY <2>1, <1>6 DEF Waiting, Sound, InFlight
  <2>3. HasReason(c)'
    BY <2>2, <1>1, <1>2, <1>3, <1>4 DEF InFlight, HasReason, Status
  <2> QED BY <2>2, <2>3, <1>5 DEF InFlight
<1>9. (~Waiting(c) => Checker!Returned(c))'
  BY DEF Sound, Waiting, Checker!Returned, Checker!Verdict
<1>10. Entitled(c)'
  BY <1>1, <1>2, <1>3, <1>5 DEF Sound, Entitled, Status
<1>11. Named(c)'
  BY <1>1, <1>2, <1>4, <1>5, <1>6 DEF Sound, Named
<1> QED BY <1>7, <1>8, <1>9, <1>10, <1>11 DEF Sound

-----------------------------------------------------------------------------
(* The steps of the promise.                                               *)

\* What a call of Active may get to while its request waits.
LEMMA CallsMove ==
  ASSUME RequestsTypeOK, ActiveMoves, NEW c \in Callers, stage'[c] # stage[c]
  PROVE  /\ ~Checker!Returned(c)
         /\ \/ stage'[c] = "degraded"
            \/ /\ stage'[c] = "granted"
               /\ HeldSince(grant[c], "active",
                                    calledAt[c] - Checker!Window(c))
            \/ /\ stage'[c] = "denied"
               /\ \/ HeldSince(grant[c], "revoked",
                                       calledAt[c] - Checker!Window(c))
                  \/ HeldSince(grant[c], "absent",
                                       calledAt[c] - QueryTimeout)
            \/ stage'[c] = "unavailable"
<1>1. ASSUME NEW C \in SUBSET Callers, NEW st, Checker!Together(C, st)
      PROVE  c \in C /\ stage'[c] = st
  BY <1>1 DEF Checker!Together, RequestsTypeOK
<1>2. ASSUME NEW C \in SUBSET Callers, Checker!Degrade(C)
      PROVE  stage'[c] = "degraded" /\ ~Checker!Returned(c)
  BY <1>1, <1>2 DEF Checker!Degrade, Checker!Returned, Checker!Verdict
<1>3. ASSUME NEW C \in SUBSET Callers, Checker!GrantCalls(C)
      PROVE  /\ stage'[c] = "granted" /\ ~Checker!Returned(c)
             /\ HeldSince(grant[c], "active",
                                  calledAt[c] - Checker!Window(c))
  BY <1>1, <1>3 DEF Checker!GrantCalls, Checker!HeldSince, HeldSince
<1>4. ASSUME NEW C \in SUBSET Callers, Checker!DenyCalls(C)
      PROVE  /\ stage'[c] = "denied" /\ ~Checker!Returned(c)
             /\ \/ HeldSince(grant[c], "revoked",
                                     calledAt[c] - Checker!Window(c))
                \/ HeldSince(grant[c], "absent",
                                     calledAt[c] - QueryTimeout)
  BY <1>1, <1>4 DEF Checker!DenyCalls, Checker!HeldSince, HeldSince
<1>5. ASSUME NEW d \in Callers, Checker!GiveUp(d)
      PROVE  stage'[c] = "unavailable" /\ ~Checker!Returned(c)
  <2>1. {d} \in SUBSET Callers /\ Checker!Together({d}, "unavailable")
    BY <1>5 DEF Checker!GiveUp
  <2>2. c = d /\ stage'[c] = "unavailable"
    BY <2>1, <1>1
  <2> QED BY <1>5, <2>2 DEF Checker!GiveUp, Checker!Returned, Checker!Verdict
<1> QED BY <1>2, <1>3, <1>4, <1>5 DEF ActiveMoves, Checker!Proceed

\* They keep the types.
LEMMA ActiveMovesType ==
  ASSUME RequestsTypeOK, ActiveMoves
  PROVE  RequestsTypeOK'
<1>1. /\ UNCHANGED <<now, db, heldUntil, grant, calledAt>>
      /\ UNCHANGED requests
      /\ \E C \in SUBSET Callers, st \in Checker!Verdict \cup {"degraded"} :
           stage' = [c \in Callers |-> IF c \in C THEN st ELSE stage[c]]
  <2>1. UNCHANGED requests
    BY DEF ActiveMoves
  <2>2. ASSUME NEW C \in SUBSET Callers,
               \/ Checker!Degrade(C)
               \/ Checker!GrantCalls(C)
               \/ Checker!DenyCalls(C)
        PROVE  \E st \in Checker!Verdict \cup {"degraded"} :
                 Checker!Together(C, st)
    BY <2>2 DEF Checker!Degrade, Checker!GrantCalls, Checker!DenyCalls,
                Checker!Verdict
  <2>3. ASSUME NEW d \in Callers, Checker!GiveUp(d)
        PROVE  \E C \in SUBSET Callers : Checker!Together(C, "unavailable")
    <3>1. {d} \in SUBSET Callers /\ Checker!Together({d}, "unavailable")
      BY <2>3 DEF Checker!GiveUp
    <3> QED BY <3>1
  <2>4. \E C \in SUBSET Callers, st \in Checker!Verdict \cup {"degraded"} :
          Checker!Together(C, st)
    BY <2>2, <2>3 DEF ActiveMoves, Checker!Proceed, Checker!Verdict
  <2> QED BY <2>1, <2>4 DEF Checker!Together
<1>2. stage' \in [Callers ->
                    Checker!Verdict \cup {"idle", "pending", "degraded"}]
  BY <1>1 DEF RequestsTypeOK
<1> QED BY <1>1, <1>2 DEF RequestsTypeOK, requests

\* They move requests that wait, and give a reason for each verdict.
LEMMA ActiveMovesSound ==
  ASSUME RequestsTypeOK, ActiveMoves, NEW c \in Callers, Sound(c)
  PROVE  Sound(c)'
<1>1. UNCHANGED <<now, db, heldUntil, grant, calledAt, requests>>
  BY DEF ActiveMoves, Checker!Proceed, Checker!Degrade, Checker!GrantCalls, Checker!DenyCalls,
         Checker!GiveUp, Checker!Together
<1>2. CASE stage'[c] = stage[c]
  BY <1>1, <1>2, OthersStaySound DEF RequestsNext, requests
<1>3. CASE stage'[c] # stage[c]
  <2>1. Waiting(c) /\ InFlight(c)
    BY <1>3, CallsMove DEF Sound
  <2>2. grant[c] \in Grants
    BY <1>3, <2>1, CallsMove DEF InFlight, Checker!Returned, Checker!Verdict,
                                 RequestsTypeOK
  <2>3. /\ arrivedAt[c] \in Nat /\ calledAt[c] = arrivedAt[c]
        /\ calledAt[c] - Checker!Window(c) >= arrivedAt[c] - Horizon
        /\ calledAt[c] - QueryTimeout >= arrivedAt[c] - Horizon
        /\ calledAt[c] - Checker!Window(c) \in Int
        /\ calledAt[c] - QueryTimeout \in Int
        /\ arrivedAt[c] - Horizon \in Int
    BY <2>1, TimingAssumption DEF RequestsTypeOK, InFlight, Checker!Window, Horizon
  <2>4. ASSUME NEW s \in Status, NEW t \in Int, NEW u \in Int, u <= t,
               HeldSince(grant[c], s, t)
        PROVE  HeldSince(grant[c], s, u)
    BY <2>2, <2>4 DEF HeldSince, RequestsTypeOK
  <2>5. HasReason(c)'
    <3>1. /\ stage'[c] = "granted" =>
               HeldSince(grant[c], "active", arrivedAt[c] - Horizon)
          /\ stage'[c] = "denied" =>
               NotAllActive(grant[c], arrivedAt[c] - Horizon)
      BY <1>3, <2>3, <2>4, CallsMove DEF NotAllActive, Status
    <3> QED BY <1>1, <2>2, <3>1
            DEF HasReason, NotAllActive, HeldSince, requests
  <2>6. InFlight(c)'
    BY <1>1, <1>3, <2>1, <2>2, <2>5, CallsMove
    DEF InFlight, Accepted, requests
  <2> QED BY <1>1, <2>1, <2>6
          DEF Sound, Waiting, Entitled, Named, requests
<1> QED BY <1>2, <1>3

-----------------------------------------------------------------------------
(* The steps of a request.                                                 *)

\* The request that arrives, and the others, which do not change.
LEMMA ArrivalChanges ==
  ASSUME RequestsTypeOK, NEW c \in Callers, NEW e \in Endpoints,
         NEW t \in Tokens \cup {NoToken}, Arrive(c, e, t)
  PROVE  /\ endpoint'[c] = e /\ token'[c] = t /\ arrivedAt'[c] = now
         /\ reply[c] = "none"
         /\ endpoint' \in [Callers -> Endpoints]
         /\ token' \in [Callers -> Tokens \cup {NoToken}]
         /\ arrivedAt' \in [Callers -> Nat]
         /\ \A d \in Callers \ {c} : /\ endpoint'[d] = endpoint[d]
                                     /\ token'[d] = token[d]
                                     /\ arrivedAt'[d] = arrivedAt[d]
BY DEF Arrive, Free, RequestsTypeOK

\* A refused request is answered with the status of its error.
LEMMA RefuseSound ==
  ASSUME Inv, NEW c \in Callers, NEW e \in Endpoints,
         NEW t \in Tokens \cup {NoToken}, Refuse(c, e, t)
  PROVE  Inv'
<1> USE DEF Inv
<1>1. PICK err \in BeforeGrant(e, t) \ {"ok"} :
        reply' = [reply EXCEPT ![c] = Response(e, err)]
  BY DEF Refuse
<1>2. err \in Errors
  BY ErrorsBeforeGrant DEF Errors
<1>3. UNCHANGED checker /\ Arrive(c, e, t)
  BY DEF Refuse
<1>4. reply'[c] = Response(e, err) /\ reply'[c] \in Statuses
  BY <1>1, <1>2, ResponseStatus DEF RequestsTypeOK
<1>5. RequestsTypeOK'
  BY <1>1, <1>3, <1>4, ArrivalChanges DEF RequestsTypeOK, checker
<1>6. Accepted(c)' <=> t # NoToken /\ Valid(t, now)
  BY <1>3, ArrivalChanges DEF Accepted
<1>7. Sound(c)'
  <2>1. (~Waiting(c) /\ Checker!Returned(c))'
    BY <1>3, <1>4, ArrivalChanges, StatusAnswers
    DEF Waiting, Sound, Checker!Returned, checker
  <2>2. Entitled(c)'
    BY <1>4, StatusAnswers DEF Entitled
  <2>3. Named(c)'
    BY <1>2, <1>3, <1>4, <1>6, ArrivalChanges, ErrorsBeforeGrant, ResponseStatus
    DEF Named
  <2> QED BY <1>3, <2>1, <2>2, <2>3, ArrivalChanges DEF Sound, checker, RequestsTypeOK
<1>8. ASSUME NEW d \in Callers \ {c} PROVE Sound(d)'
  BY <1>1, <1>3, ArrivalChanges, OthersStaySound DEF checker, RequestsNext, RequestsTypeOK
<1> QED BY <1>5, <1>7, <1>8

\* Without a grant check the token is enough.
LEMMA AdmitSound ==
  ASSUME Inv, NEW c \in Callers, NEW e \in Endpoints,
         NEW t \in Tokens \cup {NoToken}, Admit(c, e, t)
  PROVE  Inv'
<1> USE DEF Inv
<1>1. UNCHANGED checker /\ Arrive(c, e, t) /\ ~e.checksGrants
  BY DEF Admit
<1>2. reply' = [reply EXCEPT ![c] = "handled"] /\ reply'[c] = "handled"
  BY DEF Admit, RequestsTypeOK
<1>3. RequestsTypeOK'
  BY <1>1, <1>2, ArrivalChanges DEF RequestsTypeOK, checker
<1>4. t # NoToken /\ Valid(t, now) /\ e.scopes \subseteq t.scopes
  BY ErrorsBeforeGrant DEF Admit
<1>5. Sound(c)'
  <2>1. (~Waiting(c) /\ Checker!Returned(c))'
    BY <1>1, <1>2, ArrivalChanges DEF Waiting, Sound, Checker!Returned, checker
  <2>2. Entitled(c)' /\ Named(c)'
    BY <1>1, <1>2, <1>4, ArrivalChanges DEF Entitled, Named, Accepted
  <2> QED BY <1>1, <2>1, <2>2, ArrivalChanges DEF Sound, checker, RequestsTypeOK
<1>6. ASSUME NEW d \in Callers \ {c} PROVE Sound(d)'
  BY <1>1, <1>2, ArrivalChanges, OthersStaySound DEF checker, RequestsNext, RequestsTypeOK
<1> QED BY <1>3, <1>5, <1>6

\* A call of Active begins with the grant of a good token.
LEMMA CheckGrantSound ==
  ASSUME Inv, NEW c \in Callers, NEW e \in Endpoints,
         NEW t \in Tokens \cup {NoToken}, CheckGrant(c, e, t)
  PROVE  Inv'
<1> USE DEF Inv
<1>1. /\ Arrive(c, e, t) /\ e.checksGrants
      /\ UNCHANGED <<now, db, heldUntil>>
  BY DEF CheckGrant, Verified, Checker!Begin
<1>2. reply' = [reply EXCEPT ![c] = "waiting"] /\ reply'[c] = "waiting"
  BY DEF CheckGrant, Verified, RequestsTypeOK
<1>3. t # NoToken /\ Valid(t, now) /\ e.scopes \subseteq t.scopes
  BY ErrorsBeforeGrant DEF CheckGrant, Verified
<1>4. t.grant \in Grants \cup Malformed
  BY <1>3, ValidGrant
<1>5. PICK st \in {"denied", "pending"} :
        /\ st = IF t.grant \in Malformed THEN "denied" ELSE "pending"
        /\ stage' = [stage EXCEPT ![c] = st]
        /\ grant' = [grant EXCEPT ![c] = t.grant]
        /\ calledAt' = [calledAt EXCEPT ![c] = now]
  BY DEF CheckGrant, Verified, Checker!Begin
<1>6. stage'[c] = st /\ grant'[c] = t.grant /\ calledAt'[c] = now
  BY <1>5 DEF RequestsTypeOK
<1>7. RequestsTypeOK'
  BY <1>1, <1>2, <1>4, <1>5, ArrivalChanges DEF RequestsTypeOK, Checker!Verdict
<1>8. Sound(c)'
  <2>1. HasReason(c)'
    BY <1>5, <1>6 DEF HasReason
  <2>2. InFlight(c)'
    BY <1>1, <1>3, <1>4, <1>5, <1>6, <2>1, ArrivalChanges
    DEF InFlight, Accepted
  <2> QED BY <1>1, <1>2, <2>2, ArrivalChanges
          DEF Sound, Waiting, Entitled, Named, RequestsTypeOK
<1>9. ASSUME NEW d \in Callers \ {c} PROVE Sound(d)'
  BY <1>1, <1>2, <1>5, ArrivalChanges, OthersStaySound DEF RequestsNext, RequestsTypeOK
<1> QED BY <1>7, <1>8, <1>9

\* The answer follows from the verdict.
LEMMA AnswerSound ==
  ASSUME Inv, NEW c \in Callers, Answer(c)
  PROVE  Inv'
<1> USE DEF Inv
<1>1. UNCHANGED <<checker, endpoint, token, arrivedAt>>
  BY DEF Answer
<1>2. InFlight(c) /\ Checker!Returned(c) /\ Waiting(c)
  BY DEF Answer, Sound
<1>3. PICK r : /\ r = IF stage[c] = "granted" THEN "handled"
                      ELSE Response(endpoint[c], GrantError(c))
               /\ reply' = [reply EXCEPT ![c] = r]
  BY DEF Answer
<1>4. endpoint[c] \in Endpoints /\ GrantError(c) \in Errors
  BY DEF GrantError, Errors, RequestsTypeOK
<1>5. reply'[c] = r /\ r \in Statuses \cup {"handled"}
  BY <1>3, <1>4, ResponseStatus DEF RequestsTypeOK
<1>6. RequestsTypeOK'
  BY <1>1, <1>3, <1>5 DEF RequestsTypeOK, checker
<1>7. r \notin {"none", "waiting"}
  BY <1>5, StatusAnswers
<1>8. Entitled(c)'
  <2>1. CASE stage[c] = "granted"
    BY <1>1, <1>2, <2>1
    DEF Entitled, InFlight, HasReason, Accepted, HeldSince, checker
  <2>2. CASE stage[c] # "granted"
    BY <1>3, <1>4, <1>5, <2>2, ResponseStatus, StatusAnswers DEF Entitled
  <2> QED BY <2>1, <2>2
<1>9. Named(c)'
  <2>1. CASE stage[c] = "granted"
    BY <1>3, <1>5, <2>1 DEF Named
  <2>2. CASE stage[c] = "denied"
    <3>1. /\ GrantError(c) = "ErrGrantRevoked"
          /\ r = Response(endpoint[c], GrantError(c))
      BY <1>3, <2>2 DEF GrantError
    <3>2. r \notin {"403", "PermissionDenied", "503", "Unavailable",
                    "500", "Internal"}
      BY <1>4, <3>1, ResponseStatus
    <3>3. \/ token[c].grant \in Malformed
          \/ NotAllActive(token[c].grant, arrivedAt[c] - Horizon)
      BY <1>2, <2>2 DEF InFlight, HasReason
    <3> QED BY <1>1, <1>2, <1>5, <3>2, <3>3
            DEF Named, InFlight, NotAllActive, HeldSince, checker
  <2>3. CASE stage[c] = "unavailable"
    <3>1. /\ GrantError(c) = "ErrGrantUnavailable"
          /\ r = Response(endpoint[c], GrantError(c))
      BY <1>3, <2>3 DEF GrantError
    <3>2. r \notin {"401", "Unauthenticated", "403", "PermissionDenied",
                    "500", "Internal"}
      BY <1>4, <3>1, ResponseStatus
    <3> QED BY <1>1, <1>2, <1>5, <2>3, <3>2
            DEF Named, InFlight, Accepted, checker
  <2> QED BY <1>2, <2>1, <2>2, <2>3
          DEF InFlight, Checker!Returned, Checker!Verdict
<1>10. Sound(c)'
  BY <1>1, <1>2, <1>5, <1>7, <1>8, <1>9
  DEF Sound, Waiting, Checker!Returned, checker
<1>11. ASSUME NEW d \in Callers \ {c} PROVE Sound(d)'
  BY <1>1, <1>3, OthersStaySound DEF checker, RequestsNext, RequestsTypeOK
<1> QED BY <1>6, <1>10, <1>11

-----------------------------------------------------------------------------
(* The theorems.                                                           *)

\* The invariant: a request waits with a good token for the verdict on its
\* grant, each verdict has a reason, and so does each answer.
THEOREM RequestInvariant == RequestsSpec => []Inv
<1>1. RequestsInit => Inv
  <2>1. (CHOOSE e \in Endpoints : TRUE) \in Endpoints
    BY EndpointsAssumption
  <2> QED BY <2>1, TimingAssumption
      DEF RequestsInit, Checker!Init, Checker!Status, Checker!Never,
          Checker!Verdict, Checker!Returned, Status, Never,
          Inv, RequestsTypeOK, Sound, Waiting, Entitled, Named
<1>2. Inv /\ [RequestsNext]_pipeline => Inv'
  <2> SUFFICES ASSUME Inv, [RequestsNext]_pipeline PROVE Inv'
    OBVIOUS
  <2>1. ASSUME RequestsTypeOK', UNCHANGED <<stage, grant, calledAt, requests>>
        PROVE  Inv'
    BY <2>1, OthersStaySound DEF Inv, requests
  <2>2. CASE UNCHANGED pipeline \/ RequestsRest
    <3>1. UNCHANGED pipeline
      BY <2>2 DEF RequestsRest
    <3>2. RequestsTypeOK'
      BY <3>1 DEF pipeline, checker, requests, Inv, RequestsTypeOK
    <3> QED BY <2>1, <3>1, <3>2 DEF pipeline, checker
  <2>3. CASE ClockTicks
    <3>1. RequestsTypeOK'
      BY <2>3 DEF ClockTicks, Checker!Tick, Inv, RequestsTypeOK, requests
    <3> QED BY <2>1, <2>3, <3>1 DEF ClockTicks, Checker!Tick
  <2>4. ASSUME NEW g \in Grants, NEW s \in Status, RowChanges(g, s)
        PROVE  Inv'
    <3>1. RequestsTypeOK'
      BY <2>4 DEF RowChanges, Checker!ChangeRow, Inv, RequestsTypeOK, requests
    <3> QED BY <2>1, <2>4, <3>1 DEF RowChanges, Checker!ChangeRow
  <2>5. CASE ActiveMoves
    BY <2>5, ActiveMovesType, ActiveMovesSound DEF Inv
  <2> QED BY <2>2, <2>3, <2>4, <2>5, RefuseSound, AdmitSound, CheckGrantSound,
             AnswerSound DEF RequestsNext
<1> QED BY <1>1, <1>2, PTL DEF RequestsSpec

\* Every request, token and reply has its type.
THEOREM RequestsTypeCorrect == RequestsSpec => []RequestsTypeOK
<1>1. Inv => RequestsTypeOK
  BY DEF Inv
<1> QED BY <1>1, RequestInvariant, PTL

\* A handler is called only for a token that was valid when the request came,
\* has the scopes, and stands for a grant active within the window.
THEOREM OnlyEntitledAreHandled == RequestsSpec => []HandlersAreEntitled
<1>1. Inv => HandlersAreEntitled
  BY DEF Inv, Sound, Entitled, HandlersAreEntitled
<1> QED BY <1>1, RequestInvariant, PTL

\* A refusal names whose fault it is, over HTTP and over gRPC.
THEOREM EveryRefusalNamesTheFault == RequestsSpec => []RefusalsNameTheFault
<1>1. Inv => RefusalsNameTheFault
  BY DEF Inv, Sound, Named, RefusalsNameTheFault
<1> QED BY <1>1, RequestInvariant, PTL

\* A handler that runs on a grant runs on the verdict of its own call of Active.
Served ==
    \A c \in Callers :
       reply[c] = "handled" /\ endpoint[c].checksGrants =>
         /\ stage[c] = "granted"
         /\ grant[c] = token[c].grant
         /\ calledAt[c] = arrivedAt[c]

\* Requests that came before keep it, as does the one that comes: it is answered
\* with a status, needs no verdict, or waits for one.
LEMMA ArrivalKeepsServed ==
  ASSUME RequestsTypeOK, Served, NEW c \in Callers, NEW e \in Endpoints,
         NEW t \in Tokens \cup {NoToken},
         Refuse(c, e, t) \/ Admit(c, e, t) \/ CheckGrant(c, e, t)
  PROVE  Served'
<1>1. Arrive(c, e, t)
  BY DEF Refuse, Admit, CheckGrant, Verified
<1>2. \A d \in Callers \ {c} :
         /\ reply'[d] = reply[d] /\ stage'[d] = stage[d]
         /\ grant'[d] = grant[d] /\ calledAt'[d] = calledAt[d]
  BY DEF Refuse, Admit, CheckGrant, Verified, checker, Checker!Begin, RequestsTypeOK
<1>3. ~(reply'[c] = "handled" /\ endpoint'[c].checksGrants)
  <2>1. CASE Refuse(c, e, t)
    <3>1. PICK err \in BeforeGrant(e, t) \ {"ok"} :
            reply' = [reply EXCEPT ![c] = Response(e, err)]
      BY <2>1 DEF Refuse
    <3>2. Response(e, err) \in Statuses
      BY ErrorsBeforeGrant, ResponseStatus DEF Errors
    <3> QED BY <3>1, <3>2, StatusAnswers DEF RequestsTypeOK
  <2>2. CASE Admit(c, e, t)
    BY <1>1, <2>2, ArrivalChanges DEF Admit
  <2>3. CASE CheckGrant(c, e, t)
    BY <2>3 DEF CheckGrant, Verified, RequestsTypeOK
  <2> QED BY <2>1, <2>2, <2>3
<1> QED BY <1>1, <1>2, <1>3, ArrivalChanges DEF Served

\* A request that is answered was waiting for its call.
LEMMA AnswerKeepsServed ==
  ASSUME Inv, Served, NEW c \in Callers, Answer(c)
  PROVE  Served'
<1>1. InFlight(c) /\ UNCHANGED <<checker, endpoint, token, arrivedAt>>
  BY DEF Answer, Inv, Sound
<1>2. reply'[c] = "handled" => stage[c] = "granted"
  <2>1. endpoint[c] \in Endpoints /\ GrantError(c) \in Errors
    BY DEF GrantError, Errors, Inv, RequestsTypeOK
  <2>2. Response(endpoint[c], GrantError(c)) # "handled"
    BY <2>1, ResponseStatus, StatusAnswers
  <2> QED BY <2>2 DEF Answer, Inv, RequestsTypeOK
<1>3. \A d \in Callers \ {c} : reply'[d] = reply[d]
  BY DEF Answer, Inv, RequestsTypeOK
<1> QED BY <1>1, <1>2, <1>3 DEF Served, InFlight, checker

\* The verdict is that of the request's own call, and the call's key and time
\* are those of the request.
THEOREM HandlersHaveTheirVerdict == RequestsSpec => []Served
<1>1. RequestsInit => Served
  BY DEF RequestsInit, Served
<1>2. Inv /\ Served /\ [RequestsNext]_pipeline => Served'
  <2> SUFFICES ASSUME Inv, Served, [RequestsNext]_pipeline PROVE Served'
    OBVIOUS
  <2>1. ASSUME UNCHANGED <<stage, grant, calledAt, requests>>
        PROVE  Served'
    BY <2>1 DEF Served, requests
  <2>2. CASE UNCHANGED pipeline \/ RequestsRest \/ ClockTicks
    BY <2>1, <2>2 DEF pipeline, checker, RequestsRest, ClockTicks, Checker!Tick
  <2>3. CASE \E g \in Grants, s \in Status : RowChanges(g, s)
    BY <2>1, <2>3 DEF RowChanges, Checker!ChangeRow
  <2>4. CASE ActiveMoves
    <3>1. UNCHANGED <<grant, calledAt, requests>>
      BY <2>4 DEF ActiveMoves, Checker!Proceed, Checker!Degrade, Checker!GrantCalls,
                  Checker!DenyCalls, Checker!GiveUp, Checker!Together
    <3>2. \A c \in Callers : stage[c] = "granted" => stage'[c] = "granted"
      BY <2>4, CallsMove DEF Inv, Checker!Returned, Checker!Verdict
    <3> QED BY <3>1, <3>2 DEF Served, requests
  <2> QED BY <2>2, <2>3, <2>4, ArrivalKeepsServed, AnswerKeepsServed
          DEF RequestsNext, Inv
<1> QED BY <1>1, <1>2, RequestInvariant, PTL DEF RequestsSpec

\* Requests call Active as GrantPromise has it called: only with the grant of a
\* verified token and one call at a time, so what GrantChecker keeps, it keeps
\* for them.
THEOREM RequestsUseThePromise == RequestsSpec => Checker!Spec
<1>1. RequestsInit => Checker!Init
  BY DEF RequestsInit
<1>2. [RequestsNext]_pipeline => [Checker!Next]_(Checker!vars)
  <2> SUFFICES ASSUME [RequestsNext]_pipeline PROVE Checker!Next \/ UNCHANGED checker
    BY DEF checker, Checker!vars
  <2>1. ASSUME NEW c \in Callers, NEW e \in Endpoints,
               NEW t \in Tokens \cup {NoToken}, CheckGrant(c, e, t)
        PROVE  Checker!Next
    <3>1. t.grant \in Grants \cup Malformed
      BY <2>1, ErrorsBeforeGrant, ValidGrant DEF CheckGrant, Verified
    <3>2. CASE t.grant \in Malformed
      BY <2>1, <3>2 DEF CheckGrant, Checker!Next
    <3>3. CASE t.grant \notin Malformed
      BY <2>1, <3>1, <3>3 DEF CheckGrant, Checker!Next
    <3> QED BY <3>2, <3>3
  <2>2. ASSUME NEW c \in Callers, NEW e \in Endpoints,
               NEW t \in Tokens \cup {NoToken},
               Refuse(c, e, t) \/ Admit(c, e, t)
        PROVE  UNCHANGED checker
    BY <2>2 DEF Refuse, Admit
  <2>3. CASE ClockTicks \/ \E g \in Grants, s \in Status : RowChanges(g, s)
    BY <2>3 DEF ClockTicks, RowChanges, Checker!Next, Checker!Status, Status
  <2>4. CASE ActiveMoves
    BY <2>4 DEF ActiveMoves, Checker!Next
  <2>5. CASE RequestsRest \/ UNCHANGED pipeline
    BY <2>5 DEF RequestsRest, pipeline
  <2>6. ASSUME NEW c \in Callers, Answer(c)
        PROVE  UNCHANGED checker
    BY <2>6 DEF Answer
  <2> QED BY <2>1, <2>2, <2>3, <2>4, <2>5, <2>6 DEF RequestsNext
<1> QED BY <1>1, <1>2, PTL DEF RequestsSpec, Checker!Spec
=============================================================================
