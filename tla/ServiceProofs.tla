---------------------------- MODULE ServiceProofs ----------------------------
(***************************************************************************)
(* The composition, for any number of requests, tokens, endpoints and      *)
(* keys. A service is a behaviour of GrantChecker, so everything proved of *)
(* the checker is true in it (ServiceUsesChecker); with that, and with the *)
(* refinement of GrantPromise, it is a behaviour of Authorize              *)
(* (ServiceImplements), so everything proved of requests over the promise  *)
(* is true of requests over the cache.                                     *)
(***************************************************************************)
EXTENDS Service, GrantRefinement, AuthorizeProofs

-----------------------------------------------------------------------------
(* The service as a checker.                                               *)

\* A verified token has a key for Active.
LEMMA VerifiedKey ==
  ASSUME NEW c \in Callers, NEW e \in Endpoints, NEW t \in Tokens \cup {NoToken},
         Verified(c, e, t)
  PROVE  t.grant \in Keys
BY ErrorsBeforeGrant, ValidGrant DEF Verified, Keys

\* A step that is of requests only.
LEMMA CheckerIsLeftAlone ==
  ASSUME UNCHANGED <<checker, inside>>
  PROVE  UNCHANGED vars
BY DEF checker, inside, vars, env, local

\* What a step of the service is for each of its parts.
LEMMA ServiceSteps ==
  ASSUME [ServiceNext]_service
  PROVE  \/ /\ \E c \in Callers, e \in Endpoints, t \in Tokens \cup {NoToken} :
                 CallActive(c, e, t)
            /\ stage' = Stages'
         \/ CheckerMoves
         \/ UNCHANGED <<checker, inside>> /\ [RequestsNext]_pipeline
<1>1. CASE UNCHANGED service
  BY <1>1 DEF service, pipeline
<1>2. CASE ServiceRest
  BY <1>2 DEF ServiceRest, RequestsRest, pipeline
<1>3. ASSUME NEW c \in Callers, AnswerRequest(c)
      PROVE  UNCHANGED <<checker, inside>> /\ RequestsNext
  BY <1>3 DEF AnswerRequest, Answer, RequestsNext
<1>4. ASSUME NEW c \in Callers, NEW e \in Endpoints, NEW t \in Tokens \cup {NoToken},
             RefuseRequest(c, e, t) \/ AdmitRequest(c, e, t)
      PROVE  UNCHANGED <<checker, inside>> /\ RequestsNext
  BY <1>4 DEF RefuseRequest, AdmitRequest, Refuse, Admit, RequestsNext
<1>5. ASSUME NEW c \in Callers, NEW e \in Endpoints, NEW t \in Tokens \cup {NoToken},
             CallActive(c, e, t)
      PROVE  stage' = Stages'
  BY <1>5 DEF CallActive
<1> QED BY <1>1, <1>2, <1>3, <1>4, <1>5 DEF ServiceNext

\* Requests use the checker only as GrantChecker has it used: every step of the
\* service is a step of the checker or none, so the theorems about GrantChecker
\* hold in the service.
THEOREM ServiceUsesChecker == ServiceSpec => Spec
<1>1. ServiceInit => Init
  BY DEF ServiceInit
<1>2. [ServiceNext]_service => [Next]_vars
  <2> SUFFICES ASSUME [ServiceNext]_service PROVE Next \/ UNCHANGED vars
    OBVIOUS
  <2>1. ASSUME NEW c \in Callers, NEW e \in Endpoints, NEW t \in Tokens \cup {NoToken},
               CallActive(c, e, t)
        PROVE  Next
    <3>1. t.grant \in Keys /\ Active(c, t.grant)
      BY <2>1, VerifiedKey DEF CallActive
    <3> QED BY <3>1 DEF Next
  <2>2. CASE CheckerMoves
    BY <2>2 DEF CheckerMoves, Next
  <2> QED BY <2>1, <2>2, ServiceSteps, CheckerIsLeftAlone
<1> QED BY <1>1, <1>2, PTL DEF ServiceSpec, Spec

\* Over any service no verdict is older than its window and no two queries for
\* one key are under way.
THEOREM ServiceVerdictsAreJustified ==
  ServiceSpec => [](VerdictJustified /\ SingleFlight)
BY ServiceUsesChecker, VerdictsAreJustified, FlightsAreSingle, PTL

-----------------------------------------------------------------------------
(* The service as an implementation of Authorize.                          *)

\* stage is what the promise says of a call.
Follows == stage = Stages

\* It stays so, for every step that moves a call moves its stage.
LEMMA StagesFollow == ServiceSpec => []Follows
<1>1. ServiceInit => Follows
  BY DEF ServiceInit, RequestsInit, Checker!Init, Init, Follows, Stages, Returned, Results
<1>2. Follows /\ [ServiceNext]_service => Follows'
  <2> SUFFICES ASSUME Follows, [ServiceNext]_service PROVE Follows'
    OBVIOUS
  <2>1. CASE UNCHANGED <<checker, inside>>
    BY <2>1 DEF Follows, Stages, Returned, checker, inside
  <2>2. CASE stage' = Stages'
    BY <2>2 DEF Follows
  <2> QED BY <2>1, <2>2, ServiceSteps DEF CheckerMoves
<1> QED BY <1>1, <1>2, PTL DEF ServiceSpec

\* So the calls of the promise are those of Authorize.
LEMMA PromiseOfStages ==
  ASSUME Follows, Follows'
  PROVE  /\ Promise!Proceed => Checker!Proceed
         /\ UNCHANGED Promise!vars => UNCHANGED checker
BY DEF Follows, Stages, Promise!Proceed, Promise!Degrade, Promise!GrantCalls,
       Promise!DenyCalls, Promise!GiveUp, Promise!Together, Promise!Returned,
       Promise!Verdict, Promise!HeldSince, Promise!Window, Promise!vars, checker,
       Checker!Proceed, Checker!Degrade, Checker!GrantCalls,
       Checker!DenyCalls, Checker!GiveUp, Checker!Together, Checker!Returned,
       Checker!Verdict, Checker!HeldSince, Checker!Window

\* A call begins for Active as it does for the promise.
LEMMA CallRefines ==
  ASSUME TypeOK, Follows, Follows', NEW c \in Callers, NEW e \in Endpoints,
         NEW t \in Tokens \cup {NoToken}, CallActive(c, e, t)
  PROVE  CheckGrant(c, e, t)
<1> DEFINE st == IF t.grant \in Malformed THEN "denied" ELSE "pending"
<1>1. /\ Active(c, t.grant) /\ Verified(c, e, t)
      /\ Returned(c) /\ grant' = [grant EXCEPT ![c] = t.grant]
      /\ calledAt' = [calledAt EXCEPT ![c] = now]
      /\ UNCHANGED <<now, db, heldUntil>>
  BY DEF CallActive, Active, env
<1>2. Checker!Returned(c)
  BY <1>1 DEF Follows, Stages, Returned, Results, Checker!Returned, Checker!Verdict
<1>3. ASSUME NEW d \in Callers
      PROVE  Stages'[d] = IF d = c THEN st ELSE Stages[d]
  BY <1>1 DEF Active, Stages, Returned, Results, TypeOK
<1>4. stage' = [stage EXCEPT ![c] = st]
  BY <1>3 DEF Follows, Stages
<1> QED BY <1>1, <1>2, <1>4 DEF CheckGrant, Checker!Begin

\* The clock and the rows move as Authorize says: while a query is under way, so
\* is its call.
LEMMA EnvironmentIsShared ==
  ASSUME Follows, Follows', Environment, UNCHANGED requests
  PROVE  ClockTicks \/ \E g \in Grants, s \in Status : RowChanges(g, s)
<1>1. UNCHANGED stage
  BY DEF Environment, Tick, ChangeRow, local, Follows, Stages, Returned
<1>2. CASE Tick
  <2>1. ASSUME NEW c \in Callers, Leading(c)
        PROVE  ~Checker!Returned(c)
    BY <2>1 DEF Leading, Follows, Stages, Returned, Results, Checker!Returned,
                Checker!Verdict
  <2> QED BY <1>1, <1>2, <2>1 DEF Tick, local, ClockTicks, Checker!Tick
<1>3. CASE \E g \in Grants, s \in Status : ChangeRow(g, s)
  BY <1>1, <1>3 DEF ChangeRow, local, RowChanges, Checker!ChangeRow
<1> QED BY <1>2, <1>3 DEF Environment

\* A step of the checker is one of the promise, or nothing to it.
LEMMA CheckerRefines ==
  ASSUME Evidence, OneQueryPerCall, Follows, Follows', CheckerMoves
  PROVE  RequestsNext \/ UNCHANGED pipeline
<1>1. UNCHANGED requests
  BY DEF CheckerMoves
<1>2. CASE Environment
  BY <1>1, <1>2, EnvironmentIsShared DEF RequestsNext
<1>3. ASSUME NEW c \in Callers, Step(c) \/ ReadRow(c) \/ Fail(c)
      PROVE  RequestsNext \/ UNCHANGED pipeline
  <2>1. Promise!Proceed \/ UNCHANGED Promise!vars
    BY <1>3, LookupRefines, FlightRefines, PublishRefines DEF Step, TimeOut, Evidence
  <2>2. Checker!Proceed \/ UNCHANGED checker
    BY <2>1, PromiseOfStages
  <2> QED BY <1>1, <2>2 DEF ActiveMoves, RequestsNext, pipeline
<1> QED BY <1>2, <1>3 DEF CheckerMoves

\* A service over the cache, the group and the queries does nothing that one over
\* the promise would not do.
THEOREM ServiceImplements == ServiceSpec => ImplementsAuthorize
<1>1. ServiceInit => RequestsInit
  BY DEF ServiceInit
<1>2. Evidence /\ OneQueryPerCall /\ Follows /\ Follows' /\ [ServiceNext]_service
        => [RequestsNext]_pipeline
  <2> SUFFICES ASSUME Evidence, OneQueryPerCall, Follows, Follows', [ServiceNext]_service
               PROVE  [RequestsNext]_pipeline
    OBVIOUS
  <2>1. ASSUME NEW c \in Callers, NEW e \in Endpoints, NEW t \in Tokens \cup {NoToken},
               CallActive(c, e, t)
        PROVE  RequestsNext
    BY <2>1, CallRefines DEF RequestsNext, Evidence
  <2> QED BY <2>1, CheckerRefines, ServiceSteps
<1> QED BY <1>1, <1>2, ServiceUsesChecker, EvidenceInvariant, CallsQueryOnce, StagesFollow,
           PTL DEF ServiceSpec, ImplementsAuthorize, RequestsSpec

-----------------------------------------------------------------------------
(* What is so proved of requests, from the bearer token to the cache.      *)

\* Over the real checker, too, requests and their calls have their types.
THEOREM ServiceTypeCorrect == ServiceSpec => []RequestsTypeOK
BY ServiceImplements, RequestsTypeCorrect, PTL DEF ImplementsAuthorize

\* However lookups, evictions, shared flights and outages interleave, a handler
\* runs only for a good token with a grant that was active within the horizon.
THEOREM ServiceHandlersAreEntitled == ServiceSpec => []HandlersAreEntitled
BY ServiceImplements, OnlyEntitledAreHandled, PTL DEF ImplementsAuthorize

\* And a refusal names whose fault it is.
THEOREM ServiceRefusalsNameTheFault == ServiceSpec => []RefusalsNameTheFault
BY ServiceImplements, EveryRefusalNamesTheFault, PTL DEF ImplementsAuthorize

\* Only a request whose own query failed is let in on a grant that had ended
\* longer than TTL + QueryTimeout before it came.
THEOREM OnlyOutagesHaveGrace == ServiceSpec => []GraceIsForOutages
<1>1. /\ RequestsTypeOK /\ TypeOK /\ Follows /\ Served /\ VerdictJustified
      => GraceIsForOutages
  <2> SUFFICES ASSUME RequestsTypeOK, TypeOK, Follows, Served, VerdictJustified,
                      NEW c \in Callers, reply[c] = "handled",
                      endpoint[c].checksGrants, ~retry[c]
               PROVE  HeldSince(token[c].grant, "active",
                                arrivedAt[c] - (TTL + QueryTimeout))
    BY DEF GraceIsForOutages
  <2>1. stage[c] = "granted" /\ grant[c] = token[c].grant /\ calledAt[c] = arrivedAt[c]
    BY DEF Served
  <2>2. pc[c] = "granted"
    BY <2>1 DEF Follows, Stages
  <2>3. Window(c) = TTL + QueryTimeout
    BY TimingAssumption DEF Window
  <2> QED BY <2>1, <2>2, <2>3 DEF VerdictJustified
<1> QED BY <1>1, ServiceTypeCorrect, ServiceUsesChecker, TypeCorrect, StagesFollow,
           ServiceImplements, HandlersHaveTheirVerdict, VerdictsAreJustified, PTL
        DEF ImplementsAuthorize
=============================================================================
