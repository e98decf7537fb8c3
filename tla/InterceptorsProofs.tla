------------------------- MODULE InterceptorsProofs -------------------------
(***************************************************************************)
(* Proofs about Interceptors, for any number of calls, requests and traces *)
(* and any sharing of trace ids.                                           *)
(*                                                                         *)
(* Which parent a call gets depends on what the registry holds when its    *)
(* server looks, so the invariant ties three places to each other: the     *)
(* entry of a trace to a call in flight, the metadata of a call to its     *)
(* caller's span, and the parent a server found to that metadata.          *)
(***************************************************************************)
EXTENDS Interceptors, TLAPS

\* The metadata of a call name the trace of its caller's span, and an id never
\* comes without the header that says the same.
MetadataAgree ==
    \A x \in Calls :
       /\ id[x] \in {NoTrace, header[x]}
       /\ span[x] # NoSpan => id[x] = TraceOf[span[x]]

\* Where the two sides of a call can be.
SidesAgree ==
    \A x \in Calls :
       /\ client[x] = "new" => server[x] = "none"
       /\ client[x] \in {"new", "remote"} => span[x] = NoSpan
       /\ client[x] = "answered" => server[x] = "replied"
       /\ Filed(x) => span[x] \in open

Extracted(x) == server[x] \in {"extracted", "handling", "replied"}

\* What a server found agrees with the metadata of its call.
ParentsAgree ==
    \A x \in Calls :
       /\ ~Extracted(x) => via[x] = "none"
       /\ Extracted(x) /\ via[x] = "registry" =>
            parent[x] \in Spans /\ header[x] = TraceOf[parent[x]]
       /\ Extracted(x) /\ via[x] = "none" => header[x] = NoTrace

\* The entry of a call that is alone on its trace is its caller's span.
LoneCallsAreFiled ==
    \A x \in Calls :
       Filed(x) /\ x \notin overlapped =>
         /\ registry[TraceOf[span[x]]] = span[x]
         /\ \A y \in Calls \ {x} : Filed(y) => TraceOf[span[y]] # TraceOf[span[x]]

\* And so is its parent, and it is recorded while its caller still waits.
LoneCallsAreServed ==
    \A x \in Calls :
       span[x] # NoSpan /\ x \notin overlapped =>
         /\ Extracted(x) /\ client[x] # "gaveUp" =>
              via[x] = "registry" /\ parent[x] = span[x]
         /\ server[x] = "replied" /\ client[x] # "gaveUp" => x \in recorded

IInv ==
    /\ TypeOK
    /\ EntriesAreInFlight
    /\ MetadataAgree
    /\ SidesAgree
    /\ ParentsAgree
    /\ LoneCallsAreFiled
    /\ LoneCallsAreServed

-----------------------------------------------------------------------------
(* One lemma per action of the client side.                                *)

\* A call made in an HTTP request.
LEMMA InvokeStep ==
  ASSUME IInv, NEW x \in Calls, NEW s \in Spans, Invoke(x, s)
  PROVE  IInv'
<1> DEFINE peers == {y \in Calls : Filed(y) /\ TraceOf[span[y]] = TraceOf[s]}
<1> USE TraceOfAssumption, NoneAssumption DEF IInv
<1>1. /\ client[x] = "new" /\ s \in open
      /\ client' = [client EXCEPT ![x] = "calling"]
      /\ span' = [span EXCEPT ![x] = s]
      /\ id' = [id EXCEPT ![x] = TraceOf[s]]
      /\ header' = [header EXCEPT ![x] = TraceOf[s]]
      /\ server' = [server EXCEPT ![x] = "sent"]
      /\ registry' = [registry EXCEPT ![TraceOf[s]] = s]
      /\ overlapped' = overlapped \cup (IF peers = {} THEN {} ELSE peers \cup {x})
      /\ UNCHANGED <<via, parent, open, recorded, globalSpan>>
  BY DEF Invoke, Send, StoreSpan
<1>2. TraceOf[s] \in Traces /\ s # NoSpan /\ TraceOf[s] # NoTrace
  OBVIOUS
<1>3. \A y \in Calls : Filed(y)' <=> y = x \/ Filed(y)
  BY <1>1, <1>2 DEF Filed, TypeOK, SidesAgree
<1>4. TypeOK'
  BY <1>1, <1>2 DEF TypeOK
<1>5. EntriesAreInFlight'
  <2> SUFFICES ASSUME NEW t \in Traces, registry'[t] # NoSpan
               PROVE  /\ registry'[t] \in open'
                      /\ \E y \in Calls : /\ Filed(y)' /\ span'[y] = registry'[t]
                                          /\ TraceOf[span'[y]] = t
    BY DEF EntriesAreInFlight
  <2>1. CASE t = TraceOf[s]
    BY <1>1, <1>2, <1>3, <2>1 DEF TypeOK
  <2>2. CASE t # TraceOf[s]
    <3>1. registry'[t] = registry[t]
      BY <1>1, <2>2 DEF TypeOK
    <3>2. PICK y \in Calls : Filed(y) /\ span[y] = registry[t] /\ TraceOf[span[y]] = t
      BY <3>1 DEF EntriesAreInFlight
    <3>3. y # x
      BY <1>1, <3>2 DEF Filed
    <3> QED BY <1>1, <1>3, <3>1, <3>2, <3>3 DEF EntriesAreInFlight, TypeOK
  <2> QED BY <2>1, <2>2
<1>6. MetadataAgree' /\ SidesAgree' /\ ParentsAgree'
  BY <1>1, <1>2, <1>3 DEF TypeOK, MetadataAgree, SidesAgree, ParentsAgree, Extracted
<1>7. LoneCallsAreFiled'
  <2> SUFFICES ASSUME NEW y \in Calls, Filed(y)', y \notin overlapped'
               PROVE  /\ registry'[TraceOf[span'[y]]] = span'[y]
                      /\ \A z \in Calls \ {y} : Filed(z)' => TraceOf[span'[z]] # TraceOf[span'[y]]
    BY DEF LoneCallsAreFiled
  <2>1. CASE y = x
    <3>1. peers = {}
      BY <1>1, <2>1
    <3>2. \A z \in Calls : Filed(z) => TraceOf[span[z]] # TraceOf[s]
      BY <3>1
    <3> QED BY <1>1, <1>2, <1>3, <2>1, <3>2 DEF TypeOK
  <2>2. CASE y # x
    <3>1. Filed(y) /\ y \notin overlapped
      BY <1>1, <1>3, <2>2
    <3>2. TraceOf[span[y]] # TraceOf[s]
      BY <1>1, <2>2, <3>1
    <3>3. span[y] \in Spans
      BY <3>1 DEF Filed, TypeOK
    <3> QED BY <1>1, <1>2, <1>3, <2>2, <3>1, <3>2, <3>3 DEF TypeOK, LoneCallsAreFiled
  <2> QED BY <2>1, <2>2
<1>8. LoneCallsAreServed'
  BY <1>1, <1>2 DEF TypeOK, SidesAgree, LoneCallsAreServed, Extracted
<1> QED BY <1>4, <1>5, <1>6, <1>7, <1>8

\* A call without a span of its own, of this process or of another one.
LEMMA SendStep ==
  ASSUME IInv, NEW x \in Calls, NEW from \in {"calling", "remote"},
         NEW t \in Traces \cup {NoTrace}, NEW h \in Traces \cup {NoTrace},
         t \in {NoTrace, h}, Send(x, from, NoSpan, t, h),
         UNCHANGED <<registry, via, parent, open, recorded, globalSpan, overlapped>>
  PROVE  IInv'
<1> USE NoneAssumption DEF IInv
<1>1. /\ client[x] = "new"
      /\ client' = [client EXCEPT ![x] = from]
      /\ span' = [span EXCEPT ![x] = NoSpan]
      /\ id' = [id EXCEPT ![x] = t]
      /\ header' = [header EXCEPT ![x] = h]
      /\ server' = [server EXCEPT ![x] = "sent"]
      /\ UNCHANGED <<registry, via, parent, open, recorded, globalSpan, overlapped>>
  BY DEF Send
<1>2. \A y \in Calls : Filed(y)' <=> Filed(y)
  BY <1>1 DEF Filed, TypeOK, SidesAgree
<1>3. \A y \in Calls : Filed(y) => span'[y] = span[y]
  BY <1>1 DEF Filed, TypeOK
<1>4. TypeOK'
  BY <1>1 DEF TypeOK
<1>5. EntriesAreInFlight'
  BY <1>1, <1>2, <1>3 DEF EntriesAreInFlight
<1>6. MetadataAgree' /\ SidesAgree' /\ ParentsAgree'
  BY <1>1, <1>2, <1>3 DEF TypeOK, MetadataAgree, SidesAgree, ParentsAgree, Extracted
<1>7. LoneCallsAreFiled'
  BY <1>1, <1>2, <1>3 DEF LoneCallsAreFiled
<1>8. LoneCallsAreServed'
  BY <1>1 DEF TypeOK, LoneCallsAreServed, Extracted
<1> QED BY <1>4, <1>5, <1>6, <1>7, <1>8

\* The invoker returns: the entry of the trace goes, whosever it is.
LEMMA LeaveStep ==
  ASSUME IInv, NEW x \in Calls, Answered(x) \/ GiveUp(x)
  PROVE  IInv'
<1> USE TraceOfAssumption, NoneAssumption DEF IInv
<1>1. PICK how \in {"answered", "gaveUp"} :
        /\ client[x] = "calling"
        /\ how = "answered" <=> server[x] = "replied"
        /\ client' = [client EXCEPT ![x] = how]
        /\ IF span[x] = NoSpan
             THEN registry' = registry
             ELSE registry' = [registry EXCEPT ![TraceOf[span[x]]] = NoSpan]
        /\ UNCHANGED <<span, id, header, overlapped, serverVars, open, recorded, globalSpan>>
  BY DEF Answered, GiveUp, Leave, DeleteSpan
<1>2. \A y \in Calls : Filed(y)' <=> y # x /\ Filed(y)
  BY <1>1 DEF Filed, TypeOK
<1>3. TypeOK'
  BY <1>1 DEF TypeOK, serverVars
<1>4. \A t \in Traces : registry'[t] # NoSpan =>
                         registry'[t] = registry[t] /\ (Filed(x) => TraceOf[span[x]] # t)
  BY <1>1 DEF TypeOK, Filed
<1>5. EntriesAreInFlight'
  BY <1>1, <1>2, <1>4 DEF EntriesAreInFlight
<1>6. MetadataAgree' /\ SidesAgree' /\ ParentsAgree'
  BY <1>1, <1>2 DEF TypeOK, serverVars, MetadataAgree, SidesAgree, ParentsAgree, Extracted
<1>7. LoneCallsAreFiled'
  <2> SUFFICES ASSUME NEW y \in Calls, Filed(y)', y \notin overlapped'
               PROVE  /\ registry'[TraceOf[span'[y]]] = span'[y]
                      /\ \A z \in Calls \ {y} : Filed(z)' => TraceOf[span'[z]] # TraceOf[span'[y]]
    BY DEF LoneCallsAreFiled
  <2>1. y # x /\ Filed(y) /\ y \notin overlapped
    BY <1>1, <1>2
  <2>2. Filed(x) => TraceOf[span[x]] # TraceOf[span[y]]
    BY <2>1 DEF LoneCallsAreFiled
  <2>3. span[x] # NoSpan => Filed(x)
    BY <1>1 DEF Filed
  <2>4. registry'[TraceOf[span[y]]] = registry[TraceOf[span[y]]]
    <3>1. TraceOf[span[y]] \in Traces
      BY <2>1 DEF Filed, TypeOK
    <3> QED BY <1>1, <2>2, <2>3, <3>1 DEF TypeOK
  <2> QED BY <1>1, <1>2, <2>1, <2>4 DEF LoneCallsAreFiled
<1>8. LoneCallsAreServed'
  BY <1>1 DEF TypeOK, serverVars, LoneCallsAreServed, Extracted
<1> QED BY <1>3, <1>5, <1>6, <1>7, <1>8

\* The transaction of a request is sent when no call of it is filed.
LEMMA HttpFinishStep ==
  ASSUME IInv, NEW s \in Spans, HttpFinish(s)
  PROVE  IInv'
<1> USE DEF IInv
<1>1. /\ \A x \in Calls : ~(Filed(x) /\ span[x] = s)
      /\ open' = open \ {s}
      /\ UNCHANGED <<registry, clientVars, serverVars, recorded, globalSpan>>
  BY DEF HttpFinish
<1>2. \A y \in Calls : Filed(y)' <=> Filed(y)
  BY <1>1 DEF Filed, clientVars
<1>3. TypeOK'
  BY <1>1 DEF TypeOK, serverVars, clientVars
<1>4. EntriesAreInFlight'
  BY <1>1, <1>2 DEF EntriesAreInFlight, clientVars
<1>5. MetadataAgree' /\ SidesAgree' /\ ParentsAgree' /\ LoneCallsAreFiled'
  BY <1>1, <1>2 DEF serverVars, clientVars, MetadataAgree, SidesAgree, ParentsAgree,
                    Extracted, LoneCallsAreFiled
<1>6. LoneCallsAreServed'
  BY <1>1 DEF serverVars, clientVars, LoneCallsAreServed, Extracted
<1> QED BY <1>3, <1>4, <1>5, <1>6

-----------------------------------------------------------------------------
(* One lemma per action of the server side.                                *)

\* What LoadSpan finds under a trace id is a span of that trace.
LEMMA LoadedSpan ==
  ASSUME IInv, NEW t \in Traces \cup {NoTrace}, LoadSpan(t) # NoSpan
  PROVE  t \in Traces /\ LoadSpan(t) \in Spans /\ TraceOf[LoadSpan(t)] = t
BY DEF IInv, LoadSpan, TypeOK, EntriesAreInFlight

\* The parent of a call: the registry's, the header's or none.
LEMMA ExtractStep ==
  ASSUME IInv, NEW x \in Calls, Extract(x)
  PROVE  IInv'
<1> USE NoneAssumption DEF IInv
<1>1. /\ server[x] = "sent"
      /\ server' = [server EXCEPT ![x] = "extracted"]
      /\ UNCHANGED <<registry, clientVars, open, recorded>>
  BY DEF Extract
<1>2. id[x] \in Traces \cup {NoTrace} /\ via[x] = "none" /\ via \in [Calls -> {"none", "registry", "header"}]
  BY <1>1 DEF TypeOK, ParentsAgree, Extracted
<1>3. /\ via' \in [Calls -> {"none", "registry", "header"}]
      /\ parent' \in [Calls -> AllSpans \cup {NoSpan}]
      /\ globalSpan' \in AllSpans \cup {NoSpan}
      /\ \A y \in Calls \ {x} : via'[y] = via[y] /\ parent'[y] = parent[y]
  <2>1. CASE LoadSpan(id[x]) # NoSpan
    <3>1. LoadSpan(id[x]) \in AllSpans
      BY <1>2, <2>1, LoadedSpan DEF AllSpans
    <3> QED BY <2>1, <3>1 DEF Extract, TypeOK
  <2>2. CASE LoadSpan(id[x]) = NoSpan
    <3>1. Transaction(x) \in AllSpans
      BY DEF AllSpans
    <3> QED BY <2>2, <3>1 DEF Extract, StartTransaction, TypeOK
  <2> QED BY <2>1, <2>2
<1>4. /\ via'[x] = "registry" => /\ parent'[x] = LoadSpan(id[x])
                                 /\ LoadSpan(id[x]) # NoSpan
      /\ via'[x] = "none" => header[x] = NoTrace
      /\ LoadSpan(id[x]) # NoSpan => via'[x] = "registry"
  BY <1>2 DEF Extract, TypeOK
<1>5. \A y \in Calls : Filed(y)' <=> Filed(y)
  BY <1>1 DEF Filed, clientVars
<1>6. TypeOK'
  BY <1>1, <1>3 DEF TypeOK, clientVars
<1>7. EntriesAreInFlight' /\ LoneCallsAreFiled'
  BY <1>1, <1>5 DEF EntriesAreInFlight, LoneCallsAreFiled, clientVars
<1>8. MetadataAgree' /\ SidesAgree'
  BY <1>1, <1>5 DEF TypeOK, clientVars, MetadataAgree, SidesAgree
<1>9. ParentsAgree'
  <2>1. via'[x] = "registry" => parent'[x] \in Spans /\ header[x] = TraceOf[parent'[x]]
    BY <1>2, <1>4, LoadedSpan DEF MetadataAgree
  <2> QED BY <1>1, <1>3, <1>4, <2>1 DEF TypeOK, clientVars, ParentsAgree, Extracted
<1>10. LoneCallsAreServed'
  <2> SUFFICES ASSUME NEW y \in Calls, span[y] # NoSpan, y \notin overlapped, client[y] # "gaveUp"
               PROVE  /\ Extracted(y)' => via'[y] = "registry" /\ parent'[y] = span[y]
                      /\ server'[y] = "replied" => y \in recorded
    BY <1>1 DEF LoneCallsAreServed, clientVars
  <2>1. CASE y # x
    BY <1>1, <1>3, <2>1 DEF LoneCallsAreServed, Extracted, TypeOK
  <2>2. CASE y = x
    <3>1. Filed(x)
      BY <1>1, <2>2 DEF SidesAgree, TypeOK, Filed
    <3>2. id[x] = TraceOf[span[x]] /\ id[x] \in Traces
      BY <2>2, TraceOfAssumption DEF MetadataAgree, TypeOK
    <3>3. LoadSpan(id[x]) = span[x]
      BY <2>2, <3>1, <3>2 DEF LoneCallsAreFiled, LoadSpan
    <3> QED BY <1>1, <1>4, <2>2, <3>3 DEF TypeOK
  <2> QED BY <2>1, <2>2
<1> QED BY <1>6, <1>7, <1>8, <1>9, <1>10

\* The span is made on the hub of this request.
LEMMA CreateStep ==
  ASSUME IInv, NEW x \in Calls, CreateGRPCSpan(x)
  PROVE  IInv'
<1> USE DEF IInv
<1>1. /\ server[x] = "extracted"
      /\ server' = [server EXCEPT ![x] = "handling"]
      /\ UNCHANGED <<registry, clientVars, via, parent, open, recorded, globalSpan>>
  BY DEF CreateGRPCSpan
<1>2. \A y \in Calls : Filed(y)' <=> Filed(y)
  BY <1>1 DEF Filed, clientVars
<1>3. TypeOK'
  BY <1>1 DEF TypeOK, clientVars, AllSpans
<1>4. EntriesAreInFlight' /\ LoneCallsAreFiled'
  BY <1>1, <1>2 DEF EntriesAreInFlight, LoneCallsAreFiled, clientVars
<1>5. MetadataAgree' /\ SidesAgree' /\ ParentsAgree' /\ LoneCallsAreServed'
  BY <1>1, <1>2 DEF TypeOK, clientVars, MetadataAgree, SidesAgree, ParentsAgree,
                    LoneCallsAreServed, Extracted
<1> QED BY <1>3, <1>4, <1>5

\* The span finishes while the transaction of a caller that waits is open.
LEMMA ReplyStep ==
  ASSUME IInv, NEW x \in Calls, Reply(x)
  PROVE  IInv'
<1> USE DEF IInv
<1>1. /\ server[x] = "handling"
      /\ server' = [server EXCEPT ![x] = "replied"]
      /\ recorded' = IF Recorded(x) THEN recorded \cup {x} ELSE recorded
      /\ UNCHANGED <<registry, clientVars, via, parent, open, globalSpan>>
  BY DEF Reply
<1>2. \A y \in Calls : Filed(y)' <=> Filed(y)
  BY <1>1 DEF Filed, clientVars
<1>3. TypeOK'
  BY <1>1 DEF TypeOK, clientVars
<1>4. EntriesAreInFlight' /\ LoneCallsAreFiled'
  BY <1>1, <1>2 DEF EntriesAreInFlight, LoneCallsAreFiled, clientVars
<1>5. MetadataAgree' /\ SidesAgree' /\ ParentsAgree'
  BY <1>1, <1>2 DEF TypeOK, clientVars, MetadataAgree, SidesAgree, ParentsAgree, Extracted
<1>6. LoneCallsAreServed'
  <2>1. ASSUME span[x] # NoSpan, x \notin overlapped, client[x] # "gaveUp"
        PROVE  x \in recorded'
    <3>1. via[x] = "registry" /\ parent[x] = span[x]
      BY <1>1, <2>1 DEF LoneCallsAreServed, Extracted
    <3>2. Filed(x)
      BY <1>1, <2>1 DEF SidesAgree, TypeOK, Filed
    <3> QED BY <1>1, <3>1, <3>2 DEF SidesAgree, Recorded
  <2> QED BY <1>1, <2>1 DEF TypeOK, clientVars, LoneCallsAreServed, Extracted
<1> QED BY <1>3, <1>4, <1>5, <1>6

-----------------------------------------------------------------------------
(* The theorems.                                                           *)

\* Registry, metadata and parents agree, however calls overlap, are given up
\* and arrive late.
THEOREM InterceptorsInvariant == Spec => []IInv
<1>1. Init => IInv
  <2> SUFFICES ASSUME Init PROVE IInv
    OBVIOUS
  <2>1. TypeOK
    BY DEF Init, TypeOK, AllSpans
  <2>2. \A x \in Calls : /\ client[x] = "new" /\ server[x] = "none" /\ via[x] = "none"
                         /\ span[x] = NoSpan /\ id[x] = NoTrace /\ header[x] = NoTrace
    BY DEF Init
  <2>3. EntriesAreInFlight
    BY <2>2 DEF Init, EntriesAreInFlight
  <2>4. MetadataAgree /\ SidesAgree /\ ParentsAgree /\ LoneCallsAreFiled /\ LoneCallsAreServed
    BY <2>2 DEF MetadataAgree, SidesAgree, ParentsAgree, Extracted, Filed,
                LoneCallsAreFiled, LoneCallsAreServed
  <2> QED BY <2>1, <2>3, <2>4 DEF IInv
<1>2. IInv /\ [Next]_vars => IInv'
  <2> SUFFICES ASSUME IInv, [Next]_vars PROVE IInv'
    OBVIOUS
  <2>1. ASSUME NEW x \in Calls, ClientStep(x) PROVE IInv'
    <3>1. CASE \E s \in Spans : Invoke(x, s)
      BY <3>1, InvokeStep
    <3>2. CASE \E h \in Traces \cup {NoTrace} : PassThrough(x, h)
      BY <3>2, SendStep DEF PassThrough
    <3>3. CASE \E t, h \in Traces \cup {NoTrace} : Remote(x, t, h)
      BY <3>3, SendStep DEF Remote
    <3>4. CASE Answered(x) \/ GiveUp(x)
      BY <3>4, LeaveStep
    <3> QED BY <2>1, <3>1, <3>2, <3>3, <3>4 DEF ClientStep
  <2>2. ASSUME NEW x \in Calls, ServerStep(x) PROVE IInv'
    BY <2>2, ExtractStep, CreateStep, ReplyStep DEF ServerStep
  <2>3. CASE UNCHANGED vars
    <3> USE <2>3 DEF vars, clientVars, serverVars
    <3>1. \A y \in Calls : Filed(y)' <=> Filed(y)
      BY DEF Filed
    <3>2. TypeOK' /\ EntriesAreInFlight' /\ LoneCallsAreFiled'
      BY <3>1 DEF IInv, TypeOK, EntriesAreInFlight, LoneCallsAreFiled
    <3>3. MetadataAgree' /\ SidesAgree' /\ ParentsAgree' /\ LoneCallsAreServed'
      BY <3>1 DEF IInv, MetadataAgree, SidesAgree, ParentsAgree, Extracted, LoneCallsAreServed
    <3> QED BY <3>2, <3>3 DEF IInv
  <2> QED BY <2>1, <2>2, <2>3, HttpFinishStep DEF Next, Finished
<1> QED BY <1>1, <1>2, PTL DEF Spec

\* Interceptors is type-correct.
THEOREM InterceptorsTypeCorrect == Spec => []TypeOK
BY InterceptorsInvariant, PTL DEF IInv

\* The registry holds no span beyond its use, for any number of calls.
THEOREM RegistryHoldsCallsInFlight == Spec => []EntriesAreInFlight
BY InterceptorsInvariant, PTL DEF IInv

\* A call that carries a trace stays in it, however its entry fares.
THEOREM TracesContinue == Spec => []TraceContinuity
<1>1. IInv => TraceContinuity
  <2> SUFFICES ASSUME IInv, NEW x \in Calls, Started(x), header[x] # NoTrace
               PROVE  TraceOfCall(x) = header[x]
    BY DEF TraceContinuity
  <2>1. via[x] = "registry" \/ via[x] = "header"
    BY DEF IInv, ParentsAgree, Started, Extracted, TypeOK
  <2>2. CASE via[x] = "registry"
    BY <2>2 DEF IInv, ParentsAgree, Started, Extracted, TraceOfCall
  <2>3. CASE via[x] = "header"
    BY <2>3 DEF TraceOfCall
  <2> QED BY <2>1, <2>2, <2>3
<1> QED BY <1>1, InterceptorsInvariant, PTL

\* A call alone on its trace is a child of its caller's span.
THEOREM LoneCallsAreChildren == Spec => []LoneCallIsChild
<1>1. IInv => LoneCallIsChild
  BY DEF IInv, LoneCallsAreServed, LoneCallIsChild, Started, Extracted
<1> QED BY <1>1, InterceptorsInvariant, PTL

\* And its span reaches Sentry with the transaction of its caller.
THEOREM LoneCallsAreRecorded == Spec => []LoneCallIsRecorded
<1>1. IInv => LoneCallIsRecorded
  BY DEF IInv, SidesAgree, LoneCallsAreServed, LoneCallIsRecorded
<1> QED BY <1>1, InterceptorsInvariant, PTL

-----------------------------------------------------------------------------
(* The shared hub. StartSpan and the server interceptor are not to repoint *)
(* it (README.md, changelog); the fallback does. This is what is left.     *)

\* What CurrentHub points at is the transaction of a fallback.
RepointedByFallback ==
    globalSpan # NoSpan =>
      \E x \in Calls : /\ globalSpan = Transaction(x)
                       /\ Extracted(x) /\ via[x] = "header"

\* Once a server has its parent, how it came by it stays.
LEMMA FallbacksStay ==
  ASSUME IInv, Next, NEW x \in Calls, Extracted(x), via[x] = "header"
  PROVE  Extracted(x)' /\ via'[x] = "header"
<1>1. ASSUME NEW y \in Calls, ClientStep(y)
      PROVE  Extracted(x)' /\ via'[x] = "header"
  <2>1. CASE (\E s \in Spans : Invoke(y, s)) \/ (\E h \in Traces \cup {NoTrace} : PassThrough(y, h))
             \/ (\E t, h \in Traces \cup {NoTrace} : Remote(y, t, h))
    <3>1. client[y] = "new" /\ via' = via /\ server' = [server EXCEPT ![y] = "sent"]
      BY <2>1 DEF Invoke, PassThrough, Remote, Send
    <3>2. x # y
      BY <3>1 DEF IInv, SidesAgree, Extracted
    <3> QED BY <3>1, <3>2 DEF IInv, TypeOK, Extracted
  <2>2. CASE Answered(y) \/ GiveUp(y)
    BY <2>2 DEF Answered, GiveUp, Leave, serverVars, Extracted
  <2> QED BY <1>1, <2>1, <2>2 DEF ClientStep
<1>2. ASSUME NEW y \in Calls, ServerStep(y)
      PROVE  Extracted(x)' /\ via'[x] = "header"
  <2>1. CASE Extract(y)
    BY <2>1 DEF Extract, Extracted, IInv, TypeOK
  <2>2. CASE CreateGRPCSpan(y) \/ Reply(y)
    BY <2>2 DEF CreateGRPCSpan, Reply, Extracted, IInv, TypeOK
  <2> QED BY <1>2, <2>1, <2>2 DEF ServerStep
<1>3. ASSUME NEW s \in Spans, HttpFinish(s)
      PROVE  Extracted(x)' /\ via'[x] = "header"
  BY <1>3 DEF HttpFinish, serverVars, Extracted
<1>4. CASE Finished
  BY <1>4 DEF Finished, vars, serverVars, Extracted
<1> QED BY <1>1, <1>2, <1>3, <1>4 DEF Next

\* CurrentHub is repointed by Extract, for a call without a registry entry.
LEMMA RepointingIsAFallback ==
  ASSUME IInv, Next, globalSpan' # globalSpan
  PROVE  \E x \in Calls : /\ globalSpan' = Transaction(x)
                          /\ Extracted(x)' /\ via'[x] = "header"
<1>1. PICK x \in Calls : Extract(x)
  BY DEF Next, Finished, ClientStep, ServerStep, Invoke, PassThrough, Remote, Answered, GiveUp,
         Leave, CreateGRPCSpan, Reply, HttpFinish, vars
<1>2. /\ globalSpan' = Transaction(x)
      /\ via' = [via EXCEPT ![x] = "header"]
      /\ server' = [server EXCEPT ![x] = "extracted"]
  BY <1>1 DEF Extract, StartTransaction
<1> QED BY <1>2 DEF Extracted, IInv, TypeOK

\* The hub all requests start from is repointed by calls from elsewhere, and
\* by calls whose entry another call or their own caller has taken away
\* (interceptor.go:143), by nothing else.
THEOREM OnlyFallbacksRepointTheSharedHub == Spec => []LoneCallsSpareSharedHub
<1>1. Init => RepointedByFallback
  BY DEF Init, RepointedByFallback
<1>2. IInv /\ RepointedByFallback /\ [Next]_vars => RepointedByFallback'
  <2> SUFFICES ASSUME IInv, RepointedByFallback, [Next]_vars, globalSpan' # NoSpan
               PROVE  \E x \in Calls : /\ globalSpan' = Transaction(x)
                                       /\ Extracted(x)' /\ via'[x] = "header"
    BY DEF RepointedByFallback, Transaction
  <2>1. CASE UNCHANGED vars
    BY <2>1 DEF RepointedByFallback, Extracted, vars, serverVars
  <2>2. CASE Next /\ globalSpan' # globalSpan
    BY <2>2, RepointingIsAFallback
  <2>3. CASE Next /\ globalSpan' = globalSpan
    BY <2>3, FallbacksStay DEF RepointedByFallback
  <2> QED BY <2>1, <2>2, <2>3
<1>3. IInv /\ RepointedByFallback => LoneCallsSpareSharedHub
  BY DEF IInv, LoneCallsAreServed, RepointedByFallback, LoneCallsSpareSharedHub
<1> QED BY <1>1, <1>2, <1>3, InterceptorsInvariant, PTL DEF Spec
=============================================================================
