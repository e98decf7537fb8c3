---------------------------- MODULE Interceptors ----------------------------
(***************************************************************************)
(* The gRPC interceptors of svclib (interceptor.go) and the process-wide   *)
(* span registry between them (internal/registry.go).                      *)
(*                                                                         *)
(* An HTTP request of the gateway runs in a sentry transaction, its span.  *)
(* The client interceptor files that span under its trace id, sends the    *)
(* id along and deletes the entry when the call returns. The server        *)
(* interceptor, in the same process, looks the id up to make its own span  *)
(* a child of the HTTP span. Calls also come from other processes, with    *)
(* whatever trace metadata those send.                                     *)
(*                                                                         *)
(* A call is used once. A span of the server is named by its call, the     *)
(* transaction the fallback starts for call x is Transaction(x).           *)
(***************************************************************************)
EXTENDS Integers, FiniteSets

CONSTANTS
    Calls,      \* gRPC calls
    Spans,      \* transactions of the gateway's HTTP requests
    Traces,     \* trace ids in use before the calls begin
    TraceOf,    \* TraceOf[s]: the trace id of s; requests may share one
    NoSpan, NoTrace

ASSUME TraceOfAssumption == TraceOf \in [Spans -> Traces]
ASSUME NoneAssumption ==
    /\ NoSpan \notin Spans
    /\ NoTrace \notin Traces

VARIABLES
    registry,   \* activeSpans: the span filed under a trace id
    client,     \* client[x]: where the caller of x is
    span,       \* span[x]: the span in the caller's context
    id,         \* id[x]: metadata sentry-trace-id
    header,     \* header[x]: metadata sentry-trace or fwd-sentry-trace
    server,     \* server[x]: where the server interceptor is with x
    via,        \* via[x]: how the server came by the parent of its span
    parent,     \* parent[x]: that parent
    open,       \* open: HTTP transactions that have not finished
    recorded,   \* calls whose span was part of a transaction sentry was sent
    globalSpan, \* the span the scope of sentry.CurrentHub points at
    overlapped  \* history: calls that shared their trace id with another one

clientVars == <<client, span, id, header, overlapped>>
serverVars == <<server, via, parent>>
vars == <<registry, clientVars, serverVars, open, recorded, globalSpan>>

Transaction(x) == <<"transaction", x>>
AllSpans == Spans \cup Calls \cup {Transaction(x) : x \in Calls}

\* A call x whose client interceptor has filed a span and not yet deleted it.
Filed(x) == client[x] = "calling" /\ span[x] # NoSpan

Init ==
    /\ registry = [t \in Traces |-> NoSpan]
    /\ client = [x \in Calls |-> "new"]
    /\ span = [x \in Calls |-> NoSpan]
    /\ id = [x \in Calls |-> NoTrace]
    /\ header = [x \in Calls |-> NoTrace]
    /\ server = [x \in Calls |-> "none"]
    /\ via = [x \in Calls |-> "none"]
    /\ parent = [x \in Calls |-> NoSpan]
    /\ open = Spans
    /\ recorded = {}
    /\ globalSpan = NoSpan
    /\ overlapped = {}

-----------------------------------------------------------------------------
(* internal/registry.go                                                    *)

\* Mutant of StoreSpan: the value filed is the key.
StoreTraceID(t, s) == registry' = [registry EXCEPT ![t] = t]

StoreSpan(t, s) == registry' = [registry EXCEPT ![t] = s]

LoadSpan(t) == IF t = NoTrace THEN NoSpan ELSE registry[t]

\* Mutant of DeleteSpan: the end of one call empties the registry.
DeleteAllSpans(t) == registry' = [u \in Traces |-> NoSpan]

DeleteSpan(t) == registry' = [registry EXCEPT ![t] = NoSpan]

-----------------------------------------------------------------------------
(* UnaryClientInterceptor                                                  *)

\* The request of x is on its way to the server.
Send(x, from, s, t, h) ==
    /\ client[x] = "new"
    /\ client' = [client EXCEPT ![x] = from]
    /\ span' = [span EXCEPT ![x] = s]
    /\ id' = [id EXCEPT ![x] = t]
    /\ header' = [header EXCEPT ![x] = h]
    /\ server' = [server EXCEPT ![x] = "sent"]

\* The call is made in the HTTP request of s: file s and send its trace id.
Invoke(x, s) ==
    /\ s \in open
    /\ Send(x, "calling", s, TraceOf[s], TraceOf[s])
    /\ StoreSpan(TraceOf[s], s)
    /\ LET peers == {y \in Calls : Filed(y) /\ TraceOf[span[y]] = TraceOf[s]}
       IN overlapped' = overlapped \cup
                          (IF peers = {} THEN {} ELSE peers \cup {x})
    /\ UNCHANGED <<via, parent, open, recorded, globalSpan>>

\* No span in the context: the call goes out as it is. The gateway may have
\* forwarded the header of the HTTP request as fwd-sentry-trace.
PassThrough(x, h) ==
    /\ Send(x, "calling", NoSpan, NoTrace, h)
    /\ UNCHANGED <<registry, via, parent, open, recorded, globalSpan, overlapped>>

\* A call of another process. If that process runs the client interceptor,
\* the call has an id too, and it is the trace id of the header.
Remote(x, t, h) ==
    /\ t \in {NoTrace, h}
    /\ Send(x, "remote", NoSpan, t, h)
    /\ UNCHANGED <<registry, via, parent, open, recorded, globalSpan, overlapped>>

\* The invoker returns, with the answer or because the caller's context ended,
\* and the deferred DeleteSpan removes whatever is filed under the trace id.
Leave(x, how) ==
    /\ client[x] = "calling"
    /\ client' = [client EXCEPT ![x] = how]
    /\ IF span[x] = NoSpan THEN UNCHANGED registry ELSE DeleteSpan(TraceOf[span[x]])
    /\ UNCHANGED <<span, id, header, overlapped, serverVars, open, recorded, globalSpan>>

Answered(x) == server[x] = "replied" /\ Leave(x, "answered")

\* Mutant of GiveUp: the entry is deleted by a call that is answered only.
GiveUpAndForget(x) ==
    /\ server[x] # "replied"
    /\ client[x] = "calling"
    /\ client' = [client EXCEPT ![x] = "gaveUp"]
    /\ UNCHANGED <<span, id, header, overlapped, registry, serverVars, open,
                   recorded, globalSpan>>

GiveUp(x) == server[x] # "replied" /\ Leave(x, "gaveUp")

\* The HTTP handler returns, after its calls have: its transaction is sent.
HttpFinish(s) ==
    /\ s \in open
    /\ \A x \in Calls : ~(Filed(x) /\ span[x] = s)
    /\ open' = open \ {s}
    /\ UNCHANGED <<registry, clientVars, serverVars, recorded, globalSpan>>

-----------------------------------------------------------------------------
(* UnaryServerInterceptor                                                  *)

\* sentry.StartTransaction repoints the scope of the hub on the context it is
\* given; this context has a hub only if another interceptor gave it one, and
\* without it the scope is the one of CurrentHub.
StartTransaction(x) == globalSpan' \in {globalSpan, Transaction(x)}

\* Mutant of Extract: the header comes before the registry.
ExtractHeaderFirst(x) ==
    /\ server[x] = "sent"
    /\ server' = [server EXCEPT ![x] = "extracted"]
    /\ \/ /\ header[x] # NoTrace
          /\ via' = [via EXCEPT ![x] = "header"]
          /\ parent' = [parent EXCEPT ![x] = Transaction(x)]
          /\ StartTransaction(x)
       \/ /\ header[x] = NoTrace
          /\ UNCHANGED <<via, parent, globalSpan>>
    /\ UNCHANGED <<registry, clientVars, open, recorded>>

\* Mutant of Extract: the registry or nothing.
ExtractRegistryOnly(x) ==
    /\ server[x] = "sent"
    /\ server' = [server EXCEPT ![x] = "extracted"]
    /\ parent' = [parent EXCEPT ![x] = LoadSpan(id[x])]
    /\ via' = [via EXCEPT ![x] =
                 IF LoadSpan(id[x]) = NoSpan THEN "none" ELSE "registry"]
    /\ UNCHANGED <<registry, clientVars, open, recorded, globalSpan>>

\* extractSentryContext: the registry, else a transaction continued from the
\* header, which nobody finishes, else no parent.
Extract(x) ==
    /\ server[x] = "sent"
    /\ server' = [server EXCEPT ![x] = "extracted"]
    /\ \/ /\ LoadSpan(id[x]) # NoSpan
          /\ via' = [via EXCEPT ![x] = "registry"]
          /\ parent' = [parent EXCEPT ![x] = LoadSpan(id[x])]
          /\ UNCHANGED globalSpan
       \/ /\ LoadSpan(id[x]) = NoSpan
          /\ header[x] # NoTrace
          /\ via' = [via EXCEPT ![x] = "header"]
          /\ parent' = [parent EXCEPT ![x] = Transaction(x)]
          /\ StartTransaction(x)
       \/ /\ LoadSpan(id[x]) = NoSpan
          /\ header[x] = NoTrace
          /\ UNCHANGED <<via, parent, globalSpan>>
    /\ UNCHANGED <<registry, clientVars, open, recorded>>

\* createGRPCSpan: the scope it repoints is that of this request's hub, swapped
\* into the context of the parent, and nobody else's. That hub is a clone of
\* CurrentHub, unless the context came with one of its own (see HubScope).
CreateGRPCSpan(x) ==
    /\ server[x] = "extracted"
    /\ server' = [server EXCEPT ![x] = "handling"]
    /\ UNCHANGED <<registry, clientVars, via, parent, open, recorded, globalSpan>>

\* The span of x goes out with its root: itself, or the HTTP transaction if
\* that has not been sent before. The transaction of the fallback never is.
Recorded(x) ==
    \/ via[x] = "none"
    \/ via[x] = "registry" /\ parent[x] \in open

\* The handler returns and handleGRPCError sets the status; an error is
\* captured with the scope of the hub at the span. The span finishes.
Reply(x) ==
    /\ server[x] = "handling"
    /\ server' = [server EXCEPT ![x] = "replied"]
    /\ recorded' = IF Recorded(x) THEN recorded \cup {x} ELSE recorded
    /\ UNCHANGED <<registry, clientVars, via, parent, open, globalSpan>>

-----------------------------------------------------------------------------
Finished ==
    /\ \A x \in Calls : client[x] \in {"answered", "gaveUp", "remote"}
    /\ \A x \in Calls : server[x] = "replied"
    /\ open = {}
    /\ UNCHANGED vars

ClientStep(x) ==
    \/ \E s \in Spans : Invoke(x, s)
    \/ \E h \in Traces \cup {NoTrace} : PassThrough(x, h)
    \/ \E t, h \in Traces \cup {NoTrace} : Remote(x, t, h)
    \/ Answered(x) \/ GiveUp(x)

ServerStep(x) == Extract(x) \/ CreateGRPCSpan(x) \/ Reply(x)

Next ==
    \/ \E x \in Calls : ClientStep(x) \/ ServerStep(x)
    \/ \E s \in Spans : HttpFinish(s)
    \/ Finished

Spec == Init /\ [][Next]_vars
-----------------------------------------------------------------------------
(* Properties.                                                             *)

TypeOK ==
    /\ registry \in [Traces -> Spans \cup {NoSpan}]
    /\ client \in [Calls -> {"new", "calling", "remote", "answered", "gaveUp"}]
    /\ span \in [Calls -> Spans \cup {NoSpan}]
    /\ id \in [Calls -> Traces \cup {NoTrace}]
    /\ header \in [Calls -> Traces \cup {NoTrace}]
    /\ server \in [Calls -> {"none", "sent", "extracted", "handling", "replied"}]
    /\ via \in [Calls -> {"none", "registry", "header"}]
    /\ parent \in [Calls -> AllSpans \cup {NoSpan}]
    /\ open \subseteq Spans
    /\ recorded \subseteq Calls
    /\ globalSpan \in AllSpans \cup {NoSpan}
    /\ overlapped \subseteq Calls

Started(x) == server[x] \in {"handling", "replied"}

\* The trace of the span the server made for x; a root span has a new one.
TraceOfCall(x) ==
    CASE via[x] = "registry" -> TraceOf[parent[x]]
      [] via[x] = "header"   -> header[x]
      [] OTHER               -> NoTrace

(***************************************************************************)
(* A call that carries a trace stays in it, however its registry entry     *)
(* fares: overwritten or deleted by another call with the same trace id,   *)
(* or gone because the caller gave up before the request arrived           *)
(* (extractSentryContext's fallback, interceptor.go:133).                  *)
(***************************************************************************)
TraceContinuity ==
    \A x \in Calls :
       Started(x) /\ header[x] # NoTrace => TraceOfCall(x) = header[x]

(***************************************************************************)
(* The registry holds no span beyond its use: an entry belongs to a call   *)
(* in flight, on an HTTP request that has not finished. It does not leak   *)
(* and a later request with the same trace id cannot find a dead parent    *)
(* (the deferred DeleteSpan, interceptor.go:33).                           *)
(***************************************************************************)
EntriesAreInFlight ==
    \A t \in Traces :
       registry[t] # NoSpan =>
         /\ registry[t] \in open
         /\ \E x \in Calls :
               Filed(x) /\ span[x] = registry[t] /\ TraceOf[span[x]] = t

(***************************************************************************)
(* A call that shared its trace id with no other call, and whose caller    *)
(* waits for it, gets its caller's span as the parent: calls on other      *)
(* traces, and calls from other processes, do not disturb it.              *)
(***************************************************************************)
LoneCallIsChild ==
    \A x \in Calls :
       /\ Started(x)
       /\ span[x] # NoSpan
       /\ x \notin overlapped
       /\ client[x] # "gaveUp"
       => via[x] = "registry" /\ parent[x] = span[x]

(***************************************************************************)
(* The span of such a call, once it is answered, reaches sentry with the   *)
(* HTTP transaction: it finished before the answer left, and the           *)
(* transaction finishes after it (the deferred Finish, interceptor.go:73). *)
(***************************************************************************)
LoneCallIsRecorded ==
    \A x \in Calls :
       client[x] = "answered" /\ span[x] # NoSpan /\ x \notin overlapped =>
         x \in recorded

(***************************************************************************)
(* The hub all requests are cloned from is never repointed for a call of   *)
(* this process that is alone on its trace id and waited for: whatever the *)
(* calls beside it do, its server finds the entry and starts no            *)
(* transaction. What repoints the hub is a fallback (interceptor.go:143):  *)
(* of a call from elsewhere, or of one whose entry another call, or its    *)
(* own caller, has taken away.                                             *)
(***************************************************************************)
LoneCallsSpareSharedHub ==
    globalSpan # NoSpan =>
      \E x \in Calls :
         /\ globalSpan = Transaction(x)
         /\ via[x] = "header"
         /\ span[x] = NoSpan \/ x \in overlapped \/ client[x] = "gaveUp"
=============================================================================
