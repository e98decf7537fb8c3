--------------------------- MODULE RequestContext ---------------------------
(***************************************************************************)
(* What the contexts of a request hold, and the loggers bound to them:     *)
(* UnaryServerInterceptor (interceptor.go), StartSpan (span.go),           *)
(* WithTenantID and SpanFromContext (context.go), and New, WithFields and  *)
(* WithContext of the logger (logger/logger.go).                           *)
(*                                                                         *)
(* A context carries a span under two keys, svclib's and Sentry's own, and *)
(* the two advance differently: StartSpan sets the first, a plain          *)
(* sentry.StartSpan the second, the server interceptor the first or both.  *)
(* SpanFromContext has to find the innermost in any mixture of them.       *)
(* Contexts and loggers never change, so that goroutines may use them at   *)
(* will; what is hard is the long sequence of derivations.                 *)
(*                                                                         *)
(* A span is the sequence of names from the root of its trace to itself:   *)
(* its head names the trace, its front is the parent, and a span within    *)
(* another extends it. A span bears the name of the context it was made    *)
(* for. NoSpan is the empty sequence.                                      *)
(***************************************************************************)
EXTENDS Integers, SequencesExt

CONSTANTS
    Contexts,   \* contexts, made one after the other
    Loggers,
    Base,       \* the logger a service makes when it starts
    Tenants,
    None

ASSUME BaseAssumption == Base \in Loggers
ASSUME NoneAssumption == None \notin Contexts \cup Tenants

NoSpan == <<>>
Spans == Seq(Contexts)

Metadata == [tenant : Tenants \cup {None},  \* fwd-x-tenant-id, not empty
             platform : BOOLEAN]            \* a trace of the platform, well formed

Context ==
    [key      : Spans,                      \* the span under svclib's key
     sentry   : Spans,                      \* the span under Sentry's key
     traceID  : Contexts \cup {None},       \* the trace id StartSpan stores
     hub      : Contexts \cup {None},       \* named by the context it was made for
     tenant   : Tenants \cup {None},
     incoming : Metadata \cup {None},       \* the metadata of the call
     request  : Contexts]                   \* history: the request it belongs to

Logger ==
    [tenant   : Tenants \cup {None},        \* the field tenant_id
     span     : Spans,
     traceID  : Contexts \cup {None},
     platform : Contexts \cup {None},       \* gcpTraceID, named by its request
     hub      : Contexts \cup {None}]

VARIABLES
    kind,       \* kind[x]: how context x was made
    context,    \* context[x]: what it holds
    within,     \* history: the contexts of the operations x is in, x included
    logger,     \* logger[k]: what logger k holds, or None
    bound,      \* history: the contexts k was bound to, in their order
    given       \* history: loggers WithFields gave a tenant_id

vars == <<kind, context, within, logger, bound, given>>

TraceID(s) == IF s = NoSpan THEN None ELSE Head(s)

Made(x) == kind[x] # "none"

\* What logger.New makes, which is bound to nothing.
New == [tenant |-> None, span |-> NoSpan, traceID |-> None,
        platform |-> None, hub |-> None]

\* A context without anything, of the request r.
Empty(r) == [key |-> NoSpan, sentry |-> NoSpan, traceID |-> None, hub |-> None,
             tenant |-> None, incoming |-> None, request |-> r]

Init ==
    /\ kind = [x \in Contexts |-> "none"]
    /\ context = [x \in Contexts |-> Empty(x)]
    /\ within = [x \in Contexts |-> {}]
    /\ logger = [k \in Loggers |-> IF k = Base THEN New ELSE None]
    /\ bound = [k \in Loggers |-> <<>>]
    /\ given = {}

-----------------------------------------------------------------------------
(* context.go                                                              *)

\* Mutant of SpanFromContext: Sentry's key comes first.
SentrySpanFirst(c) == IF c.sentry = NoSpan THEN c.key ELSE c.sentry

\* Mutant of SpanFromContext: Sentry's key comes first in the same trace.
SameTraceFirst(c) ==
    IF c.sentry # NoSpan /\ (c.key = NoSpan \/ TraceID(c.sentry) = TraceID(c.key))
    THEN c.sentry ELSE c.key

\* The span under Sentry's key if it is the only one or a direct child of
\* ours, else the one under ours.
SpanFromContext(c) ==
    IF \/ c.sentry = NoSpan
       \/ c.key # NoSpan /\ Front(c.sentry) # c.key
    THEN c.key ELSE c.sentry

TraceIDFromContext(c) ==
    IF SpanFromContext(c) # NoSpan THEN TraceID(SpanFromContext(c)) ELSE c.traceID

WithTenantID(c, t) == [c EXCEPT !.tenant = t]

\* Mutant of WithSpan: the span is stored where its trace id belongs.
WithSpanTwice(c, s) == [c EXCEPT !.key = s, !.traceID = s]

\* What the interceptor and StartSpan store with a span: its trace id.
WithSpan(c, s) == [c EXCEPT !.key = s, !.traceID = TraceID(s)]

-----------------------------------------------------------------------------
(* The contexts a request begins with.                                     *)

\* Context x is made, as the one that c holds, in the operations ops.
Make(x, k, c, ops) ==
    /\ ~Made(x)
    /\ kind' = [kind EXCEPT ![x] = k]
    /\ context' = [context EXCEPT ![x] = c]
    /\ within' = [within EXCEPT ![x] = ops]
    /\ UNCHANGED <<logger, bound, given>>

\* An HTTP request, in the transaction sentryhttp starts on a hub of its own.
ServeHTTP(x, t) ==
    Make(x, "http",
         WithTenantID([Empty(x) EXCEPT !.sentry = <<x>>, !.hub = x], t), {})

\* What the interceptor makes of the context of a call, whose own span is s.
Handler(x, s, md) ==
    WithSpan(WithTenantID([Empty(x) EXCEPT !.hub = x, !.incoming = md], md.tenant), s)

\* A call whose parent p came out of the registry, the span under Sentry's key
\* of the caller. The context of the new span is of the caller's request.
ServeRegistered(x, p, md) ==
    Make(x, "registry", Handler(x, Append(p, x), md), {x})

\* A call from elsewhere with a trace header. The transaction that continues
\* its trace bears the name x too, and the span of the call is its child.
ServeContinued(x, md) == Make(x, "header", Handler(x, <<x, x>>, md), {x})

\* Mutant of ServeRoot: the context of the span is not adopted.
ServeRootApart(x, md) == Make(x, "root", Handler(x, <<x>>, md), {x})

\* A call without a trace: its span is a root, and its context is adopted.
ServeRoot(x, md) ==
    Make(x, "root", [Handler(x, <<x>>, md) EXCEPT !.sentry = <<x>>], {x})

\* Work that starts from context.Background().
Background(x) == Make(x, "background", Empty(x), {})

-----------------------------------------------------------------------------
(* Contexts made of others.                                                *)

\* StartSpan: a child of the innermost span, on a clone of the hub. Without a
\* hub it returns the context it was given. context.Background() has no hub,
\* so the code for it is never reached.
StartSpan(x, y) ==
    /\ Made(y)
    /\ context[y].hub # None
    /\ LET c == context[y]
       IN Make(x, "operation",
               WithSpan([c EXCEPT !.hub = x], Append(SpanFromContext(c), x)),
               within[y] \cup {x})

\* sentry.StartSpan: a child of the span under Sentry's key, or a new trace.
PlainStartSpan(x, y) ==
    /\ Made(y)
    /\ Make(x, "plain", [context[y] EXCEPT !.sentry = Append(@, x)], within[y])

\* svclib.WithTenantID, by whoever learns the tenant.
AddTenant(x, y, t) ==
    /\ Made(y)
    /\ Make(x, "tenant", WithTenantID(context[y], t), within[y])

-----------------------------------------------------------------------------
(* logger/logger.go                                                        *)

\* Logger k is made, and holds l.
MakeLogger(k, l) ==
    /\ logger[k] = None
    /\ logger' = [logger EXCEPT ![k] = l]
    /\ UNCHANGED <<kind, context, within>>

\* Mutant of WithFields: the field goes into the map of the original, too.
WithFieldsInPlace(k, o, t) ==
    /\ logger[o] # None
    /\ logger[k] = None
    /\ logger' = [logger EXCEPT ![k] = [logger[o] EXCEPT !.tenant = t], ![o].tenant = t]
    /\ UNCHANGED <<kind, context, within>>
    /\ bound' = [bound EXCEPT ![k] = bound[o]]
    /\ given' = given \cup {k}

\* Logger k is o with the field tenant_id.
WithFields(k, o, t) ==
    /\ logger[o] # None
    /\ MakeLogger(k, [logger[o] EXCEPT !.tenant = t])
    /\ bound' = [bound EXCEPT ![k] = bound[o]]
    /\ given' = given \cup {k}

\* The tenant a logger finds in a context: of the metadata, else of the context.
TenantOf(c) ==
    IF c.incoming # None /\ c.incoming.tenant # None
    THEN c.incoming.tenant ELSE c.tenant

\* l bound to c: span and hub are those of c; a tenant and a trace of the
\* platform that c does not have stay as they were.
Bind(l, c) ==
    [tenant   |-> IF TenantOf(c) = None THEN l.tenant ELSE TenantOf(c),
     span     |-> SpanFromContext(c),
     traceID  |-> TraceIDFromContext(c),
     platform |-> IF c.incoming = None THEN l.platform
                  ELSE IF c.incoming.platform THEN c.request ELSE None,
     hub      |-> c.hub]

\* Logger k is o bound to context x.
WithContext(k, o, x) ==
    /\ logger[o] # None
    /\ Made(x)
    /\ MakeLogger(k, Bind(logger[o], context[x]))
    /\ bound' = [bound EXCEPT ![k] = Append(bound[o], x)]
    /\ given' = IF o \in given THEN given \cup {k} ELSE given

-----------------------------------------------------------------------------
Serve(x) ==
    \/ \E t \in Tenants \cup {None} : ServeHTTP(x, t)
    \/ \E md \in Metadata :
          \/ \E y \in Contexts :
                context[y].sentry # NoSpan /\ ServeRegistered(x, context[y].sentry, md)
          \/ ServeContinued(x, md)
          \/ ServeRoot(x, md)
    \/ Background(x)

Derive(x, y) ==
    \/ StartSpan(x, y)
    \/ PlainStartSpan(x, y)
    \/ \E t \in Tenants : AddTenant(x, y, t)

Log(k) ==
    \/ \E o \in Loggers, t \in Tenants : WithFields(k, o, t)
    \/ \E o \in Loggers, x \in Contexts : WithContext(k, o, x)

\* All names are used up.
Finished ==
    /\ \A x \in Contexts : Made(x)
    /\ \A k \in Loggers : logger[k] # None
    /\ UNCHANGED vars

Next ==
    \/ Finished
    \/ \E x \in Contexts : Serve(x)
    \/ \E x, y \in Contexts : Derive(x, y)
    \/ \E k \in Loggers : Log(k)

Spec == Init /\ [][Next]_vars

-----------------------------------------------------------------------------
(* Properties.                                                             *)

Kinds == {"none", "http", "registry", "header", "root", "background",
          "operation", "plain", "tenant"}

TypeOK ==
    /\ kind \in [Contexts -> Kinds]
    /\ context \in [Contexts -> Context]
    /\ within \in [Contexts -> SUBSET Contexts]
    /\ logger \in [Loggers -> Logger \cup {None}]
    /\ bound \in [Loggers -> Seq(Contexts)]
    /\ given \subseteq Loggers

\* The span a request began with.
RequestSpan(r) == IF kind[r] = "http" THEN context[r].sentry ELSE context[r].key

Served(r) == kind[r] \in {"http", "registry", "header", "root"}

(***************************************************************************)
(* Whatever was derived from the context of a request, logs and errors     *)
(* that ask it for its trace get the trace of the request: a detached      *)
(* transaction that a plain sentry.StartSpan opened in the handler never   *)
(* captures them (SpanFromContext, context.go:50-54).                      *)
(***************************************************************************)
StaysInTrace ==
    \A x \in Contexts :
       LET r == context[x].request
       IN Made(x) /\ Served(r) =>
            TraceIDFromContext(context[x]) = TraceID(RequestSpan(r))

(***************************************************************************)
(* The span of a context lies within the span of every operation that the  *)
(* context is in, of the handler as of each StartSpan around it, in any    *)
(* nesting with plain spans; the next StartSpan makes its child there      *)
(* (context.go:50, span.go:56).                                            *)
(***************************************************************************)
OperationsNest ==
    \A x \in Contexts : \A y \in within[x] :
       IsPrefix(context[y].key, SpanFromContext(context[x]))

(***************************************************************************)
(* In an HTTP request, and in a call whose span is its own root, plain     *)
(* spans lie within the span of the request, however deep in operations    *)
(* they are opened (interceptor.go:75-82, README.md:609).                  *)
(***************************************************************************)
PlainSpansJoin ==
    \A x \in Contexts :
       LET r == context[x].request
       IN kind[x] = "plain" /\ kind[r] \in {"http", "root"} =>
            IsPrefix(RequestSpan(r), context[x].sentry)

(***************************************************************************)
(* A logger keeps to what it was bound to, however many were derived from  *)
(* the same original: trace and hub are of the request of its last         *)
(* binding, tenant and platform trace of a context it was bound to, and an *)
(* unbound one has none of them (logger.go:117 "fields maps are never      *)
(* mutated in place", WithContext, logger.go:193).                         *)
(***************************************************************************)
LoggersKeepToTheirRequests ==
    \A k \in Loggers :
       LET l  == logger[k]
           xs == ToSet(bound[k])
           r  == context[Last(bound[k])].request
       IN l # None =>
            /\ xs = {} => l.hub = None /\ l.traceID = None
            /\ xs # {} /\ Served(r) =>
                 context[l.hub].request = r /\ l.traceID = TraceID(RequestSpan(r))
            /\ l.platform \in {context[x].request : x \in xs} \cup {None}
            /\ k \notin given =>
                 l.tenant \in {TenantOf(context[x]) : x \in xs} \cup {None}
=============================================================================
