------------------------------ MODULE HubScope ------------------------------
(***************************************************************************)
(* The hubs errors are reported on, and their scopes: TenantTagging and    *)
(* the server interceptor give a request its hub (middleware.go,           *)
(* interceptor.go), StartSpan gives an operation its own (span.go), and    *)
(* goroutines that share a context report errors on its hub with LogError  *)
(* (logging.go), with the finish function of StartSpan, with Logger.Error  *)
(* (logger/logger.go) and at the end of the handler.                       *)
(*                                                                         *)
(* A hub has one stack of scopes. Its calls are locked, a sequence of them *)
(* is not: WithScope pushes a clone of the top scope, lets its caller set  *)
(* it, and pops whatever is on top in the end; CaptureException reports    *)
(* with the top scope there is. Cloning a hub copies its top scope. Each   *)
(* of these calls is one step. What a goroutine does before the first one, *)
(* such as to look up the hub in a context, is part of that step, for no   *)
(* other goroutine can change it.                                          *)
(*                                                                         *)
(* A context is a request or an operation. Of a scope we keep the span,    *)
(* the tenant tag, whose label (error_context) and whose tags it has.      *)
(***************************************************************************)
EXTENDS Integers, SequencesExt

CONSTANTS
    Goroutines,     \* goroutines that report errors
    Requests,       \* HTTP and gRPC requests, each with a context
    Operations,     \* calls of StartSpan, each makes a context
    Tenants,
    Current,        \* sentry.CurrentHub()
    None

Contexts == Requests \cup Operations

\* The hub a context gets is named after it, the one a Logger makes for a
\* report after the goroutine that reports.
Hubs == Contexts \cup Goroutines \cup {Current}

ASSUME NamesAssumption ==
    /\ Requests \cap Operations = {}
    /\ Contexts \cap Goroutines = {}
    /\ Current \notin Contexts \cup Goroutines
    /\ None \notin Hubs \cup Tenants

Scope == [span   : Contexts \cup {None},
          tenant : Tenants \cup {None},
          label  : Goroutines \cup {None},
          tags   : SUBSET Goroutines,
          by     : Goroutines \cup {None}]  \* who is about to set it

VARIABLES
    stack,      \* stack[h]: the scopes of hub h, the last is on top
    kind,       \* kind[x]: what context x is and how far
    tenantOf,   \* history: the tenant of a request
    request,    \* request[x]: the request context x belongs to, or None
    hub,        \* hub[x]: the hub in context x
    pc,         \* pc[p]: where goroutine p is in a report
    how,        \* how[p]: with what it reports
    ctx,        \* ctx[p]: and on which context
    target,     \* target[p]: the hub it reports on
    event       \* event[p]: the scope its error went out with

contexts  == <<tenantOf, request, hub>>
reporting == <<pc, how, ctx, target, event>>
vars == <<stack, kind, contexts, reporting>>

Plain == [span |-> None, tenant |-> None, label |-> None, tags |-> {}, by |-> None]

Top(h) == Last(stack[h])

Init ==
    /\ stack = [h \in Hubs |-> <<Plain>>]
    /\ kind = [x \in Contexts |-> "none"]
    /\ tenantOf = [r \in Requests |-> None]
    /\ request = [x \in Contexts |-> None]
    /\ hub = [x \in Contexts |-> Current]
    /\ pc = [p \in Goroutines |-> "idle"]
    /\ how = [p \in Goroutines |-> "none"]
    /\ ctx = [p \in Goroutines |-> None]
    /\ target = [p \in Goroutines |-> Current]
    /\ event = [p \in Goroutines |-> Plain]

-----------------------------------------------------------------------------
(* Contexts.                                                               *)

\* hub.Clone() with its span set and, if t is there, its tenant tagged.
CloneOf(h, x, t) ==
    <<[Top(h) EXCEPT !.span = x, !.tenant = IF t = None THEN @ ELSE t, !.by = None]>>

\* Mutant of Serve: a request without a hub is not given one.
ServeWithoutHub(r, k, t) ==
    /\ kind[r] = "none"
    /\ kind' = [kind EXCEPT ![r] = k]
    /\ tenantOf' = [tenantOf EXCEPT ![r] = t]
    /\ request' = [request EXCEPT ![r] = r]
    /\ hub' = [hub EXCEPT ![r] = None]
    /\ UNCHANGED <<stack, reporting>>

\* Mutant of Serve: the request runs on the hub every request starts from.
ServeOnCurrent(r, k, t) ==
    /\ kind[r] = "none"
    /\ kind' = [kind EXCEPT ![r] = k]
    /\ tenantOf' = [tenantOf EXCEPT ![r] = t]
    /\ request' = [request EXCEPT ![r] = r]
    /\ hub' = [hub EXCEPT ![r] = Current]
    /\ stack' = [stack EXCEPT ![Current] = CloneOf(Current, r, t)]
    /\ UNCHANGED reporting

\* A request gets a clone of CurrentHub, from sentryhttp or from the server
\* interceptor, which the middleware or the interceptor then tags.
Serve(r, k, t) ==
    /\ kind[r] = "none"
    /\ kind' = [kind EXCEPT ![r] = k]
    /\ tenantOf' = [tenantOf EXCEPT ![r] = t]
    /\ request' = [request EXCEPT ![r] = r]
    /\ hub' = [hub EXCEPT ![r] = r]
    /\ stack' = [stack EXCEPT ![r] = CloneOf(Current, r, t)]
    /\ UNCHANGED reporting

\* TenantTaggingMiddleware, behind sentryhttp.
ServeHTTP(r, t) == Serve(r, "http", t)

\* UnaryServerInterceptor up to the handler, with tagSpanFromMetadata.
ServeGRPC(r, t) == Serve(r, "grpc", t)

InUse(x) == kind[x] # "none"

\* Mutant of StartSpan: the span is started on the hub of the caller.
StartSpanOnCallersHub(x, n) ==
    /\ InUse(x)
    /\ ~InUse(n)
    /\ kind' = [kind EXCEPT ![n] = "operation"]
    /\ request' = [request EXCEPT ![n] = request[x]]
    /\ hub' = [hub EXCEPT ![n] = hub[x]]
    /\ stack' = [stack EXCEPT ![hub[x]][Len(stack[hub[x]])].span = n]
    /\ UNCHANGED <<tenantOf, reporting>>

\* StartSpan(x) makes the operation n, on a private clone of the hub of x.
StartSpan(x, n) ==
    /\ InUse(x)
    /\ ~InUse(n)
    /\ kind' = [kind EXCEPT ![n] = "operation"]
    /\ request' = [request EXCEPT ![n] = request[x]]
    /\ hub' = [hub EXCEPT ![n] = n]
    /\ stack' = [stack EXCEPT ![n] = CloneOf(hub[x], n, None)]
    /\ UNCHANGED <<tenantOf, reporting>>

-----------------------------------------------------------------------------
(* WithScope and CaptureException, as the reports use them.                *)

\* p begins to report on context x and hub h.
Begin(p, x, h, with, at) ==
    /\ pc[p] = "idle"
    /\ InUse(x)
    /\ pc' = [pc EXCEPT ![p] = at]
    /\ how' = [how EXCEPT ![p] = with]
    /\ ctx' = [ctx EXCEPT ![p] = x]
    /\ target' = [target EXCEPT ![p] = h]
    /\ UNCHANGED <<contexts, event>>

\* The report goes on at another place.
Moves(p, to) ==
    /\ pc' = [pc EXCEPT ![p] = to]
    /\ UNCHANGED <<kind, contexts, how, ctx, target>>

\* PushScope by p on the stack s: a clone of the top, for p to set.
PushScope(s, p) == Append(s, [Last(s) EXCEPT !.by = p])

\* What the reports set: all of them the span of their context, LogError its
\* label and Error its tags.
Filled(p, s) ==
    [s EXCEPT !.span = ctx[p], !.by = None,
              !.label = IF how[p] = "LogError" THEN p ELSE @,
              !.tags = IF how[p] = "Error" THEN @ \cup {p} ELSE @]

\* Mutant of SetScope: ConfigureScope, which sets the scope that stays.
ConfigureScope(p) ==
    /\ pc[p] = "set"
    /\ stack' = [stack EXCEPT ![target[p]][1] = Filled(p, @)]
    /\ Moves(p, "capture")
    /\ UNCHANGED event

\* p sets the scope it has pushed, which another's pop may have taken away.
SetScope(p) ==
    /\ pc[p] = "set"
    /\ stack' = [stack EXCEPT ![target[p]] =
                   [i \in DOMAIN @ |-> IF @[i].by = p THEN Filled(p, @[i]) ELSE @[i]]]
    /\ Moves(p, "capture")
    /\ UNCHANGED event

\* CaptureException.
Capture(p) ==
    /\ pc[p] = "capture"
    /\ event' = [event EXCEPT ![p] = [Top(target[p]) EXCEPT !.by = None]]
    /\ Moves(p, "pop")
    /\ UNCHANGED stack

\* p has reported with a scope it did not push.
Unscoped(p) == how[p] \in {"plain", "handler"}

\* The report is over. What is left of a hub of its own is garbage.
Return(p) ==
    /\ pc' = [pc EXCEPT ![p] = "idle"]
    /\ how' = [how EXCEPT ![p] = "none"]
    /\ ctx' = [ctx EXCEPT ![p] = None]
    /\ target' = [target EXCEPT ![p] = Current]
    /\ event' = [event EXCEPT ![p] = Plain]
    /\ UNCHANGED <<kind, contexts>>

\* Mutant of PopScope: a report that pushed no scope pops one.
PopScopeAlways(p) ==
    /\ pc[p] = "pop"
    /\ stack' =
         IF how[p] = "Error" THEN [stack EXCEPT ![p] = <<Plain>>]
         ELSE IF Len(stack[target[p]]) = 1 THEN stack
         ELSE [stack EXCEPT ![target[p]] = Front(@)]
    /\ Return(p)

\* PopScope takes the top away, whosever it is, but never the last.
PopScope(p) ==
    /\ pc[p] = "pop"
    /\ stack' =
         IF how[p] = "Error" THEN [stack EXCEPT ![p] = <<Plain>>]
         ELSE IF Unscoped(p) \/ Len(stack[target[p]]) = 1 THEN stack
         ELSE [stack EXCEPT ![target[p]] = Front(@)]
    /\ Return(p)

-----------------------------------------------------------------------------
(* The reports.                                                            *)

\* The context holds a span under svclib's key.
Tracked(x) == kind[x] # "http"

LogError(p, x) ==
    /\ IF Tracked(x)
       THEN /\ Begin(p, x, hub[x], "LogError", "set")
            /\ stack' = [stack EXCEPT ![hub[x]] = PushScope(@, p)]
       ELSE /\ Begin(p, x, hub[x], "plain", "capture")
            /\ UNCHANGED stack
    /\ UNCHANGED kind

\* The function StartSpan returned, called once, given an error.
Finish(p, n) ==
    /\ kind[n] = "operation"
    /\ kind' = [kind EXCEPT ![n] = "finished"]
    /\ Begin(p, n, hub[n], "finish", "set")
    /\ stack' = [stack EXCEPT ![hub[n]] = PushScope(@, p)]

\* Mutant of Error: the report runs on the hub of the request.
ErrorOnSharedHub(p, x) ==
    /\ Begin(p, x, hub[x], "Error", "set")
    /\ stack' = [stack EXCEPT ![hub[x]] = PushScope(@, p)]
    /\ UNCHANGED kind

\* Logger.Error of a logger bound to x: captureHub clones the hub of x.
Error(p, x) ==
    /\ Begin(p, x, p, "Error", "set")
    /\ stack' = [stack EXCEPT ![p] =
                   PushScope(<<[Top(hub[x]) EXCEPT !.by = None]>>, p)]
    /\ UNCHANGED kind

\* The handler of r returns an error: handleGRPCError sets the scope on top,
\* then captures. Goroutines may go on with the context of r.
HandleGRPCError(p, r) ==
    /\ kind[r] = "grpc"
    /\ kind' = [kind EXCEPT ![r] = "replied"]
    /\ Begin(p, r, hub[r], "handler", "capture")
    /\ stack' = [stack EXCEPT ![hub[r]] = Append(Front(@), [Last(@) EXCEPT !.span = r])]

-----------------------------------------------------------------------------
Report(p) ==
    \/ \E x \in Contexts : LogError(p, x) \/ Error(p, x)
    \/ \E n \in Operations : Finish(p, n)
    \/ \E r \in Requests : HandleGRPCError(p, r)
    \/ SetScope(p) \/ Capture(p) \/ PopScope(p)

Next ==
    \/ \E r \in Requests, t \in Tenants \cup {None} : ServeHTTP(r, t) \/ ServeGRPC(r, t)
    \/ \E x \in Contexts, n \in Operations : StartSpan(x, n)
    \/ \E p \in Goroutines : Report(p)

Spec == Init /\ [][Next]_vars

-----------------------------------------------------------------------------
(* Properties.                                                             *)

TypeOK ==
    /\ stack \in [Hubs -> Seq(Scope)]
    /\ \A h \in Hubs : stack[h] # <<>>
    /\ kind \in [Contexts -> {"none", "http", "grpc", "replied", "operation", "finished"}]
    /\ tenantOf \in [Requests -> Tenants \cup {None}]
    /\ request \in [Contexts -> Requests \cup {None}]
    /\ hub \in [Contexts -> Hubs]
    /\ pc \in [Goroutines -> {"idle", "set", "capture", "pop"}]
    /\ how \in [Goroutines -> {"none", "LogError", "finish", "Error", "plain", "handler"}]
    /\ ctx \in [Goroutines -> Contexts \cup {None}]
    /\ target \in [Goroutines -> Hubs]
    /\ event \in [Goroutines -> Scope]

Reported(p) == pc[p] = "pop"

(***************************************************************************)
(* An error is linked to the span of the context it is reported on, also   *)
(* if other goroutines push, set and pop scopes on the same hub in         *)
(* between: all scopes of one hub have one span, since neither StartSpan   *)
(* nor createGRPCSpan repoints the hub of its caller (span.go:43,          *)
(* interceptor.go:158).                                                    *)
(***************************************************************************)
EventsAreLinked ==
    \A p \in Goroutines : Reported(p) => event[p].span = ctx[p]

(***************************************************************************)
(* An error is tagged with the tenant of the request it comes from, or     *)
(* with none if the request has none, through every clone of a hub: the    *)
(* hub requests start from is never tagged (middleware.go:30,              *)
(* interceptor.go:185).                                                    *)
(***************************************************************************)
TenantsDoNotMix ==
    \A p \in Goroutines :
       Reported(p) => event[p].tenant = tenantOf[request[ctx[p]]]

(***************************************************************************)
(* "so tags never leak between goroutines" (logger/README.md:137): an      *)
(* error reported by Error carries the tags of that call, all other errors *)
(* carry the tags of no call (captureHub, logger.go:382).                  *)
(***************************************************************************)
TagsNeverLeak ==
    \A p \in Goroutines :
       Reported(p) => event[p].tags = IF how[p] = "Error" THEN {p} ELSE {}

(***************************************************************************)
(* When nobody reports on the hub of a request, it is as it was in the     *)
(* beginning: one scope, at the request's span, with its tenant and        *)
(* nobody's label or tags, in whatever order goroutines pushed and popped  *)
(* (the WithScope of logging.go:37 and span.go:95).                        *)
(***************************************************************************)
QuietHubIsClean ==
    \A r \in Requests :
       InUse(r) /\ (\A p \in Goroutines : pc[p] # "idle" => target[p] # hub[r]) =>
         stack[hub[r]] = <<[Plain EXCEPT !.span = r, !.tenant = tenantOf[r]]>>
=============================================================================
