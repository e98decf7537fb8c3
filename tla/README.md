# A verification project for svclib

svclib is a Go library that services put around their requests: Sentry spans
and hubs for HTTP and gRPC, OAuth token authorization with a revocation check
against the database, an outgoing HTTP client, and a structured logger. Most of
its functions are straight-line code that its unit tests cover well. What they
hardly reach is where requests meet: the grant cache and its singleflight
group, the process-wide span registry, hubs and builders that goroutines share.
This project models those parts in TLA+, model-checks them with TLC and proves
the most important results for every number of goroutines with TLAPS.

Paths below are relative to the repository (`oauth/grant.go` is
`src/oauth/grant.go` in PROJECT.json).

## 1. The system

| component | code | state it keeps | operations | what makes it correct |
|---|---|---|---|---|
| grant checker and cache | `oauth/grant.go`, `oauth/cache.go` | `memCache.data` under an RWMutex; a `singleflight.Group`; the row in `oauth_grants` is another service's | `Active`: tenant check, cache lookup, merged query with its own timeout, stale fallback; `Get`, `Set` | a verdict rests on a status the row recently had; one query per key at a time; a store never goes back in time; every call returns |
| span registry | `internal/registry.go` | one map from trace id to span, for the whole process | `StoreSpan`, `LoadSpan`, `DeleteSpan` | holds only spans of calls in flight |
| gRPC interceptors | `interceptor.go` | none of their own: registry, context, metadata, hub scopes | client: file the span, send its trace id, delete the entry; server: look it up, fall back to the header, create the span, map the error, finish | a call stays in its trace; its span has the right parent and is sent; nobody else's scope is changed |
| spans and context | `span.go`, `context.go` | two spans, a trace id, a hub and a tenant in a context | `StartSpan`, `SpanFromContext`, `TraceIDFromContext`, `WithTenantID` | a span's scope is private to it; whatever is derived from a request stays in its trace and in its operations |
| error reporting | `logging.go`, `logger/logger.go` | the scope stack of the hub in the context | `LogError`, `Logger.Error`, `handleGRPCError` | an event has the span and the tenant it was reported on; tags of one event do not appear on another |
| structured logger | `logger/logger.go` | a logger's fields, trace, span and hub, never changed | `New`, `WithFields`, `WithContext` | a logger keeps to the requests it was bound to |
| outgoing HTTP client | `http/http.go` | an `API` value, which refers to a header map | setters that return a copy; `POST`, `GET`, ... which execute | a request is what its setters say; a request ends; its body is closed |
| authorization pipeline | `oauth/authorize.go`, `oauth/http.go`, `oauth/grpc.go`, `oauth/errors.go`, `oauth/context.go` | none | verify, check scopes, ask `Active`; map the result to a status | no claims reach a handler unless every stage passed |
| token verifier | `oauth/verifier.go`, `oauth/keys.go`, `oauth/claims.go` | the parsed keys, never changed | verify | a token is accepted only with a known key, the right issuer and a live expiry |
| issuer derivation | `oauth/issuer.go` | none | pure | |
| tenant middleware | `middleware.go` | tags on the request's hub | `TenantTaggingMiddleware` | an event has the tenant of its own request |
| initialisation, tests, examples | `sentry.go`, `testing.go`, `grpc.go`, `examples/` | none | | |

How they interact. An HTTP request of the gateway runs in a transaction made by
`sentryhttp`; its handler calls a gRPC method through the client interceptor,
which puts the span into the registry, and the server interceptor, in the same
process, takes it out of the registry again: the two sides share nothing else
but the metadata of the call. On the way in, the authorization adapters call
`GrantChecker.Active`, whose callers meet in the cache and in the singleflight
group. Handlers then derive contexts and loggers from the context they are given, and
use the hub in it (`StartSpan`, `LogError`, the logger), which goroutines of one
request share, and the HTTP client, whose
builders a service usually keeps in package variables that all requests share.

Where it is hard, in the words of `PROJECT.json` "hazards": a lookup and a
`group.Do` that are two steps; an entry judged after the lock is released; an
age that counts from the store and not from the read of the row; a query that
runs into its timeout while the reply is on its way; a fallback that must be
reached by a failed query only; two requests with one trace id in a map keyed by
trace id; an entry deleted by another call; a span that finishes after its
transaction was sent; a scope of a hub that is not the request's own; two spans
in a context that advance separately; a map written by a method that looks like
a reader.

## 2. Modules

| module | what it is | extends |
|---|---|---|
| `GrantRows` | the clock, the rows and the calls, which the next three share | |
| `GrantPromise` | what `Active` promises: no cache, no group, no query | `GrantRows` |
| `GrantChecker` | `Active`, `memCache` and the group, in detail | `GrantRows`, instances `GrantPromise` |
| `GrantClaims` | a sentence of the comments that the code does not live up to | `GrantChecker` |
| `MCGrantChecker` | instance for TLC | `GrantChecker` |
| `GrantCheckerProofs` | invariants and action properties, proved | `GrantChecker` |
| `GrantRefinement` | `GrantChecker` implements `GrantPromise`, proved | `GrantCheckerProofs` |
| `Interceptors` | both interceptors, registry, hub scopes | |
| `InterceptorClaims` | sentences the code does not live up to | `Interceptors` |
| `MCInterceptors` | instance for TLC | `InterceptorClaims` |
| `InterceptorsProofs` | invariants, proved | `Interceptors` |
| `HttpApi` | builders, header maps, execution | |
| `HttpClaims` | a sentence the code does not live up to | `HttpApi` |
| `MCHttpApi` | instance for TLC | `HttpClaims` |
| `HttpApiProofs` | invariants and an action property, proved | `HttpApi` |
| `Authorize` | requests from their arrival to the handler or the refusal | `GrantRows`, instances `GrantPromise` |
| `AuthorizeProofs` | invariants, proved, and the use of the promise | `Authorize` |
| `Service` | the requests of `Authorize` over the checker of `GrantChecker` | `GrantChecker`, `Authorize` |
| `MCService` | instance for TLC | `Service` |
| `ServiceProofs` | `Service` implements `Authorize`, and what follows, proved | `Service`, `GrantRefinement`, `AuthorizeProofs` |
| `HubScope` | hubs, their scope stacks, and all that reports errors on them | |
| `HubClaims` | a sentence the code does not live up to | `HubScope` |
| `HubOverlap` | a history beside `HubScope`: which reports met another one on their hub | `HubScope` |
| `MCHubScope` | instance for TLC | `HubClaims`, `HubOverlap` |
| `HubScopeProofs` | invariants, proved | `HubOverlap` |
| `RequestContext` | what contexts and loggers of a request hold, however derived | |
| `MCRequestContext` | instance for TLC | `RequestContext` |
| `RequestContextProofs` | invariants, proved | `RequestContext` |

### 2.1 GrantChecker

| state | code |
|---|---|
| `now` | `time.Now` as `memCache.now` reads it, in ticks |
| `db` | the status column of the row, `"absent"` without a row |
| `heldUntil` | history only: when the row last stopped having each status |
| `cache` | `memCache.data` |
| `group` | the keys singleflight has a flight for, with the goroutine that runs it |
| `pc`, `grant`, `calledAt`, `retry`, `seen` | the locals of a call of `Active` and where it is; `retry` is `err != nil` after `group.Do` |
| `began`, `result` | the locals of the function passed to `group.Do` |

| action | code |
|---|---|
| `Active` | `grant.go:97-104`: a call; a refused tenant label is answered at once |
| `Lookup` | `cache.go:42-48`: the map read under the RLock |
| `Judge` | `cache.go:49-59`, `grant.go:106-108`: the age, with a clock read after `RUnlock`, and the caller's use of it |
| `Evict` | `cache.go:50-58`: the second look under the write lock |
| `Join`, `Lead` | `group.Do`: take part in a flight or start one, which sends the query on a detached context with `grantQueryTimeout` |
| `ReadRow` | the database reads the row; the reply is on its way |
| `Store` | `grant.go:117-128`: the reply is there, a status goes into the cache, an absence does not |
| `Fail`, `TimeOut` | an error of the query, at any time or by the timeout |
| `Publish` | the flight ends: the group forgets the key and all callers that share it wake, `grant.go:129-139` |
| `Tick`, `ChangeRow` | the environment |

`Lookup` and `Judge` are two steps because the lock is released between them;
`Lookup` and `Join`/`Lead` are two because nothing holds them together;
`ReadRow` and `Store` are two because the row can change in between. The whole
flight is not under any lock but the group's, and that is modelled by `group`.

The request context of a caller is no part of the model, because no step reads
it: the query runs under `context.WithoutCancel`, and `group.Do` waits on a
WaitGroup. So a caller that has gone away still takes its steps, in the code as
in the model.

Assumption on time: the steps a goroutine takes on its own last less than a
tick, and a flight does not outlive its deadline. `Tick` waits for a flight at
its deadline; it waits for nobody else. Without it no bound on the age of a
verdict exists, in the program either: a goroutine may be descheduled for any
time between its clock read and its return.

### 2.2 Interceptors

`registry` is `activeSpans`; `client`, `span`, `id`, `header` are the client
side of a call with its metadata; `server`, `via`, `parent` the server side;
`open`, `recorded` what sentry-go sends; `globalSpan` the span that the scope of
`CurrentHub` points at; `overlapped` is history. The hubs of requests are in
`HubScope`.

`Invoke` is `interceptor.go:23-46` up to the invoker with `StoreSpan`;
`PassThrough` its early return without a span; `Answered` and `GiveUp` the
return of the invoker, each with the deferred `DeleteSpan`. `Extract` is
`extractSentryContext` with its three outcomes, `CreateGRPCSpan` is
`createGRPCSpan`, `Reply` the handler's return, the status and the deferred
`Finish`. `Remote` is a client of another process, `HttpFinish` the end of the
HTTP request in `sentryhttp`.

sentry-go is not in the repository and is modelled as the code uses it:
`StartSpan` and `StartTransaction` set the span on the scope of the hub in the
context they are given, and on `CurrentHub` if there is none; a finished span
is sent with its transaction if the transaction has not been sent. Whether the
context of a server interceptor already has a hub depends on the interceptors in
front of it; both cases are possible (`StartTransaction(x)`). The tenant tag and
the report of an error are in `HubScope`, the context a handler gets is in
`RequestContext`; user tags, breadcrumbs and the status mapping concern one
request only and are left out. A `sentry-trace` header is taken to be well
formed.

### 2.3 HttpApi

A builder is a record; its header map lives in `heap`, so that copies could
share one. `given` and `asked` are histories of what the setters were told. The
setters are one action each (`SetQuery` and `SetQueries` are one). An execution is
`Execute`, `BuildPayload` (or `Refuse`), `SetContentTypeIfNeeded`, `FillHeaders`,
then `DoFails`, or `Respond` and one of `ReadBody` and `ReadFails`, the two exits
that close the body: five places in which another goroutine can come between.
`FillHeaders`
reads the map in any order, as Go does, and `http.Header.Set` makes one header of
`Content-Type` and `content-type`. `Crash` is the Go runtime ending the process
when a map is written and used at once; the race may also go unnoticed, so it is
one of two outcomes. An idle goroutine may be calling a setter, which reads the
map, at any time.

Not modelled: the contents of URL and query; a body that is an `io.Reader`,
which the first request reads up (a hazard without a property, since the code
makes no promise for it); logging.

### 2.4 HubScope

`stack` holds the scope stack of every hub: the process-wide one, one for each
request and each operation (a call of `StartSpan`), and the one a `Logger.Error`
makes for itself. `hub`, `request` and `kind` are what a context holds and how
far it is; `tenantOf` is history. `pc`, `how`, `ctx`, `target` say where a
goroutine is in a report, with what, on which context and which hub; `event` is
the scope its error went out with. Of a scope there are the span, the tenant
tag, the `error_context` label and the tags of `Error`; `by` marks the pointer
to the scope a goroutine was given by `PushScope`.

| action | code |
|---|---|
| `ServeHTTP`, `ServeGRPC` | `middleware.go:21-31` behind `sentryhttp` (and its variant with an extractor), `interceptor.go:61-100` with `createGRPCSpan` and the tenant of `tagSpanFromMetadata`: a request gets a clone of `CurrentHub`, with its span and its tenant |
| `StartSpan`, `Finish` | `span.go:38-88`, and the function it returns, given an error |
| `LogError` | `logging.go:22-66`, with a span under svclib's key and without |
| `Error` | `logger.go:362-421` of a logger bound to the context |
| `HandleGRPCError` | `interceptor.go:204-229` |
| `SetScope`, `Capture`, `PopScope` | the steps of `hub.WithScope` after its `PushScope`, and `hub.CaptureException` |

A goroutine may report on any context, which is what the library is for: the
context of a request goes to every goroutine it starts. Each call on a hub takes
the hub's lock and is one step; between two calls anything can happen, so the
scope a goroutine sets may have been popped by another one, and `Capture` takes
whichever scope is on top. `HandleGRPCError` sets the top scope in one step and
captures in the next. The function `StartSpan` returns is called once, as its
documentation shows. `HubOverlap` adds the variable `disturbed`, the goroutines
whose report has met another's scope on the hub of its context: at any time, or, for
`Error`, when it made its clone. No action reads it (`OverlapSpec`). Plain spans,
and loggers bound to one context and used in another, are in `RequestContext`. Not
modelled: reports on contexts without a hub (`LogError` reports on `CurrentHub`),
`LogError`'s branch for a trace id without a span (both keys are always set
together), the "grpc" context that the end of a handler leaves on the scope.

### 2.5 Authorize

`stage` and the variables of `GrantRows` are those of `GrantPromise`, whose
actions Authorize uses for the calls of `Active`: the pipeline is proved over what
the grant checker promises, and `Service` puts it over the checker itself.
`reply` is how far a request is, or its status; `endpoint`, `token`,
`arrivedAt` what it is. A goroutine serves one request.

| action | code |
|---|---|
| `Refuse` | `authorize.go:36-42` returns an error, which the adapter maps to a status (`http.go:26-33`, `grpc.go:24-27`) |
| `Admit` | no grant check: the handler runs (`http.go:34`, `grpc.go:28`) |
| `CheckGrant` | `Active` is called with the claims of the token |
| `ActiveMoves` | a step of the promise |
| `Answer` | `Active` has returned: the handler runs, or its error is mapped |

A token is a record of what the verifier tests: algorithm, kid, signer, issuer,
audience, exp, nbf, tenant and subject (one `grant`), scopes. A static key is a
`PublicKeys` that has one key for all kids. An endpoint has an adapter (HTTP,
HTTP with the application's error handler, gRPC), its required scopes, the grant
check or not, and the library's verifier or one of the application's, which may
fail for reasons of its own. Not modelled: parsing and signatures, the decoding
of PEM keys at startup, the text of challenges and messages.

### 2.6 Service

A service with its default cache: `authorize` calls `Active` in the goroutine of
the request, so a call of `GrantChecker` and a request of `Authorize` with the same
name are one goroutine. The two modules share the variables of `GrantRows`, and
`Service` extends both, with one action for each step of the program:

| action | what it is |
|---|---|
| `RefuseRequest`, `AdmitRequest` | `Refuse`, `Admit`; the checker is not called |
| `CallActive` | `Verified` of Authorize and `Active` of GrantChecker, with the grant of the token |
| `CheckerMoves` | any other step of GrantChecker, of the database or of the clock |
| `AnswerRequest` | `Answer`, once the call has its result |

`stage`, which `Authorize` keeps for itself, follows the checker's variables here
(`Stages`, the mapping under which `GrantChecker` keeps its promise). `Active` is
called by requests only: `Next` of GrantChecker with its arbitrary calls is not
used.

### 2.7 RequestContext

`context` is what each context holds: the span under svclib's key, the span
under Sentry's key, the trace id, the hub, the tenant, the incoming metadata.
`logger` is what each logger holds. A span is the sequence of names from the
root of its trace to itself, so that "is a child of" is `Front` and "lies
within" is `IsPrefix`. `kind`, `within`, `bound`, `given` and the field
`request` are histories.

| action | code |
|---|---|
| `ServeHTTP` | `sentryhttp`, with the tenant the application puts on the context |
| `ServeRegistered`, `ServeContinued`, `ServeRoot` | `interceptor.go:60-92` with a parent from the registry, with one from the header, and without; only the last adopts the span's context |
| `Background` | work that starts from `context.Background()` |
| `StartSpan` | `span.go:38-83`; without a hub it makes no context |
| `PlainStartSpan` | `sentry.StartSpan` in a handler or in an operation |
| `AddTenant` | `context.go:19-24` |
| `WithFields`, `WithContext` | `logger.go:117-225`: a copy of a logger, with a field or bound to a context |

`SpanFromContext` is the four cases of `context.go:63-73`, `TraceIDFromContext`
their fallback. A context or a logger never changes once it is made, so every
interleaving of the goroutines that make them is a sequence of these actions.

Two pieces of code turn out never to run in this library, and the model says so
where it leaves them out: the branch of `StartSpan` for `context.Background()`
(it has no hub, so `StartSpan` has returned), and the fallback of
`TraceIDFromContext` (trace id and span are always stored together). Not
modelled: the fields of a logger besides the tenant, the parsing of the
platform's trace headers (a header is there or not), the text of log entries.

## 3. What TLC checks

Every property of a passing run has a mutant in PROJECT.json: a plausible bug
in the code it is about that TLC finds to violate it.

| run | result | distinct states | what it shows |
|---|---|---|---|
| `grant_safety` | passes | 1.3 million | two callers, one grant, one refused label: `VerdictJustified`, `SingleFlight`, `CacheMovesForward`, `EvictionSparesUsable`, `QueriesAreNeeded`, and `KeepsPromise`, the refinement of `GrantPromise` |
| `grant_liveness` | passes | 0.33 million | `EveryCallReturns`, under fairness |
| `interceptors_safety` | passes | 1.6 million | three calls over three requests, two of them in one trace, and from elsewhere: `TraceContinuity`, `EntriesAreInFlight`, `LoneCallIsChild`, `LoneCallIsRecorded`, `LoneCallsSpareSharedHub` |
| `http_api` | passes | 0.65 million | two goroutines, two builders: `BodiesAreSentAsBuilt`, `OnlyInternalCallsWaitForEver`, `NoBodyStaysOpen`, `OnlyUnlabelledBuildersCrash` |
| `service` | passes | 1.5 million | two requests over the checker and its cache, three endpoints, two tokens or none: `HandlersAreEntitled`, `RefusalsNameTheFault`, `GraceIsForOutages`, and `ImplementsAuthorize`, the refinement of `Authorize` |
| `hub_scope` | passes | 3.0 million | two goroutines, two requests, two operations: `EventsAreLinked`, `TenantsDoNotMix`, `TagsNeverLeak`, `QuietHubIsClean`, `LoneLabelsAreOwn` |
| `request_context` | passes | 0.6 million | four contexts, three loggers, derived from each other in any way: `StaysInTrace`, `OperationsNest`, `PlainSpansJoin`, `LoggersKeepToTheirRequests` |
| `grant_revocation`, `interceptors_lookup`, `interceptors_hub`, `http_shared`, `hub_labels` | violated | | section 5 |

What the main properties say:

- `VerdictJustified`: a grant rests on an active row, a denial on a revoked or
  a missing one, held at most `TTL + QueryTimeout` before the call; `Grace`
  more only if the query of this very call failed; a missing row at most
  `QueryTimeout` before. The unit tests check the age test with a fake clock;
  they cannot check it against rows that change and replies that are late.
- `CacheMovesForward`: a store never brings back an older status. It holds
  because flights for one key do not overlap (`SingleFlight`); the mutant that
  breaks the one breaks the other.
- `EvictionSparesUsable`: the second look under the write lock is needed.
- `QueriesAreNeeded`: a call queries beside a fresh entry only if the entry was
  stored after the call began. So much is true of "a live grant costs at most one
  DB read per TTL" (`oauth/cache.go:8`): a caller that missed before another's
  flight ended, and reaches `group.Do` after, reads a second time, for the cache
  is not looked at again inside the flight.
- `HandlersAreEntitled`, `RefusalsNameTheFault`: the windows of the promise reach
  through the pipeline to the handler and to the client. An outage is never
  answered with 401, and never opens the door.
- `GraceIsForOutages`: two requests share a cache and a flight, but not a grace. A
  handler that runs on an entry older than the TTL does so because the query its
  own request waited for has failed.
- `ImplementsAuthorize`: what requests see of the checker is what `GrantPromise`
  says. A fallback reached without a failed query, or an outage reported without
  one, would be seen by requests and break it.
- `TraceContinuity`: whatever happens to a call's entry, its span is in the
  trace its metadata name.
- `EntriesAreInFlight`: the registry has no other eviction than the deferred
  delete, and it is enough.
- `LoneCallIsChild`, `LoneCallIsRecorded`: a call alone on its trace id gets
  its caller's span as its parent and reaches Sentry with it. For calls that
  share a trace id both fail, see section 5.
- `LoneCallsSpareSharedHub`: where `CurrentHub` is repointed (section 5,
  `interceptors_hub`), it is for a call from elsewhere, for one that shared its
  trace id, or for one whose caller gave up. A call beside all these, that is
  alone on its trace and waited for, never does it.
- `BodiesAreSentAsBuilt`: what was executed on a builder, or derived from it,
  before or meanwhile does not show in the encoding and the label of a request
  with a body, although executing writes to the builder. Both are compared with
  what the setters gave (`given`), not with what the code finds in its map. It
  says so of chains that set the header as "Content-Type"; for those that spell it
  otherwise it does not hold, see section 5.
- `NoBodyStaysOpen`: each of the two exits of `executeRequest` after a response
  closes the body; the mutant forgets it where reading fails.
- `OnlyUnlabelledBuildersCrash`: what is true of the builders' thread safety
  (section 5, `http_shared`). A builder that was given a `Content-Type` may be
  shared at will, and so may one that has sent a body before.
- `EventsAreLinked`, `TenantsDoNotMix`: an error goes out with the span it was
  reported on and the tenant of its request, although the scope it goes out with
  may be another goroutine's: all scopes of one hub agree in both, because
  nothing repoints the hub of somebody else.
- `TagsNeverLeak`: the tags do not agree on one hub, so `Error` needs the clone.
- `QuietHubIsClean`: pushes and pops in any order leave the scope of the request
  as it was, once nobody reports on it.
- `LoneLabelsAreOwn`: what is true of the labels (section 5, `hub_labels`). If no
  other goroutine has a scope on the hub during a report, `LogError` sends its own
  label and every other report nobody's, or that of the operation it is made in:
  `StartSpan` clones the top scope, and an operation started during another's
  `LogError` keeps that label. So it is whatever earlier reports did to each
  other's scopes. The mutant, in which a report pops although it pushed nothing,
  breaks it.
- `StaysInTrace`: the trace found in a context is that of its request, after any
  mixture of operations, plain spans and tenants. The tempting simplification,
  to prefer Sentry's key, breaks it in a handler whose plain spans are detached.
- `OperationsNest`: the span found in a context, which the next operation gets
  for its parent, lies within every operation around it. Preferring Sentry's key
  only within the same trace, as the comment in `context.go` discusses, breaks
  this one.
- `PlainSpansJoin`: a plain span lies within the request wherever the context it
  starts from came from `sentryhttp` or was adopted from the call's own root.
- `LoggersKeepToTheirRequests`: binding and `WithFields` never reach the logger
  they were called on, nor another one made of it.

Not promised, and not checked: a degraded call may answer "unavailable" although
another caller refreshed the entry between its read and its eviction; its second
look deletes nothing but still reports a miss (`cache.go:57`).

### Bounds

| bound | value | why it is enough |
|---|---|---|
| `Callers` | 2 | leader and waiter, or two leaders one after the other; nothing in the code relates three callers of a key. The proofs are for any number |
| `Grants` | 1 | keys meet in the two maps only, and no step of one key reads another |
| `TTL`, `Grace`, `QueryTimeout` | 1 | each is a window in which one change of the row fits, and each can be told from the others |
| `MaxTime` | 3 (2 for liveness) | an entry can be stored, age past `TTL`, past `TTL + Grace`, and be looked up again. No call starts later, and calls under way still end |
| `MinHold` | 1 | a row changes once a tick, the most the windows can tell apart |
| calls, requests, traces | 3, 3, 2 | two requests in one trace and one beside them; the third call can be a bystander of the race of the other two |
| `Builders`, `Goroutines` | 2, 2 | a builder and its copy, in turn each other's original, any number of times; the racing pair |
| `Goroutines`, `Requests`, `Operations`, `Tenants` (hubs) | 2, 2, 2, 1 | two goroutines on one hub or on two; two requests, with and without a tenant, for what one could leave to the other; an operation within an operation |
| `Contexts`, `Loggers`, `Tenants` (contexts) | 4, 3, 1 | a request and three derivations, which reach every case of `SpanFromContext` and a second step in it; or two requests and a derivation of each; an original and two loggers made of it, or a chain. The proofs are for any length |
| `Callers`, `TTL`, `Grace`, `QueryTimeout`, `Leeway`, `MaxTime`, `MinHold` (service) | 2, 1, 1, 1, 1, 3, 2 | a row can leave the TTL's window and be served in grace, a token expire between two arrivals; rows that change more often are the business of `grant_safety` |
| tokens | 2 and none | a good one; and one with a malformed tenant and without scopes that expires on the way; the verifier's other tests are conjuncts of the same condition, and the proofs are for any tokens |
| headers, bodies, timeouts, methods | 3, 3 (+ nil), {0, 5}, {GET, POST} | a wanted and an unwanted value of each test in the code, and the key of another spelling |

Callers, calls, goroutines, builders, contexts and the loggers made later are
symmetric sets in the safety runs.
The liveness run uses no symmetry. Deadlock is checked in every run; where a
bounded instance comes to its end a step says so and requires that all is
over (`Rest`: every call returned; `Finished`: every call replied to and every
transaction sent, or all names of contexts and loggers used up; `Halted`: the
process has ended), so that a goroutine
waiting for ever shows as a deadlock.

### Fairness

`EveryCallReturns` assumes weak fairness of `Step(c)`, since the Go scheduler
runs every runnable goroutine and `TimeOut` is a runtime timer, and of `Tick`.
It assumes nothing of the database: `ReadRow` and `Fail` may never happen, and
the timeout alone has to end the flight (the mutant without it violates the
property). The client and server steps of `Interceptors` and the requests of
`HttpApi` have no liveness property: handlers, and requests on an internal
builder, may take for ever, and the code allows it. `HubScope` has nothing to
wait for: its steps take short locks and no goroutine waits for another. Nor has
`RequestContext`, where every action is a call that returns.

## 4. What TLAPS proves

From the assumptions on the constants only (`TimingAssumption`,
`KeysAssumption`, `NoCallerAssumption`, `NoEntryAssumption`; for HttpApi
`InputsAssumption`, `NoApiAssumption`; for the others see below): any callers,
grants, windows, builders, calls, requests, contexts.

**GrantCheckerProofs.** `VerdictJustified` is not inductive: a verdict comes
from an entry read earlier, the entry from a reply, the reply from a row. The
inductive invariant is `Evidence`. It says for each of these places how old the
evidence in it can be: a reply is of its flight's time (`FlightTrue`), an entry
was true at most `QueryTimeout` before it was stored (`CacheTrue`, from
`FlightTrue` and the deadline), and so was the copy of it a caller holds
(`SeenTrue`). `HeldSinceStable` carries evidence over the changes of a row.

- `EvidenceInvariant`, `TypeCorrect`, `VerdictsAreJustified`.
- `FlightsAreSingle`: `SingleFlight` with `FlightsHaveLeaders`, its converse.
- `CacheOnlyMovesForward`: from `OrderInvariant`, that a flight which has not
  stored yet began after the entry in the cache was stored, which needs
  `SingleFlight`.
- `EvictionSparesUsableEntries`.
- `QueriesAreOnlyWhereNeeded`: from `MissesInvariant`. Between a lookup and
  `group.Do` the snapshot of a caller may be replaced, but only by an entry
  younger than the call, and what it read stays too old, for time moves forward.

**GrantRefinement.** `CallsQueryOnce`: a call that has failed a query is only in
its fallback lookup. `PromiseKept`: `Spec => KeepsPromise`. The mapping forgets
the cache, the group and the flights, and names the stage of a call: its
result, or degraded once its query has failed, or pending. The steps of a lookup
and of a flight change nothing the promise sees; `Active` begins a call; a
`Judge` or a `Publish` with a verdict is `GrantCalls` or `DenyCalls`, by the
evidence of `JudgeVerdict` and of the flight; a `Publish` of an error is
`Degrade` of the whole party, whose calls are all still pending by
`OneQueryPerCall`; a miss in the fallback is `GiveUp`.

**HttpApiProofs.** `HttpInv`: a builder has a header map of its own (`OwnMaps`),
which differs from what its setters asked for by the default Content-Type at
most (`MapsAreAsGiven`), and each request under way has taken from it what it
should (`RequestsAreAsBuilt`). From it `HttpTypeCorrect`, `TimeoutsAreAsAsked`,
`BodiesAreClosed`, and `RequestsGoOutAsBuilt`: where the setters used the key
"Content-Type", that one key tells all they said (`KeyTellsAll`), so the code, which
looks at no other, encodes and labels as they said. A crash needs a goroutine that is about
to write the default, and by `MapsAreAsGiven` the map it writes to is then still
what the setters asked for (`DefaultedIsLabelled`): `LabelledBuildersAreSafe`, for
each step.

**AuthorizeProofs** (`TokensAssumption`, `TimingAssumption`,
`EndpointsAssumption`). `Inv` follows each request: while `Active` is under way
its token is valid and has the scopes, and the verdict has a reason in the window
(`InFlight`); an answer keeps the reason. `OnlyEntitledAreHandled`,
`EveryRefusalNamesTheFault`, `RequestsTypeCorrect`; `HandlersHaveTheirVerdict`: the
verdict a handler runs on is that of its request's own call, with the grant of its
token; `RequestsUseThePromise`: every step is one of `GrantPromise` or changes
nothing in it.

**ServiceProofs.** The composition, in both directions. A service is a behaviour
of `GrantChecker` (`ServiceUsesChecker`: a request's steps leave the checker alone,
and a verified token has a key for `Active`), so the invariants of the checker
hold in it. It is a behaviour of `Authorize` (`ServiceImplements`): that `stage`
follows the checker is an invariant (`StagesFollow`); with it a call is
`CheckGrant` (`CallRefines`), and a step of the checker is, by the lemmas of
`GrantRefinement`, a step of the promise, which is `ActiveMoves`, or nothing that
requests can see (`CheckerRefines`). The lemmas need `Evidence` and
`OneQueryPerCall`, which hold since the service is a behaviour of the checker.
From `ServiceImplements` follow `ServiceTypeCorrect`, `ServiceHandlersAreEntitled`
and `ServiceRefusalsNameTheFault`; from both `OnlyOutagesHaveGrace`, which speaks of
requests and of `retry`: the handler has the verdict of its own call
(`HandlersHaveTheirVerdict`), and that verdict is justified with the grace of this
call (`ServiceVerdictsAreJustified`). The modules are joined by EXTENDS and not by
INSTANCE with a substitution, as the prover does not take a theorem of an instance
for a fact; that is why no two names of `GrantChecker` and `Authorize` are alike.

**InterceptorsProofs** (`TraceOfAssumption`, `NoneAssumption`). Which parent a
call gets depends on what the registry holds when its server looks. `IInv` ties
the entry of a trace to a call in flight (`EntriesAreInFlight`), the metadata of
a call to its caller's span (`MetadataAgree`), the parent a server found to that
metadata (`ParentsAgree`); for a call that no other one of its trace overlaps,
the entry is its own (`LoneCallsAreFiled`) and so is the parent
(`LoneCallsAreServed`). From it all five properties of `interceptors_safety`:
`RegistryHoldsCallsInFlight`, `TracesContinue`, `LoneCallsAreChildren`,
`LoneCallsAreRecorded`, `OnlyFallbacksRepointTheSharedHub`; and
`InterceptorsTypeCorrect`. `OnlyFallbacksRepointTheSharedHub` is what is true
where `interceptors_hub` is violated: the scope of `CurrentHub` is repointed for a
call from elsewhere, for one that shared its trace id with another call, or for
one whose caller gave up before it arrived. It takes a second invariant, that what
`CurrentHub` points at is the transaction of a fallback (`RepointedByFallback`),
and `LoneCallsAreServed`.

**HubScopeProofs** (`NamesAssumption`). A goroutine captures with whatever scope
is on top, so what an event carries is a property of all scopes of a hub:
`ScopesAreLinked` says that they agree in span and tenant, which holds because
each hub but the process-wide one belongs to one context (`HubsAreOwn`) and
reports stay on it (`ReportsAreOnTheirHubs`, `ErrorHubs`). From it
`EventsAreLinkedToTheirSpan`, `TenantsNeverMix`, `TagsStayOnTheirEvent`. That a
hub is clean in the end is a matter of counting: above its first scope there are
as many as goroutines are yet to pop one (`PushesAreCounted`), whoever pops
whose; with nobody left there is one, and no label was ever set on it
(`QuietHubsAreClean`). The same count shows that no pop empties a stack
(`HubScopeTypeCorrect`). It also gives a report that meets no other one its own
scope: with no rival there was one scope when it pushed (`PushOnQuietHub`), so
its own is the second and last, and no step of another goroutine reaches that
hub's stack until it has captured (`OthersLeaveAlone`). `Error` finds that one scope
when it clones (`ErrorOnQuietHub`), and then nobody else has its clone; a report
that pushes nothing captures with it (`UnscopedCapture`). Its label never changes
(`FirstLabelStays`): reports push, set and pop above it. `LoneReports` says so for
each step of a report and is inductive with `IInv`; `LoneReportsHaveTheirLabel`
follows.
`HistoryLooksOn` carries what is proved of `Spec` over to `OverlapSpec`, under
which the run checks it.

**RequestContextProofs** (`BaseAssumption`, `NoneAssumption`). The two spans of a
context go separate ways, but each is only ever extended. So it is enough to know
where each began (`Rooted`): svclib's within the span of the request and of all
operations around it, Sentry's within the span of the request where `sentryhttp`
or the adopting interceptor put it there. Each case of `SpanFromContext` then
gives `OperationsAreNested` and `DerivedContextsStayInTrace`, and plain spans
give `PlainSpansAreInTheRequest`. `LoggersAreBound` adds that the contexts a
logger was bound to are made, and `LoggersKeepTheirBinding` follows.

For each sentence of section 5 that does not hold, a theorem says how much of it
does: `VerdictsAreJustified` (the TTL, plus the time of a query),
`LoneCallsAreChildren` (the lookup, of calls alone on their trace),
`OnlyFallbacksRepointTheSharedHub`, `LabelledBuildersAreSafe`,
`LoneReportsHaveTheirLabel`.

Only model-checked: `EveryCallReturns`, since liveness under fairness is beyond
the prover. Every other property of a passing run is a theorem.

## 5. Where the code and its comments disagree

Each is a run that violates one property, which states the sentence.

| run | the sentence | the code |
|---|---|---|
| `grant_revocation` | `oauth/grant.go:60` the TTL "is the fleet-wide upper bound on revocation latency" | the age counts from the store, not from the read of the row: up to `grantQueryTimeout` more |
| `interceptors_lookup` | `interceptor.go:140` "this path shouldn't be hit since the registry lookup should succeed" | two calls with one trace id: the end of the first deletes the entry of the second |
| `interceptors_hub` | `README.md:607` "the server interceptor no longer repoint[s] a shared hub's scope" | the fallback starts its transaction before the request has a hub, on `CurrentHub` |
| `http_shared` | `http/http.go:127` "ensure immutability and thread safety" | executing writes the default Content-Type into the shared builder's map |
| `hub_labels` | `logging.go:21` "No special handling needed for goroutines - it just works!" | `LogError` pushes its scope on the hub all goroutines of the request share, and the error of one can go out with the label of another; so can one of `Error`, and of an operation started meanwhile |

Met while modelling, without a run of their own:

- `oauth/grant.go` says of a malformed tenant label that it "fails closed (403)";
  `Active` wraps `ErrGrantRevoked`, which both adapters map to 401 and
  `Unauthenticated`, as `Authorize` has it.
- `http/http.go:275` "Content-Type is matched case-insensitively per HTTP spec",
  `http/http.go:359` "sets default content type if not specified": `buildPayload`
  ignores the case of the value, but both look up the one key "Content-Type" in the
  builder's map, while `http.Header.Set` makes one header of all spellings. With
  `SetHeader("content-type", ...)` of the form type alone, a body that is not
  `url.Values` is sent as JSON, and since the default is added beside it, the header
  says JSON or form, by the order in which Go reads the map
  (`http/http.go:368`). The settings of `http_api` have this spelling;
  `WellSpelled` exempts such chains from `BodiesAreSentAsBuilt`.
- `oauth/grant.go:37` "a DB blip serves the last known value": an absent row is
  not cached and leaves an older entry where it is (`grant.go:122-124`), so the
  next failing query may serve that one, granted after denied. It is within the
  window of `VerdictJustified`.
- `interceptor.go:75-79` says that a plain `sentry.StartSpan` in a handler
  parents correctly unless the parent came out of the registry. With a parent
  from the header the span's context is not adopted either, and the plain span
  opens a detached transaction. That is why `PlainSpansJoin` speaks of
  `ServeHTTP` and `ServeRoot` only.
- `span.go:31` "innermost span": of plain spans nested in each other, or opened
  within an operation, `SpanFromContext` returns the operation around them. The
  comment in `context.go:56-58` says so of the first case. `OperationsNest` is
  what remains true.
- `logger/logger.go:98` "resolves the trace identifiers, tenant fields and
  Sentry hub/span at bind time": a bound logger that is bound again to a context
  without tenant or metadata keeps the old tenant and the platform's old trace
  beside the new span. `LoggersKeepToTheirRequests` therefore allows any binding
  for these two and only the last for the rest.

## 6. Not modelled, and why

- Custom `Cache` implementations, the database, `sentry-go`, `grpc`, `jwt`,
  `net/http`: other programs' code, modelled only as the code uses them.
- `oauth/issuer.go`, `sentry.go`, `testing.go`, `grpc.go`, the examples: pure
  functions, start-up calls and demonstrations, with no state of their own.
- Log formatting and stack traces: pure functions of one call.
- The decoding of keys, token parsing and signatures.
- Reports on contexts without a hub; in `RequestContext` `StartSpan` knows them.
- Bodies that are an `io.Reader`, how long after its token's expiry a handler
  may start, and which of two spellings of a header wins: the three hazards in
  PROJECT.json without a property, with the reason.

## 7. Plan

In the order of importance; what is done is marked.

1. `GrantPromise`, `GrantChecker`: done, proved, refinement proved.
2. `Interceptors` with the registry: done, proved.
3. `HttpApi`: done, proved.
4. `HubScope`: done, with the tenant of a request's events, proved.
5. `Authorize`: done over `GrantPromise`, proved; `Service`, over the checker
   itself, proved to implement it.
6. `RequestContext`, the spans and loggers derived from a request: done, proved.
7. Left: reports on contexts without a hub in `HubScope`; readers as bodies in
   `HttpApi`; a refinement between `Interceptors` and `RequestContext`, which
   share the three ways a handler gets its span.

The modules are written so that they can be proved about: constants with named
assumptions, one action per operation, no recursive operators.
