------------------------------ MODULE HttpApi ------------------------------
(***************************************************************************)
(* The outgoing HTTP client (http/http.go): builders whose setters return  *)
(* a changed copy, and requests executed on them, by any number of         *)
(* goroutines that share the builders.                                     *)
(*                                                                         *)
(* A builder refers to its header map; the map lives in heap, so that two  *)
(* builders could share one. Executing a request is not a read: it writes  *)
(* the default Content-Type into the map of the builder it is called on.   *)
(*                                                                         *)
(* Of the headers only those that end up as Content-Type matter here. They *)
(* have two keys in the map, since http.Header.Set makes one header of     *)
(* both. A body is a value; URL and query decide only where a request      *)
(* goes and whether it can be built.                                       *)
(***************************************************************************)
EXTENDS Integers

CONSTANTS
    Goroutines,     \* goroutines that build and execute requests
    Builders,       \* program variables that hold an API
    Settings,       \* pairs of a key and a value given to SetHeader(s)
    Bodies,         \* values given to SetBody, see Body
    Timeouts,       \* values given to SetTimeout
    Methods,        \* HTTP methods executed
    DefaultTimeout,
    Unset,          \* the map has no value for a key
    NoApi           \* no API: of a variable, or of an idle goroutine

ContentType == {"json", "form"}
HeaderKeys  == {"Content-Type", "content-type"}
HeaderMap   == [HeaderKeys -> ContentType \cup {Unset}]

\* Form data (url.Values), a value json.Marshal accepts, and one it refuses.
Body == {"nil", "values", "data", "bad"}

ASSUME InputsAssumption ==
    /\ Settings \subseteq HeaderKeys \X ContentType
    /\ Bodies \subseteq Body
    /\ Timeouts \subseteq Int
    /\ Methods \subseteq {"POST", "GET", "PUT", "PATCH", "DELETE"}
    /\ DefaultTimeout \in Nat \ {0}
    /\ Unset \notin {"json", "form"}

Api == [headers : Builders, body : Body, timeout : Int, isInternal : BOOLEAN]

ASSUME NoApiAssumption == NoApi \notin Api \cup Builders

VARIABLES
    api,        \* api[v]: the API that v holds
    heap,       \* heap[v]: the header map made with the API that v got first
    pc,         \* pc[p]: where goroutine p is
    on,         \* on[p]: the builder p makes a request of, or NoApi
    method,     \* method[p]: and the method
    payload,    \* payload[p]: how the body was encoded
    ctype,      \* ctype[p]: the Content-Type the request carries
    open,       \* goroutines that hold a response body not yet closed
    crashed,    \* the Go runtime saw a map in use by two goroutines and exited
    given,      \* history: the headers given[v] the setters put on v's API
    asked       \* history: which of SetTimeout and SetInternal came last

building  == <<api, given, asked>>
executing == <<on, method, payload, ctype>>
vars == <<building, heap, pc, executing, open, crashed>>

Empty == [k \in HeaderKeys |-> Unset]

\* Mutant of Fresh: the map is declared and never made.
FreshWithoutMap(v) ==
    [headers |-> NoApi, body |-> "nil", timeout |-> 0, isInternal |-> FALSE]

Fresh(v) == [headers |-> v, body |-> "nil", timeout |-> 0, isInternal |-> FALSE]

Init ==
    /\ api = [v \in Builders |-> NoApi]
    /\ heap = [v \in Builders |-> Empty]
    /\ pc = [p \in Goroutines |-> "idle"]
    /\ on = [p \in Goroutines |-> NoApi]
    /\ method = [p \in Goroutines |-> "none"]
    /\ payload = [p \in Goroutines |-> "nil"]
    /\ ctype = [p \in Goroutines |-> Unset]
    /\ open = {}
    /\ crashed = FALSE
    /\ given = [v \in Builders |-> Empty]
    /\ asked = [v \in Builders |-> "external"]

-----------------------------------------------------------------------------
(* The builder. v := w.SetX(...), where v is not being executed on: an API *)
(* that no variable holds any more is only seen by the request running on  *)
(* it, and is not followed further.                                        *)

InUse(v) == \E p \in Goroutines : on[p] = v

\* Mutant of Copy: the copy keeps the map of the original.
CopyReference(v, w) == api[w]

\* copy: the new API has a header map of its own.
Copy(v, w) == [api[w] EXCEPT !.headers = v]

Holds(v, a, h) ==
    /\ ~InUse(v)
    /\ \E p \in Goroutines : pc[p] = "idle"
    /\ api' = [api EXCEPT ![v] = a]
    /\ heap' = [heap EXCEPT ![a.headers] = h]
    /\ UNCHANGED <<pc, executing, open, crashed>>

\* After a crash nobody starts again: without an API nothing else can happen.
NewAPI(v) ==
    /\ ~crashed
    /\ Holds(v, Fresh(v), Empty)
    /\ given' = [given EXCEPT ![v] = Empty]
    /\ asked' = [asked EXCEPT ![v] = "external"]

Headers(w) == heap[api[w].headers]

\* m over h, key by key.
Merge(h, m) == [k \in HeaderKeys |-> IF k \in DOMAIN m THEN m[k] ELSE h[k]]

SetHeaders(v, w, m) ==
    /\ api[w] # NoApi
    /\ Holds(v, Copy(v, w), Merge(Headers(w), m))
    /\ given' = [given EXCEPT ![v] = Merge(given[w], m)]
    /\ asked' = [asked EXCEPT ![v] = asked[w]]

SetHeader(v, w, k, t) == SetHeaders(v, w, [x \in {k} |-> t])

\* A setter that leaves the headers alone.
Derive(v, w, a, ask) ==
    /\ Holds(v, a, Headers(w))
    /\ given' = [given EXCEPT ![v] = given[w]]
    /\ asked' = [asked EXCEPT ![v] = ask]

SetBody(v, w, b) ==
    /\ api[w] # NoApi
    /\ Derive(v, w, [Copy(v, w) EXCEPT !.body = b], asked[w])

\* The URL decides only whether the request can be built, see Refuse.
SetURL(v, w) ==
    /\ api[w] # NoApi
    /\ Derive(v, w, Copy(v, w), asked[w])

\* SetQuery and SetQueries: of the query nothing matters here.
SetQueries(v, w) ==
    /\ api[w] # NoApi
    /\ Derive(v, w, Copy(v, w), asked[w])

\* Mutant of SetTimeout: a builder that was internal stays internal.
SetTimeoutOnly(v, w, t) ==
    /\ api[w] # NoApi
    /\ Derive(v, w, [Copy(v, w) EXCEPT !.timeout = t], "external")

SetTimeout(v, w, t) ==
    /\ api[w] # NoApi
    /\ Derive(v, w, [Copy(v, w) EXCEPT !.timeout = t, !.isInternal = FALSE],
              "external")

SetInternal(v, w) ==
    /\ api[w] # NoApi
    /\ Derive(v, w, [Copy(v, w) EXCEPT !.timeout = 0, !.isInternal = TRUE],
              "internal")

-----------------------------------------------------------------------------
(* executeRequest                                                          *)

\* The map p works on.
MapOf(p) == api[on[p]].headers

\* p reads its header map, in one of three places.
Reads(p) == pc[p] \in {"payload", "default", "headers"}

\* Mutant of Writes: the default is written whatever is there.
WritesAlways(p) == pc[p] = "default" /\ payload[p] # "nil"

\* p is about to write to it.
Writes(p) ==
    /\ pc[p] = "default"
    /\ payload[p] # "nil"
    /\ heap[MapOf(p)]["Content-Type"] = Unset

Execute(p, v, m) ==
    /\ pc[p] = "idle"
    /\ api[v] # NoApi
    /\ pc' = [pc EXCEPT ![p] = "payload"]
    /\ on' = [on EXCEPT ![p] = v]
    /\ method' = [method EXCEPT ![p] = m]
    /\ UNCHANGED <<building, heap, payload, ctype, open, crashed>>

\* p is done with the request it built; what it was is forgotten.
Leave(p, to) ==
    /\ pc' = [pc EXCEPT ![p] = to]
    /\ on' = [on EXCEPT ![p] = NoApi]
    /\ method' = [method EXCEPT ![p] = "none"]
    /\ payload' = [payload EXCEPT ![p] = "nil"]
    /\ ctype' = [ctype EXCEPT ![p] = Unset]
    /\ UNCHANGED <<building, heap, crashed>>

Return(p) == Leave(p, "idle")

\* shouldIncludeBody
Included(b, m) == b # "nil" /\ m \in {"POST", "PUT", "PATCH"}

\* url.Values are form data whatever the header says; only the key
\* "Content-Type" is looked at.
Encoding(b, h) ==
    IF b = "values" \/ h["Content-Type"] = "form" THEN "form" ELSE "json"

\* buildPayload and buildRequestURL.
BuildPayload(p) ==
    /\ pc[p] = "payload"
    /\ LET b == api[on[p]].body
           e == Encoding(b, heap[MapOf(p)])
       IN /\ ~(Included(b, method[p]) /\ b = "bad" /\ e = "json")
          /\ payload' = [payload EXCEPT ![p] =
                           IF Included(b, method[p]) THEN e ELSE "nil"]
    /\ pc' = [pc EXCEPT ![p] = "default"]
    /\ UNCHANGED <<building, heap, on, method, ctype, open, crashed>>

\* The body cannot be marshalled, or the URL is none.
Refuse(p) == pc[p] = "payload" /\ Return(p) /\ UNCHANGED open

\* setContentTypeIfNeeded: the default is written into the builder's map.
SetContentTypeIfNeeded(p) ==
    /\ pc[p] = "default"
    /\ heap' = IF Writes(p)
                 THEN [heap EXCEPT ![MapOf(p)]["Content-Type"] = "json"]
                 ELSE heap
    /\ pc' = [pc EXCEPT ![p] = "headers"]
    /\ UNCHANGED <<building, executing, open, crashed>>

\* The Content-Types a request can carry with the map h: the map is read in
\* any order, and the last key written wins.
Carried(h) ==
    LET types == {h[k] : k \in HeaderKeys} \ {Unset}
    IN IF types = {} THEN {Unset} ELSE types

\* setHeaders
FillHeaders(p) ==
    /\ pc[p] = "headers"
    /\ \E t \in Carried(heap[MapOf(p)]) : ctype' = [ctype EXCEPT ![p] = t]
    /\ pc' = [pc EXCEPT ![p] = "do"]
    /\ UNCHANGED <<building, heap, on, method, payload, open, crashed>>

\* createHTTPClient: zero is no timeout to http.Client.
ClientTimeout(v) ==
    IF api[v].isInternal THEN 0
    ELSE IF api[v].timeout > 0 THEN api[v].timeout
    ELSE DefaultTimeout

\* client.Do returns: with a response, or with an error, one of them the
\* timeout.
Respond(p) ==
    /\ pc[p] = "do"
    /\ open' = open \cup {p}
    /\ Leave(p, "reading")

DoFails(p) == pc[p] = "do" /\ Return(p) /\ UNCHANGED open

\* processResponse has read the body to its end, which is then closed.
ReadBody(p) ==
    /\ pc[p] = "reading"
    /\ open' = open \ {p}
    /\ Return(p)

\* Mutant of ReadFails: the error is returned and the body left open.
ReadFailsOpen(p) ==
    /\ pc[p] = "reading"
    /\ Return(p)
    /\ UNCHANGED open

\* Reading ends with an error, which may again be the timeout. This exit of
\* executeRequest has a Close of its own.
ReadFails(p) ==
    /\ pc[p] = "reading"
    /\ open' = open \ {p}
    /\ Return(p)

\* Nothing is left of the process.
Lost ==
    /\ api' = [v \in Builders |-> NoApi]
    /\ heap' = [v \in Builders |-> Empty]
    /\ pc' = [p \in Goroutines |-> "idle"]
    /\ on' = [p \in Goroutines |-> NoApi]
    /\ method' = [p \in Goroutines |-> "none"]
    /\ payload' = [p \in Goroutines |-> "nil"]
    /\ ctype' = [p \in Goroutines |-> Unset]
    /\ open' = {}
    /\ given' = [v \in Builders |-> Empty]
    /\ asked' = [v \in Builders |-> "external"]

(***************************************************************************)
(* A map written while another goroutine reads or writes it: the runtime   *)
(* may notice and end the process, or the accesses happen in some order.   *)
(* An idle q stands for one that calls a setter of the builder right now,  *)
(* which copies its map.                                                   *)
(***************************************************************************)
Crash(p) ==
    /\ Writes(p)
    /\ \E q \in Goroutines \ {p} :
          pc[q] = "idle" \/ (Reads(q) /\ MapOf(q) = MapOf(p))
    /\ crashed' = TRUE
    /\ Lost

-----------------------------------------------------------------------------
Build ==
    \E v, w \in Builders :
       \/ NewAPI(v)
       \/ \E s \in Settings : SetHeader(v, w, s[1], s[2])
       \/ \E m \in [HeaderKeys -> ContentType] :
             /\ \A k \in HeaderKeys : <<k, m[k]>> \in Settings
             /\ SetHeaders(v, w, m)
       \/ \E b \in Bodies : SetBody(v, w, b)
       \/ SetURL(v, w) \/ SetQueries(v, w)
       \/ \E t \in Timeouts : SetTimeout(v, w, t)
       \/ SetInternal(v, w)

Request(p) ==
    \/ \E v \in Builders, m \in Methods : Execute(p, v, m)
    \/ BuildPayload(p) \/ Refuse(p)
    \/ SetContentTypeIfNeeded(p) \/ FillHeaders(p)
    \/ Respond(p) \/ DoFails(p)
    \/ ReadBody(p) \/ ReadFails(p)
    \/ Crash(p)

Halted == crashed /\ UNCHANGED vars

Next ==
    \/ Build
    \/ \E p \in Goroutines : Request(p)
    \/ Halted

Spec == Init /\ [][Next]_vars

-----------------------------------------------------------------------------
(* Properties.                                                             *)

TypeOK ==
    /\ api \in [Builders -> Api \cup {NoApi}]
    /\ heap \in [Builders -> HeaderMap]
    /\ pc \in [Goroutines -> {"idle", "payload", "default", "headers", "do",
                                "reading"}]
    /\ on \in [Goroutines -> Builders \cup {NoApi}]
    /\ \A p \in Goroutines : pc[p] \in {"idle", "reading"} \/ api[on[p]] # NoApi
    /\ method \in [Goroutines -> Methods \cup {"none"}]
    /\ payload \in [Goroutines -> ContentType \cup {"nil"}]
    /\ ctype \in [Goroutines -> ContentType \cup {Unset}]
    /\ open \subseteq Goroutines
    /\ crashed \in BOOLEAN
    /\ given \in [Builders -> HeaderMap]
    /\ asked \in [Builders -> {"internal", "external"}]

\* The Content-Types setters have given, under whichever key.
Specified(h) == {h[k] : k \in HeaderKeys} \ {Unset}

\* What they have given is all under "Content-Type", or there as well.
WellSpelled(h) == Specified(h) \subseteq {h["Content-Type"]}

\* The request p has built is the one its setters describe, whatever may have
\* been executed before on this builder or on one it was copied from: its
\* body is a form if it is made of form data or they said so, and JSON
\* otherwise; it is labelled as they said, or else as JSON.
AsBuilt(p) ==
    LET types == Specified(given[on[p]])
        form  == api[on[p]].body = "values" \/ "form" \in types
    IN /\ payload[p] = IF form THEN "form" ELSE "json"
       /\ ctype[p] \in IF types = {} THEN {"json"} ELSE types

(***************************************************************************)
(* A request with a body is encoded and labelled by the setters of its own *)
(* builder chain, in every order of derivations and executions on shared   *)
(* builders: neither a setter called on a builder derived from it, nor the *)
(* default Content-Type an execution leaves behind, changes it (copy,      *)
(* http.go:98, and setContentTypeIfNeeded, http.go:359). It speaks of      *)
(* chains that set the header as "Content-Type". The header is the same    *)
(* one under another spelling, but buildPayload and the default do not     *)
(* look there, and for such chains this does not hold (README, section 5). *)
(***************************************************************************)
BodiesAreSentAsBuilt ==
    \A p \in Goroutines :
       pc[p] = "do" /\ payload[p] # "nil" /\ WellSpelled(given[on[p]]) => AsBuilt(p)

(***************************************************************************)
(* A request has no timeout just if the last of SetTimeout and SetInternal *)
(* in its chain was SetInternal; SetTimeout with zero or less falls back   *)
(* to the default and does not wait for ever (createHTTPClient,            *)
(* http.go:373).                                                           *)
(***************************************************************************)
OnlyInternalCallsWaitForEver ==
    \A v \in Builders :
       api[v] # NoApi =>
         IF asked[v] = "internal" THEN ClientTimeout(v) = 0 ELSE ClientTimeout(v) > 0

(***************************************************************************)
(* What is true of "thread safety" (http.go:127): a shared builder ends    *)
(* the process only while it sends a body for the first time, and only if  *)
(* its setters gave it no "Content-Type". With that key set goroutines may *)
(* share it, derive from it and execute it as they like, and so they may   *)
(* once it has its default (setContentTypeIfNeeded, http.go:359).          *)
(***************************************************************************)
OnlyUnlabelledBuildersCrash ==
    [][crashed' /\ ~crashed =>
         \E p \in Goroutines :
            /\ pc[p] = "default" /\ payload[p] # "nil"
            /\ heap[MapOf(p)] = given[on[p]]
            /\ given[on[p]]["Content-Type"] = Unset]_vars

(***************************************************************************)
(* No call returns with the response body open, whichever of its steps     *)
(* failed: an open body keeps its connection from being reused             *)
(* (executeRequest, http.go:256).                                          *)
(***************************************************************************)
NoBodyStaysOpen ==
    \A p \in open : pc[p] = "reading"
=============================================================================
