---------------------------- MODULE HttpApiProofs ----------------------------
(***************************************************************************)
(* Proofs about HttpApi, for any number of goroutines and builders and any *)
(* inputs of the setters.                                                  *)
(*                                                                         *)
(* BodiesAreSentAsBuilt looks at a request that is on its way; why it is   *)
(* as built goes back to the setters. The invariant follows the headers on *)
(* the whole way: every builder has a map of its own, the map is what the  *)
(* setters made it but for the default Content-Type, and a request in the  *)
(* making has taken from it what it should.                                *)
(***************************************************************************)
EXTENDS HttpApi, TLAPS

\* h with the default for a request that has a body.
Defaulted(h) ==
    IF h["Content-Type"] = Unset THEN [h EXCEPT !["Content-Type"] = "json"] ELSE h

\* No two builders share a map.
OwnMaps == \A v \in Builders : api[v] # NoApi => api[v].headers = v

\* A map differs from what the setters made it by the default at most.
MapsAreAsGiven ==
    \A v \in Builders :
       api[v] # NoApi => heap[v] = given[v] \/ heap[v] = Defaulted(given[v])

\* What a builder was asked for is what it remembers.
AskedIsKept ==
    \A v \in Builders :
       api[v] # NoApi => (asked[v] = "internal" <=> api[v].isInternal)

\* A goroutine has a builder just as long as it makes a request of it.
Busy(p) == pc[p] \in {"payload", "default", "headers", "do"}
BusyOnBuilders == \A p \in Goroutines : Busy(p) <=> on[p] # NoApi

\* The request p makes of its builder, as far as it has come.
RequestsAreAsBuilt ==
    \A p \in Goroutines :
       pc[p] \in {"default", "headers", "do"} /\ payload[p] # "nil" =>
         /\ payload[p] = Encoding(api[on[p]].body, given[on[p]])
         /\ pc[p] = "headers" => heap[on[p]] = Defaulted(given[on[p]])
         /\ pc[p] = "do" => ctype[p] \in Carried(Defaulted(given[on[p]]))

HttpInv ==
    /\ TypeOK
    /\ OwnMaps
    /\ MapsAreAsGiven
    /\ AskedIsKept
    /\ BusyOnBuilders
    /\ RequestsAreAsBuilt

-----------------------------------------------------------------------------
(* Header maps.                                                            *)

\* Overriding keys of a header map gives a header map (SetHeaders).
LEMMA MergeType ==
  ASSUME NEW h \in HeaderMap, NEW m \in [HeaderKeys -> ContentType]
  PROVE  Merge(h, m) \in HeaderMap
BY DEF Merge, HeaderMap

\* And so does overriding one of them (SetHeader).
LEMMA MergeOneType ==
  ASSUME NEW h \in HeaderMap, NEW k \in HeaderKeys, NEW t \in ContentType
  PROVE  Merge(h, [x \in {k} |-> t]) \in HeaderMap
BY DEF Merge, HeaderMap

\* The default Content-Type makes a header map of a header map.
LEMMA DefaultedType ==
  ASSUME NEW h \in HeaderMap
  PROVE  Defaulted(h) \in HeaderMap
BY DEF Defaulted, HeaderMap, HeaderKeys, ContentType

\* A setter called on a builder that has been executed gives the same map as
\* on one that has not, but for the default.
LEMMA MergeDefaulted ==
  ASSUME NEW g \in HeaderMap, NEW h \in {g, Defaulted(g)}, NEW m
  PROVE  Merge(h, m) = Merge(g, m) \/ Merge(h, m) = Defaulted(Merge(g, m))
<1>1. CASE h = g
  BY <1>1
<1>2. CASE h # g
  <2>1. h = [g EXCEPT !["Content-Type"] = "json"] /\ g["Content-Type"] = Unset
    BY <1>2 DEF Defaulted
  <2>2. CASE "Content-Type" \in DOMAIN m
    <3>1. \A k \in HeaderKeys : Merge(h, m)[k] = Merge(g, m)[k]
      BY <2>1, <2>2 DEF Merge, HeaderMap, HeaderKeys
    <3> QED BY <3>1 DEF Merge
  <2>3. CASE "Content-Type" \notin DOMAIN m
    <3>1. Merge(g, m)["Content-Type"] = Unset
      BY <2>1, <2>3 DEF Merge, HeaderKeys
    <3>2. Merge(h, m) = [Merge(g, m) EXCEPT !["Content-Type"] = "json"]
      <4> DEFINE d == [Merge(g, m) EXCEPT !["Content-Type"] = "json"]
      <4>1. \A k \in HeaderKeys : Merge(h, m)[k] = d[k]
        BY <2>1, <2>3 DEF Merge, HeaderMap, HeaderKeys
      <4> QED BY <4>1 DEF Merge
    <3> QED BY <3>1, <3>2 DEF Defaulted
  <2> QED BY <2>2, <2>3
<1> QED BY <1>1, <1>2

\* The default does not change how a body is encoded.
LEMMA EncodingDefaulted ==
  ASSUME NEW b, NEW h \in HeaderMap
  PROVE  Encoding(b, Defaulted(h)) = Encoding(b, h)
BY InputsAssumption DEF Encoding, Defaulted, HeaderMap, HeaderKeys, ContentType

-----------------------------------------------------------------------------
(* The setters: all of them give v a new API with a map of its own.        *)

\* What a setter, or NewAPI, needs to establish about the API it returns.
Sound(v, a, h, g, ask) ==
    /\ a \in Api
    /\ a.headers = v
    /\ h \in HeaderMap
    /\ g \in HeaderMap
    /\ h = g \/ h = Defaulted(g)
    /\ ask \in {"internal", "external"}
    /\ ask = "internal" <=> a.isInternal

\* An API that is sound by itself keeps the invariant, since nobody makes a
\* request of the variable it goes to.
LEMMA HoldsStep ==
  ASSUME HttpInv, NEW v \in Builders, NEW a, NEW h, NEW g, NEW ask,
         Holds(v, a, h), Sound(v, a, h, g, ask),
         given' = [given EXCEPT ![v] = g], asked' = [asked EXCEPT ![v] = ask]
  PROVE  HttpInv'
<1> USE DEF HttpInv
<1>1. /\ api' = [api EXCEPT ![v] = a] /\ heap' = [heap EXCEPT ![v] = h]
      /\ UNCHANGED <<pc, on, method, payload, ctype, open, crashed>>
  BY DEF Holds, Sound, executing
<1>2. a # NoApi
  BY NoApiAssumption DEF Sound
<1>3. \A p \in Goroutines : on[p] # v
  BY DEF Holds, InUse
<1>4. TypeOK'
  <2>1. \A p \in Goroutines :
           pc'[p] \in {"idle", "reading"} \/ api'[on'[p]] # NoApi
    BY <1>1, <1>2, <1>3 DEF TypeOK
  <2>2. /\ api' \in [Builders -> Api \cup {NoApi}]
        /\ heap' \in [Builders -> HeaderMap]
        /\ given' \in [Builders -> HeaderMap]
        /\ asked' \in [Builders -> {"internal", "external"}]
    BY <1>1 DEF Sound, TypeOK
  <2> QED BY <1>1, <2>1, <2>2 DEF TypeOK
<1>5. OwnMaps' /\ MapsAreAsGiven' /\ AskedIsKept'
  <2> SUFFICES ASSUME NEW u \in Builders, api'[u] # NoApi
               PROVE  /\ api'[u].headers = u
                      /\ heap'[u] = given'[u] \/ heap'[u] = Defaulted(given'[u])
                      /\ asked'[u] = "internal" <=> api'[u].isInternal
    BY DEF OwnMaps, MapsAreAsGiven, AskedIsKept, Defaulted
  <2>1. CASE u = v
    BY <1>1, <2>1 DEF Sound, TypeOK
  <2>2. CASE u # v
    BY <1>1, <2>2 DEF OwnMaps, MapsAreAsGiven, AskedIsKept, TypeOK
  <2> QED BY <2>1, <2>2
<1>6. BusyOnBuilders'
  BY <1>1 DEF BusyOnBuilders, Busy
<1>7. RequestsAreAsBuilt'
  <2> SUFFICES ASSUME NEW p \in Goroutines,
                      pc[p] \in {"default", "headers", "do"}, payload[p] # "nil"
               PROVE  /\ payload[p] = Encoding(api'[on[p]].body, given'[on[p]])
                      /\ pc[p] = "headers" => heap'[on[p]] = Defaulted(given'[on[p]])
                      /\ pc[p] = "do" => ctype[p] \in Carried(Defaulted(given'[on[p]]))
    BY <1>1 DEF RequestsAreAsBuilt
  <2>1. on[p] \in Builders /\ on[p] # v
    BY <1>3 DEF BusyOnBuilders, Busy, TypeOK
  <2>2. api'[on[p]] = api[on[p]] /\ heap'[on[p]] = heap[on[p]] /\ given'[on[p]] = given[on[p]]
    BY <1>1, <2>1 DEF TypeOK
  <2> QED BY <2>2 DEF RequestsAreAsBuilt
<1> QED BY <1>4, <1>5, <1>6, <1>7

\* A new API starts out without headers and as an external one.
LEMMA NewAPIStep ==
  ASSUME HttpInv, NEW v \in Builders, NewAPI(v)
  PROVE  HttpInv'
<1>1. Sound(v, Fresh(v), Empty, Empty, "external")
  BY DEF Sound, Fresh, Empty, Api, Body, HeaderMap
<1> QED BY <1>1, HoldsStep DEF NewAPI

\* What copy starts from: the API of w is sound but for its map.
LEMMA CopyIsSound ==
  ASSUME HttpInv, NEW v \in Builders, NEW w \in Builders, api[w] # NoApi
  PROVE  /\ Copy(v, w) \in Api /\ Copy(v, w).headers = v
         /\ Copy(v, w).isInternal = api[w].isInternal
         /\ Headers(w) \in HeaderMap /\ given[w] \in HeaderMap
         /\ Headers(w) = given[w] \/ Headers(w) = Defaulted(given[w])
         /\ asked[w] \in {"internal", "external"}
         /\ asked[w] = "internal" <=> api[w].isInternal
BY DEF HttpInv, TypeOK, OwnMaps, MapsAreAsGiven, AskedIsKept, Copy, Headers, Api

\* SetHeaders and SetHeader, with m the headers they set.
LEMMA SetHeadersStep ==
  ASSUME HttpInv, NEW v \in Builders, NEW w \in Builders, NEW m, SetHeaders(v, w, m),
         \A h \in HeaderMap : Merge(h, m) \in HeaderMap
  PROVE  HttpInv'
<1> DEFINE h == Merge(Headers(w), m)
           g == Merge(given[w], m)
<1>1. api[w] # NoApi
  BY DEF SetHeaders
<1>2. h = g \/ h = Defaulted(g)
  BY <1>1, CopyIsSound, MergeDefaulted
<1>3. Sound(v, Copy(v, w), h, g, asked[w])
  BY <1>1, <1>2, CopyIsSound DEF Sound
<1> QED BY <1>3, HoldsStep DEF SetHeaders

\* SetTimeout and SetInternal write the two fields they are about.
LEMMA TimingFields ==
  ASSUME NEW c \in Api, NEW t \in Int, NEW i \in BOOLEAN
  PROVE  /\ [c EXCEPT !.timeout = t, !.isInternal = i] \in Api
         /\ [c EXCEPT !.timeout = t, !.isInternal = i].headers = c.headers
         /\ [c EXCEPT !.timeout = t, !.isInternal = i].isInternal = i
BY DEF Api

\* The setters that leave the headers alone.
LEMMA DeriveStep ==
  ASSUME HttpInv, NEW v \in Builders, NEW w \in Builders, NEW a, NEW ask,
         api[w] # NoApi, Derive(v, w, a, ask),
         a \in Api, a.headers = v,
         ask \in {"internal", "external"}, ask = "internal" <=> a.isInternal
  PROVE  HttpInv'
<1>1. Sound(v, a, Headers(w), given[w], ask)
  BY CopyIsSound DEF Sound
<1> QED BY <1>1, HoldsStep DEF Derive

\* Every call of the builder keeps the invariant.
LEMMA BuildStep ==
  ASSUME HttpInv, Build
  PROVE  HttpInv'
<1>1. PICK v \in Builders, w \in Builders :
         \/ NewAPI(v)
         \/ \E s \in Settings : SetHeader(v, w, s[1], s[2])
         \/ \E m \in [HeaderKeys -> ContentType] : SetHeaders(v, w, m)
         \/ \E b \in Bodies : SetBody(v, w, b)
         \/ SetURL(v, w) \/ SetQueries(v, w)
         \/ \E t \in Timeouts : SetTimeout(v, w, t)
         \/ SetInternal(v, w)
  BY DEF Build
<1>2. CASE NewAPI(v)
  BY <1>2, NewAPIStep
<1>3. CASE \E s \in Settings : SetHeader(v, w, s[1], s[2])
  <2>1. PICK s \in Settings : SetHeader(v, w, s[1], s[2])
    BY <1>3
  <2>2. s[1] \in HeaderKeys /\ s[2] \in ContentType
    BY InputsAssumption
  <2> DEFINE m == [x \in {s[1]} |-> s[2]]
  <2>3. SetHeaders(v, w, m)
    BY <2>1 DEF SetHeader
  <2>4. \A h \in HeaderMap : Merge(h, m) \in HeaderMap
    BY <2>2, MergeOneType
  <2> HIDE DEF m
  <2> QED BY <2>3, <2>4, SetHeadersStep
<1>4. CASE \E m \in [HeaderKeys -> ContentType] : SetHeaders(v, w, m)
  BY <1>4, MergeType, SetHeadersStep
<1>5. CASE \E b \in Bodies : SetBody(v, w, b)
  <2>1. PICK b \in Bodies : SetBody(v, w, b)
    BY <1>5
  <2>2. b \in Body /\ api[w] # NoApi
    BY <2>1, InputsAssumption DEF SetBody
  <2> DEFINE a == [Copy(v, w) EXCEPT !.body = b]
  <2>3. a \in Api /\ a.headers = v /\ a.isInternal = api[w].isInternal
    BY <2>2, CopyIsSound DEF Api
  <2>4. Derive(v, w, a, asked[w])
    BY <2>1 DEF SetBody
  <2> HIDE DEF a
  <2> QED BY <2>2, <2>3, <2>4, CopyIsSound, DeriveStep
<1>6. CASE SetURL(v, w) \/ SetQueries(v, w)
  <2>1. api[w] # NoApi /\ Derive(v, w, Copy(v, w), asked[w])
    BY <1>6 DEF SetURL, SetQueries
  <2> QED BY <2>1, CopyIsSound, DeriveStep
<1>7. CASE \E t \in Timeouts : SetTimeout(v, w, t)
  <2>1. PICK t \in Timeouts : SetTimeout(v, w, t)
    BY <1>7
  <2>2. t \in Int /\ api[w] # NoApi
    BY <2>1, InputsAssumption DEF SetTimeout
  <2> DEFINE a == [Copy(v, w) EXCEPT !.timeout = t, !.isInternal = FALSE]
  <2>3. a \in Api /\ a.headers = v /\ a.isInternal = FALSE
    <3>1. Copy(v, w) \in Api /\ Copy(v, w).headers = v
      BY <2>2, CopyIsSound
    <3> QED BY <2>2, <3>1, TimingFields, Zenon
  <2>4. Derive(v, w, a, "external")
    BY <2>1 DEF SetTimeout
  <2> HIDE DEF a
  <2> QED BY <2>2, <2>3, <2>4, DeriveStep
<1>8. CASE SetInternal(v, w)
  <2>1. api[w] # NoApi
    BY <1>8 DEF SetInternal
  <2> DEFINE a == [Copy(v, w) EXCEPT !.timeout = 0, !.isInternal = TRUE]
  <2>2. a \in Api /\ a.headers = v /\ a.isInternal = TRUE
    <3>1. Copy(v, w) \in Api /\ Copy(v, w).headers = v
      BY <2>1, CopyIsSound
    <3>2. 0 \in Int
      OBVIOUS
    <3> QED BY <3>1, <3>2, TimingFields, Zenon
  <2>3. Derive(v, w, a, "internal")
    BY <1>8 DEF SetInternal
  <2> HIDE DEF a
  <2> QED BY <2>1, <2>2, <2>3, DeriveStep
<1> QED BY <1>1, <1>2, <1>3, <1>4, <1>5, <1>6, <1>7, <1>8

-----------------------------------------------------------------------------
(* The steps of a request. They leave the builders alone but for the       *)
(* default Content-Type.                                                   *)

\* Steps that change no map: what p does concerns no other request.
LEMMA QuietStep ==
  ASSUME HttpInv, NEW p \in Goroutines,
         UNCHANGED <<building, heap, crashed>>,
         \A q \in Goroutines \ {p} :
            /\ pc'[q] = pc[q] /\ on'[q] = on[q]
            /\ payload'[q] = payload[q] /\ ctype'[q] = ctype[q],
         TypeOK',
         Busy(p)' <=> on'[p] # NoApi,
         pc'[p] \in {"default", "headers", "do"} /\ payload'[p] # "nil" =>
           /\ payload'[p] = Encoding(api[on'[p]].body, given[on'[p]])
           /\ pc'[p] = "headers" => heap[on'[p]] = Defaulted(given[on'[p]])
           /\ pc'[p] = "do" => ctype'[p] \in Carried(Defaulted(given[on'[p]]))
  PROVE  HttpInv'
<1> USE DEF HttpInv
<1>1. OwnMaps' /\ MapsAreAsGiven' /\ AskedIsKept'
  BY DEF OwnMaps, MapsAreAsGiven, AskedIsKept, building
<1>2. BusyOnBuilders'
  BY DEF BusyOnBuilders, Busy
<1>3. RequestsAreAsBuilt'
  <2> SUFFICES ASSUME NEW q \in Goroutines,
                      pc'[q] \in {"default", "headers", "do"}, payload'[q] # "nil"
               PROVE  /\ payload'[q] = Encoding(api[on'[q]].body, given[on'[q]])
                      /\ pc'[q] = "headers" => heap[on'[q]] = Defaulted(given[on'[q]])
                      /\ pc'[q] = "do" => ctype'[q] \in Carried(Defaulted(given[on'[q]]))
    BY DEF RequestsAreAsBuilt, building
  <2> QED BY DEF RequestsAreAsBuilt
<1> QED BY <1>1, <1>2, <1>3

\* A request begins.
LEMMA ExecuteStep ==
  ASSUME HttpInv, NEW p \in Goroutines, NEW v \in Builders, NEW m \in Methods,
         Execute(p, v, m)
  PROVE  HttpInv'
<1>1. TypeOK'
  BY DEF HttpInv, TypeOK, Execute, building
<1>2. on'[p] = v /\ v # NoApi /\ pc'[p] = "payload"
  BY NoApiAssumption DEF HttpInv, TypeOK, Execute
<1> QED BY <1>1, <1>2, QuietStep DEF Execute, Busy, HttpInv, TypeOK

\* A request ends, or its response is all that matters from now on.
LEMMA LeaveStep ==
  ASSUME HttpInv, NEW p \in Goroutines, NEW to \in {"idle", "reading"},
         Leave(p, to), open' \in {open, open \cup {p}, open \ {p}}
  PROVE  HttpInv'
<1>1. TypeOK'
  BY DEF HttpInv, TypeOK, Leave, building
<1>2. on'[p] = NoApi /\ pc'[p] = to
  BY DEF HttpInv, TypeOK, Leave
<1> QED BY <1>1, <1>2, QuietStep DEF Leave, Busy, HttpInv, TypeOK

\* The body is encoded as the setters' Content-Type wants it, whether or not
\* the map has the default by now.
LEMMA BuildPayloadStep ==
  ASSUME HttpInv, NEW p \in Goroutines, BuildPayload(p)
  PROVE  HttpInv'
<1> USE DEF HttpInv
<1>1. on[p] \in Builders /\ api[on[p]] # NoApi /\ MapOf(p) = on[p]
  BY DEF BuildPayload, TypeOK, BusyOnBuilders, Busy, OwnMaps, MapOf
<1>2. Encoding(api[on[p]].body, heap[MapOf(p)]) = Encoding(api[on[p]].body, given[on[p]])
  BY <1>1, EncodingDefaulted DEF MapsAreAsGiven, TypeOK
<1>3. /\ pc'[p] = "default" /\ on' = on
      /\ payload'[p] \in {"nil", Encoding(api[on[p]].body, given[on[p]])}
  BY <1>2 DEF BuildPayload, TypeOK
<1>4. TypeOK'
  <2>1. payload'[p] \in ContentType \cup {"nil"}
    BY <1>3 DEF Encoding, ContentType
  <2> QED BY <2>1 DEF BuildPayload, TypeOK, building
<1>5. /\ UNCHANGED <<building, heap, crashed>>
      /\ \A q \in Goroutines \ {p} :
            /\ pc'[q] = pc[q] /\ on'[q] = on[q]
            /\ payload'[q] = payload[q] /\ ctype'[q] = ctype[q]
  BY DEF BuildPayload, TypeOK
<1>6. Busy(p)' <=> on'[p] # NoApi
  BY <1>1, <1>3, NoApiAssumption DEF Busy
<1> QED BY <1>3, <1>4, <1>5, <1>6, QuietStep

\* The headers are filled from a map that has the default, if there is a body.
LEMMA FillHeadersStep ==
  ASSUME HttpInv, NEW p \in Goroutines, FillHeaders(p)
  PROVE  HttpInv'
<1> USE DEF HttpInv
<1>1. on[p] \in Builders /\ api[on[p]] # NoApi /\ MapOf(p) = on[p]
  BY DEF FillHeaders, TypeOK, BusyOnBuilders, Busy, OwnMaps, MapOf
<1>2. /\ pc'[p] = "do" /\ on' = on /\ payload' = payload
      /\ ctype'[p] \in Carried(heap[on[p]])
  BY <1>1 DEF FillHeaders, TypeOK
<1>3. TypeOK'
  <2>1. Carried(heap[on[p]]) \subseteq ContentType \cup {Unset}
    BY <1>1 DEF Carried, TypeOK, HeaderMap
  <2> QED BY <1>2, <2>1 DEF FillHeaders, TypeOK, building
<1>4. payload[p] # "nil" =>
        /\ payload[p] = Encoding(api[on[p]].body, given[on[p]])
        /\ ctype'[p] \in Carried(Defaulted(given[on[p]]))
  BY <1>2 DEF FillHeaders, RequestsAreAsBuilt
<1>5. /\ UNCHANGED <<building, heap, crashed>>
      /\ \A q \in Goroutines \ {p} :
            /\ pc'[q] = pc[q] /\ on'[q] = on[q]
            /\ payload'[q] = payload[q] /\ ctype'[q] = ctype[q]
  BY DEF FillHeaders, TypeOK
<1>6. Busy(p)' <=> on'[p] # NoApi
  BY <1>1, <1>2, NoApiAssumption DEF Busy
<1> QED BY <1>2, <1>3, <1>4, <1>5, <1>6, QuietStep

\* The default is written into the map of the builder, under the eyes of the
\* other requests made of it: those that filled their headers from it had it
\* there already, or have no body.
LEMMA SetContentTypeStep ==
  ASSUME HttpInv, NEW p \in Goroutines, SetContentTypeIfNeeded(p)
  PROVE  HttpInv'
<1> USE DEF HttpInv
<1>1. on[p] \in Builders /\ api[on[p]] # NoApi /\ MapOf(p) = on[p]
  BY DEF SetContentTypeIfNeeded, TypeOK, BusyOnBuilders, Busy, OwnMaps, MapOf
<1> DEFINE h == heap[on[p]]
           g == given[on[p]]
<1>2. h \in HeaderMap /\ g \in HeaderMap /\ (h = g \/ h = Defaulted(g))
  BY <1>1 DEF TypeOK, MapsAreAsGiven
<1>3. h["Content-Type"] = Unset => h = g /\ Defaulted(g) = [h EXCEPT !["Content-Type"] = "json"]
  BY <1>2, InputsAssumption DEF Defaulted, HeaderMap, HeaderKeys
<1>4. h["Content-Type"] # Unset => h = Defaulted(g)
  BY <1>2 DEF Defaulted
<1>5. /\ UNCHANGED <<api, given, asked, on, method, payload, ctype, open, crashed>>
      /\ pc' = [pc EXCEPT ![p] = "headers"]
      /\ heap' = heap \/ heap' = [heap EXCEPT ![on[p]] = Defaulted(g)]
  BY <1>1, <1>2, <1>3 DEF SetContentTypeIfNeeded, Writes, building, executing, TypeOK
<1>6. payload[p] # "nil" => heap'[on[p]] = Defaulted(g)
  BY <1>1, <1>2, <1>3, <1>4 DEF SetContentTypeIfNeeded, Writes, TypeOK
<1>7. Defaulted(g) \in HeaderMap
  BY <1>2, DefaultedType
<1>8. TypeOK'
  BY <1>1, <1>5, <1>7 DEF TypeOK
<1>9. OwnMaps' /\ AskedIsKept' /\ BusyOnBuilders'
  BY <1>5, <1>1 DEF OwnMaps, AskedIsKept, BusyOnBuilders, Busy, TypeOK,
                    SetContentTypeIfNeeded
<1>10. MapsAreAsGiven'
  <2> SUFFICES ASSUME NEW v \in Builders, api[v] # NoApi
               PROVE  heap'[v] = given[v] \/ heap'[v] = Defaulted(given[v])
    BY <1>5 DEF MapsAreAsGiven
  <2> QED BY <1>5, <1>1 DEF MapsAreAsGiven, TypeOK
<1>11. RequestsAreAsBuilt'
  <2> SUFFICES ASSUME NEW q \in Goroutines,
                      pc'[q] \in {"default", "headers", "do"}, payload[q] # "nil"
               PROVE  /\ payload[q] = Encoding(api[on[q]].body, given[on[q]])
                      /\ pc'[q] = "headers" => heap'[on[q]] = Defaulted(given[on[q]])
                      /\ pc'[q] = "do" => ctype[q] \in Carried(Defaulted(given[on[q]]))
    BY <1>5 DEF RequestsAreAsBuilt
  <2>1. CASE q = p
    BY <1>5, <1>6, <2>1 DEF RequestsAreAsBuilt, SetContentTypeIfNeeded, TypeOK
  <2>2. CASE q # p
    <3>1. pc'[q] = pc[q]
      BY <1>5, <2>2 DEF TypeOK
    <3>2. heap'[on[q]] = heap[on[q]] \/ heap'[on[q]] = Defaulted(given[on[q]])
      BY <1>5, <1>1, <3>1 DEF TypeOK, BusyOnBuilders, Busy
    <3> QED BY <3>1, <3>2 DEF RequestsAreAsBuilt
  <2> QED BY <2>1, <2>2
<1> QED BY <1>8, <1>9, <1>10, <1>11

\* After a crash there is nothing left to be wrong about.
LEMMA CrashStep ==
  ASSUME HttpInv, NEW p \in Goroutines, Crash(p)
  PROVE  HttpInv'
<1>1. TypeOK'
  BY DEF Crash, Lost, TypeOK, Empty, HeaderMap
<1>2. OwnMaps' /\ MapsAreAsGiven' /\ AskedIsKept' /\ BusyOnBuilders' /\ RequestsAreAsBuilt'
  BY DEF Crash, Lost, OwnMaps, MapsAreAsGiven, AskedIsKept, BusyOnBuilders, Busy,
         RequestsAreAsBuilt
<1> QED BY <1>1, <1>2 DEF HttpInv

\* Every step of a goroutine's request keeps the invariant.
LEMMA RequestStep ==
  ASSUME HttpInv, NEW p \in Goroutines, Request(p)
  PROVE  HttpInv'
<1>1. CASE \E v \in Builders, m \in Methods : Execute(p, v, m)
  BY <1>1, ExecuteStep
<1>2. CASE BuildPayload(p)
  BY <1>2, BuildPayloadStep
<1>3. CASE Refuse(p) \/ DoFails(p)
  BY <1>3, LeaveStep DEF Refuse, DoFails, Return
<1>4. CASE SetContentTypeIfNeeded(p)
  BY <1>4, SetContentTypeStep
<1>5. CASE FillHeaders(p)
  BY <1>5, FillHeadersStep
<1>6. CASE Respond(p)
  BY <1>6, LeaveStep DEF Respond
<1>7. CASE ReadBody(p) \/ ReadFails(p)
  BY <1>7, LeaveStep DEF ReadBody, ReadFails, Return
<1>8. CASE Crash(p)
  BY <1>8, CrashStep
<1> QED BY <1>1, <1>2, <1>3, <1>4, <1>5, <1>6, <1>7, <1>8 DEF Request

-----------------------------------------------------------------------------
(* The theorems.                                                           *)

\* The headers a builder was given, the map it has and the requests made of it
\* agree, in every order of derivations and executions.
THEOREM HttpInvariant == Spec => []HttpInv
<1>1. Init => HttpInv
  <2> SUFFICES ASSUME Init PROVE HttpInv
    OBVIOUS
  <2>1. TypeOK
    BY DEF Init, TypeOK, Empty, HeaderMap
  <2>2. OwnMaps /\ MapsAreAsGiven /\ AskedIsKept /\ BusyOnBuilders /\ RequestsAreAsBuilt
    BY DEF Init, OwnMaps, MapsAreAsGiven, AskedIsKept, BusyOnBuilders, Busy,
           RequestsAreAsBuilt
  <2> QED BY <2>1, <2>2 DEF HttpInv
<1>2. HttpInv /\ [Next]_vars => HttpInv'
  <2> SUFFICES ASSUME HttpInv, [Next]_vars PROVE HttpInv'
    OBVIOUS
  <2>1. CASE Build
    BY <2>1, BuildStep
  <2>2. CASE \E p \in Goroutines : Request(p)
    BY <2>2, RequestStep
  <2>3. CASE UNCHANGED vars
    <3> USE <2>3 DEF vars, building, executing
    <3>1. TypeOK'
      BY DEF HttpInv, TypeOK
    <3>2. OwnMaps' /\ MapsAreAsGiven' /\ AskedIsKept' /\ BusyOnBuilders'
      BY DEF HttpInv, OwnMaps, MapsAreAsGiven, AskedIsKept, BusyOnBuilders, Busy
    <3>3. RequestsAreAsBuilt'
      BY DEF HttpInv, RequestsAreAsBuilt
    <3> QED BY <3>1, <3>2, <3>3 DEF HttpInv
  <2> QED BY <2>1, <2>2, <2>3 DEF Next, Halted
<1> QED BY <1>1, <1>2, PTL DEF Spec

\* HttpApi is type-correct: a request is made of a builder that exists.
THEOREM HttpTypeCorrect == Spec => []TypeOK
BY HttpInvariant, PTL DEF HttpInv

\* Where "Content-Type" is the only spelling, looking at that key alone, and
\* writing the default to it, is to do what the setters said.
LEMMA KeyTellsAll ==
  ASSUME NEW h \in HeaderMap, WellSpelled(h), NEW b
  PROVE  LET form == b = "values" \/ "form" \in Specified(h)
         IN /\ Encoding(b, h) = IF form THEN "form" ELSE "json"
            /\ Carried(Defaulted(h)) =
                  IF Specified(h) = {} THEN {"json"} ELSE Specified(h)
<1>1. Specified(h) = {h["Content-Type"], h["content-type"]} \ {Unset}
  BY DEF Specified, HeaderKeys
<1>2. h["content-type"] \in {Unset, h["Content-Type"]}
  BY <1>1 DEF WellSpelled
<1>3. Encoding(b, h) = IF b = "values" \/ "form" \in Specified(h) THEN "form" ELSE "json"
  BY <1>1, <1>2, InputsAssumption DEF Encoding
<1>4. CASE h["Content-Type"] = Unset
  <2>1. /\ Defaulted(h)["Content-Type"] = "json"
        /\ Defaulted(h)["content-type"] = Unset
    BY <1>2, <1>4 DEF Defaulted, HeaderMap, HeaderKeys
  <2>2. {Defaulted(h)[k] : k \in HeaderKeys} = {"json", Unset}
    BY <2>1 DEF HeaderKeys
  <2>3. Carried(Defaulted(h)) = {"json"}
    BY <2>2, InputsAssumption DEF Carried
  <2> QED BY <1>1, <1>2, <1>3, <1>4, <2>3
<1>5. CASE h["Content-Type"] # Unset
  <2>1. Defaulted(h) = h /\ Specified(h) # {}
    BY <1>1, <1>5 DEF Defaulted
  <2> QED BY <1>3, <2>1 DEF Carried, Specified
<1> QED BY <1>4, <1>5

\* A request with a body has the encoding and the Content-Type that the setters
\* of its own chain gave it as "Content-Type", whatever other goroutines derive
\* from its builder or execute on it.
THEOREM RequestsGoOutAsBuilt == Spec => []BodiesAreSentAsBuilt
<1>1. HttpInv => BodiesAreSentAsBuilt
  <2> SUFFICES ASSUME HttpInv, NEW p \in Goroutines, pc[p] = "do",
                      payload[p] # "nil", WellSpelled(given[on[p]])
               PROVE  AsBuilt(p)
    BY DEF BodiesAreSentAsBuilt
  <2>1. given[on[p]] \in HeaderMap
    BY DEF HttpInv, TypeOK, BusyOnBuilders, Busy
  <2>2. /\ payload[p] = Encoding(api[on[p]].body, given[on[p]])
        /\ ctype[p] \in Carried(Defaulted(given[on[p]]))
    BY DEF HttpInv, RequestsAreAsBuilt
  <2> QED BY <2>1, <2>2, KeyTellsAll DEF AsBuilt
<1> QED BY <1>1, HttpInvariant, PTL

\* A client without a timeout is made only for a builder whose last word was
\* SetInternal.
THEOREM TimeoutsAreAsAsked == Spec => []OnlyInternalCallsWaitForEver
<1>1. HttpInv => OnlyInternalCallsWaitForEver
  <2> SUFFICES ASSUME HttpInv, NEW v \in Builders, api[v] # NoApi
               PROVE  IF asked[v] = "internal" THEN ClientTimeout(v) = 0
                                               ELSE ClientTimeout(v) > 0
    BY DEF OnlyInternalCallsWaitForEver
  <2>1. asked[v] = "internal" <=> api[v].isInternal
    BY DEF HttpInv, AskedIsKept
  <2>2. DefaultTimeout > 0
    BY InputsAssumption
  <2> QED BY <2>1, <2>2 DEF ClientTimeout
<1> QED BY <1>1, HttpInvariant, PTL

\* Once the default is written the key it is written to is there.
LEMMA DefaultedIsLabelled ==
  ASSUME NEW h \in HeaderMap
  PROVE  Defaulted(h)["Content-Type"] # Unset
BY InputsAssumption DEF Defaulted, HeaderMap, HeaderKeys

\* Only a crash ends the process.
LEMMA OnlyCrashes ==
  ASSUME [Next]_vars, crashed' # crashed
  PROVE  \E p \in Goroutines : Crash(p)
<1>1. \A v, a, h : Holds(v, a, h) => crashed' = crashed
  BY DEF Holds
<1>2. \A v, w, m : SetHeaders(v, w, m) => crashed' = crashed
  BY <1>1 DEF SetHeaders
<1>3. \A v, w, a, ask : Derive(v, w, a, ask) => crashed' = crashed
  BY <1>1 DEF Derive
<1>4. ~Build
  BY <1>1, <1>2, <1>3
     DEF Build, NewAPI, SetHeader, SetBody, SetURL, SetQueries, SetTimeout, SetInternal
<1>5. ASSUME NEW p \in Goroutines, Request(p), ~Crash(p)
      PROVE  FALSE
  BY <1>5 DEF Request, Execute, BuildPayload, Refuse, SetContentTypeIfNeeded, FillHeaders,
              Respond, DoFails, ReadBody, ReadFails, Return, Leave
<1> QED BY <1>4, <1>5 DEF Next, Halted, vars

\* A shared builder that has its Content-Type, from a setter or from a request
\* made before, is safe to share.
THEOREM LabelledBuildersAreSafe == Spec => OnlyUnlabelledBuildersCrash
<1> DEFINE Unlabelled ==
       \E p \in Goroutines :
          /\ pc[p] = "default" /\ payload[p] # "nil"
          /\ heap[MapOf(p)] = given[on[p]]
          /\ given[on[p]]["Content-Type"] = Unset
<1>1. HttpInv /\ [Next]_vars => [crashed' /\ ~crashed => Unlabelled]_vars
  <2> SUFFICES ASSUME HttpInv, [Next]_vars, crashed' # crashed PROVE Unlabelled
    OBVIOUS
  <2>1. PICK p \in Goroutines : Crash(p)
    BY OnlyCrashes
  <2>2. Writes(p)
    BY <2>1 DEF Crash
  <2>3. on[p] \in Builders /\ api[on[p]] # NoApi /\ MapOf(p) = on[p]
    BY <2>2 DEF HttpInv, Writes, TypeOK, BusyOnBuilders, Busy, OwnMaps, MapOf
  <2>4. given[on[p]] \in HeaderMap
    BY <2>3 DEF HttpInv, TypeOK
  <2>5. heap[on[p]] = given[on[p]]
    BY <2>2, <2>3, <2>4, DefaultedIsLabelled DEF HttpInv, MapsAreAsGiven, Writes
  <2> QED BY <2>2, <2>3, <2>5 DEF Writes
<1> QED BY <1>1, HttpInvariant, PTL DEF Spec, OnlyUnlabelledBuildersCrash

\* No call of a method returns with its response body open.
THEOREM BodiesAreClosed == Spec => []NoBodyStaysOpen
<1>1. Init => NoBodyStaysOpen
  BY DEF Init, NoBodyStaysOpen
<1>2. TypeOK /\ NoBodyStaysOpen /\ [Next]_vars => NoBodyStaysOpen'
  <2> SUFFICES ASSUME TypeOK, NoBodyStaysOpen, [Next]_vars, NEW q \in open'
               PROVE  pc'[q] = "reading"
    BY DEF NoBodyStaysOpen
  <2>1. CASE pc' = pc /\ open' = open
    BY <2>1 DEF NoBodyStaysOpen
  <2>2. CASE Build
    <3>1. \A v, a, h : Holds(v, a, h) => pc' = pc /\ open' = open
      BY DEF Holds
    <3>2. \A v, w, m : SetHeaders(v, w, m) => pc' = pc /\ open' = open
      BY <3>1 DEF SetHeaders
    <3>3. \A v, w, a, ask : Derive(v, w, a, ask) => pc' = pc /\ open' = open
      BY <3>1 DEF Derive
    <3>4. pc' = pc /\ open' = open
      BY <2>2, <3>1, <3>2, <3>3
         DEF Build, NewAPI, SetHeader, SetBody, SetURL, SetQueries, SetTimeout,
             SetInternal
    <3> QED BY <2>1, <3>4
  <2>3. ASSUME NEW p \in Goroutines, Request(p)
        PROVE  pc'[q] = "reading"
    <3>1. CASE ReadBody(p) \/ ReadFails(p)
      BY <3>1 DEF ReadBody, ReadFails, Return, Leave, NoBodyStaysOpen, TypeOK
    <3>2. CASE Respond(p)
      BY <3>2 DEF Respond, Leave, NoBodyStaysOpen, TypeOK
    <3>3. CASE Crash(p)
      BY <3>3 DEF Crash, Lost
    <3>4. CASE Refuse(p) \/ DoFails(p)
      BY <3>4 DEF Refuse, DoFails, Return, Leave, NoBodyStaysOpen, TypeOK
    <3>5. CASE \E v \in Builders, m \in Methods : Execute(p, v, m)
      BY <3>5 DEF Execute, NoBodyStaysOpen, TypeOK
    <3>6. CASE BuildPayload(p) \/ SetContentTypeIfNeeded(p) \/ FillHeaders(p)
      BY <3>6 DEF BuildPayload, SetContentTypeIfNeeded, FillHeaders,
                  NoBodyStaysOpen, TypeOK
    <3> QED BY <2>3, <3>1, <3>2, <3>3, <3>4, <3>5, <3>6 DEF Request
  <2> QED BY <2>1, <2>2, <2>3 DEF Next, Halted, vars
<1> QED BY <1>1, <1>2, HttpTypeCorrect, PTL DEF Spec
=============================================================================
