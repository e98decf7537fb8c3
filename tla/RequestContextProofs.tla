------------------------ MODULE RequestContextProofs ------------------------
(***************************************************************************)
(* Proofs about RequestContext, for contexts derived from each other in    *)
(* any order and number, and any loggers bound to them.                    *)
(*                                                                         *)
(* The two spans of a context go separate ways, and which of the two       *)
(* SpanFromContext returns depends on how they were last made. But each of *)
(* them can only be extended, so it is enough to know where it began: the  *)
(* one under svclib's key within the span of the request (if there), the   *)
(* one under Sentry's key likewise where the interceptor or sentryhttp     *)
(* started it. That is the invariant; that the span returned is innermost  *)
(* follows for each case of SpanFromContext.                               *)
(***************************************************************************)
EXTENDS RequestContext, SequenceTheorems, TLAPS

\* Context x belongs to a request and has its hub; its spans extend that of
\* the request, and svclib's those of all operations around it.
Rooted(x) ==
    LET c == context[x]
        r == c.request
    IN  /\ Made(r)
        /\ c.hub # None => Made(c.hub) /\ context[c.hub].request = r
        /\ \A y \in within[x] : Made(y) /\ IsPrefix(context[y].key, c.key)
        /\ Served(r) =>
             /\ RequestSpan(r) # NoSpan
             /\ c.hub # None
             /\ c.key # NoSpan => IsPrefix(RequestSpan(r), c.key)
             /\ kind[r] # "http" => c.key # NoSpan
             /\ kind[r] \in {"http", "root"} => IsPrefix(RequestSpan(r), c.sentry)

ContextsAreRooted ==
    \A x \in Contexts : (Made(x) => Rooted(x)) /\ (~Made(x) => within[x] = {})

\* A logger has the hub and trace of its last binding, the rest of any.
Keeps(k) ==
    LET l  == logger[k]
        xs == ToSet(bound[k])
        r  == context[Last(bound[k])].request
    IN  /\ xs = {} => l.hub = None /\ l.traceID = None
        /\ xs # {} /\ Served(r) =>
             context[l.hub].request = r /\ l.traceID = TraceID(RequestSpan(r))
        /\ l.platform \in {context[x].request : x \in xs} \cup {None}
        /\ k \notin given =>
             l.tenant \in {TenantOf(context[x]) : x \in xs} \cup {None}

LoggersAreBound ==
    \A k \in Loggers : logger[k] # None =>
       /\ \A x \in ToSet(bound[k]) : Made(x)
       /\ logger[k].hub # None => Made(logger[k].hub)
       /\ ToSet(bound[k]) # {} /\ Served(context[Last(bound[k])].request) => logger[k].hub # None
       /\ Keeps(k)

IInv == TypeOK /\ ContextsAreRooted /\ LoggersAreBound

-----------------------------------------------------------------------------
(* Spans, as sequences.                                                    *)

\* A prefix, element by element.
LEMMA PrefixByElement ==
  ASSUME NEW S, NEW s \in Seq(S), NEW t \in Seq(S)
  PROVE  IsPrefix(s, t) <=> Len(s) <= Len(t) /\ \A i \in 1 .. Len(s) : s[i] = t[i]
<1> DEFINE m == Len(s)
           n == Len(t)
<1>1. m \in Nat /\ n \in Nat /\ \A i \in 1 .. m : s[i] \in S
  OBVIOUS
<1>2. \A i \in 1 .. n : t[i] \in S
  OBVIOUS
<1>3. SubSeq(s, 1, m) = s
  OBVIOUS
<1>4. ASSUME m <= n
      PROVE  /\ SubSeq(t, 1, m) \in Seq(S) /\ Len(SubSeq(t, 1, m)) = m
             /\ \A i \in 1 .. m : SubSeq(t, 1, m)[i] = t[i]
  <2> HIDE DEF m, n
  <2>1. 1 \in Int /\ m \in Int /\ \A i \in 1 .. m : t[i] \in S
    BY <1>1, <1>2, <1>4
  <2>2. /\ SubSeq(t, 1, m) \in Seq(S)
        /\ Len(SubSeq(t, 1, m)) = IF 1 <= m THEN m - 1 + 1 ELSE 0
        /\ \A i \in 1 .. m - 1 + 1 : SubSeq(t, 1, m)[i] = t[1 + i - 1]
    BY <2>1, SubSeqProperties
  <2>3. m - 1 + 1 = m /\ (IF 1 <= m THEN m - 1 + 1 ELSE 0) = m
    BY <1>1
  <2>4. \A i \in 1 .. m : 1 + i - 1 = i
    BY <1>1
  <2> QED BY <2>2, <2>3, <2>4
<1>5. ASSUME m <= n, s = SubSeq(t, 1, m)
      PROVE  \A i \in 1 .. m : s[i] = t[i]
  BY <1>4, <1>5
<1>6. ASSUME m <= n, \A i \in 1 .. m : s[i] = t[i]
      PROVE  s = SubSeq(t, 1, m)
  BY <1>4, <1>6, SeqEqual
<1>7. IsPrefix(s, t) <=> m <= n /\ s = SubSeq(t, 1, m)
  BY <1>3, Zenon DEF IsPrefix
<1> QED BY <1>5, <1>6, <1>7, Zenon

\* A span lies within itself.
LEMMA PrefixReflexive ==
  ASSUME NEW s \in Spans
  PROVE  IsPrefix(s, s)
<1>1. Len(s) \in Nat /\ Len(s) <= Len(s) /\ \A i \in 1 .. Len(s) : s[i] = s[i]
  BY DEF Spans
<1> QED BY <1>1, PrefixByElement DEF Spans

\* Spans within spans lie within the outer one.
LEMMA PrefixTransitive ==
  ASSUME NEW s \in Spans, NEW t \in Spans, NEW u \in Spans, IsPrefix(s, t), IsPrefix(t, u)
  PROVE  IsPrefix(s, u)
<1>1. /\ Len(s) \in Nat /\ Len(t) \in Nat /\ Len(u) \in Nat
      /\ Len(s) <= Len(t) /\ \A i \in 1 .. Len(s) : s[i] = t[i]
      /\ Len(t) <= Len(u) /\ \A i \in 1 .. Len(t) : t[i] = u[i]
  BY PrefixByElement DEF Spans
<1>2. Len(s) <= Len(u) /\ \A i \in 1 .. Len(s) : i \in 1 .. Len(t)
  BY <1>1
<1> QED BY <1>1, <1>2, PrefixByElement DEF Spans

\* What spans are made of, and how prefixes go on.
LEMMA SpanAppend ==
  ASSUME NEW s \in Spans, NEW x \in Contexts
  PROVE  /\ Append(s, x) \in Spans /\ Append(s, x) # NoSpan
         /\ IsPrefix(s, s) /\ IsPrefix(NoSpan, s)
         /\ \A t \in Spans : IsPrefix(t, s) => IsPrefix(t, Append(s, x))
<1>1. /\ Append(s, x) \in Seq(Contexts) /\ Append(s, x) # <<>>
      /\ Len(Append(s, x)) = Len(s) + 1 /\ Len(s) \in Nat
      /\ \A i \in 1 .. Len(s) : Append(s, x)[i] = s[i]
  BY AppendProperties DEF Spans
<1>2. IsPrefix(s, s)
  BY PrefixReflexive
<1>3. IsPrefix(NoSpan, s)
  <2>1. <<>> \in Seq(Contexts) /\ Len(<<>>) = 0 /\ \A i \in 1 .. 0 : <<>>[i] = s[i]
    OBVIOUS
  <2>2. 0 <= Len(s)
    BY <1>1
  <2> QED BY <2>1, <2>2, PrefixByElement DEF Spans, NoSpan
<1>4. ASSUME NEW t \in Spans, IsPrefix(t, s)
      PROVE  IsPrefix(t, Append(s, x))
  <2>1. Len(t) \in Nat /\ Len(t) <= Len(s) /\ \A i \in 1 .. Len(t) : t[i] = s[i]
    BY <1>4, PrefixByElement DEF Spans
  <2>2. Len(t) <= Len(Append(s, x)) /\ \A i \in 1 .. Len(t) : i \in 1 .. Len(s)
    BY <1>1, <2>1
  <2>3. \A i \in 1 .. Len(t) : t[i] = Append(s, x)[i]
    BY <1>1, <2>1, <2>2
  <2> QED BY <1>1, <2>2, <2>3, PrefixByElement DEF Spans
<1> QED BY <1>1, <1>2, <1>3, <1>4 DEF Spans, NoSpan

\* A span that extends another is in its trace.
LEMMA SameTrace ==
  ASSUME NEW s \in Spans, NEW t \in Spans, s # NoSpan, IsPrefix(s, t)
  PROVE  t # NoSpan /\ TraceID(s) = TraceID(t) /\ TraceID(s) \in Contexts
<1>1. /\ Len(s) \in Nat /\ Len(s) >= 1 /\ Len(s) <= Len(t)
      /\ \A i \in 1 .. Len(s) : s[i] = t[i]
      /\ s[1] \in Contexts
  BY PrefixByElement DEF Spans, NoSpan
<1>2. t # NoSpan /\ s[1] = t[1]
  BY <1>1 DEF Spans, NoSpan
<1>3. Head(s) = s[1] /\ Head(t) = t[1]
  BY <1>2 DEF Spans, NoSpan
<1> QED BY <1>1, <1>2, <1>3 DEF TraceID

\* What lies within the front of a span lies within the span.
LEMMA WithinFront ==
  ASSUME NEW s \in Spans, NEW t \in Spans, t # NoSpan, IsPrefix(s, Front(t))
  PROVE  IsPrefix(s, t)
<1> DEFINE n == Len(t) - 1
<1>1. n \in Nat /\ n + 1 = Len(t) /\ \A i \in 1 .. n : t[i] \in Contexts
  BY DEF Spans, NoSpan
<1> HIDE DEF n
<1>2. /\ SubSeq(t, 1, n) \in Seq(Contexts)
      /\ Len(SubSeq(t, 1, n)) = n
      /\ \A i \in 1 .. n : SubSeq(t, 1, n)[i] = t[i]
  <2>1. /\ SubSeq(t, 1, n) \in Seq(Contexts)
        /\ Len(SubSeq(t, 1, n)) = IF 1 <= n THEN n - 1 + 1 ELSE 0
        /\ \A i \in 1 .. n - 1 + 1 : SubSeq(t, 1, n)[i] = t[1 + i - 1]
    BY <1>1, SubSeqProperties
  <2>2. n - 1 + 1 = n /\ (IF 1 <= n THEN n - 1 + 1 ELSE 0) = n
    BY <1>1
  <2>3. \A i \in 1 .. n : 1 + i - 1 = i
    BY <1>1
  <2> QED BY <2>1, <2>2, <2>3
<1> DEFINE f == SubSeq(t, 1, n)
<1>3. IsPrefix(s, f) /\ f \in Seq(Contexts) /\ Len(f) = n /\ \A i \in 1 .. n : f[i] = t[i]
  BY <1>2 DEF Front, n
<1> HIDE DEF f
<1>4. Len(s) \in Nat /\ Len(s) <= n /\ \A i \in 1 .. Len(s) : s[i] = f[i]
  BY <1>3, PrefixByElement DEF Spans
<1>5. Len(s) <= Len(t) /\ \A i \in 1 .. Len(s) : s[i] = t[i]
  <2>1. \A i \in 1 .. Len(s) : i \in 1 .. n
    BY <1>1, <1>4
  <2> QED BY <1>1, <1>3, <1>4, <2>1
<1> QED BY <1>5, PrefixByElement DEF Spans

-----------------------------------------------------------------------------
(* Contexts.                                                               *)

\* The fields of a context.
LEMMA ContextFields ==
  ASSUME NEW c \in Context
  PROVE  /\ c.key \in Spans /\ c.sentry \in Spans
         /\ c.traceID \in Contexts \cup {None}
         /\ c.hub \in Contexts \cup {None}
         /\ c.tenant \in Tenants \cup {None}
         /\ c.incoming \in Metadata \cup {None}
         /\ c.request \in Contexts
BY DEF Context

\* What setting one field makes of a context.
LEMMA SetHub ==
  ASSUME NEW c \in Context, NEW x \in Contexts
  PROVE  LET u == [c EXCEPT !.hub = x]
         IN  /\ u \in Context /\ u.hub = x
             /\ u.key = c.key /\ u.sentry = c.sentry /\ u.request = c.request
BY DEF Context

\* The metadata of a call change neither spans nor hub.
LEMMA SetIncoming ==
  ASSUME NEW c \in Context, NEW md \in Metadata
  PROVE  LET u == [c EXCEPT !.incoming = md]
         IN  /\ u \in Context /\ u.hub = c.hub
             /\ u.key = c.key /\ u.sentry = c.sentry /\ u.request = c.request
BY DEF Context

\* A plain span changes the span under Sentry's key and nothing else.
LEMMA SetSentry ==
  ASSUME NEW c \in Context, NEW s \in Spans
  PROVE  LET u == [c EXCEPT !.sentry = s]
         IN  /\ u \in Context /\ u.sentry = s
             /\ u.key = c.key /\ u.hub = c.hub /\ u.request = c.request
BY DEF Context

\* WithTenantID leaves spans and hub alone.
LEMMA SetTenant ==
  ASSUME NEW c \in Context, NEW t \in Tenants \cup {None}
  PROVE  LET u == WithTenantID(c, t)
         IN  /\ u \in Context
             /\ u.key = c.key /\ u.sentry = c.sentry /\ u.hub = c.hub /\ u.request = c.request
BY DEF Context, WithTenantID

\* WithSpan leaves the span under Sentry's key and the hub alone.
LEMMA SetSpan ==
  ASSUME NEW c \in Context, NEW s \in Spans
  PROVE  LET u == WithSpan(c, s)
         IN  /\ u \in Context /\ u.key = s
             /\ u.sentry = c.sentry /\ u.hub = c.hub /\ u.request = c.request
<1> DEFINE v == [c EXCEPT !.key = s]
           w == [v EXCEPT !.traceID = TraceID(s)]
<1>1. TraceID(s) \in Contexts \cup {None}
  BY DEF TraceID, Spans, NoSpan
<1>2. /\ v \in Context /\ v.key = s
      /\ v.sentry = c.sentry /\ v.hub = c.hub /\ v.request = c.request
  BY DEF Context
<1> HIDE DEF v
<1>3. /\ w \in Context /\ w.key = s
      /\ w.sentry = c.sentry /\ w.hub = c.hub /\ w.request = c.request
  BY <1>1, <1>2 DEF Context
<1>4. WithSpan(c, s) = w
  BY Zenon DEF WithSpan, v
<1> QED BY <1>3, <1>4

\* The context without anything.
LEMMA EmptyContext ==
  ASSUME NEW x \in Contexts
  PROVE  /\ Empty(x) \in Context
         /\ Empty(x).key = NoSpan /\ Empty(x).sentry = NoSpan
         /\ Empty(x).hub = None /\ Empty(x).request = x
BY DEF Empty, Context, Spans, NoSpan

\* What the interceptor makes of the context of a call.
LEMMA HandlerContext ==
  ASSUME NEW x \in Contexts, NEW s \in Spans, NEW md \in Metadata
  PROVE  /\ Handler(x, s, md) \in Context
         /\ Handler(x, s, md).key = s /\ Handler(x, s, md).sentry = NoSpan
         /\ Handler(x, s, md).hub = x /\ Handler(x, s, md).request = x
<1> DEFINE e == Empty(x)
           u == [e EXCEPT !.hub = x]
           v == [u EXCEPT !.incoming = md]
           w == WithTenantID(v, md.tenant)
<1>1. e \in Context /\ e.sentry = NoSpan /\ e.request = x
  BY EmptyContext
<1> HIDE DEF e
<1>2. u \in Context /\ u.sentry = NoSpan /\ u.request = x /\ u.hub = x
  BY <1>1, SetHub
<1> HIDE DEF u
<1>3. v \in Context /\ v.sentry = NoSpan /\ v.request = x /\ v.hub = x
  BY <1>2, SetIncoming
<1> HIDE DEF v
<1>4. md.tenant \in Tenants \cup {None}
  BY DEF Metadata
<1>5. w \in Context /\ w.sentry = NoSpan /\ w.request = x /\ w.hub = x
  BY <1>3, <1>4, SetTenant
<1> HIDE DEF w
<1>6. Handler(x, s, md) = WithSpan(w, s)
  BY Zenon DEF Handler, e, u, v, w
<1> QED BY <1>5, <1>6, SetSpan

\* The span SpanFromContext returns lies within svclib's; if the context has
\* one of them it returns one.
LEMMA Innermost ==
  ASSUME NEW c \in Context
  PROVE  /\ SpanFromContext(c) \in Spans
         /\ IsPrefix(c.key, SpanFromContext(c))
         /\ c.key # NoSpan => SpanFromContext(c) # NoSpan
         /\ c.key = NoSpan => SpanFromContext(c) = c.sentry
<1> DEFINE s == SpanFromContext(c)
<1>1. c.key \in Spans /\ c.sentry \in Spans /\ NoSpan \in Spans
  BY ContextFields DEF Spans, NoSpan
<1>2. CASE s = c.key
  <2>1. IsPrefix(c.key, c.key)
    BY <1>1, PrefixReflexive
  <2> QED BY <1>1, <1>2, <2>1 DEF SpanFromContext
<1>3. CASE s # c.key
  <2>1. s = c.sentry /\ c.sentry # NoSpan /\ (c.key = NoSpan \/ Front(c.sentry) = c.key)
    BY <1>3 DEF SpanFromContext
  <2>2. IsPrefix(c.key, c.sentry)
    <3>1. CASE c.key = NoSpan
      BY <1>1, <3>1, SpanAppend DEF Context
    <3>2. CASE Front(c.sentry) = c.key
      <4>1. IsPrefix(c.key, c.key)
        BY <1>1, PrefixReflexive
      <4> QED BY <1>1, <2>1, <3>2, <4>1, WithinFront
    <3> QED BY <2>1, <3>1, <3>2
  <2> QED BY <1>1, <2>1, <2>2
<1> QED BY <1>2, <1>3

-----------------------------------------------------------------------------
(* Contexts are made.                                                      *)

\* A new context disturbs no other context and no logger.
LEMMA MakeStep ==
  ASSUME IInv, NEW x \in Contexts, NEW k \in Kinds \ {"none"}, NEW c \in Context,
         NEW ops \in SUBSET Contexts, Make(x, k, c, ops),
         Rooted(x)'
  PROVE  IInv'
<1>0. TypeOK /\ ContextsAreRooted /\ LoggersAreBound /\ ~Made(x)
  BY DEF IInv, Make
<1>1. /\ \A y \in Contexts : y # x =>
            context'[y] = context[y] /\ kind'[y] = kind[y] /\ within'[y] = within[y]
      /\ kind'[x] = k /\ k # "none"
      /\ UNCHANGED <<logger, bound, given>>
  BY <1>0 DEF Make, TypeOK
<1>2. \A y \in Contexts : Made(y) =>
         /\ y # x /\ Made(y)' /\ context'[y] = context[y] /\ within'[y] = within[y]
         /\ kind'[y] = kind[y]
         /\ Served(y)' = Served(y) /\ RequestSpan(y)' = RequestSpan(y)
  BY <1>0, <1>1 DEF Made, Served, RequestSpan
<1>3. \A y \in Contexts :
         /\ context[y].request \in Contexts
         /\ context[y].hub \in Contexts \cup {None}
         /\ within[y] \in SUBSET Contexts
  BY <1>0, ContextFields DEF TypeOK
<1>4. TypeOK'
  BY <1>0, <1>1 DEF Make, TypeOK
<1>5. ContextsAreRooted'
  <2> SUFFICES ASSUME NEW y \in Contexts, y # x, Made(y)
               PROVE  Rooted(y)'
    BY <1>0, <1>1 DEF ContextsAreRooted, Made
  <2> DEFINE r == context[y].request
  <2>1. Rooted(y) /\ r \in Contexts /\ Made(r) /\ context'[y] = context[y] /\ within'[y] = within[y]
    BY <1>0, <1>2, <1>3 DEF ContextsAreRooted, Rooted
  <2>2. /\ Made(r)' /\ Served(r)' = Served(r) /\ RequestSpan(r)' = RequestSpan(r)
        /\ kind'[r] = kind[r]
    BY <1>2, <2>1
  <2>3. context[y].hub # None =>
           Made(context[y].hub)' /\ context'[context[y].hub].request = r
    BY <1>2, <1>3, <2>1 DEF Rooted
  <2>4. \A z \in within[y] : Made(z)' /\ IsPrefix(context'[z].key, context[y].key)
    BY <1>2, <1>3, <2>1 DEF Rooted
  <2>5. Served(r) =>
             /\ RequestSpan(r) # NoSpan
             /\ context[y].hub # None
             /\ context[y].key # NoSpan => IsPrefix(RequestSpan(r), context[y].key)
             /\ kind[r] # "http" => context[y].key # NoSpan
             /\ kind[r] \in {"http", "root"} => IsPrefix(RequestSpan(r), context[y].sentry)
    BY <2>1 DEF Rooted
  <2> QED BY <2>1, <2>2, <2>3, <2>4, <2>5 DEF Rooted
<1>6. LoggersAreBound'
  <2> SUFFICES ASSUME NEW l \in Loggers, logger[l] # None
               PROVE  /\ \A y \in ToSet(bound[l]) : Made(y)'
                      /\ logger[l].hub # None => Made(logger[l].hub)'
                      /\ (ToSet(bound[l]) # {} /\ Served(context[Last(bound[l])].request) => logger[l].hub # None)'
                      /\ Keeps(l)'
    BY <1>1 DEF LoggersAreBound
  <2> DEFINE xs == ToSet(bound[l])
  <2>1. /\ \A y \in xs : Made(y)
        /\ logger[l].hub # None => Made(logger[l].hub)
        /\ xs # {} /\ Served(context[Last(bound[l])].request) => logger[l].hub # None
        /\ Keeps(l)
    BY <1>0 DEF LoggersAreBound
  <2>2. bound[l] \in Seq(Contexts) /\ xs \subseteq Contexts /\ logger[l].hub \in Contexts \cup {None}
    BY <1>0 DEF TypeOK, ToSet, Logger
  <2>3. /\ \A y \in xs : Made(y)' /\ context'[y] = context[y]
        /\ logger[l].hub # None =>
              Made(logger[l].hub)' /\ context'[logger[l].hub] = context[logger[l].hub]
    BY <1>1, <1>2, <2>1, <2>2
  <2>4. /\ {context'[y].request : y \in xs} = {context[y].request : y \in xs}
        /\ {TenantOf(context'[y]) : y \in xs} = {TenantOf(context[y]) : y \in xs}
    BY <2>3
  <2>5. CASE xs = {}
    <3>1. Keeps(l)'
      BY <1>1, <2>1, <2>4, <2>5 DEF Keeps
    <3> QED BY <1>1, <2>3, <2>5, <3>1
  <2>6. CASE xs # {}
    <3>1. PICK y \in xs : y = Last(bound[l])
      BY <2>2, <2>6 DEF ToSet, Last
    <3>2. PICK q \in Contexts : q = context[y].request
      BY <1>3, <2>2
    <3>3. Made(q)
      BY <1>0, <2>1, <2>2, <3>2 DEF ContextsAreRooted, Rooted
    <3>4. context'[y].request = q /\ Served(q)' = Served(q) /\ RequestSpan(q)' = RequestSpan(q)
      BY <1>2, <2>3, <3>2, <3>3
    <3>5. Served(q) =>
             /\ logger[l].hub # None
             /\ context[logger[l].hub].request = q
             /\ logger[l].traceID = TraceID(RequestSpan(q))
      BY <2>1, <2>6, <3>1, <3>2 DEF Keeps
    <3>6. /\ logger[l].platform \in {context[z].request : z \in xs} \cup {None}
          /\ l \notin given => logger[l].tenant \in {TenantOf(context[z]) : z \in xs} \cup {None}
      BY <2>1 DEF Keeps
    <3>7. Keeps(l)'
      <4> HIDE DEF xs
      <4>1. context'[Last(bound'[l])].request = q /\ bound'[l] = bound[l] /\ logger'[l] = logger[l] /\ given' = given
        BY <1>1, <3>1, <3>4
      <4> QED BY <2>3, <2>4, <2>6, <3>4, <3>5, <3>6, <4>1 DEF Keeps, xs
    <3>8. (ToSet(bound[l]) # {} /\ Served(context[Last(bound[l])].request) => logger[l].hub # None)'
      BY <1>1, <3>1, <3>4, <3>5
    <3> QED BY <1>1, <2>3, <3>7, <3>8
  <2> QED BY <2>5, <2>6
<1> QED BY <1>4, <1>5, <1>6 DEF IInv

\* A request begins with the span the others will extend.
LEMMA ServedStep ==
  ASSUME IInv, NEW x \in Contexts, NEW k \in {"http", "registry", "header", "root"},
         NEW c \in Context, NEW ops \in SUBSET {x}, Make(x, k, c, ops),
         c.request = x, c.hub = x,
         IF k = "http" THEN c.key = NoSpan /\ c.sentry # NoSpan ELSE c.key # NoSpan,
         k = "root" => c.sentry = c.key
  PROVE  IInv'
<1>1. context'[x] = c /\ kind'[x] = k /\ within'[x] = ops
  BY DEF IInv, TypeOK, Make
<1>2. Made(x)' /\ Served(x)'
  BY <1>1 DEF Made, Served
<1>3. RequestSpan(x)' = IF k = "http" THEN c.sentry ELSE c.key
  BY <1>1 DEF RequestSpan
<1>4. IsPrefix(c.key, c.key) /\ IsPrefix(c.sentry, c.sentry) /\ x # None
  BY ContextFields, PrefixReflexive, NoneAssumption
<1>5. Rooted(x)'
  BY <1>1, <1>2, <1>3, <1>4 DEF Rooted
<1> QED BY <1>5, MakeStep DEF Kinds

\* Each way a request begins keeps the invariant.
LEMMA ServeStep ==
  ASSUME IInv, NEW x \in Contexts, Serve(x)
  PROVE  IInv'
<1>1. <<x>> \in Spans /\ <<x>> # NoSpan /\ <<x, x>> \in Spans /\ <<x, x>> # NoSpan
  BY DEF Spans, NoSpan
<1>2. ASSUME NEW t \in Tenants \cup {None}, ServeHTTP(x, t)
      PROVE  IInv'
  <2> DEFINE e == Empty(x)
             u == [e EXCEPT !.sentry = <<x>>]
             v == [u EXCEPT !.hub = x]
             c == WithTenantID(v, t)
  <2>1. e \in Context /\ e.key = NoSpan /\ e.request = x
    BY EmptyContext
  <2> HIDE DEF e
  <2>2. u \in Context /\ u.key = NoSpan /\ u.request = x /\ u.sentry = <<x>>
    BY <1>1, <2>1, SetSentry
  <2> HIDE DEF u
  <2>3. v \in Context /\ v.key = NoSpan /\ v.request = x /\ v.sentry = <<x>> /\ v.hub = x
    BY <2>2, SetHub
  <2> HIDE DEF v
  <2>4. c \in Context /\ c.key = NoSpan /\ c.request = x /\ c.sentry = <<x>> /\ c.hub = x
    BY <2>3, SetTenant
  <2>5. Make(x, "http", c, {})
    BY <1>2, Zenon DEF ServeHTTP, e, u, v
  <2> HIDE DEF c
  <2> QED BY <1>1, <2>4, <2>5, ServedStep
<1>3. ASSUME NEW md \in Metadata, NEW p \in Spans, ServeRegistered(x, p, md)
      PROVE  IInv'
  <2> DEFINE s == Append(p, x)
             c == Handler(x, s, md)
  <2>1. s \in Spans /\ s # NoSpan
    BY SpanAppend
  <2> HIDE DEF s
  <2>2. c \in Context /\ c.key = s /\ c.request = x /\ c.hub = x
    BY <2>1, HandlerContext
  <2>3. Make(x, "registry", c, {x})
    BY <1>3, Zenon DEF ServeRegistered, s
  <2> HIDE DEF c
  <2> QED BY <2>1, <2>2, <2>3, ServedStep
<1>4. ASSUME NEW md \in Metadata, ServeContinued(x, md)
      PROVE  IInv'
  <2> DEFINE c == Handler(x, <<x, x>>, md)
  <2>1. c \in Context /\ c.key = <<x, x>> /\ c.request = x /\ c.hub = x
    BY <1>1, HandlerContext
  <2>2. Make(x, "header", c, {x})
    BY <1>4 DEF ServeContinued
  <2> HIDE DEF c
  <2> QED BY <1>1, <2>1, <2>2, ServedStep
<1>5. ASSUME NEW md \in Metadata, ServeRoot(x, md)
      PROVE  IInv'
  <2> DEFINE h == Handler(x, <<x>>, md)
             c == [h EXCEPT !.sentry = <<x>>]
  <2>1. h \in Context /\ h.key = <<x>> /\ h.request = x /\ h.hub = x
    BY <1>1, HandlerContext
  <2> HIDE DEF h
  <2>2. c \in Context /\ c.key = <<x>> /\ c.sentry = <<x>> /\ c.request = x /\ c.hub = x
    BY <1>1, <2>1, SetSentry
  <2>3. Make(x, "root", c, {x})
    BY <1>5, Zenon DEF ServeRoot, h
  <2> HIDE DEF c
  <2> QED BY <1>1, <2>2, <2>3, ServedStep
<1>6. ASSUME Background(x)
      PROVE  IInv'
  <2>1. /\ Empty(x) \in Context /\ Empty(x).key = NoSpan
        /\ Empty(x).hub = None /\ Empty(x).request = x
    BY EmptyContext
  <2>2. Make(x, "background", Empty(x), {})
    BY <1>6 DEF Background
  <2>3. context'[x] = Empty(x) /\ kind'[x] = "background" /\ within'[x] = {}
    BY <2>2 DEF IInv, TypeOK, Make
  <2>4. Made(x)' /\ ~Served(x)'
    BY <2>3 DEF Made, Served
  <2>5. Rooted(x)'
    BY <2>1, <2>3, <2>4 DEF Rooted
  <2> QED BY <2>1, <2>2, <2>5, MakeStep DEF Kinds
<1>7. \A y \in Contexts : context[y].sentry \in Spans
  BY ContextFields DEF IInv, TypeOK
<1> QED BY <1>2, <1>3, <1>4, <1>5, <1>6, <1>7 DEF Serve

\* A context made of another one belongs to the same request; it has either
\* the key of the other, or a child of its innermost span.
LEMMA DerivedStep ==
  ASSUME IInv, NEW x \in Contexts, NEW y \in Contexts, Made(y),
         NEW k \in {"operation", "plain", "tenant"},
         NEW c \in Context, NEW ops \in SUBSET Contexts, Make(x, k, c, ops),
         c.request = context[y].request,
         \/ c.hub = context[y].hub
         \/ c.hub = x,
         \/ c.key = context[y].key /\ ops = within[y]
         \/ c.key = Append(SpanFromContext(context[y]), x) /\ ops = within[y] \cup {x},
         \/ c.sentry = context[y].sentry
         \/ c.sentry = Append(context[y].sentry, x)
  PROVE  IInv'
<1> DEFINE d == context[y]
           r == c.request
           s == SpanFromContext(d)
<1>0. TypeOK /\ Rooted(y) /\ ~Made(x) /\ x # y
  BY DEF IInv, ContextsAreRooted, Make, Made
<1>1. context'[x] = c /\ kind'[x] = k /\ within'[x] = ops
  BY <1>0 DEF TypeOK, Make
<1>2. \A z \in Contexts : Made(z) =>
         /\ z # x /\ Made(z)' /\ context'[z] = context[z] /\ kind'[z] = kind[z]
         /\ Served(z)' = Served(z) /\ RequestSpan(z)' = RequestSpan(z)
  BY <1>0 DEF TypeOK, Make, Made, Served, RequestSpan
<1>3. /\ d \in Context /\ d.key \in Spans /\ d.sentry \in Spans
      /\ r \in Contexts /\ Made(r) /\ d.hub \in Contexts \cup {None}
      /\ within[y] \in SUBSET Contexts
  BY <1>0, ContextFields DEF TypeOK, Rooted
<1>4. s \in Spans /\ IsPrefix(d.key, s) /\ (d.key # NoSpan => s # NoSpan) /\ (d.key = NoSpan => s = d.sentry)
  BY <1>3, Innermost
<1>5. Made(x)' /\ x # None
  BY <1>1, NoneAssumption DEF Made
<1>6. /\ Made(r)' /\ Served(r)' = Served(r) /\ RequestSpan(r)' = RequestSpan(r) /\ kind'[r] = kind[r]
  BY <1>2, <1>3
<1>7. c.hub # None => Made(c.hub)' /\ context'[c.hub].request = r
  <2>1. CASE c.hub = x
    BY <1>1, <1>5, <2>1
  <2>2. CASE c.hub = d.hub
    BY <1>0, <1>2, <1>3, <2>2 DEF Rooted
  <2> QED BY <2>1, <2>2
\* The spans a span of y extends, its child extends, too.
<1>8. ASSUME NEW z \in Spans
      PROVE  /\ IsPrefix(z, d.key) => IsPrefix(z, c.key)
             /\ IsPrefix(z, d.sentry) => IsPrefix(z, c.sentry)
  <2>1. IsPrefix(z, d.sentry) => IsPrefix(z, c.sentry)
    BY <1>3, SpanAppend
  <2>2. ASSUME IsPrefix(z, d.key)
        PROVE  IsPrefix(z, c.key)
    <3>1. IsPrefix(z, s)
      BY <1>3, <1>4, <2>2, PrefixTransitive
    <3>2. IsPrefix(z, Append(s, x))
      BY <1>4, <3>1, SpanAppend
    <3> QED BY <2>2, <3>2
  <2> QED BY <2>1, <2>2
<1>9. \A z \in ops : Made(z)' /\ IsPrefix(context'[z].key, c.key)
  <2> SUFFICES ASSUME NEW z \in ops
               PROVE  Made(z)' /\ IsPrefix(context'[z].key, c.key)
    OBVIOUS
  <2>1. CASE z = x
    <3>1. IsPrefix(c.key, c.key)
      BY ContextFields, PrefixReflexive
    <3> QED BY <1>1, <1>5, <2>1, <3>1
  <2>2. CASE z # x
    <3>1. z \in within[y] /\ z \in Contexts
      BY <1>3, <2>2
    <3>2. Made(z) /\ IsPrefix(context[z].key, d.key)
      BY <1>0, <3>1 DEF Rooted
    <3>3. context[z].key \in Spans
      BY <1>0, <3>1, ContextFields DEF TypeOK
    <3> QED BY <1>2, <1>8, <3>1, <3>2, <3>3
  <2> QED BY <2>1, <2>2
<1>10. ASSUME Served(r)
       PROVE  /\ RequestSpan(r) # NoSpan
              /\ c.hub # None
              /\ c.key # NoSpan => IsPrefix(RequestSpan(r), c.key)
              /\ kind[r] # "http" => c.key # NoSpan
              /\ kind[r] \in {"http", "root"} => IsPrefix(RequestSpan(r), c.sentry)
  <2> DEFINE q == RequestSpan(r)
  <2>1. /\ q # NoSpan /\ d.hub # None
        /\ d.key # NoSpan => IsPrefix(q, d.key)
        /\ kind[r] # "http" => d.key # NoSpan
        /\ kind[r] \in {"http", "root"} => IsPrefix(q, d.sentry)
    BY <1>0, <1>10 DEF Rooted
  <2>2. q \in Spans
    BY <1>0, <1>3, ContextFields DEF RequestSpan, TypeOK
  <2>3. c.hub # None
    BY <1>5, <2>1
  <2>4. kind[r] # "http" => c.key # NoSpan
    BY <1>4, <2>1, SpanAppend
  <2>5. kind[r] \in {"http", "root"} => IsPrefix(q, c.sentry)
    BY <1>8, <2>1, <2>2
  <2>6. ASSUME c.key # NoSpan
        PROVE  IsPrefix(q, c.key)
    <3>1. CASE d.key # NoSpan
      BY <1>8, <2>1, <2>2, <3>1
    <3>2. CASE d.key = NoSpan
      <4>1. kind[r] = "http" /\ IsPrefix(q, d.sentry) /\ s = d.sentry
        BY <1>4, <2>1, <3>2
      <4>2. c.key = Append(s, x)
        BY <2>6, <3>2
      <4> QED BY <1>4, <2>2, <4>1, <4>2, SpanAppend
    <3> QED BY <3>1, <3>2
  <2> QED BY <2>1, <2>3, <2>4, <2>5, <2>6
<1>11. Rooted(x)'
  BY <1>1, <1>6, <1>7, <1>9, <1>10 DEF Rooted
<1> QED BY <1>11, MakeStep DEF Kinds

\* Each way a context is made of another keeps the invariant.
LEMMA DeriveStep ==
  ASSUME IInv, NEW x \in Contexts, NEW y \in Contexts, Derive(x, y)
  PROVE  IInv'
<1> DEFINE d == context[y]
<1>1. Made(y) /\ d \in Context /\ d.sentry \in Spans /\ within[y] \in SUBSET Contexts
  BY ContextFields DEF IInv, TypeOK, Derive, StartSpan, PlainStartSpan, AddTenant
<1>2. ASSUME StartSpan(x, y)
      PROVE  IInv'
  <2> DEFINE s == Append(SpanFromContext(d), x)
             h == [d EXCEPT !.hub = x]
             c == WithSpan(h, s)
  <2>1. s \in Spans
    BY <1>1, Innermost, SpanAppend
  <2>2. Make(x, "operation", c, within[y] \cup {x})
    BY <1>2, Zenon DEF StartSpan
  <2> HIDE DEF d
  <2>3. h \in Context /\ h.hub = x /\ h.sentry = d.sentry /\ h.request = d.request
    BY <1>1, SetHub
  <2> HIDE DEF h, s
  <2>4. c \in Context /\ c.hub = x /\ c.sentry = d.sentry /\ c.request = d.request /\ c.key = s
    BY <2>1, <2>3, SetSpan
  <2> HIDE DEF c
  <2> QED BY <1>1, <2>2, <2>4, DerivedStep DEF d, s
<1>3. ASSUME PlainStartSpan(x, y)
      PROVE  IInv'
  <2> DEFINE s == Append(d.sentry, x)
             c == [d EXCEPT !.sentry = s]
  <2>1. s \in Spans
    BY <1>1, SpanAppend
  <2>2. Make(x, "plain", c, within[y])
    BY <1>3, Zenon DEF PlainStartSpan
  <2> HIDE DEF d, s
  <2>3. c \in Context /\ c.sentry = s /\ c.key = d.key /\ c.hub = d.hub /\ c.request = d.request
    BY <1>1, <2>1, SetSentry
  <2> HIDE DEF c
  <2> QED BY <1>1, <2>2, <2>3, DerivedStep DEF d, s
<1>4. ASSUME NEW t \in Tenants, AddTenant(x, y, t)
      PROVE  IInv'
  <2> DEFINE c == WithTenantID(d, t)
  <2>1. Make(x, "tenant", c, within[y])
    BY <1>4 DEF AddTenant
  <2> HIDE DEF d
  <2>2. c \in Context /\ c.sentry = d.sentry /\ c.key = d.key /\ c.hub = d.hub /\ c.request = d.request
    BY <1>1, SetTenant
  <2> HIDE DEF c
  <2> QED BY <1>1, <2>1, <2>2, DerivedStep DEF d
<1> QED BY <1>2, <1>3, <1>4 DEF Derive

-----------------------------------------------------------------------------
(* Loggers are made.                                                       *)

\* A new logger disturbs no other.
LEMMA MakeLoggerStep ==
  ASSUME IInv, NEW k \in Loggers, NEW l \in Logger, NEW b \in Seq(Contexts),
         NEW g \in SUBSET {k},
         MakeLogger(k, l), bound' = [bound EXCEPT ![k] = b], given' = given \cup g,
         \A x \in ToSet(b) : Made(x),
         l.hub # None => Made(l.hub),
         ToSet(b) # {} /\ Served(context[Last(b)].request) => l.hub # None,
         Keeps(k)'
  PROVE  IInv'
<1>0. TypeOK /\ ContextsAreRooted /\ LoggersAreBound
  BY DEF IInv
<1>1. /\ UNCHANGED <<kind, context, within>>
      /\ logger'[k] = l /\ bound'[k] = b
      /\ \A o \in Loggers : o # k =>
            logger'[o] = logger[o] /\ bound'[o] = bound[o] /\ (o \in given' <=> o \in given)
  BY <1>0 DEF MakeLogger, TypeOK
<1>2. TypeOK'
  BY <1>0, <1>1 DEF MakeLogger, TypeOK
<1>3. ContextsAreRooted'
  BY <1>0, <1>1 DEF ContextsAreRooted, Rooted, Made, Served, RequestSpan
<1>4. LoggersAreBound'
  <2> SUFFICES ASSUME NEW o \in Loggers, logger'[o] # None
               PROVE  (/\ \A x \in ToSet(bound[o]) : Made(x)
                       /\ logger[o].hub # None => Made(logger[o].hub)
                       /\ ToSet(bound[o]) # {} /\ Served(context[Last(bound[o])].request) => logger[o].hub # None
                       /\ Keeps(o))'
    BY DEF LoggersAreBound
  <2>1. CASE o = k
    BY <1>1, <2>1 DEF Made, Served
  <2>2. CASE o # k
    <3>1. /\ \A x \in ToSet(bound[o]) : Made(x)
          /\ logger[o].hub # None => Made(logger[o].hub)
          /\ ToSet(bound[o]) # {} /\ Served(context[Last(bound[o])].request) => logger[o].hub # None
          /\ Keeps(o)
      BY <1>0, <1>1, <2>2 DEF LoggersAreBound
    <3> QED BY <1>1, <2>2, <3>1 DEF Made, Served, RequestSpan, Keeps
  <2> QED BY <2>1, <2>2
<1> QED BY <1>2, <1>3, <1>4 DEF IInv

\* A logger with a field keeps the bindings of the original.
LEMMA WithFieldsStep ==
  ASSUME IInv, NEW k \in Loggers, NEW o \in Loggers, NEW t \in Tenants, WithFields(k, o, t)
  PROVE  IInv'
<1> DEFINE l == [logger[o] EXCEPT !.tenant = t]
           b == bound[o]
<1>1. /\ logger[o] # None /\ MakeLogger(k, l)
      /\ bound' = [bound EXCEPT ![k] = b] /\ given' = given \cup {k}
  BY DEF WithFields
<1>2. TypeOK /\ LoggersAreBound /\ b \in Seq(Contexts) /\ logger[o] \in Logger
  BY <1>1 DEF IInv, TypeOK
<1>3. /\ l \in Logger /\ l.hub = logger[o].hub /\ l.traceID = logger[o].traceID
      /\ l.platform = logger[o].platform
  <2> DEFINE m == logger[o]
  <2>1. m \in Logger
    BY <1>2
  <2> HIDE DEF m
  <2>2. /\ [m EXCEPT !.tenant = t] \in Logger
        /\ [m EXCEPT !.tenant = t].hub = m.hub
        /\ [m EXCEPT !.tenant = t].traceID = m.traceID
        /\ [m EXCEPT !.tenant = t].platform = m.platform
    BY <2>1 DEF Logger
  <2> QED BY <2>2 DEF m
<1> HIDE DEF l
<1>4. /\ \A x \in ToSet(b) : Made(x)
      /\ l.hub # None => Made(l.hub)
      /\ ToSet(b) # {} /\ Served(context[Last(b)].request) => l.hub # None
      /\ Keeps(o)
  BY <1>1, <1>2, <1>3 DEF LoggersAreBound
<1>5. Keeps(k)'
  <2>1. /\ logger'[k] = l /\ bound'[k] = b /\ k \in given'
        /\ UNCHANGED <<kind, context>>
    BY <1>1, <1>2 DEF TypeOK, MakeLogger
  <2> QED BY <1>3, <1>4, <2>1 DEF Keeps, Served, RequestSpan
<1> QED BY <1>1, <1>2, <1>3, <1>4, <1>5, MakeLoggerStep

\* What binding makes of a logger.
LEMMA BindFields ==
  ASSUME NEW l \in Logger, NEW c \in Context
  PROVE  /\ Bind(l, c) \in Logger
         /\ Bind(l, c).hub = c.hub
         /\ Bind(l, c).traceID = TraceIDFromContext(c)
         /\ Bind(l, c).platform \in {l.platform, c.request, None}
         /\ Bind(l, c).tenant \in {l.tenant, TenantOf(c)}
<1>1. /\ l.tenant \in Tenants \cup {None} /\ l.platform \in Contexts \cup {None}
  BY DEF Logger
<1>2. TenantOf(c) \in Tenants \cup {None}
  BY ContextFields DEF TenantOf, Metadata
<1>3. SpanFromContext(c) \in Spans
  BY Innermost
<1>4. TraceIDFromContext(c) \in Contexts \cup {None}
  BY <1>3, ContextFields DEF TraceIDFromContext, TraceID, Spans, NoSpan
<1>5. c.hub \in Contexts \cup {None} /\ c.request \in Contexts
  BY ContextFields
<1>6. (IF TenantOf(c) = None THEN l.tenant ELSE TenantOf(c)) \in Tenants \cup {None}
  BY <1>1, <1>2
<1>7. (IF c.incoming = None THEN l.platform
       ELSE IF c.incoming.platform THEN c.request ELSE None) \in Contexts \cup {None}
  BY <1>1, <1>5
<1> QED BY <1>3, <1>4, <1>5, <1>6, <1>7 DEF Bind, Logger

\* The trace a context of a request gives is that of the request.
LEMMA TraceOfRequest ==
  ASSUME IInv, NEW x \in Contexts, Made(x), Served(context[x].request)
  PROVE  TraceIDFromContext(context[x]) = TraceID(RequestSpan(context[x].request))
<1> DEFINE c == context[x]
           r == c.request
           q == RequestSpan(r)
           s == SpanFromContext(c)
<1>1. /\ c \in Context /\ c.key \in Spans /\ c.sentry \in Spans /\ r \in Contexts
  BY ContextFields DEF IInv, TypeOK
<1>2. q \in Spans
  <2>1. context[r] \in Context
    BY <1>1 DEF IInv, TypeOK
  <2> QED BY <2>1, ContextFields DEF RequestSpan
<1>3. /\ q # NoSpan
      /\ c.key # NoSpan => IsPrefix(q, c.key)
      /\ kind[r] # "http" => c.key # NoSpan
      /\ kind[r] \in {"http", "root"} => IsPrefix(q, c.sentry)
  BY DEF IInv, ContextsAreRooted, Rooted
<1>4. s \in Spans /\ IsPrefix(c.key, s) /\ (c.key = NoSpan => s = c.sentry)
  BY <1>1, Innermost
<1>5. IsPrefix(q, s)
  <2>1. CASE c.key # NoSpan
    BY <1>1, <1>2, <1>3, <1>4, <2>1, PrefixTransitive
  <2>2. CASE c.key = NoSpan
    BY <1>3, <1>4, <2>2
  <2> QED BY <2>1, <2>2
<1>6. s # NoSpan /\ TraceID(q) = TraceID(s)
  BY <1>2, <1>3, <1>4, <1>5, SameTrace
<1> QED BY <1>6 DEF TraceIDFromContext

\* A logger bound to x takes over the hub and the trace of x.
LEMMA WithContextStep ==
  ASSUME IInv, NEW k \in Loggers, NEW o \in Loggers, NEW x \in Contexts, WithContext(k, o, x)
  PROVE  IInv'
<1> DEFINE c == context[x]
           l == Bind(logger[o], c)
           b == Append(bound[o], x)
           r == c.request
<1>1. /\ logger[o] # None /\ Made(x) /\ MakeLogger(k, l)
      /\ bound' = [bound EXCEPT ![k] = b]
      /\ given' = IF o \in given THEN given \cup {k} ELSE given
  BY DEF WithContext
<1>2. /\ TypeOK /\ LoggersAreBound /\ Rooted(x)
      /\ bound[o] \in Seq(Contexts) /\ logger[o] \in Logger /\ c \in Context
  BY <1>1 DEF IInv, TypeOK, ContextsAreRooted
<1>3. /\ l \in Logger /\ l.hub = c.hub /\ l.traceID = TraceIDFromContext(c)
      /\ l.platform \in {logger[o].platform, r, None}
      /\ l.tenant \in {logger[o].tenant, TenantOf(c)}
  BY <1>2, BindFields
<1>4. b \in Seq(Contexts) /\ ToSet(b) = ToSet(bound[o]) \cup {x} /\ Last(b) = x
  <2>1. /\ b \in Seq(Contexts) /\ Len(b) = Len(bound[o]) + 1 /\ Len(bound[o]) \in Nat
        /\ \A i \in 1 .. Len(bound[o]) : b[i] = bound[o][i]
        /\ b[Len(bound[o]) + 1] = x
    BY <1>2, AppendProperties
  <2> HIDE DEF b
  <2>2. DOMAIN b = 1 .. Len(bound[o]) + 1 /\ DOMAIN bound[o] = 1 .. Len(bound[o])
    BY <1>2, <2>1
  <2>3. ToSet(b) = ToSet(bound[o]) \cup {x}
    BY <2>1, <2>2 DEF ToSet
  <2> QED BY <2>1, <2>3 DEF Last
<1>5. /\ \A y \in ToSet(bound[o]) : Made(y)
      /\ Keeps(o)
  BY <1>1, <1>2 DEF LoggersAreBound
<1>6. /\ c.hub # None => Made(c.hub) /\ context[c.hub].request = r
      /\ Served(r) => c.hub # None
  BY <1>2 DEF Rooted
<1>7. Served(r) => TraceIDFromContext(c) = TraceID(RequestSpan(r))
  BY <1>1, TraceOfRequest
<1> HIDE DEF l, b
<1>8. Keeps(k)'
  <2> DEFINE xs == ToSet(bound[o])
  <2>1. /\ logger'[k] = l /\ bound'[k] = b
        /\ UNCHANGED <<kind, context>>
    BY <1>1, <1>2 DEF TypeOK, MakeLogger
  <2>2. context'[Last(bound'[k])] = c /\ ToSet(bound'[k]) = xs \cup {x} /\ xs \cup {x} # {}
    BY <1>4, <2>1
  <2>3. Served(r)' = Served(r) /\ RequestSpan(r)' = RequestSpan(r)
    BY <2>1 DEF Served, RequestSpan
  <2>4. Served(r) => context'[l.hub].request = r /\ l.traceID = TraceID(RequestSpan(r))
    BY <1>3, <1>6, <1>7, <2>1
  <2>5. l.platform \in {context'[y].request : y \in xs \cup {x}} \cup {None}
    <3>1. logger[o].platform \in {context[y].request : y \in xs} \cup {None}
      BY <1>5 DEF Keeps
    <3> QED BY <1>3, <2>1, <3>1
  <2>6. k \notin given' => l.tenant \in {TenantOf(context'[y]) : y \in xs \cup {x}} \cup {None}
    <3>1. k \notin given' => o \notin given
      BY <1>1
    <3>2. o \notin given => logger[o].tenant \in {TenantOf(context[y]) : y \in xs} \cup {None}
      BY <1>5 DEF Keeps
    <3> QED BY <1>3, <2>1, <3>1, <3>2
  <2> QED BY <2>1, <2>2, <2>3, <2>4, <2>5, <2>6 DEF Keeps
<1> DEFINE g == IF o \in given THEN {k} ELSE {}
<1>9. g \in SUBSET {k} /\ given' = given \cup g
  BY <1>1
<1> HIDE DEF g
<1> QED BY <1>1, <1>2, <1>3, <1>4, <1>5, <1>6, <1>8, <1>9, MakeLoggerStep

-----------------------------------------------------------------------------
(* Theorems.                                                               *)

\* Every behaviour of RequestContext keeps the invariant.
THEOREM ContextInvariant == Spec => []IInv
<1>1. Init => IInv
  <2> SUFFICES ASSUME Init PROVE IInv
    OBVIOUS
  <2>1. New \in Logger /\ New.hub = None /\ New.traceID = None /\ New.platform = None /\ New.tenant = None
    BY DEF New, Logger, Spans, NoSpan
  <2>2. TypeOK
    <3>1. /\ kind \in [Contexts -> Kinds]
          /\ within \in [Contexts -> SUBSET Contexts]
          /\ bound \in [Loggers -> Seq(Contexts)]
          /\ given \subseteq Loggers
      BY DEF Init, Kinds
    <3>2. context \in [Contexts -> Context]
      BY EmptyContext DEF Init
    <3>3. logger \in [Loggers -> Logger \cup {None}]
      BY <2>1 DEF Init
    <3> QED BY <3>1, <3>2, <3>3 DEF TypeOK
  <2>3. ContextsAreRooted
    BY DEF Init, ContextsAreRooted, Made
  <2>4. LoggersAreBound
    <3> SUFFICES ASSUME NEW k \in Loggers, logger[k] # None
                 PROVE  /\ \A x \in ToSet(bound[k]) : Made(x)
                        /\ logger[k].hub # None => Made(logger[k].hub)
                        /\ ToSet(bound[k]) # {} /\ Served(context[Last(bound[k])].request) => logger[k].hub # None
                        /\ Keeps(k)
      BY DEF LoggersAreBound
    <3>1. logger[k] = New /\ ToSet(bound[k]) = {}
      BY DEF Init, ToSet
    <3> QED BY <2>1, <3>1 DEF Keeps
  <2> QED BY <2>2, <2>3, <2>4 DEF IInv
<1>2. IInv /\ [Next]_vars => IInv'
  <2> SUFFICES ASSUME IInv, [Next]_vars PROVE IInv'
    OBVIOUS
  <2>1. ASSUME NEW x \in Contexts, Serve(x)
        PROVE  IInv'
    BY <2>1, ServeStep
  <2>2. ASSUME NEW x \in Contexts, NEW y \in Contexts, Derive(x, y)
        PROVE  IInv'
    BY <2>2, DeriveStep
  <2>3. ASSUME NEW k \in Loggers, Log(k)
        PROVE  IInv'
    BY <2>3, WithFieldsStep, WithContextStep DEF Log
  <2>4. CASE UNCHANGED vars
    <3>1. UNCHANGED <<kind, context, within, logger, bound, given>>
      BY <2>4 DEF vars
    <3>2. TypeOK'
      BY <3>1 DEF IInv, TypeOK
    <3>3. ContextsAreRooted'
      BY <3>1 DEF IInv, ContextsAreRooted, Rooted, Made, Served, RequestSpan
    <3>4. LoggersAreBound'
      BY <3>1 DEF IInv, LoggersAreBound, Keeps, Made, Served, RequestSpan
    <3> QED BY <3>2, <3>3, <3>4 DEF IInv
  <2> QED BY <2>1, <2>2, <2>3, <2>4 DEF Next, Finished
<1> QED BY <1>1, <1>2, PTL DEF Spec

\* Every variable has its type.
THEOREM ContextTypeCorrect == Spec => []TypeOK
<1>1. IInv => TypeOK
  BY DEF IInv
<1> QED BY <1>1, ContextInvariant, PTL

\* Whatever is derived from the context of a request stays in its trace
\* (context.go:50).
THEOREM DerivedContextsStayInTrace == Spec => []StaysInTrace
<1>1. IInv => StaysInTrace
  BY TraceOfRequest DEF StaysInTrace
<1> QED BY <1>1, ContextInvariant, PTL

\* The span of a context lies within every operation around it (span.go:56).
THEOREM OperationsAreNested == Spec => []OperationsNest
<1>1. IInv => OperationsNest
  <2> SUFFICES ASSUME IInv, NEW x \in Contexts, NEW y \in within[x]
               PROVE  IsPrefix(context[y].key, SpanFromContext(context[x]))
    BY DEF OperationsNest
  <2>1. TypeOK /\ y \in Contexts /\ context[x] \in Context /\ context[y] \in Context
    BY DEF IInv, TypeOK
  <2>2. context[x].key \in Spans /\ context[y].key \in Spans
    BY <2>1, ContextFields
  <2>3. IsPrefix(context[y].key, context[x].key)
    <3>1. Made(x) => Rooted(x)
      BY DEF IInv, ContextsAreRooted
    <3>2. Made(x)
      BY DEF IInv, ContextsAreRooted
    <3> QED BY <3>1, <3>2 DEF Rooted
  <2>4. SpanFromContext(context[x]) \in Spans /\ IsPrefix(context[x].key, SpanFromContext(context[x]))
    BY <2>1, Innermost
  <2> QED BY <2>2, <2>3, <2>4, PrefixTransitive
<1> QED BY <1>1, ContextInvariant, PTL

\* Plain spans lie within the span of the request (interceptor.go:75).
THEOREM PlainSpansAreInTheRequest == Spec => []PlainSpansJoin
<1>1. IInv => PlainSpansJoin
  <2> SUFFICES ASSUME IInv, NEW x \in Contexts, kind[x] = "plain",
                      kind[context[x].request] \in {"http", "root"}
               PROVE  IsPrefix(RequestSpan(context[x].request), context[x].sentry)
    BY DEF PlainSpansJoin
  <2>1. Made(x) /\ Served(context[x].request)
    BY DEF Made, Served
  <2> QED BY <2>1 DEF IInv, ContextsAreRooted, Rooted
<1> QED BY <1>1, ContextInvariant, PTL

\* A logger keeps to what it was bound to (logger.go:193).
THEOREM LoggersKeepTheirBinding == Spec => []LoggersKeepToTheirRequests
<1>1. IInv => LoggersKeepToTheirRequests
  BY DEF IInv, LoggersAreBound, Keeps, LoggersKeepToTheirRequests
<1> QED BY <1>1, ContextInvariant, PTL
=============================================================================
