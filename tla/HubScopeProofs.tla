--------------------------- MODULE HubScopeProofs ---------------------------
(***************************************************************************)
(* Proofs about HubScope, for any number of goroutines, requests,          *)
(* operations and tenants.                                                 *)
(*                                                                         *)
(* A goroutine captures with whatever scope is on top, so what its event   *)
(* carries is a property of all scopes of a hub: they agree in span and    *)
(* tenant, because every hub but the one requests start from belongs to    *)
(* one context. That a hub is clean in the end is a matter of counting:    *)
(* as many scopes lie above the first as goroutines are yet to pop one.    *)
(***************************************************************************)
EXTENDS HubOverlap, FiniteSetTheorems, SequenceTheorems, TLAPS

\* Every context in use has a hub of its own and belongs to a request in use;
\* nobody touches the hub that requests start from.
HubsAreOwn ==
    /\ stack[Current] = <<Plain>>
    /\ \A r \in Requests : InUse(r) => request[r] = r
    /\ \A x \in Contexts : InUse(x) =>
          hub[x] = x /\ request[x] \in Requests /\ InUse(request[x])

\* What all scopes of the hub of x have in common.
Linked(x, s) ==
    s.span = x /\ s.tenant = tenantOf[request[x]] /\ s.tags = {}

\* Pushed by whomever, a scope of a hub has the span and the tenant of the
\* context; the one at the bottom is nobody's.
ScopesAreLinked ==
    \A x \in Contexts : InUse(x) =>
       /\ \A i \in 1 .. Len(stack[x]) : Linked(x, stack[x][i])
       /\ stack[x][1].by = None
       /\ x \in Requests => stack[x][1].label = None

\* A goroutine that reports does so on the hub of its context, but for Error.
ReportsAreOnTheirHubs ==
    \A p \in Goroutines : pc[p] # "idle" =>
       /\ ctx[p] \in Contexts
       /\ InUse(ctx[p])
       /\ target[p] = IF how[p] = "Error" THEN p ELSE ctx[p]
       /\ how[p] # "none"
       /\ pc[p] = "set" => how[p] \in {"LogError", "finish", "Error"}

\* The hub of an Error has two scopes, and no tags but its own, once set.
ErrorHub(p) ==
    /\ Len(stack[p]) = 2
    /\ stack[p][1].by = None
    /\ stack[p][2].by = IF pc[p] = "set" THEN p ELSE None
    /\ stack[p][2].span = ctx[p]
    /\ stack[p][2].tenant = tenantOf[request[ctx[p]]]
    /\ stack[p][2].tags = IF pc[p] = "set" THEN {} ELSE {p}

ErrorHubs ==
    \A p \in Goroutines : pc[p] # "idle" /\ how[p] = "Error" => ErrorHub(p)

\* The goroutines that have pushed a scope on the hub of x, and will pop one.
Pushers(x) ==
    {p \in Goroutines : pc[p] # "idle" /\ target[p] = x /\ how[p] \in {"LogError", "finish"}}

\* On top of the first scope there are as many as will be popped.
PushesAreCounted ==
    \A x \in Contexts : InUse(x) =>
       /\ IsFiniteSet(Pushers(x))
       /\ Len(stack[x]) = 1 + Cardinality(Pushers(x))

IInv ==
    /\ TypeOK
    /\ HubsAreOwn
    /\ ScopesAreLinked
    /\ ReportsAreOnTheirHubs
    /\ ErrorHubs
    /\ PushesAreCounted
    /\ EventsAreLinked
    /\ TenantsDoNotMix
    /\ TagsNeverLeak

-----------------------------------------------------------------------------
(* Scopes and stacks.                                                      *)

\* The scope a hub starts with is a scope, and nobody's.
LEMMA PlainType == Plain \in Scope /\ Plain.by = None
BY DEF Plain, Scope

\* The fields of a scope.
LEMMA ScopeFields ==
  ASSUME NEW s \in Scope
  PROVE  /\ s.span \in Contexts \cup {None}
         /\ s.tenant \in Tenants \cup {None}
         /\ s.label \in Goroutines \cup {None}
         /\ s.tags \in SUBSET Goroutines
         /\ s.by \in Goroutines \cup {None}
BY DEF Scope

\* What setting one field makes of a scope.
LEMMA SetSpan ==
  ASSUME NEW s \in Scope, NEW x \in Contexts
  PROVE  LET u == [s EXCEPT !.span = x]
         IN  /\ u \in Scope /\ u.span = x
             /\ u.tenant = s.tenant /\ u.label = s.label /\ u.tags = s.tags /\ u.by = s.by
BY DEF Scope

\* tagSpanFromMetadata and the middleware set the tenant and nothing else.
LEMMA SetTenant ==
  ASSUME NEW s \in Scope, NEW t \in Tenants \cup {None}
  PROVE  LET u == [s EXCEPT !.tenant = t]
         IN  /\ u \in Scope /\ u.tenant = t
             /\ u.span = s.span /\ u.label = s.label /\ u.tags = s.tags /\ u.by = s.by
BY DEF Scope

\* LogError sets the label and nothing else.
LEMMA SetLabel ==
  ASSUME NEW s \in Scope, NEW l \in Goroutines \cup {None}
  PROVE  LET u == [s EXCEPT !.label = l]
         IN  /\ u \in Scope /\ u.label = l
             /\ u.span = s.span /\ u.tenant = s.tenant /\ u.tags = s.tags /\ u.by = s.by
BY DEF Scope

\* Error sets its tags and nothing else.
LEMMA SetTags ==
  ASSUME NEW s \in Scope, NEW g \in SUBSET Goroutines
  PROVE  LET u == [s EXCEPT !.tags = g]
         IN  /\ u \in Scope /\ u.tags = g
             /\ u.span = s.span /\ u.tenant = s.tenant /\ u.label = s.label /\ u.by = s.by
BY DEF Scope

\* PushScope marks its copy and changes nothing else.
LEMMA SetBy ==
  ASSUME NEW s \in Scope, NEW p \in Goroutines \cup {None}
  PROVE  LET u == [s EXCEPT !.by = p]
         IN  /\ u \in Scope /\ u.by = p
             /\ u.span = s.span /\ u.tenant = s.tenant /\ u.label = s.label /\ u.tags = s.tags
BY DEF Scope

\* The scope of a clone, for context x, with tenant t.
Cloned(s, x, t) == [s EXCEPT !.span = x, !.tenant = t, !.by = None]

\* A clone keeps the label and the tags of the scope it is made of.
LEMMA CloneScope ==
  ASSUME NEW s \in Scope, NEW x \in Contexts, NEW t \in Tenants \cup {None}
  PROVE  LET c == Cloned(s, x, t)
         IN  /\ c \in Scope /\ c.span = x /\ c.tenant = t /\ c.by = None
             /\ c.label = s.label /\ c.tags = s.tags
<1> DEFINE u == [s EXCEPT !.span = x]
           v == [u EXCEPT !.tenant = t]
           w == [v EXCEPT !.by = None]
<1>1. u \in Scope /\ u.span = x /\ u.label = s.label /\ u.tags = s.tags
  BY SetSpan
<1> HIDE DEF u
<1>2. v \in Scope /\ v.span = x /\ v.tenant = t /\ v.label = s.label /\ v.tags = s.tags
  BY <1>1, SetTenant
<1> HIDE DEF v
<1>3. w \in Scope /\ w.span = x /\ w.tenant = t /\ w.by = None /\ w.label = s.label /\ w.tags = s.tags
  BY <1>2, SetBy
<1>4. Cloned(s, x, t) = w
  BY Zenon DEF Cloned, u, v
<1> QED BY <1>3, <1>4

\* What SetScope makes of a scope.
LEMMA FilledType ==
  ASSUME NEW s \in Scope, NEW p \in Goroutines, ctx[p] \in Contexts
  PROVE  /\ Filled(p, s) \in Scope
         /\ Filled(p, s).span = ctx[p]
         /\ Filled(p, s).tenant = s.tenant
         /\ Filled(p, s).by = None
         /\ Filled(p, s).label = IF how[p] = "LogError" THEN p ELSE s.label
         /\ Filled(p, s).tags = IF how[p] = "Error" THEN s.tags \cup {p} ELSE s.tags
<1> DEFINE l == IF how[p] = "LogError" THEN p ELSE s.label
           g == IF how[p] = "Error" THEN s.tags \cup {p} ELSE s.tags
           u == [s EXCEPT !.span = ctx[p]]
           v == [u EXCEPT !.by = None]
           w == [v EXCEPT !.label = l]
           z == [w EXCEPT !.tags = g]
<1>1. l \in Goroutines \cup {None} /\ g \in SUBSET Goroutines
  BY ScopeFields
<1>2. Filled(p, s) = z
  BY Zenon DEF Filled
<1> HIDE DEF l
<1>3. u \in Scope /\ u.span = ctx[p] /\ u.tenant = s.tenant
  BY SetSpan
<1> HIDE DEF u
<1>4. v \in Scope /\ v.span = ctx[p] /\ v.tenant = s.tenant /\ v.by = None
  BY <1>3, SetBy
<1> HIDE DEF v
<1>5. w \in Scope /\ w.span = ctx[p] /\ w.tenant = s.tenant /\ w.by = None /\ w.label = l
  BY <1>1, <1>4, SetLabel
<1> HIDE DEF w, g
<1>6. /\ z \in Scope /\ z.span = ctx[p] /\ z.tenant = s.tenant /\ z.by = None
      /\ z.label = l /\ z.tags = g
  BY <1>1, <1>5, SetTags
<1> QED BY <1>2, <1>6 DEF g, l

\* Last and Front of a stack.
LEMMA StackFacts ==
  ASSUME NEW s \in Seq(Scope), s # <<>>
  PROVE  /\ Len(s) \in Nat /\ Len(s) >= 1
         /\ Last(s) = s[Len(s)] /\ Last(s) \in Scope
         /\ Front(s) \in Seq(Scope)
         /\ Len(Front(s)) = Len(s) - 1
         /\ \A i \in 1 .. Len(s) - 1 : Front(s)[i] = s[i]
<1>1. Len(s) \in Nat /\ Len(s) >= 1 /\ \A i \in 1 .. Len(s) : s[i] \in Scope
  OBVIOUS
<1> DEFINE n == Len(s) - 1
<1>3. n \in Nat /\ n + 1 = Len(s)
  BY <1>1
<1> HIDE DEF n
<1>4. /\ SubSeq(s, 1, n) \in Seq(Scope)
      /\ Len(SubSeq(s, 1, n)) = n
      /\ \A i \in 1 .. n : SubSeq(s, 1, n)[i] = s[i]
  <2>1. \A i \in 1 .. n : s[i] \in Scope
    BY <1>1, <1>3
  <2>2. /\ SubSeq(s, 1, n) \in Seq(Scope)
        /\ Len(SubSeq(s, 1, n)) = IF 1 <= n THEN n - 1 + 1 ELSE 0
        /\ \A i \in 1 .. n - 1 + 1 : SubSeq(s, 1, n)[i] = s[1 + i - 1]
    BY <1>3, <2>1, SubSeqProperties
  <2>3. n - 1 + 1 = n /\ (IF 1 <= n THEN n - 1 + 1 ELSE 0) = n
    BY <1>3
  <2>4. \A i \in 1 .. n : 1 + i - 1 = i
    BY <1>3
  <2> QED BY <2>2, <2>3, <2>4
<1> QED BY <1>1, <1>4 DEF Last, Front, n

\* A scope put in the place of the top that is the same changes nothing.
LEMMA SameTop ==
  ASSUME NEW s \in Seq(Scope), s # <<>>
  PROVE  Append(Front(s), Last(s)) = s
<1>1. Append(Front(s), Last(s)) \in Seq(Scope) /\ Len(Append(Front(s), Last(s))) = Len(s)
  BY StackFacts
<1>2. \A i \in 1 .. Len(s) : Append(Front(s), Last(s))[i] = s[i]
  BY StackFacts
<1> QED BY <1>1, <1>2, SeqEqual

\* No name is used twice.
LEMMA Names ==
  /\ \A x \in Contexts : x # Current /\ x # None /\ x \notin Goroutines /\ x \in Hubs
  /\ \A p \in Goroutines : p # Current /\ p # None /\ p \in Hubs
  /\ Current \in Hubs /\ None \notin Tenants
  /\ \A r \in Requests : r \in Contexts /\ r \notin Operations
  /\ \A n \in Operations : n \in Contexts
BY NamesAssumption DEF Contexts, Hubs

-----------------------------------------------------------------------------
(* Requests and operations.                                                *)

\* A context that comes into use with a hub of its own, of one clean scope,
\* disturbs nobody: no report and no other context knows it.
LEMMA NewContext ==
  ASSUME IInv,
         NEW n \in Contexts, ~InUse(n),
         NEW k \in {"http", "grpc", "operation"}, NEW c \in Scope, NEW r \in Requests,
         IF n \in Requests THEN r = n ELSE InUse(r),
         kind' = [kind EXCEPT ![n] = k],
         request' = [request EXCEPT ![n] = r],
         hub' = [hub EXCEPT ![n] = n],
         stack' = [stack EXCEPT ![n] = <<c>>],
         tenantOf' \in [Requests -> Tenants \cup {None}],
         \A q \in Requests : q # n => tenantOf'[q] = tenantOf[q],
         c.span = n, c.tenant = tenantOf'[r], c.tags = {}, c.by = None,
         n \in Requests => c.label = None,
         UNCHANGED reporting
  PROVE  IInv'
<1>0. /\ TypeOK /\ HubsAreOwn /\ ScopesAreLinked /\ ReportsAreOnTheirHubs
      /\ ErrorHubs /\ PushesAreCounted /\ EventsAreLinked /\ TenantsDoNotMix /\ TagsNeverLeak
  BY DEF IInv
<1>1. /\ n # Current /\ n \notin Goroutines /\ n \in Hubs
      /\ \A x \in Contexts : x \in Hubs
      /\ \A q \in Requests : q \in Contexts
      /\ Current \in Hubs
  BY Names
<1>2. UNCHANGED <<pc, how, ctx, target, event>>
  BY DEF reporting
<1>3. /\ stack'[n] = <<c>>
      /\ \A h \in Hubs : h # n => stack'[h] = stack[h]
  BY <1>0, <1>1 DEF TypeOK
<1>4. /\ hub'[n] = n /\ request'[n] = r
      /\ \A x \in Contexts : x # n => hub'[x] = hub[x] /\ request'[x] = request[x]
  BY <1>0 DEF TypeOK
<1>5. /\ InUse(n)'
      /\ \A x \in Contexts : x # n => (InUse(x)' <=> InUse(x))
  BY <1>0 DEF TypeOK, InUse
<1>6. InUse(r)'
  BY <1>1, <1>5
\* The tenants of the contexts in use are what they were.
<1>7. \A x \in Contexts : x # n /\ InUse(x) =>
         request[x] \in Requests /\ request[x] # n /\ tenantOf'[request'[x]] = tenantOf[request[x]]
  BY <1>0, <1>4 DEF HubsAreOwn
\* Reports are on contexts in use.
<1>8. \A p \in Goroutines : pc[p] # "idle" => ctx[p] \in Contexts /\ ctx[p] # n /\ InUse(ctx[p])
  BY <1>0 DEF ReportsAreOnTheirHubs
<1>9. TypeOK'
  <2>1. <<c>> \in Seq(Scope) /\ <<c>> # <<>>
    OBVIOUS
  <2>2. stack' \in [Hubs -> Seq(Scope)]
    BY <1>0, <2>1 DEF TypeOK
  <2>3. \A h \in Hubs : stack'[h] # <<>>
    BY <1>0, <1>3, <2>1 DEF TypeOK
  <2>4. kind' \in [Contexts -> {"none", "http", "grpc", "replied", "operation", "finished"}]
    BY <1>0 DEF TypeOK
  <2>5. request' \in [Contexts -> Requests \cup {None}] /\ hub' \in [Contexts -> Hubs]
    BY <1>0, <1>1 DEF TypeOK
  <2> QED BY <1>0, <1>2, <2>2, <2>3, <2>4, <2>5 DEF TypeOK
<1>10. HubsAreOwn'
  <2>1. stack'[Current] = <<Plain>>
    BY <1>0, <1>1, <1>3 DEF HubsAreOwn
  <2>2. \A q \in Requests : InUse(q)' => request'[q] = q
    BY <1>0, <1>1, <1>4, <1>5 DEF HubsAreOwn
  <2>3. \A x \in Contexts : InUse(x)' =>
           hub'[x] = x /\ request'[x] \in Requests /\ InUse(request[x])'
    BY <1>0, <1>1, <1>4, <1>5, <1>6, <1>7 DEF HubsAreOwn
  <2> QED BY <2>1, <2>2, <2>3 DEF HubsAreOwn
<1>11. ScopesAreLinked'
  <2> SUFFICES ASSUME NEW x \in Contexts, InUse(x)'
               PROVE  /\ \A i \in 1 .. Len(stack'[x]) : Linked(x, stack[x][i])'
                      /\ stack'[x][1].by = None
                      /\ x \in Requests => stack'[x][1].label = None
    BY DEF ScopesAreLinked
  <2>1. CASE x = n
    <3>1. Len(stack'[n]) = 1 /\ stack'[n][1] = c
      BY <1>3
    <3> QED BY <2>1, <3>1, <1>4 DEF Linked
  <2>2. CASE x # n
    BY <2>2, <1>0, <1>1, <1>3, <1>5, <1>7 DEF ScopesAreLinked, Linked
  <2> QED BY <2>1, <2>2
<1>12. ReportsAreOnTheirHubs'
  BY <1>0, <1>2, <1>5, <1>8 DEF ReportsAreOnTheirHubs
<1>13. ErrorHubs'
  <2> SUFFICES ASSUME NEW p \in Goroutines, pc[p] # "idle", how[p] = "Error"
               PROVE  ErrorHub(p)'
    BY <1>2 DEF ErrorHubs
  <2>1. stack'[p] = stack[p] /\ tenantOf'[request'[ctx[p]]] = tenantOf[request[ctx[p]]]
    BY <1>1, <1>3, <1>7, <1>8, Names
  <2>2. ErrorHub(p)
    BY <1>0 DEF ErrorHubs
  <2> QED BY <1>2, <2>1, <2>2 DEF ErrorHub
<1>14. PushesAreCounted'
  <2> SUFFICES ASSUME NEW x \in Contexts, InUse(x)'
               PROVE  IsFiniteSet(Pushers(x)') /\ Len(stack'[x]) = 1 + Cardinality(Pushers(x)')
    BY DEF PushesAreCounted
  <2>1. Pushers(x)' = Pushers(x)
    BY <1>2 DEF Pushers
  <2>2. CASE x = n
    <3>1. Pushers(n) = {}
      BY <1>0, <1>8 DEF Pushers, ReportsAreOnTheirHubs
    <3>2. Len(stack'[n]) = 1
      BY <1>3
    <3>3. IsFiniteSet(Pushers(x)') /\ Cardinality(Pushers(x)') = 0
      BY <2>1, <2>2, <3>1, FS_EmptySet
    <3> QED BY <2>2, <3>2, <3>3
  <2>3. CASE x # n
    BY <2>1, <2>3, <1>0, <1>1, <1>3, <1>5 DEF PushesAreCounted
  <2> QED BY <2>2, <2>3
<1>15. EventsAreLinked' /\ TagsNeverLeak'
  BY <1>0, <1>2 DEF EventsAreLinked, TagsNeverLeak, Reported
<1>16. TenantsDoNotMix'
  <2> SUFFICES ASSUME NEW p \in Goroutines, pc[p] = "pop"
               PROVE  event[p].tenant = tenantOf'[request'[ctx[p]]]
    BY <1>2 DEF TenantsDoNotMix, Reported
  <2>1. event[p].tenant = tenantOf[request[ctx[p]]]
    BY <1>0 DEF TenantsDoNotMix, Reported
  <2>2. ctx[p] \in Contexts /\ ctx[p] # n /\ InUse(ctx[p])
    BY <1>8
  <2> QED BY <2>1, <2>2, <1>7
<1> QED BY <1>9, <1>10, <1>11, <1>12, <1>13, <1>14, <1>15, <1>16 DEF IInv

\* A request starts from a clone of a hub that nobody has tagged.
LEMMA ServeStep ==
  ASSUME IInv, NEW r \in Requests, NEW k \in {"http", "grpc"},
         NEW t \in Tenants \cup {None}, Serve(r, k, t)
  PROVE  IInv'
<1> DEFINE c == Cloned(Plain, r, t)
<1>1. TypeOK /\ stack[Current] = <<Plain>> /\ r \in Contexts
  BY Names DEF IInv, HubsAreOwn
<1>2. Plain \in Scope /\ Plain.tenant = None /\ Plain.label = None /\ Plain.tags = {}
  BY DEF Plain, Scope
<1>3. CloneOf(Current, r, t) = <<c>>
  <2>1. Last(stack[Current]) = Plain
    BY <1>1 DEF Last
  <2>2. CloneOf(Current, r, t) =
          <<[Plain EXCEPT !.span = r, !.tenant = IF t = None THEN Plain.tenant ELSE t, !.by = None]>>
    BY <2>1, Zenon DEF CloneOf, Top
  <2>3. (IF t = None THEN Plain.tenant ELSE t) = t
    BY <1>2
  <2> QED BY <2>2, <2>3, Zenon DEF Cloned
<1>4. /\ tenantOf' \in [Requests -> Tenants \cup {None}]
      /\ tenantOf'[r] = t
      /\ \A q \in Requests : q # r => tenantOf'[q] = tenantOf[q]
  BY <1>1 DEF Serve, TypeOK
<1>5. /\ ~InUse(r)
      /\ kind' = [kind EXCEPT ![r] = k]
      /\ request' = [request EXCEPT ![r] = r]
      /\ hub' = [hub EXCEPT ![r] = r]
      /\ stack' = [stack EXCEPT ![r] = <<c>>]
      /\ UNCHANGED reporting
  BY <1>3 DEF Serve, InUse
<1>6. /\ c \in Scope /\ c.span = r /\ c.tenant = tenantOf'[r] /\ c.tags = {} /\ c.by = None
      /\ c.label = None
  BY <1>1, <1>2, <1>4, CloneScope
<1> HIDE DEF c
<1> QED BY <1>1, <1>4, <1>5, <1>6, NewContext

\* An operation starts from a clone of the hub of its parent.
LEMMA StartSpanStep ==
  ASSUME IInv, NEW x \in Contexts, NEW n \in Operations, StartSpan(x, n)
  PROVE  IInv'
<1> DEFINE s == Last(stack[x])
           c == Cloned(s, n, s.tenant)
           r == request[x]
<1>1. /\ TypeOK /\ n \in Contexts /\ n \notin Requests
      /\ hub[x] = x /\ r \in Requests /\ InUse(r)
  BY Names DEF IInv, HubsAreOwn, StartSpan
<1>2. /\ s \in Scope /\ s.span = x /\ s.tenant = tenantOf[r] /\ s.tags = {}
  <2>1. stack[x] \in Seq(Scope) /\ stack[x] # <<>>
    BY <1>1, Names DEF TypeOK
  <2>2. s = stack[x][Len(stack[x])] /\ s \in Scope /\ Len(stack[x]) \in 1 .. Len(stack[x])
    BY <2>1, StackFacts
  <2>3. \A i \in 1 .. Len(stack[x]) : Linked(x, stack[x][i])
    BY DEF IInv, ScopesAreLinked, StartSpan
  <2> QED BY <2>2, <2>3 DEF Linked
<1>3. CloneOf(hub[x], n, None) = <<c>>
  BY <1>1, Zenon DEF CloneOf, Top, Cloned
<1>4. /\ c \in Scope /\ c.span = n /\ c.tenant = tenantOf[r] /\ c.tags = {} /\ c.by = None
  <2> HIDE DEF s, r
  <2>1. s.tenant \in Tenants \cup {None}
    BY <1>2, ScopeFields
  <2> QED BY <1>1, <1>2, <2>1, CloneScope
<1>5. /\ ~InUse(n)
      /\ kind' = [kind EXCEPT ![n] = "operation"]
      /\ request' = [request EXCEPT ![n] = r]
      /\ hub' = [hub EXCEPT ![n] = n]
      /\ stack' = [stack EXCEPT ![n] = <<c>>]
      /\ tenantOf' = tenantOf
      /\ UNCHANGED reporting
  BY <1>3 DEF StartSpan, InUse
<1>6. tenantOf' \in [Requests -> Tenants \cup {None}] /\ c.tenant = tenantOf'[r]
  BY <1>1, <1>4, <1>5 DEF TypeOK
<1> HIDE DEF s, c, r
<1> QED BY <1>1, <1>4, <1>5, <1>6, NewContext

-----------------------------------------------------------------------------
(* Reports begin.                                                          *)

\* What is known of a stack, and of the scope on top of the stack of x.
LEMMA TopOfContext ==
  ASSUME IInv, NEW x \in Contexts, InUse(x)
  PROVE  /\ stack[x] \in Seq(Scope) /\ stack[x] # <<>>
         /\ hub[x] = x
         /\ Len(stack[x]) \in Nat /\ Len(stack[x]) >= 1
         /\ Last(stack[x]) = stack[x][Len(stack[x])]
         /\ Last(stack[x]) \in Scope
         /\ Linked(x, Last(stack[x]))
<1>1. stack[x] \in Seq(Scope) /\ stack[x] # <<>>
  BY Names DEF IInv, TypeOK
<1>2. hub[x] = x /\ \A i \in 1 .. Len(stack[x]) : Linked(x, stack[x][i])
  BY DEF IInv, HubsAreOwn, ScopesAreLinked
<1>3. /\ Len(stack[x]) \in Nat /\ Len(stack[x]) >= 1
      /\ Last(stack[x]) = stack[x][Len(stack[x])]
      /\ Last(stack[x]) \in Scope
  BY <1>1, StackFacts
<1>4. Len(stack[x]) \in 1 .. Len(stack[x])
  BY <1>3
<1> QED BY <1>1, <1>2, <1>3, <1>4

\* A report that pushes a scope begins: one more scope, and one more to pop it.
LEMMA PushStep ==
  ASSUME IInv, NEW p \in Goroutines, NEW x \in Contexts,
         NEW with \in {"LogError", "finish"},
         Begin(p, x, hub[x], with, "set"),
         stack' = [stack EXCEPT ![hub[x]] = PushScope(@, p)],
         kind' \in [Contexts -> {"none", "http", "grpc", "replied", "operation", "finished"}],
         \A y \in Contexts : InUse(y)' <=> InUse(y)
  PROVE  IInv'
<1> DEFINE s == stack[x]
           u == [Last(s) EXCEPT !.by = p]
<1>0. /\ TypeOK /\ HubsAreOwn /\ ScopesAreLinked /\ ReportsAreOnTheirHubs
      /\ ErrorHubs /\ PushesAreCounted /\ EventsAreLinked /\ TenantsDoNotMix /\ TagsNeverLeak
  BY DEF IInv
<1>1. InUse(x) /\ pc[p] = "idle"
  BY DEF Begin
<1>2. /\ s \in Seq(Scope) /\ s # <<>> /\ hub[x] = x
      /\ Last(s) \in Scope /\ Linked(x, Last(s))
      /\ Len(s) \in Nat /\ Len(s) >= 1
  BY <1>1, TopOfContext
<1>3. x \in Hubs /\ x # Current /\ x \notin Goroutines
  BY Names
<1>4. u \in Scope /\ Linked(x, u)
  <2> DEFINE top == Last(s)
  <2>1. top \in Scope /\ Linked(x, top)
    BY <1>2
  <2> HIDE DEF top
  <2>2. /\ [top EXCEPT !.by = p] \in Scope
        /\ [top EXCEPT !.by = p].span = top.span
        /\ [top EXCEPT !.by = p].tenant = top.tenant
        /\ [top EXCEPT !.by = p].tags = top.tags
    BY <2>1, SetBy
  <2> QED BY <2>1, <2>2 DEF Linked, top
<1>5. /\ stack'[x] = Append(s, u)
      /\ \A h \in Hubs : h # x => stack'[h] = stack[h]
  BY <1>0, <1>2, <1>3 DEF TypeOK, PushScope
<1> HIDE DEF u
<1>6. /\ Append(s, u) \in Seq(Scope) /\ Append(s, u) # <<>>
      /\ Len(Append(s, u)) = Len(s) + 1
      /\ \A i \in 1 .. Len(s) : Append(s, u)[i] = s[i]
      /\ Append(s, u)[Len(s) + 1] = u
  BY <1>2, <1>4, AppendProperties
<1>7. /\ pc'[p] = "set" /\ how'[p] = with /\ ctx'[p] = x /\ target'[p] = x
      /\ \A q \in Goroutines : q # p =>
            pc'[q] = pc[q] /\ how'[q] = how[q] /\ ctx'[q] = ctx[q] /\ target'[q] = target[q]
      /\ UNCHANGED <<tenantOf, request, hub, event>>
  BY <1>0, <1>2 DEF Begin, TypeOK, contexts
<1>8. TypeOK'
  <2>1. stack' \in [Hubs -> Seq(Scope)] /\ \A h \in Hubs : stack'[h] # <<>>
    <3> DEFINE a == Append(s, u)
    <3>1. stack' = [stack EXCEPT ![x] = a] /\ a \in Seq(Scope) /\ a # <<>>
      BY <1>2, <1>6 DEF PushScope, u
    <3> HIDE DEF a
    <3> QED BY <3>1, <1>0, <1>3 DEF TypeOK
  <2>2. /\ pc' \in [Goroutines -> {"idle", "set", "capture", "pop"}]
        /\ how' \in [Goroutines -> {"none", "LogError", "finish", "Error", "plain", "handler"}]
        /\ ctx' \in [Goroutines -> Contexts \cup {None}]
        /\ target' \in [Goroutines -> Hubs]
    BY <1>0, <1>2, <1>3 DEF Begin, TypeOK
  <2> QED BY <1>0, <1>7, <2>1, <2>2 DEF TypeOK
<1>9. HubsAreOwn'
  BY <1>0, <1>3, <1>5, <1>7, Names DEF HubsAreOwn
<1>10. ScopesAreLinked'
  <2> SUFFICES ASSUME NEW y \in Contexts, InUse(y)
               PROVE  /\ \A i \in 1 .. Len(stack'[y]) : Linked(y, stack[y][i])'
                      /\ stack'[y][1].by = None
                      /\ y \in Requests => stack'[y][1].label = None
    BY DEF ScopesAreLinked
  <2>1. CASE y = x
    <3>1. \A i \in 1 .. Len(s) : Linked(x, s[i])
      BY <1>0, <1>1 DEF ScopesAreLinked
    <3>2. \A i \in 1 .. Len(s) + 1 : i \in 1 .. Len(s) \/ i = Len(s) + 1
      BY <1>2
    <3>3. \A i \in 1 .. Len(stack'[x]) : Linked(x, stack'[x][i])
      BY <1>4, <1>5, <1>6, <3>1, <3>2
    <3>4. stack'[x][1] = s[1]
      BY <1>2, <1>5, <1>6
    <3> QED BY <2>1, <3>3, <3>4, <1>0, <1>1, <1>7 DEF ScopesAreLinked, Linked
  <2>2. CASE y # x
    BY <2>2, <1>0, <1>5, <1>7, Names DEF ScopesAreLinked, Linked
  <2> QED BY <2>1, <2>2
<1>11. ReportsAreOnTheirHubs'
  BY <1>0, <1>1, <1>7 DEF ReportsAreOnTheirHubs
<1>12. ErrorHubs'
  <2> SUFFICES ASSUME NEW q \in Goroutines, pc'[q] # "idle", how'[q] = "Error"
               PROVE  ErrorHub(q)'
    BY DEF ErrorHubs
  <2>1. q # p
    BY <1>7
  <2>2. ErrorHub(q)
    BY <1>0, <1>7, <2>1 DEF ErrorHubs
  <2>3. stack'[q] = stack[q]
    BY <1>3, <1>5, Names
  <2> QED BY <1>7, <2>1, <2>2, <2>3 DEF ErrorHub
<1>13. PushesAreCounted'
  <2> SUFFICES ASSUME NEW y \in Contexts, InUse(y)
               PROVE  IsFiniteSet(Pushers(y)') /\ Len(stack'[y]) = 1 + Cardinality(Pushers(y)')
    BY DEF PushesAreCounted
  <2>1. IsFiniteSet(Pushers(y)) /\ Len(stack[y]) = 1 + Cardinality(Pushers(y))
    BY <1>0 DEF PushesAreCounted
  <2>2. CASE y = x
    <3>1. Pushers(x)' = Pushers(x) \cup {p} /\ p \notin Pushers(x)
      BY <1>1, <1>7 DEF Pushers
    <3>2. /\ IsFiniteSet(Pushers(x) \cup {p})
          /\ Cardinality(Pushers(x) \cup {p}) = Cardinality(Pushers(x)) + 1
          /\ Cardinality(Pushers(x)) \in Nat
      BY <2>1, <2>2, <3>1, FS_AddElement, FS_CardinalityType
    <3> QED BY <2>1, <2>2, <3>1, <3>2, <1>5, <1>6
  <2>3. CASE y # x
    <3>1. Pushers(y)' = Pushers(y)
      BY <2>3, <1>1, <1>7 DEF Pushers
    <3> QED BY <2>1, <2>3, <3>1, <1>5, Names
  <2> QED BY <2>2, <2>3
<1>14. EventsAreLinked' /\ TenantsDoNotMix' /\ TagsNeverLeak'
  <2>1. \A q \in Goroutines : pc'[q] = "pop" => q # p
    BY <1>7
  <2> QED BY <1>0, <1>7, <2>1 DEF EventsAreLinked, TenantsDoNotMix, TagsNeverLeak, Reported
<1> QED BY <1>8, <1>9, <1>10, <1>11, <1>12, <1>13, <1>14 DEF IInv

\* A report that captures with the scope there is begins: nothing changes but
\* where its goroutine is.
LEMMA UnscopedStep ==
  ASSUME IInv, NEW p \in Goroutines, NEW x \in Contexts,
         NEW with \in {"plain", "handler"},
         Begin(p, x, hub[x], with, "capture"),
         stack' = stack,
         kind' \in [Contexts -> {"none", "http", "grpc", "replied", "operation", "finished"}],
         \A y \in Contexts : InUse(y)' <=> InUse(y)
  PROVE  IInv'
<1>0. /\ TypeOK /\ HubsAreOwn /\ ScopesAreLinked /\ ReportsAreOnTheirHubs
      /\ ErrorHubs /\ PushesAreCounted /\ EventsAreLinked /\ TenantsDoNotMix /\ TagsNeverLeak
  BY DEF IInv
<1>1. InUse(x) /\ pc[p] = "idle"
  BY DEF Begin
<1>2. hub[x] = x /\ x \in Hubs
  BY <1>1, TopOfContext, Names
<1>3. /\ pc'[p] = "capture" /\ how'[p] = with /\ ctx'[p] = x /\ target'[p] = x
      /\ \A q \in Goroutines : q # p =>
            pc'[q] = pc[q] /\ how'[q] = how[q] /\ ctx'[q] = ctx[q] /\ target'[q] = target[q]
      /\ UNCHANGED <<tenantOf, request, hub, event>>
  BY <1>0, <1>2 DEF Begin, TypeOK, contexts
<1>4. TypeOK'
  <2>1. /\ pc' \in [Goroutines -> {"idle", "set", "capture", "pop"}]
        /\ how' \in [Goroutines -> {"none", "LogError", "finish", "Error", "plain", "handler"}]
        /\ ctx' \in [Goroutines -> Contexts \cup {None}]
        /\ target' \in [Goroutines -> Hubs]
    BY <1>0, <1>2 DEF Begin, TypeOK
  <2> QED BY <1>0, <1>3, <2>1 DEF TypeOK
<1>5. HubsAreOwn' /\ ScopesAreLinked'
  <2>1. \A r \in Requests : r \in Contexts
    BY Names
  <2> QED BY <1>0, <1>3, <2>1 DEF HubsAreOwn, ScopesAreLinked, Linked
<1>6. ReportsAreOnTheirHubs'
  BY <1>0, <1>1, <1>3 DEF ReportsAreOnTheirHubs
<1>7. ErrorHubs'
  <2> SUFFICES ASSUME NEW q \in Goroutines, pc'[q] # "idle", how'[q] = "Error"
               PROVE  ErrorHub(q)'
    BY DEF ErrorHubs
  <2>1. q # p
    BY <1>3
  <2>2. ErrorHub(q)
    BY <1>0, <1>3, <2>1 DEF ErrorHubs
  <2> QED BY <1>3, <2>1, <2>2 DEF ErrorHub
<1>8. PushesAreCounted'
  <2>1. \A y \in Contexts : Pushers(y)' = Pushers(y)
    BY <1>1, <1>3 DEF Pushers
  <2> QED BY <1>0, <2>1 DEF PushesAreCounted
<1>9. EventsAreLinked' /\ TenantsDoNotMix' /\ TagsNeverLeak'
  <2>1. \A q \in Goroutines : pc'[q] = "pop" => q # p
    BY <1>3
  <2> QED BY <1>0, <1>3, <2>1 DEF EventsAreLinked, TenantsDoNotMix, TagsNeverLeak, Reported
<1> QED BY <1>4, <1>5, <1>6, <1>7, <1>8, <1>9 DEF IInv

\* LogError changes no kind, the finish function that of its operation.
LEMMA LogErrorStep ==
  ASSUME IInv, NEW p \in Goroutines, NEW x \in Contexts, LogError(p, x)
  PROVE  IInv'
<1>1. /\ kind' \in [Contexts -> {"none", "http", "grpc", "replied", "operation", "finished"}]
      /\ \A y \in Contexts : InUse(y)' <=> InUse(y)
  BY DEF IInv, TypeOK, LogError, InUse
<1>2. CASE Tracked(x)
  <2>1. /\ Begin(p, x, hub[x], "LogError", "set")
        /\ stack' = [stack EXCEPT ![hub[x]] = PushScope(@, p)]
    BY <1>2 DEF LogError
  <2> QED BY <1>1, <2>1, PushStep
<1>3. CASE ~Tracked(x)
  <2>1. Begin(p, x, hub[x], "plain", "capture") /\ stack' = stack
    BY <1>3 DEF LogError
  <2> QED BY <1>1, <2>1, UnscopedStep
<1> QED BY <1>2, <1>3

\* The function StartSpan returns ends the operation and starts the report of
\* its error, on the hub of the operation.
LEMMA FinishStep ==
  ASSUME IInv, NEW p \in Goroutines, NEW n \in Operations, Finish(p, n)
  PROVE  IInv'
<1>1. n \in Contexts /\ kind \in [Contexts -> {"none", "http", "grpc", "replied", "operation", "finished"}]
  BY Names DEF IInv, TypeOK
<1>2. /\ kind' \in [Contexts -> {"none", "http", "grpc", "replied", "operation", "finished"}]
      /\ \A y \in Contexts : InUse(y)' <=> InUse(y)
  BY <1>1 DEF Finish, InUse
<1>3. /\ Begin(p, n, hub[n], "finish", "set")
      /\ stack' = [stack EXCEPT ![hub[n]] = PushScope(@, p)]
  BY DEF Finish
<1> QED BY <1>1, <1>2, <1>3, PushStep

\* The span HandleGRPCError sets is the one the scope has already.
LEMMA HandlerKeepsStack ==
  ASSUME IInv, NEW p \in Goroutines, NEW r \in Requests, HandleGRPCError(p, r)
  PROVE  stack' = stack
<1> DEFINE s == stack[r]
           u == [Last(s) EXCEPT !.span = r]
<1>1. /\ s \in Seq(Scope) /\ s # <<>> /\ hub[r] = r
      /\ Last(s) \in Scope /\ Last(s).span = r
  BY Names, TopOfContext DEF Linked, HandleGRPCError, InUse
<1>2. u = Last(s)
  <2> DEFINE top == Last(s)
  <2>1. top \in Scope /\ top.span = r
    BY <1>1
  <2> HIDE DEF top
  <2>2. [top EXCEPT !.span = r] = top
    BY <2>1 DEF Scope
  <2> QED BY <2>2 DEF top
<1>3. stack' = [stack EXCEPT ![r] = Append(Front(s), u)]
  BY <1>1 DEF HandleGRPCError
<1>4. Append(Front(s), u) = s
  <2>1. Append(Front(s), Last(s)) = s
    BY <1>1, SameTop
  <2> HIDE DEF s, u
  <2> QED BY <1>2, <2>1
<1> HIDE DEF u
<1>5. r \in Hubs /\ stack \in [Hubs -> Seq(Scope)]
  BY Names DEF IInv, TypeOK
<1> QED BY <1>3, <1>4, <1>5

\* So it changes nothing but where its goroutine is.
LEMMA HandleGRPCErrorStep ==
  ASSUME IInv, NEW p \in Goroutines, NEW r \in Requests, HandleGRPCError(p, r)
  PROVE  IInv'
<1>1. r \in Contexts /\ kind \in [Contexts -> {"none", "http", "grpc", "replied", "operation", "finished"}]
  BY Names DEF IInv, TypeOK
<1>2. /\ kind' \in [Contexts -> {"none", "http", "grpc", "replied", "operation", "finished"}]
      /\ \A y \in Contexts : InUse(y)' <=> InUse(y)
      /\ InUse(r)
  BY <1>1 DEF HandleGRPCError, InUse
<1>3. Begin(p, r, hub[r], "handler", "capture")
  BY DEF HandleGRPCError
<1>4. stack' = stack
  BY HandlerKeepsStack
<1> QED BY <1>1, <1>2, <1>3, <1>4, UnscopedStep

\* Error begins on a hub of its own: the top of the hub of x, and a clone of it.
LEMMA ErrorStep ==
  ASSUME IInv, NEW p \in Goroutines, NEW x \in Contexts, Error(p, x)
  PROVE  IInv'
<1> DEFINE c == [Last(stack[x]) EXCEPT !.by = None]
           u == [c EXCEPT !.by = p]
<1>0. /\ TypeOK /\ HubsAreOwn /\ ScopesAreLinked /\ ReportsAreOnTheirHubs
      /\ ErrorHubs /\ PushesAreCounted /\ EventsAreLinked /\ TenantsDoNotMix /\ TagsNeverLeak
  BY DEF IInv
<1>1. InUse(x) /\ pc[p] = "idle"
  BY DEF Error, Begin
<1>2. Last(stack[x]) \in Scope /\ Linked(x, Last(stack[x])) /\ hub[x] = x
  BY <1>1, TopOfContext
<1>3. p \in Hubs /\ p # Current /\ \A y \in Contexts : y # p /\ y \in Hubs
  BY Names
<1>4. c \in Scope /\ Linked(x, c) /\ c.by = None
  <2> DEFINE top == Last(stack[x])
  <2>1. top \in Scope /\ Linked(x, top)
    BY <1>2
  <2> HIDE DEF top
  <2>2. /\ [top EXCEPT !.by = None] \in Scope
        /\ [top EXCEPT !.by = None].by = None
        /\ [top EXCEPT !.by = None].span = top.span
        /\ [top EXCEPT !.by = None].tenant = top.tenant
        /\ [top EXCEPT !.by = None].tags = top.tags
    BY <2>1, SetBy
  <2> QED BY <2>1, <2>2 DEF Linked, top
<1> HIDE DEF c
<1>5. u \in Scope /\ Linked(x, u) /\ u.by = p
  BY <1>4, SetBy DEF Linked
<1>6. stack' = [stack EXCEPT ![p] = <<c, u>>]
  <2>1. Last(<<c>>) = c
    BY DEF Last
  <2>2. PushScope(<<c>>, p) = Append(<<c>>, u)
    BY <2>1, Zenon DEF PushScope, u
  <2>3. Append(<<c>>, u) = <<c, u>>
    <3> HIDE DEF u
    <3>1. /\ <<c>> \in Seq(Scope) /\ Len(<<c>>) = 1 /\ <<c>>[1] = c
          /\ <<c, u>> \in Seq(Scope) /\ Len(<<c, u>>) = 2 /\ <<c, u>>[1] = c /\ <<c, u>>[2] = u
      BY <1>4, <1>5
    <3>2. /\ Append(<<c>>, u) \in Seq(Scope) /\ Len(Append(<<c>>, u)) = 2
          /\ Append(<<c>>, u)[1] = c /\ Append(<<c>>, u)[2] = u
      BY <1>5, <3>1, AppendProperties
    <3>3. \A i \in 1 .. 2 : i = 1 \/ i = 2
      OBVIOUS
    <3> QED BY <3>1, <3>2, <3>3, SeqEqual
  <2> QED BY <1>2, <2>2, <2>3 DEF Error, Top, c
<1> HIDE DEF u
<1>7. /\ stack'[p] = <<c, u>>
      /\ \A h \in Hubs : h # p => stack'[h] = stack[h]
  BY <1>0, <1>3, <1>6 DEF TypeOK
<1>8. /\ pc'[p] = "set" /\ how'[p] = "Error" /\ ctx'[p] = x /\ target'[p] = p
      /\ \A q \in Goroutines : q # p =>
            pc'[q] = pc[q] /\ how'[q] = how[q] /\ ctx'[q] = ctx[q] /\ target'[q] = target[q]
      /\ UNCHANGED <<kind, tenantOf, request, hub, event>>
  BY <1>0 DEF Error, Begin, TypeOK, contexts
<1>9. TypeOK'
  <2>1. stack' \in [Hubs -> Seq(Scope)] /\ \A h \in Hubs : stack'[h] # <<>>
    <3> DEFINE a == <<c, u>>
    <3>1. a \in Seq(Scope) /\ a # <<>>
      BY <1>4, <1>5
    <3>2. stack' = [stack EXCEPT ![p] = a]
      BY <1>6
    <3> HIDE DEF a
    <3> QED BY <3>1, <3>2, <1>0, <1>3 DEF TypeOK
  <2>2. /\ pc' \in [Goroutines -> {"idle", "set", "capture", "pop"}]
        /\ how' \in [Goroutines -> {"none", "LogError", "finish", "Error", "plain", "handler"}]
        /\ ctx' \in [Goroutines -> Contexts \cup {None}]
        /\ target' \in [Goroutines -> Hubs]
    BY <1>0, <1>3 DEF Error, Begin, TypeOK
  <2> QED BY <1>0, <1>8, <2>1, <2>2 DEF TypeOK
<1>10. HubsAreOwn'
  <2>1. stack'[Current] = stack[Current]
    BY <1>3, <1>7, Names
  <2> QED BY <1>0, <1>8, <2>1 DEF HubsAreOwn, InUse
<1>11. ScopesAreLinked'
  <2>1. \A y \in Contexts : stack'[y] = stack[y]
    BY <1>3, <1>7
  <2> QED BY <1>0, <1>8, <2>1 DEF ScopesAreLinked, InUse, Linked
<1>12. ReportsAreOnTheirHubs'
  BY <1>0, <1>1, <1>8 DEF ReportsAreOnTheirHubs, InUse
<1>13. ErrorHubs'
  <2> SUFFICES ASSUME NEW q \in Goroutines, pc'[q] # "idle", how'[q] = "Error"
               PROVE  ErrorHub(q)'
    BY DEF ErrorHubs
  <2>1. CASE q = p
    <3>1. Len(stack'[p]) = 2 /\ stack'[p][1] = c /\ stack'[p][2] = u
      BY <1>7
    <3> QED BY <1>4, <1>5, <1>8, <2>1, <3>1 DEF ErrorHub, Linked
  <2>2. CASE q # p
    <3>1. ErrorHub(q) /\ stack'[q] = stack[q]
      BY <1>0, <1>7, <1>8, <2>2, Names DEF ErrorHubs
    <3> QED BY <1>8, <2>2, <3>1 DEF ErrorHub
  <2> QED BY <2>1, <2>2
<1>14. PushesAreCounted'
  <2>1. \A y \in Contexts : Pushers(y)' = Pushers(y) /\ stack'[y] = stack[y]
    BY <1>1, <1>3, <1>7, <1>8 DEF Pushers
  <2> QED BY <1>0, <1>8, <2>1 DEF PushesAreCounted, InUse
<1>15. EventsAreLinked' /\ TenantsDoNotMix' /\ TagsNeverLeak'
  <2>1. \A q \in Goroutines : pc'[q] = "pop" => q # p
    BY <1>8
  <2> QED BY <1>0, <1>8, <2>1 DEF EventsAreLinked, TenantsDoNotMix, TagsNeverLeak, Reported
<1> QED BY <1>9, <1>10, <1>11, <1>12, <1>13, <1>14, <1>15 DEF IInv

-----------------------------------------------------------------------------
(* Reports go on.                                                          *)

\* What SetScope makes of a stack.
SetOn(s, p) == [i \in DOMAIN s |-> IF s[i].by = p THEN Filled(p, s[i]) ELSE s[i]]

\* SetScope fills the scopes a goroutine was given and leaves the rest.
LEMMA SetFacts ==
  ASSUME NEW p \in Goroutines, NEW s \in Seq(Scope), s # <<>>, ctx[p] \in Contexts
  PROVE  /\ SetOn(s, p) \in Seq(Scope) /\ SetOn(s, p) # <<>>
         /\ Len(SetOn(s, p)) = Len(s)
         /\ \A i \in 1 .. Len(s) :
               SetOn(s, p)[i] = IF s[i].by = p THEN Filled(p, s[i]) ELSE s[i]
<1>1. Len(s) \in Nat /\ DOMAIN s = 1 .. Len(s) /\ \A i \in 1 .. Len(s) : s[i] \in Scope
  OBVIOUS
<1>2. \A i \in 1 .. Len(s) : (IF s[i].by = p THEN Filled(p, s[i]) ELSE s[i]) \in Scope
  BY <1>1, FilledType
<1>3. SetOn(s, p) = [i \in 1 .. Len(s) |-> IF s[i].by = p THEN Filled(p, s[i]) ELSE s[i]]
  BY <1>1 DEF SetOn
<1> QED BY <1>1, <1>2, <1>3

\* The pushed scope is given the span of the context it was made for.
LEMMA SetScopeStep ==
  ASSUME IInv, NEW p \in Goroutines, SetScope(p)
  PROVE  IInv'
<1> DEFINE h == target[p]
           s == stack[h]
<1>0. /\ TypeOK /\ HubsAreOwn /\ ScopesAreLinked /\ ReportsAreOnTheirHubs
      /\ ErrorHubs /\ PushesAreCounted /\ EventsAreLinked /\ TenantsDoNotMix /\ TagsNeverLeak
  BY DEF IInv
<1>1. /\ pc[p] = "set" /\ ctx[p] \in Contexts /\ InUse(ctx[p])
      /\ h = IF how[p] = "Error" THEN p ELSE ctx[p]
      /\ how[p] \in {"LogError", "finish", "Error"}
  BY <1>0 DEF SetScope, ReportsAreOnTheirHubs
<1>2. h \in Hubs /\ h # Current /\ s \in Seq(Scope) /\ s # <<>>
  BY <1>0, <1>1, Names DEF TypeOK
<1>3. /\ SetOn(s, p) \in Seq(Scope) /\ SetOn(s, p) # <<>> /\ Len(SetOn(s, p)) = Len(s)
      /\ \A i \in 1 .. Len(s) :
            SetOn(s, p)[i] = IF s[i].by = p THEN Filled(p, s[i]) ELSE s[i]
      /\ \A i \in 1 .. Len(s) : s[i] \in Scope
      /\ Len(s) \in Nat /\ Len(s) >= 1
  BY <1>1, <1>2, SetFacts
<1>4. stack' = [stack EXCEPT ![h] = SetOn(s, p)]
  BY Zenon DEF SetScope, SetOn
<1>5. /\ stack'[h] = SetOn(s, p)
      /\ \A g \in Hubs : g # h => stack'[g] = stack[g]
  BY <1>0, <1>2, <1>4 DEF TypeOK
<1>6. /\ pc'[p] = "capture"
      /\ \A q \in Goroutines : q # p => pc'[q] = pc[q]
      /\ UNCHANGED <<kind, tenantOf, request, hub, how, ctx, target, event>>
  BY <1>0 DEF SetScope, Moves, TypeOK, contexts
<1>7. TypeOK'
  <2>1. stack' \in [Hubs -> Seq(Scope)] /\ \A g \in Hubs : stack'[g] # <<>>
    <3> DEFINE a == SetOn(s, p)
    <3>1. a \in Seq(Scope) /\ a # <<>> /\ stack' = [stack EXCEPT ![h] = a]
      BY <1>3, <1>4
    <3> HIDE DEF a, h
    <3> QED BY <3>1, <1>0, <1>2 DEF TypeOK
  <2>2. pc' \in [Goroutines -> {"idle", "set", "capture", "pop"}]
    BY <1>0 DEF SetScope, Moves, TypeOK
  <2> QED BY <1>0, <1>6, <2>1, <2>2 DEF TypeOK
<1> HIDE DEF h, s
<1>8. HubsAreOwn'
  <2>1. stack'[Current] = stack[Current]
    BY <1>2, <1>5, Names
  <2> QED BY <1>0, <1>6, <2>1 DEF HubsAreOwn, InUse
<1>9. ScopesAreLinked'
  <2> SUFFICES ASSUME NEW y \in Contexts, InUse(y)
               PROVE  /\ \A i \in 1 .. Len(stack'[y]) : Linked(y, stack[y][i])'
                      /\ stack'[y][1].by = None
                      /\ y \in Requests => stack'[y][1].label = None
    BY <1>6 DEF ScopesAreLinked, InUse
  <2>1. /\ \A i \in 1 .. Len(stack[y]) : Linked(y, stack[y][i])
        /\ stack[y][1].by = None
        /\ y \in Requests => stack[y][1].label = None
    BY <1>0 DEF ScopesAreLinked
  <2>2. CASE y = h
    <3>1. how[p] # "Error" /\ ctx[p] = y /\ s = stack[y] /\ p # None
      BY <1>1, <2>2, Names DEF s
    <3>2. stack'[y] = SetOn(s, p) /\ Len(stack'[y]) = Len(s)
      BY <1>3, <1>5, <2>2
    <3>3. stack'[y][1] = stack[y][1]
      BY <1>3, <2>1, <3>1, <3>2
    <3>4. ASSUME NEW i \in 1 .. Len(s)
          PROVE  Linked(y, SetOn(s, p)[i])
      <4>1. s[i] \in Scope /\ Linked(y, s[i])
        BY <1>3, <2>1, <3>1
      <4>2. CASE s[i].by = p
        <5>1. /\ Filled(p, s[i]).span = y
              /\ Filled(p, s[i]).tenant = s[i].tenant
              /\ Filled(p, s[i]).tags = s[i].tags
          BY <1>1, <3>1, <4>1, FilledType
        <5> QED BY <1>3, <4>1, <4>2, <5>1 DEF Linked
      <4>3. CASE s[i].by # p
        BY <1>3, <4>1, <4>3
      <4> QED BY <4>2, <4>3
    <3> QED BY <1>6, <2>1, <3>2, <3>3, <3>4 DEF Linked
  <2>3. CASE y # h
    <3>1. stack'[y] = stack[y]
      BY <1>5, <2>3, Names
    <3> QED BY <1>6, <2>1, <3>1 DEF Linked
  <2> QED BY <2>2, <2>3
<1>10. ReportsAreOnTheirHubs'
  BY <1>0, <1>1, <1>6 DEF ReportsAreOnTheirHubs, InUse
<1>11. ErrorHubs'
  <2> SUFFICES ASSUME NEW q \in Goroutines, pc[q] # "idle", how[q] = "Error"
               PROVE  ErrorHub(q)'
    BY <1>1, <1>6 DEF ErrorHubs
  <2>1. ErrorHub(q)
    BY <1>0 DEF ErrorHubs
  <2>2. CASE q = p
    <3>1. h = p /\ s = stack[p] /\ p # None
      BY <1>1, <2>2, Names DEF s
    <3>2. Len(s) = 2 /\ s[1] \in Scope /\ s[2] \in Scope
      BY <1>3, <2>1, <2>2, <3>1 DEF ErrorHub
    <3>3. stack'[p][1] = s[1] /\ stack'[p][2] = Filled(p, s[2]) /\ Len(stack'[p]) = 2
      BY <1>1, <1>3, <1>5, <2>1, <2>2, <3>1, <3>2 DEF ErrorHub
    <3>4. /\ Filled(p, s[2]).span = ctx[p]
          /\ Filled(p, s[2]).tenant = s[2].tenant
          /\ Filled(p, s[2]).by = None
          /\ Filled(p, s[2]).tags = s[2].tags \cup {p}
      BY <1>1, <2>2, <3>2, FilledType
    <3> QED BY <1>1, <1>6, <2>1, <2>2, <3>1, <3>3, <3>4 DEF ErrorHub
  <2>3. CASE q # p
    <3>1. q # h
      BY <1>1, <2>3, Names
    <3>2. stack'[q] = stack[q]
      BY <1>5, <3>1, Names
    <3> QED BY <1>6, <2>1, <2>3, <3>2 DEF ErrorHub
  <2> QED BY <2>2, <2>3
<1>12. PushesAreCounted'
  <2>1. \A y \in Contexts : Pushers(y)' = Pushers(y)
    BY <1>1, <1>6 DEF Pushers
  <2>2. \A y \in Contexts : Len(stack'[y]) = Len(stack[y])
    BY <1>3, <1>5, Names DEF s
  <2> QED BY <1>0, <1>6, <2>1, <2>2 DEF PushesAreCounted, InUse
<1>13. EventsAreLinked' /\ TenantsDoNotMix' /\ TagsNeverLeak'
  <2>1. \A q \in Goroutines : pc'[q] = "pop" => q # p /\ pc[q] = "pop"
    BY <1>6
  <2> QED BY <1>0, <1>6, <2>1 DEF EventsAreLinked, TenantsDoNotMix, TagsNeverLeak, Reported
<1> QED BY <1>7, <1>8, <1>9, <1>10, <1>11, <1>12, <1>13 DEF IInv

\* An error is captured with the scope on top, whoever has pushed it.
LEMMA CaptureStep ==
  ASSUME IInv, NEW p \in Goroutines, Capture(p)
  PROVE  IInv'
<1> DEFINE top == Last(stack[target[p]])
           e == [top EXCEPT !.by = None]
<1>0. /\ TypeOK /\ HubsAreOwn /\ ScopesAreLinked /\ ReportsAreOnTheirHubs
      /\ ErrorHubs /\ PushesAreCounted /\ EventsAreLinked /\ TenantsDoNotMix /\ TagsNeverLeak
  BY DEF IInv
<1>1. /\ pc[p] = "capture" /\ ctx[p] \in Contexts /\ InUse(ctx[p])
      /\ target[p] = IF how[p] = "Error" THEN p ELSE ctx[p]
  BY <1>0 DEF Capture, ReportsAreOnTheirHubs
<1>2. /\ top \in Scope /\ top.span = ctx[p] /\ top.tenant = tenantOf[request[ctx[p]]]
      /\ top.tags = IF how[p] = "Error" THEN {p} ELSE {}
  <2>1. CASE how[p] = "Error"
    <3>1. ErrorHub(p) /\ target[p] = p
      BY <1>0, <1>1, <2>1 DEF ErrorHubs
    <3>2. stack[p] \in Seq(Scope) /\ stack[p] # <<>>
      BY <1>0, Names DEF TypeOK
    <3>3. top = stack[p][2] /\ top \in Scope
      BY <3>1, <3>2, StackFacts DEF ErrorHub
    <3> QED BY <1>1, <2>1, <3>1, <3>3 DEF ErrorHub
  <2>2. CASE how[p] # "Error"
    BY <1>1, <2>2, TopOfContext DEF Linked
  <2> QED BY <2>1, <2>2
<1>3. /\ event' = [event EXCEPT ![p] = e]
      /\ pc' = [pc EXCEPT ![p] = "pop"]
      /\ UNCHANGED <<stack, kind, tenantOf, request, hub, how, ctx, target>>
  BY Zenon DEF Capture, Top, Moves, contexts
<1> HIDE DEF top
<1>4. e \in Scope /\ e.span = top.span /\ e.tenant = top.tenant /\ e.tags = top.tags
  BY <1>2, SetBy
<1> HIDE DEF e
<1>5. /\ pc'[p] = "pop" /\ event'[p] = e
      /\ \A q \in Goroutines : q # p => pc'[q] = pc[q] /\ event'[q] = event[q]
  BY <1>0, <1>3 DEF TypeOK
<1>6. TypeOK'
  BY <1>0, <1>3, <1>4 DEF TypeOK
<1>7. HubsAreOwn' /\ ScopesAreLinked'
  BY <1>0, <1>3 DEF HubsAreOwn, ScopesAreLinked, InUse, Linked
<1>8. ReportsAreOnTheirHubs'
  BY <1>0, <1>1, <1>3, <1>5 DEF ReportsAreOnTheirHubs, InUse
<1>9. ErrorHubs'
  BY <1>0, <1>1, <1>3, <1>5 DEF ErrorHubs, ErrorHub
<1>10. PushesAreCounted'
  <2>1. \A y \in Contexts : Pushers(y)' = Pushers(y)
    BY <1>1, <1>3, <1>5 DEF Pushers
  <2> QED BY <1>0, <1>3, <2>1 DEF PushesAreCounted, InUse
<1>11. EventsAreLinked' /\ TenantsDoNotMix' /\ TagsNeverLeak'
  <2> SUFFICES ASSUME NEW q \in Goroutines, pc'[q] = "pop"
               PROVE  /\ event'[q].span = ctx[q]
                      /\ event'[q].tenant = tenantOf[request[ctx[q]]]
                      /\ event'[q].tags = IF how[q] = "Error" THEN {q} ELSE {}
    BY <1>3 DEF EventsAreLinked, TenantsDoNotMix, TagsNeverLeak, Reported
  <2>1. CASE q = p
    BY <1>2, <1>4, <1>5, <2>1
  <2>2. CASE q # p
    BY <1>0, <1>5, <2>2 DEF EventsAreLinked, TenantsDoNotMix, TagsNeverLeak, Reported
  <2> QED BY <2>1, <2>2
<1> QED BY <1>6, <1>7, <1>8, <1>9, <1>10, <1>11 DEF IInv

\* A goroutine that has pushed finds a scope above the first to pop, and the
\* scopes below go on as they were.
LEMMA PopScopeStep ==
  ASSUME IInv, NEW p \in Goroutines, PopScope(p)
  PROVE  IInv'
<1> DEFINE h == target[p]
           s == stack[h]
<1>0. /\ TypeOK /\ HubsAreOwn /\ ScopesAreLinked /\ ReportsAreOnTheirHubs
      /\ ErrorHubs /\ PushesAreCounted /\ EventsAreLinked /\ TenantsDoNotMix /\ TagsNeverLeak
  BY DEF IInv
<1>1. /\ pc[p] = "pop" /\ ctx[p] \in Contexts /\ InUse(ctx[p])
      /\ h = IF how[p] = "Error" THEN p ELSE ctx[p]
      /\ how[p] \in {"LogError", "finish", "Error", "plain", "handler"}
  BY <1>0 DEF PopScope, ReportsAreOnTheirHubs, TypeOK
<1>2. h \in Hubs /\ h # Current /\ s \in Seq(Scope) /\ s # <<>>
  BY <1>0, <1>1, Names DEF TypeOK
<1>3. /\ pc'[p] = "idle"
      /\ \A q \in Goroutines : q # p =>
            /\ pc'[q] = pc[q] /\ how'[q] = how[q] /\ ctx'[q] = ctx[q]
            /\ target'[q] = target[q] /\ event'[q] = event[q]
      /\ UNCHANGED <<kind, tenantOf, request, hub>>
  BY <1>0 DEF PopScope, Return, TypeOK, contexts
\* The counting, for the hub of a goroutine that has pushed.
<1>4. ASSUME how[p] \in {"LogError", "finish"}
      PROVE  /\ h \in Contexts /\ InUse(h)
             /\ Len(s) >= 2
             /\ IsFiniteSet(Pushers(h) \ {p})
             /\ Len(s) - 1 = 1 + Cardinality(Pushers(h) \ {p})
  <2>1. h \in Contexts /\ InUse(h) /\ p \in Pushers(h)
    BY <1>1, <1>4 DEF Pushers
  <2>2. IsFiniteSet(Pushers(h)) /\ Len(s) = 1 + Cardinality(Pushers(h))
    BY <1>0, <2>1 DEF PushesAreCounted
  <2>3. /\ IsFiniteSet(Pushers(h) \ {p})
        /\ Cardinality(Pushers(h) \ {p}) = Cardinality(Pushers(h)) - 1
    BY <2>1, <2>2, FS_RemoveElement
  <2>4. Cardinality(Pushers(h)) \in Nat /\ Cardinality(Pushers(h) \ {p}) \in Nat
    BY <2>2, <2>3, FS_CardinalityType
  <2> HIDE DEF h, s
  <2> QED BY <2>1, <2>2, <2>3, <2>4
\* What is left of the stack of a hub.
<1> DEFINE rest == IF how[p] = "Error" THEN <<Plain>>
                   ELSE IF how[p] \in {"plain", "handler"} THEN s ELSE Front(s)
<1>5. /\ stack' = [stack EXCEPT ![h] = rest]
      /\ rest \in Seq(Scope) /\ rest # <<>>
  <2>1. CASE how[p] = "Error"
    <3>1. stack' = [stack EXCEPT ![h] = <<Plain>>]
      BY <1>1, <2>1, Zenon DEF PopScope
    <3>2. <<Plain>> \in Seq(Scope) /\ <<Plain>> # <<>>
      BY PlainType
    <3> QED BY <2>1, <3>1, <3>2
  <2>2. CASE how[p] \in {"plain", "handler"}
    <3>1. stack' = stack /\ rest = s
      BY <2>2 DEF PopScope, Unscoped
    <3>2. [stack EXCEPT ![h] = s] = stack
      <4> HIDE DEF h
      <4> QED BY <1>0, <1>2 DEF TypeOK
    <3> QED BY <1>2, <3>1, <3>2
  <2>3. CASE how[p] \in {"LogError", "finish"}
    <3>1. Len(s) # 1 /\ ~Unscoped(p) /\ how[p] # "Error"
      <4> HIDE DEF h, s
      <4>1. Len(s) >= 2 /\ Len(s) \in Nat
        BY <1>2, <1>4, <2>3, StackFacts
      <4>2. Len(s) # 1
        <5>1. \A n \in Nat : n >= 2 => n # 1
          OBVIOUS
        <5> QED BY <4>1, <5>1, Zenon
      <4>3. how[p] # "Error" /\ how[p] \notin {"plain", "handler"}
        BY <2>3
      <4> QED BY <4>2, <4>3 DEF Unscoped
    <3>2. stack' = [stack EXCEPT ![h] = Front(s)] /\ rest = Front(s)
      BY <2>3, <3>1 DEF PopScope
    <3>3. Front(s) \in Seq(Scope) /\ Len(Front(s)) = Len(s) - 1 /\ Len(s) \in Nat
      BY <1>2, StackFacts
    <3>4. Front(s) # <<>>
      BY <1>4, <2>3, <3>3
    <3> QED BY <3>2, <3>3, <3>4
  <2> QED BY <1>1, <2>1, <2>2, <2>3
<1> HIDE DEF rest
<1>6. /\ stack'[h] = rest
      /\ \A g \in Hubs : g # h => stack'[g] = stack[g]
  BY <1>0, <1>2, <1>5 DEF TypeOK
<1>7. TypeOK'
  <2>1. stack' \in [Hubs -> Seq(Scope)] /\ \A g \in Hubs : stack'[g] # <<>>
    BY <1>0, <1>2, <1>5 DEF TypeOK
  <2>2. /\ pc' \in [Goroutines -> {"idle", "set", "capture", "pop"}]
        /\ how' \in [Goroutines -> {"none", "LogError", "finish", "Error", "plain", "handler"}]
        /\ ctx' \in [Goroutines -> Contexts \cup {None}]
        /\ target' \in [Goroutines -> Hubs]
        /\ event' \in [Goroutines -> Scope]
    BY <1>0, PlainType, Names DEF PopScope, Return, TypeOK
  <2> QED BY <1>0, <1>3, <2>1, <2>2 DEF TypeOK
<1>8. HubsAreOwn'
  <2>1. stack'[Current] = stack[Current]
    BY <1>2, <1>6, Names
  <2> QED BY <1>0, <1>3, <2>1 DEF HubsAreOwn, InUse
<1>9. ScopesAreLinked'
  <2> SUFFICES ASSUME NEW y \in Contexts, InUse(y)
               PROVE  /\ \A i \in 1 .. Len(stack'[y]) : Linked(y, stack[y][i])'
                      /\ stack'[y][1].by = None
                      /\ y \in Requests => stack'[y][1].label = None
    BY <1>3 DEF ScopesAreLinked, InUse
  <2>1. /\ \A i \in 1 .. Len(stack[y]) : Linked(y, stack[y][i])
        /\ stack[y][1].by = None
        /\ y \in Requests => stack[y][1].label = None
    BY <1>0 DEF ScopesAreLinked
  <2>2. CASE y = h /\ how[p] \in {"LogError", "finish"}
    <3>1. /\ Len(Front(s)) = Len(s) - 1 /\ Len(s) \in Nat /\ Len(s) >= 2
          /\ \A i \in 1 .. Len(s) - 1 : Front(s)[i] = s[i]
      BY <1>2, <1>4, <2>2, StackFacts
    <3>2. stack'[y] = Front(s) /\ s = stack[y]
      BY <1>6, <2>2 DEF rest
    <3> HIDE DEF s
    <3>3. stack'[y][1] = stack[y][1]
      BY <3>1, <3>2
    <3>4. \A i \in 1 .. Len(stack'[y]) : i \in 1 .. Len(stack[y]) /\ stack'[y][i] = stack[y][i]
      BY <3>1, <3>2
    <3> QED BY <1>3, <2>1, <3>3, <3>4 DEF Linked
  <2>3. CASE ~(y = h /\ how[p] \in {"LogError", "finish"})
    <3>1. stack'[y] = stack[y]
      <4>1. CASE y = h
        <5>1. how[p] \in {"plain", "handler"}
          BY <1>1, <2>3, <4>1, Names
        <5> QED BY <1>6, <4>1, <5>1 DEF rest
      <4>2. CASE y # h
        BY <1>6, <4>2, Names
      <4> QED BY <4>1, <4>2
    <3> QED BY <1>3, <2>1, <3>1 DEF Linked
  <2> QED BY <2>2, <2>3
<1>10. ReportsAreOnTheirHubs'
  BY <1>0, <1>3 DEF ReportsAreOnTheirHubs, InUse
<1>11. ErrorHubs'
  <2> SUFFICES ASSUME NEW q \in Goroutines, pc'[q] # "idle", how'[q] = "Error"
               PROVE  ErrorHub(q)'
    BY DEF ErrorHubs
  <2>1. q # p /\ ErrorHub(q)
    BY <1>0, <1>3 DEF ErrorHubs
  <2>2. stack'[q] = stack[q]
    BY <1>1, <1>6, <2>1, Names
  <2> QED BY <1>3, <2>1, <2>2 DEF ErrorHub
<1>12. PushesAreCounted'
  <2> SUFFICES ASSUME NEW y \in Contexts, InUse(y)
               PROVE  IsFiniteSet(Pushers(y)') /\ Len(stack'[y]) = 1 + Cardinality(Pushers(y)')
    BY <1>3 DEF PushesAreCounted, InUse
  <2>1. IsFiniteSet(Pushers(y)) /\ Len(stack[y]) = 1 + Cardinality(Pushers(y))
    BY <1>0 DEF PushesAreCounted
  <2>2. CASE y = h /\ how[p] \in {"LogError", "finish"}
    <3>1. Pushers(y)' = Pushers(h) \ {p}
      BY <1>3, <2>2 DEF Pushers
    <3>2. Len(stack'[y]) = Len(s) - 1
      <4>1. Len(Front(s)) = Len(s) - 1
        BY <1>2, StackFacts
      <4> QED BY <1>6, <2>2, <4>1 DEF rest
    <3> QED BY <1>4, <2>2, <3>1, <3>2
  <2>3. CASE ~(y = h /\ how[p] \in {"LogError", "finish"})
    <3>1. Pushers(y)' = Pushers(y)
      BY <1>3, <2>3 DEF Pushers
    <3>2. stack'[y] = stack[y]
      <4>1. CASE y = h
        <5>1. how[p] \in {"plain", "handler"}
          BY <1>1, <2>3, <4>1, Names
        <5> QED BY <1>6, <4>1, <5>1 DEF rest
      <4>2. CASE y # h
        BY <1>6, <4>2, Names
      <4> QED BY <4>1, <4>2
    <3> QED BY <2>1, <3>1, <3>2
  <2> QED BY <2>2, <2>3
<1>13. EventsAreLinked' /\ TenantsDoNotMix' /\ TagsNeverLeak'
  <2>1. \A q \in Goroutines : pc'[q] = "pop" => q # p
    BY <1>3
  <2> QED BY <1>0, <1>3, <2>1 DEF EventsAreLinked, TenantsDoNotMix, TagsNeverLeak, Reported
<1> QED BY <1>7, <1>8, <1>9, <1>10, <1>11, <1>12, <1>13 DEF IInv

-----------------------------------------------------------------------------
(* Theorems.                                                               *)

\* Every behaviour of HubScope keeps the invariant.
THEOREM HubInvariant == Spec => []IInv
<1>1. Init => IInv
  <2> SUFFICES ASSUME Init PROVE IInv
    OBVIOUS
  <2>1. TypeOK
    <3>1. <<Plain>> \in Seq(Scope) /\ <<Plain>> # <<>> /\ Plain \in Scope
      BY PlainType
    <3> QED BY <3>1, Names DEF Init, TypeOK
  <2>2. \A x \in Contexts : ~InUse(x)
    BY DEF Init, InUse
  <2>3. HubsAreOwn /\ ScopesAreLinked /\ PushesAreCounted
    BY <2>2, Names DEF Init, HubsAreOwn, ScopesAreLinked, PushesAreCounted
  <2>4. ReportsAreOnTheirHubs /\ ErrorHubs /\ EventsAreLinked /\ TenantsDoNotMix /\ TagsNeverLeak
    BY DEF Init, ReportsAreOnTheirHubs, ErrorHubs, EventsAreLinked, TenantsDoNotMix,
           TagsNeverLeak, Reported
  <2> QED BY <2>1, <2>3, <2>4 DEF IInv
<1>2. IInv /\ [Next]_vars => IInv'
  <2> SUFFICES ASSUME IInv, [Next]_vars PROVE IInv'
    OBVIOUS
  <2>1. ASSUME NEW r \in Requests, NEW t \in Tenants \cup {None},
               ServeHTTP(r, t) \/ ServeGRPC(r, t)
        PROVE  IInv'
    BY <2>1, ServeStep DEF ServeHTTP, ServeGRPC
  <2>2. ASSUME NEW x \in Contexts, NEW n \in Operations, StartSpan(x, n)
        PROVE  IInv'
    BY <2>2, StartSpanStep
  <2>3. ASSUME NEW p \in Goroutines, Report(p)
        PROVE  IInv'
    <3>1. ASSUME NEW x \in Contexts, LogError(p, x) PROVE IInv'
      BY <3>1, LogErrorStep
    <3>2. ASSUME NEW x \in Contexts, Error(p, x) PROVE IInv'
      BY <3>2, ErrorStep
    <3>3. ASSUME NEW n \in Operations, Finish(p, n) PROVE IInv'
      BY <3>3, FinishStep
    <3>4. ASSUME NEW r \in Requests, HandleGRPCError(p, r) PROVE IInv'
      BY <3>4, HandleGRPCErrorStep
    <3>5. SetScope(p) \/ Capture(p) \/ PopScope(p) => IInv'
      BY SetScopeStep, CaptureStep, PopScopeStep
    <3> QED BY <2>3, <3>1, <3>2, <3>3, <3>4, <3>5 DEF Report
  <2>4. CASE UNCHANGED vars
    <3>1. UNCHANGED <<stack, kind, tenantOf, request, hub, pc, how, ctx, target, event>>
      BY <2>4 DEF vars, contexts, reporting
    <3>2. TypeOK' /\ HubsAreOwn' /\ ScopesAreLinked'
      BY <3>1 DEF IInv, TypeOK, HubsAreOwn, ScopesAreLinked, Linked, InUse
    <3>3. ReportsAreOnTheirHubs'
      BY <3>1 DEF IInv, ReportsAreOnTheirHubs, InUse
    <3>4. ErrorHubs'
      BY <3>1 DEF IInv, ErrorHubs, ErrorHub
    <3>5. PushesAreCounted'
      <4>1. \A x \in Contexts : Pushers(x)' = Pushers(x)
        BY <3>1 DEF Pushers
      <4> QED BY <3>1, <4>1 DEF IInv, PushesAreCounted, InUse
    <3>6. EventsAreLinked' /\ TenantsDoNotMix' /\ TagsNeverLeak'
      BY <3>1 DEF IInv, EventsAreLinked, TenantsDoNotMix, TagsNeverLeak, Reported
    <3> QED BY <3>2, <3>3, <3>4, <3>5, <3>6 DEF IInv
  <2> QED BY <2>1, <2>2, <2>3, <2>4 DEF Next
<1> QED BY <1>1, <1>2, PTL DEF Spec

\* Every variable has its type.
THEOREM HubScopeTypeCorrect == Spec => []TypeOK
<1>1. IInv => TypeOK
  BY DEF IInv
<1> QED BY <1>1, HubInvariant, PTL

\* An error goes out with the span of the context it is reported on (span.go:43).
THEOREM EventsAreLinkedToTheirSpan == Spec => []EventsAreLinked
<1>1. IInv => EventsAreLinked
  BY DEF IInv
<1> QED BY <1>1, HubInvariant, PTL

\* An error goes out with the tenant of its request (middleware.go:30,
\* interceptor.go:185).
THEOREM TenantsNeverMix == Spec => []TenantsDoNotMix
<1>1. IInv => TenantsDoNotMix
  BY DEF IInv
<1> QED BY <1>1, HubInvariant, PTL

\* The tags of a call of Error go out with its error only (logger.go:382).
THEOREM TagsStayOnTheirEvent == Spec => []TagsNeverLeak
<1>1. IInv => TagsNeverLeak
  BY DEF IInv
<1> QED BY <1>1, HubInvariant, PTL

\* The hub of a request nobody reports on is as it was (logging.go:37).
THEOREM QuietHubsAreClean == Spec => []QuietHubIsClean
<1>1. IInv => QuietHubIsClean
  <2> SUFFICES ASSUME IInv, NEW r \in Requests, InUse(r),
                      \A p \in Goroutines : pc[p] # "idle" => target[p] # hub[r]
               PROVE  stack[hub[r]] = <<[Plain EXCEPT !.span = r, !.tenant = tenantOf[r]]>>
    BY DEF QuietHubIsClean
  <2>1. r \in Contexts /\ request[r] = r
    BY Names DEF IInv, HubsAreOwn
  <2>2. /\ stack[r] \in Seq(Scope) /\ stack[r] # <<>> /\ hub[r] = r
    BY <2>1, TopOfContext
  <2>3. Pushers(r) = {}
    BY <2>2 DEF Pushers
  <2>4. Len(stack[r]) = 1
    <3>1. Len(stack[r]) = 1 + Cardinality(Pushers(r))
      BY <2>1 DEF IInv, PushesAreCounted
    <3>2. Cardinality(Pushers(r)) = 0
      BY <2>3, FS_EmptySet
    <3> QED BY <3>1, <3>2
  <2> DEFINE c == stack[r][1]
  <2>5. c \in Scope /\ stack[r] = <<c>>
    BY <2>2, <2>4
  <2>6. Linked(r, c) /\ c.by = None /\ c.label = None
    BY <2>1, <2>4 DEF IInv, ScopesAreLinked
  <2> HIDE DEF c
  <2>7. c = [span |-> r, tenant |-> tenantOf[r], label |-> None, tags |-> {}, by |-> None]
    BY <2>1, <2>5, <2>6 DEF Linked, Scope
  <2>8. [Plain EXCEPT !.span = r, !.tenant = tenantOf[r]] =
          [span |-> r, tenant |-> tenantOf[r], label |-> None, tags |-> {}, by |-> None]
    <3> DEFINE u == [Plain EXCEPT !.span = r]
               v == [u EXCEPT !.tenant = tenantOf[r]]
    <3>1. tenantOf[r] \in Tenants \cup {None}
      BY DEF IInv, TypeOK
    <3>2. u = [span |-> r, tenant |-> None, label |-> None, tags |-> {}, by |-> None]
      BY DEF Plain
    <3> HIDE DEF u
    <3>3. v = [span |-> r, tenant |-> tenantOf[r], label |-> None, tags |-> {}, by |-> None]
      BY <3>2
    <3> QED BY <3>3, Zenon DEF u
  <2> QED BY <2>2, <2>5, <2>7, <2>8
<1> QED BY <1>1, HubInvariant, PTL

-----------------------------------------------------------------------------
(* Labels. A report that meets no other one finds the first scope of its   *)
(* hub alone, so it captures with that one, or with its only copy.         *)

\* The label that an error of p should have.
Label(p) == IF how[p] = "LogError" THEN p ELSE FirstLabel(ctx[p])

\* p reports, and has met nobody so far.
Lone(p) == pc[p] # "idle" /\ p \notin disturbed

\* p reports with a scope it has pushed.
Scoped(p) == how[p] \in {"LogError", "finish", "Error"}

\* The scope p has pushed is the only one above the first, and p's to set.
OwnScope(p) ==
    /\ Scoped(p) =>
         /\ Len(stack[target[p]]) = 2
         /\ pc[p] = "set" => stack[target[p]][2].by = p
         /\ stack[target[p]][2].label =
              IF pc[p] = "set" THEN FirstLabel(ctx[p]) ELSE Label(p)
    /\ pc[p] = "pop" => event[p].label = Label(p)

LoneReports ==
    \A p \in Goroutines :
       Lone(p) => (how[p] # "Error" => ~Rival(p)) /\ OwnScope(p)

\* The hub a goroutine has pushed on is that of a context.
LEMMA PushersTarget ==
  ASSUME IInv, NEW p \in Goroutines, Pushing(p)
  PROVE  target[p] \in Contexts /\ InUse(target[p])
BY DEF IInv, ReportsAreOnTheirHubs, Pushing

\* The hub of a context that nobody has pushed on has its first scope only.
LEMMA QuietHub ==
  ASSUME IInv, NEW x \in Contexts, InUse(x),
         \A q \in Goroutines : ~(Pushing(q) /\ target[q] = x)
  PROVE  /\ stack[x] \in Seq(Scope) /\ Len(stack[x]) = 1
         /\ Last(stack[x]) = stack[x][1] /\ stack[x][1] \in Scope
<1>1. Pushers(x) = {}
  BY DEF Pushers, Pushing
<1>2. Len(stack[x]) = 1
  <2>1. Len(stack[x]) = 1 + Cardinality(Pushers(x))
    BY DEF IInv, PushesAreCounted
  <2>2. Cardinality(Pushers(x)) = 0
    BY <1>1, FS_EmptySet
  <2> QED BY <2>1, <2>2
<1> QED BY <1>2, TopOfContext

\* What PushScope makes of a stack.
LEMMA PushFacts ==
  ASSUME NEW s \in Seq(Scope), s # <<>>, NEW p \in Goroutines
  PROVE  /\ Len(PushScope(s, p)) = Len(s) + 1
         /\ \A i \in 1 .. Len(s) : PushScope(s, p)[i] = s[i]
         /\ PushScope(s, p)[Len(s) + 1].by = p
         /\ PushScope(s, p)[Len(s) + 1].label = Last(s).label
<1> DEFINE top == Last(s)
           u == [top EXCEPT !.by = p]
<1>1. top \in Scope
  BY StackFacts
<1> HIDE DEF top
<1>2. u \in Scope /\ u.by = p /\ u.label = top.label
  BY <1>1, SetBy
<1>3. PushScope(s, p) = Append(s, u)
  BY DEF PushScope, top
<1> HIDE DEF u
<1>4. /\ Len(Append(s, u)) = Len(s) + 1
      /\ \A i \in 1 .. Len(s) : Append(s, u)[i] = s[i]
      /\ Append(s, u)[Len(s) + 1] = u
  BY <1>2, AppendProperties
<1> QED BY <1>2, <1>3, <1>4 DEF top

\* And of a stack of one scope.
LEMMA PushOnOne ==
  ASSUME NEW s \in Seq(Scope), Len(s) = 1, NEW p \in Goroutines
  PROVE  /\ Len(PushScope(s, p)) = 2
         /\ PushScope(s, p)[1] = s[1]
         /\ PushScope(s, p)[2].by = p
         /\ PushScope(s, p)[2].label = s[1].label
<1> DEFINE t == PushScope(s, p)
           n == Len(s)
<1>1. s # <<>> /\ n = 1 /\ n + 1 = 2 /\ 1 \in 1 .. n
  OBVIOUS
<1>2. Last(s) = s[n]
  BY DEF Last
<1>3. /\ Len(t) = n + 1 /\ \A i \in 1 .. n : t[i] = s[i]
      /\ t[n + 1].by = p /\ t[n + 1].label = Last(s).label
  BY <1>1, PushFacts
<1> HIDE DEF t, n
<1>4. Len(t) = 2 /\ t[1] = s[1] /\ t[2].by = p /\ t[2].label = s[1].label
  BY <1>1, <1>2, <1>3
<1> QED BY <1>4 DEF t

\* Once a context is there, the label of the first scope of its hub stays:
\* reports push and pop what is above, and set what was pushed for them.
LEMMA FirstLabelStays ==
  ASSUME IInv, Next, NEW x \in Contexts, InUse(x)
  PROVE  hub[x] = x /\ hub'[x] = x /\ stack'[x][1].label = stack[x][1].label
<1> DEFINE s == stack[x]
           Stays == hub'[x] = x /\ stack'[x][1].label = stack[x][1].label
<1>1. /\ s \in Seq(Scope) /\ s # <<>> /\ Len(s) \in Nat /\ Len(s) >= 1
      /\ s[1].by = None
      /\ hub[x] = x /\ x \in Hubs /\ x \notin Goroutines
  BY TopOfContext, Names DEF IInv, ScopesAreLinked
<1>2. /\ stack \in [Hubs -> Seq(Scope)]
      /\ hub \in [Contexts -> Hubs]
  BY DEF IInv, TypeOK
<1>3. ASSUME NEW r \in Requests, NEW t \in Tenants \cup {None},
             ServeHTTP(r, t) \/ ServeGRPC(r, t)
      PROVE  Stays
  BY <1>1, <1>2, <1>3, Names DEF ServeHTTP, ServeGRPC, Serve, InUse
<1>4. ASSUME NEW y \in Contexts, NEW n \in Operations, StartSpan(y, n)
      PROVE  Stays
  BY <1>1, <1>2, <1>4, Names DEF StartSpan
<1>5. ASSUME NEW p \in Goroutines, Report(p)
      PROVE  Stays
  <2>1. hub'[x] = x
    BY <1>1, <1>5 DEF Report, LogError, Error, Finish, HandleGRPCError, SetScope, Capture,
                      PopScope, Begin, Moves, Return, contexts
  <2>2. ASSUME NEW y \in Contexts, InUse(y), stack' = [stack EXCEPT ![hub[y]] = PushScope(@, p)]
        PROVE  Stays
    <3>1. hub[y] = y /\ y \in Hubs
      BY <2>2, TopOfContext, Names
    <3>2. CASE y = x
      <4>1. stack'[x] = PushScope(s, p)
        BY <1>2, <2>2, <3>1, <3>2
      <4>2. \A i \in 1 .. Len(s) : PushScope(s, p)[i] = s[i]
        BY <1>1, PushFacts
      <4>3. 1 \in 1 .. Len(s)
        BY <1>1
      <4> QED BY <2>1, <4>1, <4>2, <4>3
    <3>3. CASE y # x
      BY <1>1, <1>2, <2>1, <2>2, <3>1, <3>3
    <3> QED BY <3>2, <3>3
  <2>3. ASSUME NEW h \in Hubs, h # x, NEW c, stack' = [stack EXCEPT ![h] = c]
        PROVE  Stays
    BY <1>1, <1>2, <2>1, <2>3
  <2>4. CASE stack' = stack
    BY <2>1, <2>4
  <2>5. ASSUME NEW y \in Contexts, LogError(p, y)
        PROVE  Stays
    BY <2>2, <2>4, <2>5 DEF LogError, Begin
  <2>6. ASSUME NEW n \in Operations, Finish(p, n)
        PROVE  Stays
    BY <2>2, <2>6, Names DEF Finish, Begin
  <2>7. ASSUME NEW y \in Contexts, Error(p, y)
        PROVE  Stays
    BY <1>1, <2>3, <2>7, Names DEF Error
  <2>8. ASSUME NEW r \in Requests, HandleGRPCError(p, r)
        PROVE  Stays
    BY <2>4, <2>8, HandlerKeepsStack
  <2>9. CASE SetScope(p)
    <3>1. /\ stack' = [stack EXCEPT ![target[p]] = SetOn(stack[target[p]], p)]
          /\ pc[p] = "set"
      BY <2>9, Zenon DEF SetScope, SetOn
    <3>2. ctx[p] \in Contexts /\ target[p] \in Hubs
      BY <3>1 DEF IInv, TypeOK, ReportsAreOnTheirHubs
    <3>3. CASE target[p] = x
      <4>1. stack'[x] = SetOn(s, p)
        BY <1>1, <1>2, <3>1, <3>3
      <4>2. SetOn(s, p)[1] = s[1]
        BY <1>1, <3>2, SetFacts, Names
      <4> QED BY <2>1, <4>1, <4>2
    <3>4. CASE target[p] # x
      BY <2>3, <3>1, <3>2, <3>4
    <3> QED BY <3>3, <3>4
  <2>10. CASE Capture(p)
    BY <2>4, <2>10 DEF Capture
  <2>11. CASE PopScope(p)
    <3>1. target[p] \in Hubs /\ p \in Hubs /\ p # x
      BY <1>1, Names DEF IInv, TypeOK
    <3>2. CASE how[p] = "Error"
      BY <2>3, <2>11, <3>1, <3>2 DEF PopScope
    <3>3. CASE how[p] # "Error" /\ (Unscoped(p) \/ Len(stack[target[p]]) = 1)
      BY <2>4, <2>11, <3>3 DEF PopScope
    <3>4. CASE how[p] # "Error" /\ ~Unscoped(p) /\ Len(stack[target[p]]) # 1
      <4>1. stack' = [stack EXCEPT ![target[p]] = Front(stack[target[p]])]
        BY <2>11, <3>4 DEF PopScope
      <4>2. CASE target[p] = x
        <5>1. stack'[x] = Front(s) /\ Len(s) # 1
          BY <1>1, <1>2, <3>4, <4>1, <4>2
        <5>2. Front(s)[1] = s[1]
          <6>1. 1 \in 1 .. Len(s) - 1
            <7> DEFINE n == Len(s)
            <7>1. n \in Nat /\ n >= 1 /\ n # 1
              BY <1>1, <5>1
            <7> HIDE DEF n
            <7>2. 1 \in 1 .. n - 1
              BY <7>1
            <7> QED BY <7>2 DEF n
          <6>2. \A i \in 1 .. Len(s) - 1 : Front(s)[i] = s[i]
            BY <1>1, StackFacts
          <6> HIDE DEF s
          <6> QED BY <6>1, <6>2
        <5> QED BY <2>1, <5>1, <5>2
      <4>3. CASE target[p] # x
        BY <2>3, <3>1, <4>1, <4>3
      <4> QED BY <4>2, <4>3
    <3> QED BY <3>2, <3>3, <3>4
  <2> QED BY <1>5, <2>5, <2>6, <2>7, <2>8, <2>9, <2>10, <2>11 DEF Report
<1> QED BY <1>1, <1>3, <1>4, <1>5 DEF Next

\* Without a rival a push finds the first scope alone.
LEMMA PushOnQuietHub ==
  ASSUME IInv, NEW p \in Goroutines, NEW x \in Contexts,
         NEW with \in {"LogError", "finish"},
         Begin(p, x, hub[x], with, "set"),
         stack' = [stack EXCEPT ![hub[x]] = PushScope(@, p)],
         ~Rival(p)'
  PROVE  OwnScope(p)'
<1>1. /\ InUse(x) /\ pc[p] = "idle"
  BY DEF Begin
<1>2. hub[x] = x /\ x \in Hubs
  BY <1>1, TopOfContext, Names
<1>3. /\ pc'[p] = "set" /\ target'[p] = x /\ ctx'[p] = x /\ hub' = hub /\ how'[p] = with
      /\ \A q \in Goroutines : q # p =>
            pc'[q] = pc[q] /\ how'[q] = how[q] /\ target'[q] = target[q]
  BY <1>2 DEF Begin, contexts, IInv, TypeOK
<1>4. \A q \in Goroutines : ~(Pushing(q) /\ target[q] = x)
  BY <1>1, <1>2, <1>3 DEF Rival, Pushing
<1>5. /\ stack[x] \in Seq(Scope) /\ Len(stack[x]) = 1 /\ stack[x] # <<>>
      /\ Last(stack[x]) = stack[x][1]
  BY <1>1, <1>4, QuietHub
<1>6. stack'[x] = PushScope(stack[x], p)
  BY <1>2 DEF IInv, TypeOK
<1>7. /\ Len(stack'[x]) = 2 /\ stack'[x][2].by = p
      /\ stack'[x][1] = stack[x][1] /\ stack'[x][2].label = stack[x][1].label
  BY <1>5, <1>6, PushOnOne
<1> QED BY <1>2, <1>3, <1>7 DEF OwnScope, FirstLabel

\* And so does the clone that Error makes.
LEMMA ErrorOnQuietHub ==
  ASSUME IInv, NEW p \in Goroutines, NEW x \in Contexts, Error(p, x), ~Rival(p)'
  PROVE  OwnScope(p)'
<1>1. /\ InUse(x) /\ pc[p] = "idle"
  BY DEF Error, Begin
<1>2. hub[x] = x /\ x \in Hubs /\ p \in Hubs /\ p # x
  BY <1>1, TopOfContext, Names
<1>3. /\ pc'[p] = "set" /\ target'[p] = p /\ ctx'[p] = x /\ hub' = hub /\ how'[p] = "Error"
      /\ \A q \in Goroutines : q # p =>
            pc'[q] = pc[q] /\ how'[q] = how[q] /\ target'[q] = target[q]
  BY <1>2 DEF Error, Begin, contexts, IInv, TypeOK
<1>4. \A q \in Goroutines : ~(Pushing(q) /\ target[q] = x)
  BY <1>1, <1>2, <1>3 DEF Rival, Pushing
<1> DEFINE top == stack[x][1]
           c == [top EXCEPT !.by = None]
<1>5. Last(stack[x]) = top /\ top \in Scope
  BY <1>1, <1>4, QuietHub
<1>6. stack'[p] = PushScope(<<c>>, p) /\ stack'[x] = stack[x]
  BY <1>2, <1>5 DEF Error, Top, IInv, TypeOK
<1>7. stack'[x][1].label = top.label
  BY <1>6
<1> HIDE DEF top
<1>8. c \in Scope /\ c.label = top.label
  BY <1>5, SetBy
<1> HIDE DEF c
<1> DEFINE s == <<c>>
<1>9. s \in Seq(Scope) /\ Len(s) = 1 /\ s[1] = c
  BY <1>8
<1>10. stack'[p] = PushScope(s, p)
  BY <1>6
<1> HIDE DEF s
<1>11. Len(stack'[p]) = 2 /\ stack'[p][2].by = p /\ stack'[p][2].label = top.label
  BY <1>8, <1>9, <1>10, PushOnOne
<1> QED BY <1>2, <1>3, <1>7, <1>11 DEF OwnScope, FirstLabel

\* A goroutine leaves a stack alone that is not that of its own clone, and that
\* it has neither pushed on nor is pushing on.
LEMMA OthersLeaveAlone ==
  ASSUME IInv, NEW q \in Goroutines, Report(q), NEW h \in Hubs, h # q,
         ~(Pushing(q) /\ target[q] = h), ~(Pushing(q)' /\ target'[q] = h)
  PROVE  stack'[h] = stack[h]
<1>1. /\ stack \in [Hubs -> Seq(Scope)]
      /\ pc \in [Goroutines -> {"idle", "set", "capture", "pop"}]
      /\ how \in [Goroutines -> {"none", "LogError", "finish", "Error", "plain", "handler"}]
      /\ target \in [Goroutines -> Hubs]
  BY DEF IInv, TypeOK
\* If it begins to push it does so elsewhere.
<1>2. ASSUME NEW x \in Contexts, NEW with \in {"LogError", "finish"},
             Begin(q, x, hub[x], with, "set"),
             stack' = [stack EXCEPT ![hub[x]] = PushScope(@, q)]
      PROVE  stack'[h] = stack[h]
  <2>1. pc'[q] = "set" /\ how'[q] = with /\ target'[q] = hub[x]
    BY <1>1, <1>2 DEF Begin
  <2>2. hub[x] # h
    BY <2>1 DEF Pushing
  <2> QED BY <1>1, <1>2, <2>2
\* If it reports it has another hub, or has pushed nothing.
<1>3. ASSUME pc[q] # "idle"
      PROVE  target[q] # h \/ how[q] \in {"plain", "handler"}
  <2>1. how[q] # "none" /\ (how[q] = "Error" => target[q] = q)
    BY <1>3 DEF IInv, ReportsAreOnTheirHubs
  <2>2. how[q] \in {"LogError", "finish"} => target[q] # h
    BY <1>3 DEF Pushing
  <2> QED BY <1>1, <2>1, <2>2
<1>4. ASSUME NEW x \in Contexts, LogError(q, x)
      PROVE  stack'[h] = stack[h]
  BY <1>2, <1>4 DEF LogError
<1>5. ASSUME NEW x \in Contexts, Error(q, x)
      PROVE  stack'[h] = stack[h]
  BY <1>1, <1>5 DEF Error
<1>6. ASSUME NEW n \in Operations, Finish(q, n)
      PROVE  stack'[h] = stack[h]
  BY <1>2, <1>6, Names DEF Finish
<1>7. ASSUME NEW r \in Requests, HandleGRPCError(q, r)
      PROVE  stack'[h] = stack[h]
  BY <1>7, HandlerKeepsStack
<1>8. ASSUME SetScope(q)
      PROVE  stack'[h] = stack[h]
  <2>1. how[q] \notin {"plain", "handler"}
    BY <1>8 DEF SetScope, IInv, ReportsAreOnTheirHubs
  <2>2. target[q] # h
    BY <1>3, <1>8, <2>1 DEF SetScope
  <2> QED BY <1>1, <1>8, <2>2 DEF SetScope
<1>9. ASSUME Capture(q)
      PROVE  stack'[h] = stack[h]
  BY <1>9 DEF Capture
<1>10. ASSUME PopScope(q)
       PROVE  stack'[h] = stack[h]
  <2>1. CASE how[q] = "Error"
    BY <1>1, <1>10, <2>1 DEF PopScope
  <2>2. CASE how[q] \in {"plain", "handler"}
    BY <1>10, <2>2 DEF PopScope, Unscoped
  <2>3. CASE how[q] \notin {"Error", "plain", "handler"}
    <3>1. target[q] # h
      BY <1>3, <1>10, <2>3 DEF PopScope
    <3> QED BY <1>1, <1>10, <2>3, <3>1 DEF PopScope
  <2> QED BY <2>1, <2>2, <2>3
<1> QED BY <1>4, <1>5, <1>6, <1>7, <1>8, <1>9, <1>10 DEF Report

\* A report that has pushed a scope sets that one and captures with it.
LEMMA OwnScopeStays ==
  ASSUME IInv, Next, NEW p \in Goroutines, Scoped(p), OwnScope(p),
         SetScope(p) \/ Capture(p)
  PROVE  OwnScope(p)'
<1> DEFINE s == stack[target[p]]
           l == FirstLabel(ctx[p])
<1>1. /\ target[p] \in Hubs /\ ctx[p] \in Contexts /\ InUse(ctx[p])
      /\ s \in Seq(Scope) /\ s # <<>> /\ Len(s) = 2
  BY DEF IInv, TypeOK, ReportsAreOnTheirHubs, OwnScope, SetScope, Capture
<1>2. s[2] \in Scope /\ Last(s) = s[2]
  BY <1>1, StackFacts
<1>3. stack'[hub'[ctx[p]]][1].label = l
  BY <1>1, FirstLabelStays DEF FirstLabel
<1> HIDE DEF l
<1>4. CASE SetScope(p)
  <2>1. stack' = [stack EXCEPT ![target[p]] = SetOn(s, p)]
    BY <1>4, Zenon DEF SetScope, SetOn
  <2>2. stack'[target[p]] = SetOn(s, p)
    BY <1>1, <2>1 DEF IInv, TypeOK
  <2>3. s[2].by = p /\ s[2].label = l
    BY <1>4 DEF SetScope, OwnScope, l
  <2>4. Len(SetOn(s, p)) = 2 /\ SetOn(s, p)[2] = Filled(p, s[2])
    BY <1>1, <2>3, SetFacts
  <2>5. Filled(p, s[2]).label = IF how[p] = "LogError" THEN p ELSE l
    BY <1>1, <1>2, <2>3, FilledType
  <2>6. pc'[p] = "capture" /\ UNCHANGED <<how, ctx, target>>
    BY <1>4 DEF SetScope, Moves, IInv, TypeOK
  <2>7. stack'[target[p]][2].label = Label(p)'
    BY <1>3, <2>2, <2>4, <2>5, <2>6 DEF Label, FirstLabel
  <2>8. Len(stack'[target[p]]) = 2
    BY <2>2, <2>4
  <2> QED BY <2>6, <2>7, <2>8 DEF OwnScope
<1>5. CASE Capture(p)
  <2> DEFINE top == Last(s)
             e == [top EXCEPT !.by = None]
  <2>1. event'[p] = e
    BY <1>5 DEF Capture, Top, IInv, TypeOK
  <2>2. top \in Scope /\ top = s[2]
    BY <1>2
  <2> HIDE DEF top
  <2>3. e.label = top.label
    BY <2>2, SetBy
  <2> HIDE DEF e
  <2>4. pc[p] = "capture" /\ pc'[p] = "pop" /\ UNCHANGED <<stack, how, ctx, target>>
    BY <1>5 DEF Capture, Moves, IInv, TypeOK
  <2>5. s[2].label = Label(p) /\ Label(p)' = Label(p)
    BY <1>3, <2>4 DEF OwnScope, Label, FirstLabel, l
  <2> QED BY <1>1, <2>1, <2>2, <2>3, <2>4, <2>5 DEF OwnScope
<1> QED BY <1>4, <1>5

\* One that has pushed none captures with the first scope, if it has no rival.
LEMMA UnscopedCapture ==
  ASSUME IInv, Next, NEW p \in Goroutines, how[p] \in {"plain", "handler"},
         ~Rival(p), Capture(p)
  PROVE  OwnScope(p)'
<1> DEFINE x == ctx[p]
           top == Last(stack[x])
           e == [top EXCEPT !.by = None]
<1>1. /\ x \in Contexts /\ InUse(x) /\ target[p] = x
  BY DEF IInv, ReportsAreOnTheirHubs, Capture
<1>2. \A q \in Goroutines : ~(Pushing(q) /\ target[q] = x)
  BY <1>1, TopOfContext DEF Rival, Pushing
<1>3. top = stack[x][1] /\ top \in Scope
  BY <1>1, <1>2, QuietHub
<1>4. event'[p] = e
  BY <1>1 DEF Capture, Top, IInv, TypeOK
<1>5. stack'[hub'[x]][1].label = stack[x][1].label
  BY <1>1, FirstLabelStays
<1>6. pc'[p] = "pop" /\ UNCHANGED <<how, ctx, target>>
  BY DEF Capture, Moves, IInv, TypeOK
<1>7. top.label = FirstLabel(x)'
  BY <1>3, <1>5, <1>6 DEF FirstLabel
<1> HIDE DEF top
<1>8. e.label = top.label
  BY <1>3, SetBy
<1> HIDE DEF e
<1> QED BY <1>4, <1>6, <1>7, <1>8 DEF OwnScope, Scoped, Label

\* A step of another goroutine changes nothing of the report of p.
LEMMA ReportsAreSeparate ==
  ASSUME IInv, NEW p \in Goroutines, NEW q \in Goroutines, q # p, Report(q)
  PROVE  /\ pc'[p] = pc[p] /\ how'[p] = how[p] /\ ctx'[p] = ctx[p]
         /\ target'[p] = target[p] /\ event'[p] = event[p]
BY DEF Report, LogError, Error, Finish, HandleGRPCError, Begin, SetScope, Capture, Moves,
       PopScope, Return, IInv, TypeOK

\* Nor does it touch the scope that p has pushed, unless it is a rival's.
LEMMA OthersSpareOwnScope ==
  ASSUME IInv, IInv', Next, NEW p \in Goroutines, pc[p] # "idle", Scoped(p),
         how[p] # "Error" => ~Rival(p) /\ ~Rival(p)',
         NEW q \in Goroutines, q # p, Report(q)
  PROVE  stack'[target[p]] = stack[target[p]]
<1> DEFINE x == ctx[p]
<1>1. /\ x \in Contexts /\ InUse(x) /\ target[p] \in Hubs
      /\ target[p] = IF how[p] = "Error" THEN p ELSE x
  BY DEF IInv, TypeOK, ReportsAreOnTheirHubs
<1>2. ctx'[p] = x /\ pc'[p] = pc[p] /\ how'[p] = how[p]
  BY ReportsAreSeparate
<1>3. hub[x] = x /\ hub'[x] = x
  BY <1>1, FirstLabelStays
<1>4. CASE how[p] = "Error"
  <2>1. Pushing(q) => target[q] \in Contexts
    BY PushersTarget
  <2>2. Pushing(q)' => target'[q] \in Contexts
    BY DEF IInv, ReportsAreOnTheirHubs, Pushing
  <2> QED BY <1>1, <1>4, <2>1, <2>2, OthersLeaveAlone, Names
<1>5. CASE how[p] # "Error"
  <2>1. ~(Pushing(q) /\ target[q] = x) /\ ~(Pushing(q)' /\ target'[q] = x)
    BY <1>2, <1>3, <1>5 DEF Rival
  <2> QED BY <1>1, <1>5, <2>1, OthersLeaveAlone, Names
<1> QED BY <1>4, <1>5

\* Every step leaves lone reports their own scope.
LEMMA LoneReportsStep ==
  ASSUME IInv, IInv', LoneReports, Next, Observed
  PROVE  LoneReports'
<1> SUFFICES ASSUME NEW p \in Goroutines, Lone(p)'
             PROVE  (how'[p] # "Error" => ~Rival(p)') /\ OwnScope(p)'
  BY DEF LoneReports
<1>1. /\ pc'[p] # "idle" /\ p \notin disturbed
      /\ pc[p] = "idle" \/ how[p] # "Error" => ~Rival(p)'
  BY DEF Lone, Observed, Met
<1>2. pc[p] # "idle" => OwnScope(p) /\ (how[p] # "Error" => ~Rival(p))
  BY <1>1 DEF LoneReports, Lone
\* Where the report of p and its hub are as they were, so is its scope.
<1>3. ASSUME pc'[p] = pc[p], how'[p] = how[p], ctx'[p] = ctx[p],
             target'[p] = target[p], event'[p] = event[p],
             Scoped(p) => stack'[target[p]] = stack[target[p]]
      PROVE  (how'[p] # "Error" => ~Rival(p)') /\ OwnScope(p)'
  <2>1. OwnScope(p) /\ ctx[p] \in Contexts /\ InUse(ctx[p])
    BY <1>1, <1>2, <1>3 DEF IInv, ReportsAreOnTheirHubs
  <2>2. stack'[hub'[ctx'[p]]][1].label = stack[hub[ctx[p]]][1].label
    BY <1>3, <2>1, FirstLabelStays
  <2>3. OwnScope(p)'
    BY <1>3, <2>1, <2>2 DEF OwnScope, Label, Scoped, FirstLabel
  <2> QED BY <1>1, <1>2, <1>3, <2>3
<1>4. ASSUME NEW n \in Contexts, ~InUse(n), NEW c, stack' = [stack EXCEPT ![n] = c],
             UNCHANGED reporting
      PROVE  (how'[p] # "Error" => ~Rival(p)') /\ OwnScope(p)'
  <2>1. pc[p] # "idle"
    BY <1>1, <1>4 DEF reporting
  <2>2. target[p] # n /\ target[p] \in Hubs
    <3>1. InUse(ctx[p]) /\ target[p] \in {p, ctx[p]} /\ target[p] \in Hubs
      BY <2>1 DEF IInv, TypeOK, ReportsAreOnTheirHubs
    <3> QED BY <1>4, <3>1, Names
  <2>3. stack'[target[p]] = stack[target[p]]
    BY <1>4, <2>2 DEF IInv, TypeOK
  <2> QED BY <1>3, <1>4, <2>3 DEF reporting
<1>5. ASSUME NEW r \in Requests, NEW t \in Tenants \cup {None},
             ServeHTTP(r, t) \/ ServeGRPC(r, t)
      PROVE  (how'[p] # "Error" => ~Rival(p)') /\ OwnScope(p)'
  BY <1>4, <1>5, Names DEF ServeHTTP, ServeGRPC, Serve, InUse
<1>6. ASSUME NEW x \in Contexts, NEW n \in Operations, StartSpan(x, n)
      PROVE  (how'[p] # "Error" => ~Rival(p)') /\ OwnScope(p)'
  BY <1>4, <1>6, Names DEF StartSpan
<1>7. ASSUME NEW q \in Goroutines, q # p, Report(q)
      PROVE  (how'[p] # "Error" => ~Rival(p)') /\ OwnScope(p)'
  <2>1. /\ pc'[p] = pc[p] /\ how'[p] = how[p] /\ ctx'[p] = ctx[p]
        /\ target'[p] = target[p] /\ event'[p] = event[p]
    BY <1>7, ReportsAreSeparate
  <2>2. Scoped(p) => stack'[target[p]] = stack[target[p]]
    BY <1>1, <1>2, <1>7, <2>1, OthersSpareOwnScope
  <2> QED BY <1>3, <2>1, <2>2
<1>8. CASE Report(p)
  <2>1. ASSUME pc[p] = "idle"
        PROVE  ~Rival(p)'
    BY <1>1, <2>1
  <2>2. ASSUME NEW x \in Contexts, NEW with \in {"plain", "handler"},
               Begin(p, x, hub[x], with, "capture")
        PROVE  OwnScope(p)'
    BY <2>2 DEF Begin, OwnScope, Scoped, IInv, TypeOK
  <2>3. ASSUME NEW x \in Contexts, LogError(p, x)
        PROVE  ~Rival(p)' /\ OwnScope(p)'
    <3>1. pc[p] = "idle"
      BY <2>3 DEF LogError, Begin
    <3> QED BY <2>1, <2>2, <2>3, <3>1, PushOnQuietHub DEF LogError
  <2>4. ASSUME NEW x \in Contexts, Error(p, x)
        PROVE  ~Rival(p)' /\ OwnScope(p)'
    <3>1. pc[p] = "idle"
      BY <2>4 DEF Error, Begin
    <3> QED BY <2>1, <2>4, <3>1, ErrorOnQuietHub
  <2>5. ASSUME NEW n \in Operations, Finish(p, n)
        PROVE  ~Rival(p)' /\ OwnScope(p)'
    <3>1. pc[p] = "idle"
      BY <2>5 DEF Finish, Begin
    <3> QED BY <2>1, <2>5, <3>1, PushOnQuietHub, Names DEF Finish
  <2>6. ASSUME NEW r \in Requests, HandleGRPCError(p, r)
        PROVE  ~Rival(p)' /\ OwnScope(p)'
    <3>1. pc[p] = "idle"
      BY <2>6 DEF HandleGRPCError, Begin
    <3> QED BY <2>1, <2>2, <2>6, <3>1, Names DEF HandleGRPCError
  <2>7. CASE SetScope(p) \/ Capture(p)
    <3>1. pc[p] # "idle" /\ how'[p] = how[p]
      BY <2>7 DEF SetScope, Capture, Moves
    <3>2. CASE Scoped(p)
      BY <1>1, <1>2, <2>7, <3>1, <3>2, OwnScopeStays
    <3>3. CASE ~Scoped(p)
      <4>1. how[p] \in {"plain", "handler"} /\ Capture(p)
        BY <2>7, <3>1, <3>3 DEF Scoped, SetScope, IInv, TypeOK, ReportsAreOnTheirHubs
      <4> QED BY <1>1, <1>2, <3>1, <4>1, UnscopedCapture
    <3> QED BY <3>2, <3>3
  <2>8. CASE PopScope(p)
    BY <1>1, <2>8 DEF PopScope, Return, IInv, TypeOK
  <2> QED BY <1>8, <2>3, <2>4, <2>5, <2>6, <2>7, <2>8 DEF Report
<1> QED BY <1>5, <1>6, <1>7, <1>8 DEF Next

\* The history looks on: what is true of HubScope is true beside it.
THEOREM HistoryLooksOn == OverlapSpec => Spec
<1>1. OverlapInit => Init
  BY DEF OverlapInit
<1>2. [OverlapNext]_<<vars, disturbed>> => [Next]_vars
  BY DEF OverlapNext
<1> QED BY <1>1, <1>2, PTL DEF OverlapSpec, Spec

\* A report that meets no other one on its hub goes out with its own label if
\* it is LogError's (logging.go:38), and else with none but the one that its
\* operation was started with (span.go:95, logger.go:384).
THEOREM LoneReportsHaveTheirLabel == OverlapSpec => []LoneLabelsAreOwn
<1>1. OverlapInit => LoneReports
  BY DEF OverlapInit, Init, LoneReports, Lone
<1>2. IInv /\ IInv' /\ LoneReports /\ [OverlapNext]_<<vars, disturbed>> => LoneReports'
  <2> SUFFICES ASSUME IInv, LoneReports, UNCHANGED <<vars, disturbed>>
               PROVE  LoneReports'
    BY LoneReportsStep DEF OverlapNext
  <2> QED BY DEF LoneReports, Lone, Pushing, Rival, OwnScope, Scoped, Label, FirstLabel,
                 vars, contexts, reporting
<1>3. IInv /\ LoneReports => LoneLabelsAreOwn
  <2> SUFFICES ASSUME IInv, LoneReports, NEW p \in Goroutines, Reported(p), p \notin disturbed
               PROVE  IF how[p] = "LogError" THEN event[p].label = p
                      ELSE /\ event[p].label = FirstLabel(ctx[p])
                           /\ ctx[p] \in Requests => event[p].label = None
    BY DEF LoneLabelsAreOwn
  <2>1. event[p].label = Label(p)
    BY DEF LoneReports, Lone, OwnScope, Reported
  <2>2. ctx[p] \in Requests => FirstLabel(ctx[p]) = None
    BY DEF Reported, FirstLabel, IInv, ReportsAreOnTheirHubs, HubsAreOwn, ScopesAreLinked
  <2> QED BY <2>1, <2>2 DEF Label
<1> QED BY <1>1, <1>2, <1>3, HistoryLooksOn, HubInvariant, PTL DEF OverlapSpec
=============================================================================
