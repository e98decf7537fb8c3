----------------------------- MODULE HubOverlap -----------------------------
(***************************************************************************)
(* A history beside HubScope, of what none of its goroutines can know:     *)
(* whether another one had a scope on the same hub during its report.      *)
(***************************************************************************)
EXTENDS HubScope

VARIABLE disturbed   \* history: goroutines whose report has met another

\* p has pushed a scope on its target and is yet to pop one.
Pushing(p) == pc[p] # "idle" /\ how[p] \in {"LogError", "finish"}

\* So has somebody else, on the hub of the context that p reports on.
Rival(p) ==
    \E q \in Goroutines \ {p} : Pushing(q) /\ target[q] = hub[ctx[p]]

\* Error is on its own once it has its clone, so only what it finds counts.
Met(p) ==
    \/ p \in disturbed
    \/ (pc[p] = "idle" \/ how[p] # "Error") /\ Rival(p)'

Observed == disturbed' = {p \in Goroutines : pc'[p] # "idle" /\ Met(p)}

OverlapInit == Init /\ disturbed = {}

OverlapNext == Next /\ Observed

OverlapSpec == OverlapInit /\ [][OverlapNext]_<<vars, disturbed>>

-----------------------------------------------------------------------------

\* The label that the first scope of the hub of x has: None for a request. An
\* operation is started on a clone of the top scope, and keeps its label.
FirstLabel(x) == stack[hub[x]][1].label

(***************************************************************************)
(* What is true of "it just works!" (logging.go:21). An error that         *)
(* LogError reports goes out with its own label if no other goroutine had  *)
(* a scope on the hub between its PushScope and PopScope. Other errors     *)
(* then have nobody's label, or the one their operation was started with:  *)
(* those of Logger.Error if no goroutine had a scope on the hub of the     *)
(* context when captureHub cloned it (logger.go:384). What reports did     *)
(* before, in whatever order they popped each other's scopes, what others  *)
(* do on other hubs, and reports that push nothing (the end of the         *)
(* handler, LogError on an HTTP context) do no harm.                       *)
(***************************************************************************)
LoneLabelsAreOwn ==
    \A p \in Goroutines :
       Reported(p) /\ p \notin disturbed =>
         IF how[p] = "LogError" THEN event[p].label = p
         ELSE /\ event[p].label = FirstLabel(ctx[p])
              /\ ctx[p] \in Requests => event[p].label = None
=============================================================================
