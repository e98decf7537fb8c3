---------------------------- MODULE GrantPromise ----------------------------
(***************************************************************************)
(* What oauth.GrantChecker promises its callers, with no cache, no         *)
(* singleflight group and no query: a row of oauth_grants changes under a  *)
(* clock, calls of Active come and go, and each verdict rests on a status  *)
(* the row really had, no longer ago than a stated window.                 *)
(*                                                                         *)
(*   - A call that met no DB error decides on a status that was still in   *)
(*     the row TTL + QueryTimeout before the call (a cached value).        *)
(*   - Only a degraded call, one whose query failed, may look Grace        *)
(*     further back, and only a degraded call may answer "unavailable".    *)
(*   - Absence of the row is never remembered: a denial for want of a row  *)
(*     has the row missing at most QueryTimeout before the call.           *)
(***************************************************************************)
EXTENDS GrantRows

VARIABLE stage      \* stage[c]: how far c's latest call is, or its verdict

vars == <<now, db, heldUntil, stage, grant, calledAt>>

Verdict == {"granted", "denied", "unavailable"}

Returned(c) == stage[c] \in Verdict \cup {"idle"}

Init ==
    /\ now = 0
    /\ db \in [Grants -> Status]
    /\ heldUntil = [g \in Grants |-> [s \in Status |-> Never]]
    /\ stage = [c \in Callers |-> "idle"]
    /\ grant \in [Callers -> Grants]
    /\ calledAt = [c \in Callers |-> 0]

Tick ==
    /\ now' = now + 1
    /\ UNCHANGED <<db, heldUntil, stage, grant, calledAt>>

ChangeRow(g, s) ==
    /\ s # db[g]
    /\ db' = [db EXCEPT ![g] = s]
    /\ heldUntil' = [heldUntil EXCEPT ![g][db[g]] = now]
    /\ UNCHANGED <<now, stage, grant, calledAt>>

Begin(c, g, st) ==
    /\ Returned(c)
    /\ stage' = [stage EXCEPT ![c] = st]
    /\ grant' = [grant EXCEPT ![c] = g]
    /\ calledAt' = [calledAt EXCEPT ![c] = now]
    /\ UNCHANGED <<now, db, heldUntil>>

\* The calls of C move on together: they share one query, or its result.
Together(C, st) ==
    /\ stage' = [c \in Callers |-> IF c \in C THEN st ELSE stage[c]]
    /\ UNCHANGED <<now, db, heldUntil, grant, calledAt>>

Degrade(C) ==
    /\ \A c \in C : stage[c] = "pending"
    /\ Together(C, "degraded")

\* How far before its start a call may look back.
Window(c) == TTL + QueryTimeout + (IF stage[c] = "degraded" THEN Grace ELSE 0)

GrantCalls(C) ==
    /\ \A c \in C : /\ ~Returned(c)
                    /\ HeldSince(grant[c], "active", calledAt[c] - Window(c))
    /\ Together(C, "granted")

DenyCalls(C) ==
    /\ \A c \in C :
          /\ ~Returned(c)
          /\ \/ HeldSince(grant[c], "revoked", calledAt[c] - Window(c))
             \/ HeldSince(grant[c], "absent", calledAt[c] - QueryTimeout)
    /\ Together(C, "denied")

GiveUp(c) ==
    /\ stage[c] = "degraded"
    /\ Together({c}, "unavailable")

\* A call moves on, maybe together with others.
Proceed ==
    \/ \E C \in SUBSET Callers : Degrade(C) \/ GrantCalls(C) \/ DenyCalls(C)
    \/ \E c \in Callers : GiveUp(c)

Next ==
    \/ Tick
    \/ \E g \in Grants, s \in Status : ChangeRow(g, s)
    \/ \E c \in Callers, g \in Grants : Begin(c, g, "pending")
    \/ \E c \in Callers, g \in Malformed : Begin(c, g, "denied")
    \/ Proceed

Spec == Init /\ [][Next]_vars
=============================================================================
