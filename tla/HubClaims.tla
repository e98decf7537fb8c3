----------------------------- MODULE HubClaims -----------------------------
(***************************************************************************)
(* A sentence about LogError that the code does not live up to.            *)
(***************************************************************************)
EXTENDS HubScope

(***************************************************************************)
(* logging.go:21: "No special handling needed for goroutines - it just     *)
(* works!" An error that a goroutine logs goes out with its own label.     *)
(***************************************************************************)
LabelsAreOwn ==
    \A p \in Goroutines :
       Reported(p) /\ how[p] = "LogError" => event[p].label = p
=============================================================================
