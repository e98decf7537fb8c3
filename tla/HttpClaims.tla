----------------------------- MODULE HttpClaims -----------------------------
(***************************************************************************)
(* A sentence about the HTTP client that the code does not live up to.     *)
(***************************************************************************)
EXTENDS HttpApi

(***************************************************************************)
(* http.go:127, of every setter: "Returns a new API instance to ensure     *)
(* immutability and thread safety." Builders shared by goroutines that     *)
(* only derive from them and execute them never end the process.           *)
(***************************************************************************)
SharingIsSafe == ~crashed
=============================================================================
