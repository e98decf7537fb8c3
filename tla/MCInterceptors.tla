--------------------------- MODULE MCInterceptors ---------------------------
(***************************************************************************)
(* Interceptors for TLC: two HTTP requests in one trace, one in another.   *)
(***************************************************************************)
EXTENDS InterceptorClaims, TLC

CONSTANTS x1, x2, x3, s1, s2, s3, t1, t2

MCCalls   == {x1, x2, x3}
MCSpans   == {s1, s2, s3}
MCTraces  == {t1, t2}
MCTraceOf == (s1 :> t1) @@ (s2 :> t1) @@ (s3 :> t2)

\* Calls differ in nothing but their name, and so do the requests of one trace.
Symmetry ==
    {p @@ q @@ (s3 :> s3) : p \in Permutations(Calls), q \in Permutations({s1, s2})}
=============================================================================
