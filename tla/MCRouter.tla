------------------------------ MODULE MCRouter ------------------------------
(* Small instances of Router for TLC.                                      *)
EXTENDS Router, TLC

CONSTANTS m1, m2, d1, d2, d3, r1, r2, r3

\* m1 has two deployments and falls back to m2 and then to itself; m2 has one
\* deployment and no fallbacks.
MCRegistry  == m1 :> <<d1, d2>> @@ m2 :> <<d3>>
MCFallbacks == m1 :> <<m2, m1>> @@ m2 :> <<>>

Symmetry == Permutations(Requests)
=============================================================================
