------------------------------ MODULE MCRouterHealth ---------------------------
(* The router with its health checker, for TLC.                            *)
EXTENDS RouterHealth, TLC

CONSTANTS m1, m2, d1, d2, d3, r1, r2, r3

\* m1 has two deployments and falls back to m2, which has one and no
\* fallbacks.
MCRegistry  == m1 :> <<d1, d2>> @@ m2 :> <<d3>>
MCFallbacks == m1 :> <<m2>> @@ m2 :> <<>>

Symmetry == Permutations(Requests)

(* Requests and rounds of probes do not keep each other from ending, over    *)
(* the state of the cooldowns that they share: each request is answered or   *)
(* fails, and each round ends.                                               *)
EverythingEnds == EveryRequestEnds /\ EveryRoundEnds
=============================================================================
