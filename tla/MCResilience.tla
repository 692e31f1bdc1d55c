---------------------------- MODULE MCResilience ----------------------------
(* The resilience layer, the configuration and the keys of JWTs, for TLC:   *)
(* what must come back after a failure.  Components that do not share       *)
(* state, each explored alone in the behaviours of its part.                *)
EXTENDS CircuitBreaker, AdmissionControl, ProviderChoice, RouterReload,
        Configuration, ScalingAdvisor, Jwt, TLC

VARIABLE part   \* the component that moves in this behaviour

\* Three configured regions on a line, and one without a location.
MCDistance == [rs \in {"a", "b", "c"} \X {"a", "b", "c"} |->
  CASE rs[1] = rs[2] -> 0
    [] rs \in {<<"a", "b">>, <<"b", "a">>} -> 1
    [] rs \in {<<"b", "c">>, <<"c", "b">>} -> 2
    [] OTHER -> 3]
MCThresholds == <<25, 50, 80>>
MCFieldOf == "u1" :> "f1" @@ "u2" :> "f2"
MCEdits == {BadFile, [models |-> CsModels, set |-> {"f1"}]}
MCAlerts == "daily" :> [amount |-> 2, period |-> 1] @@ "weekly" :> [amount |-> 4, period |-> 3]

Parts == {"circuit", "bulkhead", "queue", "degradation", "regions", "reload",
          "watcher", "config", "advisor", "jwt"}

bundleVars == <<part, vars, bhvars, rqvars, dgvars, rgvars, rrvars, cwvars,
                      csvars, saVars, jwtvars>>

ResilienceInit ==
  /\ part \in Parts
  /\ Init
  /\ BhInit /\ (part = "bulkhead" \/ (patient))
  /\ RqInit
  /\ DgInit
  /\ RgInit
  /\ RrInit
  /\ CwInit
  /\ CsInit
  /\ SaInit
  /\ JwtInit

ResilienceNext ==
  \/ part = "circuit" /\ Next
     /\ UNCHANGED <<part, bhvars, rqvars, dgvars, rgvars, rrvars, cwvars,
                          csvars, saVars, jwtvars>>
  \/ part = "bulkhead" /\ BhNext
     /\ UNCHANGED <<part, vars, rqvars, dgvars, rgvars, rrvars, cwvars,
                          csvars, saVars, jwtvars>>
  \/ part = "queue" /\ RqNext
     /\ UNCHANGED <<part, vars, bhvars, dgvars, rgvars, rrvars, cwvars,
                          csvars, saVars, jwtvars>>
  \/ part = "degradation" /\ DgNext
     /\ UNCHANGED <<part, vars, bhvars, rqvars, rgvars, rrvars, cwvars,
                          csvars, saVars, jwtvars>>
  \/ part = "regions" /\ RgNext
     /\ UNCHANGED <<part, vars, bhvars, rqvars, dgvars, rrvars, cwvars,
                          csvars, saVars, jwtvars>>
  \/ part = "reload" /\ RrNext
     /\ UNCHANGED <<part, vars, bhvars, rqvars, dgvars, rgvars, cwvars,
                          csvars, saVars, jwtvars>>
  \/ part = "watcher" /\ CwNext
     /\ UNCHANGED <<part, vars, bhvars, rqvars, dgvars, rgvars, rrvars,
                          csvars, saVars, jwtvars>>
  \/ part = "config" /\ CsNext
     /\ UNCHANGED <<part, vars, bhvars, rqvars, dgvars, rgvars, rrvars,
                          cwvars, saVars, jwtvars>>
  \/ part = "advisor" /\ SaNext
     /\ UNCHANGED <<part, vars, bhvars, rqvars, dgvars, rgvars, rrvars,
                          cwvars, csvars, jwtvars>>
  \/ part = "jwt" /\ JwtNext
     /\ UNCHANGED <<part, vars, bhvars, rqvars, dgvars, rgvars, rrvars,
                          cwvars, csvars, saVars>>
  \/ part # "circuit" /\ UNCHANGED bundleVars

ResilienceSpec ==
  /\ ResilienceInit /\ [][ResilienceNext]_bundleVars
  /\ \A c \in Callers : WF_vars(part = "circuit" /\ Ask(c)) /\ WF_vars(part = "circuit" /\ End(c))
  /\ WF_vars(part = "circuit" /\ Tick)
  /\ \A t \in BhTasks : WF_bhvars(part = "bulkhead" /\ Resume(t)) /\ WF_bhvars(part = "bulkhead" /\ Exit(t))
  /\ WF_cwvars(part = "watcher" /\ Poll) /\ WF_cwvars(part = "watcher" /\ Load) /\ WF_cwvars(part = "watcher" /\ Apply)
     /\ WF_cwvars(part = "watcher" /\ ManualHash) /\ WF_cwvars(part = "watcher" /\ ManualApply)
  /\ WF_jwtvars(part = "jwt" /\ JwtTick)
  /\ SF_jwtvars(part = "jwt" /\ \E v \in Verifiers : Answer(v))
  /\ \A t \in Bearers : SF_jwtvars(part = "jwt" /\ \E v \in Verifiers : UnknownKey(v, t))
  /\ \A v \in Verifiers : WF_jwtvars(part = "jwt" /\ (FetchFails(v) \/ Refreshed(v)))

-----------------------------------------------------------------------------
(* Every component keeps the types of its state: what the code declares,   *)
(* and the bounds the model puts on it.                                    *)
TypesOK ==
  /\ TypeOK /\ BhTypeOK /\ RqTypeOK /\ RrTypeOK
  /\ CwTypeOK /\ CsTypeOK /\ SaTypeOK /\ JwtTypeOK

(* AdmitsAgain of CircuitBreaker, in the behaviours in which the breaker     *)
(* moves: callers are admitted again and again, whatever opened it.         *)
CircuitAdmitsAgain == (part = "circuit" /\ InFlight = {}) ~> (InFlight # {})

(* What waits for capacity is neither lost nor let in beyond it: the        *)
(* bulkhead's slots and its count of waiting tasks are what the tasks hold  *)
(* and wait for, whichever of them time out, and the request queue answers  *)
(* each request, in its order, in batches that are as full as they may be.  *)
QueuesKept ==
  /\ [](SlotsConserved /\ WaitersCounted /\ RequestsInOrder)
  /\ FullBatches

(* What the configuration in force is, stays in step with what it was made  *)
(* from: a reload leaves the router that has replaced another and its       *)
(* requests alone and closes the other's clients unless they are in use;    *)
(* the watcher's hash is that of a file it has applied; the router is built *)
(* from the stored configuration, whose edits are lost to overlapping       *)
(* updates only; and a token that has expired is accepted only by what was  *)
(* cached of it before, which being accepted does not prolong.              *)
KeptInStep ==
  /\ CurrentUndisturbed /\ ReleasedUnlessUsed
  /\ HashIsApplied
  /\ RouterFromConfig /\ LostOnlyToOverlap
  /\ ExpiredOnlyFromCache

(* What is chosen or announced is what the figures say: the level of        *)
(* degradation, the region and its deployment, the deployment recommended   *)
(* in place of another, and the alerts on what has been spent.              *)
ChoicesRight ==
  /\ [](EscalationExact /\ UnhealthyAvoided /\ NearestChosen /\ RecommendationsSave)
  /\ AlertsTrue /\ AlertsApart

(* After a failure the system comes back: callers are admitted again by the *)
(* breaker and its half-open state ends, a waiting task is served or told,  *)
(* an edit that is valid is applied, and a new signing key is learnt.       *)
ComesBack ==
  /\ CircuitAdmitsAgain /\ HalfOpenEnds
  /\ WaiterServed
  /\ EditApplied
  /\ SigningKeyLearnt
=============================================================================
