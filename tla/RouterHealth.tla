---------------------------- MODULE RouterHealth ----------------------------
(***************************************************************************)
(* The HealthChecker of router/health.py running beside the router: the    *)
(* probes share the CooldownManager and the provider cache with the        *)
(* requests, but not the in-flight counts.                                 *)
(*                                                                         *)
(* A round probes every deployment concurrently and ends when the last     *)
(* probe has ended; the loop then sleeps for its interval.  A probe ends   *)
(* with a success or with a failure: a timeout, a RouterBotError and any   *)
(* other Exception are treated alike.                                      *)
(***************************************************************************)
EXTENDS Router

CONSTANT MaxRounds   \* bound on the rounds of health checks

ASSUME HealthAssumption == MaxRounds \in Nat

VARIABLES checker,   \* the background task: "stopped", "sleeping", "probing"
          probing,   \* the deployments whose probe is in flight
          rounds     \* rounds begun so far

hvars == <<checker, probing, rounds>>
allvars == <<now, cool, active, counter, providers, req, checker, probing, rounds>>

\* The deployments in the registry, and the model of each.
Registered == {d \in Deployments : \E m \in Models :
                  \E i \in DOMAIN Registry[m] : Registry[m][i] = d}
NameOf(d)  == CHOOSE m \in Models : \E i \in DOMAIN Registry[m] : Registry[m][i] = d

HInit == Init /\ checker = "stopped" /\ probing = {} /\ rounds = 0

\* start(): creates the task; its loop begins with a round.
Start ==
    /\ checker = "stopped"
    /\ checker' = "sleeping"
    /\ UNCHANGED <<vars, probing, rounds>>

\* _run_checks: one task per deployment, in registry order, so that the first
\* deployment of each model is the one whose client enters an empty cache.
RunChecks ==
    /\ checker = "sleeping"
    /\ Registered # {}
    /\ rounds < MaxRounds
    /\ rounds' = rounds + 1
    /\ checker' = "probing"
    /\ probing' = Registered
    /\ providers' = [m \in Models |-> IF providers[m] = None /\ Registry[m] # <<>>
                                      THEN Registry[m][1] ELSE providers[m]]
    /\ UNCHANGED <<now, cool, active, counter, req>>

\* Variant: a failed last probe raises out of the round.
ProbeReturn_raises(d, ok) ==
    /\ d \in probing
    /\ cool' = IF ok THEN record_success(cool, NameOf(d))
                     ELSE record_failure(cool, NameOf(d), now)
    /\ probing' = probing \ {d}
    /\ checker' = IF probing = {d} /\ ok THEN "sleeping" ELSE checker
    /\ UNCHANGED <<now, active, counter, providers, req, rounds>>

\* The probe of d ends; the round ends with its last probe.
ProbeReturn(d, ok) ==
    /\ d \in probing
    /\ cool' = IF ok THEN record_success(cool, NameOf(d))
                     ELSE record_failure(cool, NameOf(d), now)
    /\ probing' = probing \ {d}
    /\ checker' = IF probing = {d} THEN "sleeping" ELSE checker
    /\ UNCHANGED <<now, active, counter, providers, req, rounds>>

\* Variant: the probes are tasks of their own that stop() does not reach.
Stop_orphans ==
    /\ checker # "stopped"
    /\ checker' = "stopped"
    /\ UNCHANGED <<vars, probing, rounds>>

\* stop(): cancels the task and, through gather, the probes in flight; a
\* cancelled probe reports nothing.
Stop ==
    /\ checker # "stopped"
    /\ checker' = "stopped"
    /\ probing' = {}
    /\ UNCHANGED <<vars, rounds>>

HealthStep ==
    \/ Start \/ RunChecks \/ Stop
    \/ \E d \in Deployments, ok \in BOOLEAN : ProbeReturn(d, ok)

RouterStep == Next /\ UNCHANGED hvars

HNext == RouterStep \/ HealthStep

HSpec == HInit /\ [][HNext]_allvars

\* As in Router; in addition a probe ends, asyncio.timeout bounds it.
HFairSpec ==
    /\ HSpec
    /\ \A r \in Requests : WF_allvars(Reply(r) /\ UNCHANGED hvars)
                        /\ WF_allvars(Wake(r) /\ UNCHANGED hvars)
    /\ \A d \in Deployments : WF_allvars(\E ok \in BOOLEAN : ProbeReturn(d, ok))

-----------------------------------------------------------------------------
\* Type invariant of the checker's own state.
HTypeOK ==
    /\ TypeOK
    /\ checker \in {"stopped", "sleeping", "probing"}
    /\ probing \subseteq Registered
    /\ rounds \in 0..MaxRounds

\* A round is open exactly while a probe is in flight: stop() in the middle of
\* a round leaves no probe behind that would still report to the cooldowns,
\* and the loop never sleeps with a probe unfinished.
RoundOpenWhileProbing == (checker = "probing") <=> (probing # {})

\* Every round ends: the loop goes back to sleep or is stopped.
EveryRoundEnds == (checker = "probing") ~> (checker # "probing")
=============================================================================
