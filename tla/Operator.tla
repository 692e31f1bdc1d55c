------------------------------ MODULE Operator ------------------------------
(* The Kubernetes operator: its gateways, and its models, keys and teams.   *)
EXTENDS Integers, FiniteSets, FiniteSetsExt

(***************************************************************************)
(* The gateways of k8s/operator.py, with the two parts that read and write  *)
(* the same objects: k8s/autoscaler.py and k8s/health_manager.py.  Every    *)
(* method is synchronous, so each is one step; what interleaves is the      *)
(* calls themselves (a manifest is applied between the autoscaler's         *)
(* decision and its application).  Conditions, events' texts and the        *)
(* timestamps of the objects are left out.                                  *)
(***************************************************************************)

CONSTANTS
  Gateways,      \* resource keys, namespace/name
  Manifests,     \* specs of LLMGateway resources: [replicas, auto]
  Loads,         \* the sets of ratios (in percent) of metric to target
  PodSets,       \* the pod reports: sets of [n, ready, restarted, hot]
  GwMaxTime, GwMaxGeneration,
  GwMaxDecided   \* decisions callers hold at a time

(* An AutoscalingSpec: bounds and cooldowns.  Nothing asks min <= max.     *)
AutoSpecs == [min : Nat \ {0}, max : Nat \ {0}, up : Nat, down : Nat]
(* A manifest without one, or with one that is not enabled.                *)
NoAutoscaling == [min |-> 0, max |-> 0, up |-> 0, down |-> 0]

ASSUME GwAssumption ==
  /\ \A m \in Manifests : /\ m.replicas \in Nat \ {0}
                          /\ m.auto \in AutoSpecs \/ m.auto = NoAutoscaling
  /\ \A load \in Loads : load \subseteq Nat /\ IsFiniteSet(load)

VARIABLES gateway, pods, lastUp, lastDown, decided, gwClock

gwVars == <<gateway, pods, lastUp, lastDown, decided, gwClock>>

Gone == [generation |-> 0, observed |-> 0, spec |-> 0, auto |-> NoAutoscaling, replicas |-> 0,
         phase |-> "Gone"]
NeverScaled == -1

Exists(g) == gateway[g] # Gone

(* Convergence is simulated: the status takes the spec's replicas and the  *)
(* phase RUNNING, whatever the phase was.                                  *)
Reconciled_late(gw) ==
  [gw EXCEPT !.replicas = gw.spec, !.observed = IF gw.observed = 0 THEN 1 ELSE @, !.phase = "Running"]
Reconciled(gw) ==
  [gw EXCEPT !.replicas = gw.spec, !.observed = gw.generation, !.phase = "Running"]

GwInit ==
  /\ gateway = [g \in Gateways |-> Gone]
  /\ pods = [g \in Gateways |-> {}]
  /\ lastUp = [g \in Gateways |-> NeverScaled] /\ lastDown = [g \in Gateways |-> NeverScaled]
  /\ decided = {} /\ gwClock = 0

(* The objects of which decisions were taken: what g stored is what g holds *)
(* no longer, in one of the two ways an object leaves the operator.         *)
left_behind(g, way) ==
  {IF e.of = g /\ e.object # "dropped" THEN [e EXCEPT !.object = way] ELSE e : e \in decided}

(* A new manifest starts at generation 1.  A later one is an object of its  *)
(* own that takes the next generation and the status of the one before,     *)
(* which it shares with it; both are reconciled before the call returns.    *)
ApplyGateway(g) ==
  /\ gateway[g].generation < GwMaxGeneration
  /\ \E m \in Manifests :
       LET asked == [gateway[g] EXCEPT !.spec = m.replicas, !.auto = m.auto, !.generation = @ + 1]
       IN  gateway' = [gateway EXCEPT ![g] = Reconciled(asked)]
  /\ decided' = left_behind(g, "replaced")
  /\ UNCHANGED <<pods, lastUp, lastDown, gwClock>>

ReconcileGateway(g) ==
  /\ Exists(g)
  /\ gateway' = [gateway EXCEPT ![g] = Reconciled(@)]
  /\ UNCHANGED <<pods, lastUp, lastDown, decided, gwClock>>

(* The autoscaler's and the health manager's entries of the key stay.      *)
DeleteGateway(g) ==
  /\ Exists(g)
  /\ gateway' = [gateway EXCEPT ![g] = Gone]
  /\ decided' = left_behind(g, "dropped")
  /\ UNCHANGED <<pods, lastUp, lastDown, gwClock>>

ceil_percent(n, r) == (n * r + 99) \div 100

(* The most constrained metric decides; without one the count stays.       *)
compute_desired(current, load) ==
  IF load = {} THEN current ELSE ceil_percent(current, Max(load))

at_most(n, bound) == IF n > bound THEN bound ELSE n
at_least(n, bound) == IF n < bound THEN bound ELSE n
clamp_above(auto, n) == at_most(n, auto.max)
clamp(auto, n) == at_least(at_most(n, auto.max), auto.min)

cooldown_ok_early(last, cooldown) == last = NeverScaled \/ gwClock - last >= cooldown - 1
cooldown_ok(last, cooldown) == last = NeverScaled \/ gwClock - last >= cooldown

Decision(g, n) == [of |-> g, to |-> n, under |-> gateway[g].auto, object |-> "stored"]

(* Of the object the operator holds.  The event is returned to the caller,  *)
(* who may apply it later; the cooldown counts from the decision.           *)
Evaluate(g) ==
  /\ Exists(g) /\ gateway[g].auto # NoAutoscaling
  /\ Cardinality(decided) < GwMaxDecided
  /\ \E load \in Loads :
       LET current == IF gateway[g].replicas # 0 THEN gateway[g].replicas ELSE gateway[g].spec
           desired == clamp(gateway[g].auto, compute_desired(current, load))
       IN  \/ /\ desired > current /\ cooldown_ok(lastUp[g], gateway[g].auto.up)
              /\ lastUp' = [lastUp EXCEPT ![g] = gwClock]
              /\ decided' = decided \union {Decision(g, desired)}
              /\ UNCHANGED lastDown
           \/ /\ desired < current /\ cooldown_ok(lastDown[g], gateway[g].auto.down)
              /\ lastDown' = [lastDown EXCEPT ![g] = gwClock]
              /\ decided' = decided \union {Decision(g, desired)}
              /\ UNCHANGED lastUp
  /\ UNCHANGED <<gateway, pods, gwClock>>

(* The caller fetches the gateway again and applies the decision to what    *)
(* the operator holds now, whatever manifest it was taken under ...         *)
ApplyScaling(e) ==
  /\ Exists(e.of)
  /\ gateway' = [gateway EXCEPT ![e.of].spec = e.to, ![e.of].replicas = e.to]
  /\ decided' = decided \ {e}
  /\ UNCHANGED <<pods, lastUp, lastDown, gwClock>>

(* ... or applies it to the object it evaluated.  Of one that was replaced, *)
(* the operator sees the status only; one that was dropped it does not see. *)
ApplyToEvaluated(e) ==
  /\ e.object # "stored"
  /\ gateway' = IF e.object = "replaced" THEN [gateway EXCEPT ![e.of].replicas = e.to] ELSE gateway
  /\ decided' = decided \ {e}
  /\ UNCHANGED <<pods, lastUp, lastDown, gwClock>>

(* A pod is unhealthy when it is not ready or has been restarted too often,*)
(* else degraded when it runs hot.                                         *)
classify_pod(p) ==
  IF ~p.ready \/ p.restarted THEN "Unhealthy" ELSE IF p.hot THEN "Degraded" ELSE "Healthy"

evaluate_gateway_health(ps) ==
  LET count(s) == Cardinality({p \in ps : classify_pod(p) = s})
  IN  IF ps = {} THEN "Unknown"
      ELSE IF count("Unhealthy") > 0 /\ count("Unhealthy") >= Cardinality(ps) \div 2 THEN "Unhealthy"
      ELSE IF count("Degraded") + count("Unhealthy") > 0 THEN "Degraded"
      ELSE "Healthy"

ReportPodHealth(g) ==
  /\ \E ps \in PodSets : pods' = [pods EXCEPT ![g] = ps]
  /\ UNCHANGED <<gateway, lastUp, lastDown, decided, gwClock>>

(* Evictions and restarts are only reported; the phase follows the         *)
(* evaluation, except that a healthy gateway keeps the phase it has.       *)
CheckAndRemediate(g) ==
  LET health == evaluate_gateway_health(pods[g])
  IN  /\ Exists(g)
      /\ gateway' = [gateway EXCEPT ![g].phase =
           IF health = "Unhealthy" THEN "Failed" ELSE IF health = "Degraded" THEN "Running" ELSE @]
      /\ UNCHANGED <<pods, lastUp, lastDown, decided, gwClock>>

GwTick ==
  /\ gwClock < GwMaxTime
  /\ gwClock' = gwClock + 1
  /\ UNCHANGED <<gateway, pods, lastUp, lastDown, decided>>

GwNext ==
  \/ \E g \in Gateways :
       ApplyGateway(g) \/ ReconcileGateway(g) \/ DeleteGateway(g)
         \/ Evaluate(g) \/ ReportPodHealth(g) \/ CheckAndRemediate(g)
  \/ \E e \in decided : ApplyScaling(e) \/ ApplyToEvaluated(e)
  \/ GwTick

GwSpec == GwInit /\ [][GwNext]_gwVars

GwTypeOK ==
  /\ \A g \in Gateways :
       /\ gateway[g] = Gone \/ gateway[g].phase \in {"Running", "Failed"}
       /\ {gateway[g].replicas, gateway[g].spec} \subseteq Nat
       /\ lastUp[g] \in -1..gwClock /\ lastDown[g] \in -1..gwClock
       /\ pods[g] \in PodSets \union {{}}
  /\ \A e \in decided : e.of \in Gateways /\ e.to \in Nat

(* The status is always of the last manifest (operator.py:91-94), and it    *)
(* shows the replicas its spec asks for, whatever the order of manifests,   *)
(* decisions and applications, with one exception: a decision applied to an *)
(* object that a manifest has since replaced writes the shared status and   *)
(* the replaced spec (autoscaler.py:117-118, operator.py:81).               *)
StatusFollowsSpec ==
  /\ []\A g \in Gateways : gateway[g].observed = gateway[g].generation
  /\ [][\A g \in Gateways :
          gateway[g].replicas = gateway[g].spec /\ gateway'[g].replicas # gateway'[g].spec
            => \E e \in decided \ decided' : e.of = g /\ e.object = "replaced"]_gwVars

(* What the autoscaler may decide under a spec; min wins where it exceeds max. *)
Allowed(auto) == {auto.min} \union auto.min..auto.max
WithinBounds(gw) == gw.auto # NoAutoscaling => gw.spec \in Allowed(gw.auto)

(* That autoscaling respects the bounds (autoscaler.py:27-31) as the bounds *)
(* of the manifest in force: every step but a manifest keeps them.  It does *)
(* not hold, because a decision may be applied under a later manifest.      *)
BoundsInForce ==
  [][\A g \in Gateways :
       WithinBounds(gateway[g]) /\ gateway'[g].generation = gateway[g].generation
         => WithinBounds(gateway'[g])]_gwVars

(* A decision stays within the bounds it was taken under, and those of the  *)
(* manifest in force are left only by a manifest that asks for it itself or *)
(* by a decision about an object the operator has replaced or dropped since *)
(* (autoscaler.py:76, 117).                                                 *)
ScaledInBounds ==
  /\ []\A e \in decided : e.to \in Allowed(e.under)
  /\ [][\A g \in Gateways :
          WithinBounds(gateway[g]) /\ ~WithinBounds(gateway'[g])
            => \/ gateway'[g].generation # gateway[g].generation
               \/ \E e \in decided \ decided' : e.of = g /\ e.object # "stored"]_gwVars

(* A decision to grow (to shrink) a gateway comes no sooner after the one   *)
(* before than the manifest it is taken under asks, even over a deletion    *)
(* and a new gateway of the same name (autoscaler.py:83-98).                *)
CooldownsHonoured ==
  [][\A g \in Gateways :
       /\ lastUp'[g] # lastUp[g] /\ lastUp[g] # NeverScaled
            => lastUp'[g] - lastUp[g] >= gateway[g].auto.up
       /\ lastDown'[g] # lastDown[g] /\ lastDown[g] # NeverScaled
            => lastDown'[g] - lastDown[g] >= gateway[g].auto.down]_gwVars

-----------------------------------------------------------------------------
(***************************************************************************)
(* The models, keys and teams of k8s/operator.py.  apply_* creates or       *)
(* updates a resource and reconciles that one resource; reconcile_all       *)
(* reconciles every one.  The operator keeps the caller's objects, so a     *)
(* caller may also edit a spec in place (as autoscaler.py does with a       *)
(* gateway) and reconcile later.  A team's status counts the active keys    *)
(* that name it, as they were at the team's own last reconciliation.        *)
(***************************************************************************)

CONSTANTS OpModels, OpKeys, OpTeams

VARIABLES opModel, opKey, opTeam

opVars == <<opModel, opKey, opTeam>>

(* Resources the operator does not hold.                                   *)
NoModel == [held |-> FALSE, enabled |-> FALSE, healthy |-> FALSE]
NoKey == [held |-> FALSE, enabled |-> FALSE, active |-> FALSE, team |-> {}]
NoTeam == [held |-> FALSE, active |-> {}]

OpInit ==
  /\ opModel = [m \in OpModels |-> NoModel]
  /\ opKey = [k \in OpKeys |-> NoKey]
  /\ opTeam = [t \in OpTeams |-> NoTeam]

(* The three reconciliations; a resource that is not held stays absent.    *)
reconcile_model(m) == [m EXCEPT !.healthy = m.enabled]
reconcile_key_lost(k) == [held |-> k.held, enabled |-> k.enabled, active |-> k.enabled]
reconcile_key(k) == [k EXCEPT !.active = k.enabled]

(* The status stores the size of this set: the keys are matched by the     *)
(* team's name alone.                                                      *)
active_keys_seen(keys, t) == {k \in OpKeys : opKey[k].active /\ t \in keys[k].team}
active_keys(keys, t) == {k \in OpKeys : keys[k].active /\ t \in keys[k].team}

reconcile_team(team, keys, t) ==
  IF team.held THEN [team EXCEPT !.active = active_keys(keys, t)] ELSE team

ApplyModel(m) ==
  /\ \E on \in BOOLEAN :
       opModel' = [opModel EXCEPT ![m] = reconcile_model([@ EXCEPT !.held = TRUE, !.enabled = on])]
  /\ UNCHANGED <<opKey, opTeam>>

DeleteModel(m) ==
  /\ opModel[m].held /\ opModel' = [opModel EXCEPT ![m] = NoModel]
  /\ UNCHANGED <<opKey, opTeam>>

(* The teams a changed key names, before and after, are not reconciled.    *)
ApplyKey(k) ==
  /\ \E on \in BOOLEAN, ref \in {{}} \union {{t} : t \in OpTeams} :
       opKey' = [opKey EXCEPT ![k] =
         reconcile_key([@ EXCEPT !.held = TRUE, !.enabled = on, !.team = ref])]
  /\ UNCHANGED <<opModel, opTeam>>

DeleteKey(k) ==
  /\ opKey[k].held /\ opKey' = [opKey EXCEPT ![k] = NoKey]
  /\ UNCHANGED <<opModel, opTeam>>

ApplyTeam(t) ==
  /\ opTeam' = [opTeam EXCEPT ![t] = reconcile_team([@ EXCEPT !.held = TRUE], opKey, t)]
  /\ UNCHANGED <<opModel, opKey>>

(* A team may be deleted while keys name it.                               *)
DeleteTeam(t) ==
  /\ opTeam[t].held /\ opTeam' = [opTeam EXCEPT ![t] = NoTeam]
  /\ UNCHANGED <<opModel, opKey>>

(* A caller changes the spec of the object it handed over.                 *)
EditSpec ==
  \/ \E m \in OpModels :
       /\ opModel[m].held /\ opModel' = [opModel EXCEPT ![m].enabled = ~@]
       /\ UNCHANGED <<opKey, opTeam>>
  \/ \E k \in OpKeys :
       /\ opKey[k].held /\ opKey' = [opKey EXCEPT ![k].enabled = ~@]
       /\ UNCHANGED <<opModel, opTeam>>

(* Keys come before teams: the teams count the keys' new statuses.         *)
ReconcileAll ==
  /\ opModel' = [m \in OpModels |-> reconcile_model(opModel[m])]
  /\ opKey' = [k \in OpKeys |-> reconcile_key(opKey[k])]
  /\ opTeam' = [t \in OpTeams |-> reconcile_team(opTeam[t], opKey', t)]

OpNext ==
  \/ \E m \in OpModels : ApplyModel(m) \/ DeleteModel(m)
  \/ \E k \in OpKeys : ApplyKey(k) \/ DeleteKey(k)
  \/ \E t \in OpTeams : ApplyTeam(t) \/ DeleteTeam(t)
  \/ EditSpec
  \/ ReconcileAll

OpSpec == OpInit /\ [][OpNext]_opVars

OpTypeOK ==
  /\ opModel \in [OpModels -> [held : BOOLEAN, enabled : BOOLEAN, healthy : BOOLEAN]]
  /\ opKey \in [OpKeys -> [held : BOOLEAN, enabled : BOOLEAN, active : BOOLEAN,
                           team : SUBSET OpTeams]]
  /\ opTeam \in [OpTeams -> [held : BOOLEAN, active : SUBSET OpKeys]]

(* One full pass brings every status in line with the specs, whatever edits,*)
(* deletions and stale counts came before: a second pass changes nothing    *)
(* (operator.py:387-400).                                                   *)
OnePassConverges ==
  [][ReconcileAll =>
       /\ \A m \in OpModels : opModel'[m].healthy = opModel'[m].enabled
       /\ \A t \in OpTeams : opTeam'[t].held =>
            opTeam'[t].active = {k \in OpKeys : opKey'[k].enabled /\ t \in opKey'[k].team}]_opVars
=============================================================================
