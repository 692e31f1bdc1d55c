--------------------------- MODULE ProviderChoice ---------------------------
(* Which provider is used: the level of degradation, and the region.        *)
EXTENDS Integers, Sequences, FiniteSets

(***************************************************************************)
(* The DegradationManager of core/resilience/degradation.py with its       *)
(* default policies: a global level and one per provider, set by hand or   *)
(* by auto_escalate() from the number of unhealthy providers.  Levels are  *)
(* numbered by severity; thresholds are in percent.                        *)
(***************************************************************************)

CONSTANTS Providers,     \* providers with a level of their own
          Thresholds     \* auto_escalate_thresholds, from 1 (degraded) to 3 (emergency)

Levels == 0..3
Normal == 0
Degraded == 1
Limited == 2
Emergency == 3

ASSUME DegradationAssumption ==
    /\ IsFiniteSet(Providers) /\ Thresholds \in [1..3 -> 0..100]
    /\ Thresholds[1] <= Thresholds[2] /\ Thresholds[2] <= Thresholds[3]

VARIABLES globalLevel,    \* _global_status.level
          providerLevel,  \* _provider_status; Normal where there is none
          measured        \* the last <<total, unhealthy>> that set the global level

dgvars == <<globalLevel, providerLevel, measured>>

\* The policies of _DEFAULT_POLICIES.
rejects(level) == level = Emergency
queues(level) == level \in {Degraded, Limited}
streams(level) == level # Limited

\* Variant: a ratio that meets the threshold exactly is not enough.
level_for_strict(total, unhealthy) ==
    Cardinality({l \in 1..3 : unhealthy * 100 > Thresholds[l] * total})

\* The level auto_escalate() picks for a ratio, the most severe first.
level_for(total, unhealthy) ==
    IF unhealthy * 100 >= Thresholds[3] * total THEN Emergency
    ELSE IF unhealthy * 100 >= Thresholds[2] * total THEN Limited
    ELSE IF unhealthy * 100 >= Thresholds[1] * total THEN Degraded
    ELSE Normal

should_reject(p) == rejects(globalLevel) \/ rejects(providerLevel[p])
should_queue(p) == queues(globalLevel) \/ queues(providerLevel[p])
is_streaming_allowed == streams(globalLevel)

NoMeasure == <<0, 0>>

DgInit ==
    /\ globalLevel = Normal
    /\ providerLevel = [p \in Providers |-> Normal]
    /\ measured = NoMeasure

\* Without providers auto_escalate() returns NORMAL and leaves the level as it is.
AutoEscalate(total, unhealthy) ==
    /\ total > 0
    /\ globalLevel' = level_for(total, unhealthy)
    /\ measured' = <<total, unhealthy>>
    /\ UNCHANGED providerLevel

SetGlobalLevel(level) ==
    /\ level # globalLevel
    /\ globalLevel' = level
    /\ measured' = NoMeasure
    /\ UNCHANGED providerLevel

\* set_provider_level(), and clear_provider() for Normal.
SetProviderLevel(p, level) ==
    /\ level # providerLevel[p]
    /\ providerLevel' = [providerLevel EXCEPT ![p] = level]
    /\ UNCHANGED <<globalLevel, measured>>

DgNext ==
    \/ \E total \in 1..5, n \in 0..5 : n <= total /\ AutoEscalate(total, n)
    \/ \E l \in Levels : SetGlobalLevel(l) \/ \E p \in Providers : SetProviderLevel(p, l)

DgSpec == DgInit /\ [][DgNext]_dgvars

-----------------------------------------------------------------------------
\* After a measurement the level is as severe as the thresholds that the share of
\* unhealthy providers has reached, which includes a share that meets one exactly:
\* all requests are refused from the highest threshold on and, whatever the
\* providers' own levels, never below it on account of the measurement.  Between
\* the first and the last threshold every request is queued, and streams are
\* allowed unless the share lies between the last two.
EscalationExact ==
    measured # NoMeasure =>
        /\ globalLevel = Cardinality({l \in 1..3 : measured[2] * 100 >= Thresholds[l] * measured[1]})
        /\ \A p \in Providers :
             should_reject(p) <=> \/ measured[2] * 100 >= Thresholds[3] * measured[1]
                                  \/ providerLevel[p] = Emergency
        /\ LET reached(l) == measured[2] * 100 >= Thresholds[l] * measured[1]
           IN  /\ reached(1) /\ ~reached(3) => \A p \in Providers : should_queue(p)
               /\ is_streaming_allowed <=> ~reached(2) \/ reached(3)

-----------------------------------------------------------------------------
(***************************************************************************)
(* The RegionRouter of core/resilience/region.py: selection of a provider  *)
(* deployment by distance and weight, and failover.  Distances are those   *)
(* _compute_distances() has found; a region that is not configured is      *)
(* infinitely far from every other.                                        *)
(***************************************************************************)

CONSTANTS Regions,          \* the names of regions, configured or not
          Configured,       \* those in _regions
          Distance,         \* kilometres between configured regions, as a function
          Weights,          \* weights a deployment may have
          MaxDistance,      \* max_failover_distance_km, 0 for no limit
          MaxDeployments,   \* bound on the length of the list
          NoRegion          \* the client's region is not known

Far == 1000000              \* float("inf")

ASSUME RegionAssumption ==
    /\ Configured \subseteq Regions /\ NoRegion \notin Regions
    /\ Distance \in [Configured \X Configured -> 0..(Far - 1)]
    /\ \A r, s \in Configured : Distance[<<r, s>>] = Distance[<<s, r>>]
    /\ Weights \subseteq Nat /\ MaxDistance \in Nat /\ MaxDeployments \in Nat

VARIABLES deployments,  \* _provider_regions of one provider, in list order
          marked        \* the regions last marked unhealthy

rgvars == <<deployments, marked>>

distance(r, s) ==
    IF r = s THEN 0
    ELSE IF r \in Configured /\ s \in Configured THEN Distance[<<r, s>>] ELSE Far

\* Variant: the lighter deployment comes first.
before_light(client, i, j) ==
    LET a == deployments[i]  b == deployments[j]
    IN  \/ distance(client, a.region) < distance(client, b.region)
        \/ /\ distance(client, a.region) = distance(client, b.region)
           /\ a.weight < b.weight \/ (a.weight = b.weight /\ i < j)

\* _rank_by_distance puts deployment i before j; the sort is stable.
before_in_rank(client, i, j) ==
    LET a == deployments[i]  b == deployments[j]
    IN  \/ distance(client, a.region) < distance(client, b.region)
        \/ /\ distance(client, a.region) = distance(client, b.region)
           /\ a.weight > b.weight \/ (a.weight = b.weight /\ i < j)

\* max(candidates, key = weight) finds the first of the heaviest.
heavier(i, j) ==
    \/ deployments[i].weight > deployments[j].weight
    \/ deployments[i].weight = deployments[j].weight /\ i < j

\* The first candidate, by rank if the client's region is configured and else by
\* weight; 0 for None.
first(client, candidates) ==
    IF candidates = {} THEN 0
    ELSE CHOOSE i \in candidates : \A j \in candidates \ {i} :
             IF client \in Configured THEN before_in_rank(client, i, j) ELSE heavier(i, j)

healthy == {i \in DOMAIN deployments : deployments[i].healthy}

select_provider(client) == first(client, healthy)

\* The distance limit applies to clients of a configured region only.
in_reach(client, i) ==
    client \in Configured /\ MaxDistance > 0 => distance(client, deployments[i].region) <= MaxDistance

failover(client, failed) ==
    first(client, {i \in healthy : deployments[i].region # failed /\ in_reach(client, i)})

RgInit == deployments = <<>> /\ marked = {}

AddProviderRegion(r, w) ==
    /\ Len(deployments) < MaxDeployments
    /\ deployments' = Append(deployments, [region |-> r, weight |-> w, healthy |-> TRUE])
    /\ UNCHANGED marked

\* The first deployment of a region is the one that is marked.
FirstOf(r) == {i \in DOMAIN deployments : /\ deployments[i].region = r
                                          /\ \A j \in 1..(i - 1) : deployments[j].region # r}

\* Variant: the position of the region's name is looked up, the first in the list.
SetHealth_first(r, up) ==
    /\ FirstOf(r) # {}
    /\ deployments' = [deployments EXCEPT ![1].healthy = up]
    /\ marked' = IF up THEN marked \ {r} ELSE marked \cup {r}

\* mark_healthy() and mark_unhealthy().
SetHealth(r, up) ==
    /\ FirstOf(r) # {}
    /\ deployments' = [i \in DOMAIN deployments |->
           IF i \in FirstOf(r) THEN [deployments[i] EXCEPT !.healthy = up] ELSE deployments[i]]
    /\ marked' = IF up THEN marked \ {r} ELSE marked \cup {r}

RgNext ==
    \/ \E r \in Regions, w \in Weights : AddProviderRegion(r, w)
    \/ \E r \in Regions, up \in BOOLEAN : SetHealth(r, up)

RgSpec == RgInit /\ [][RgNext]_rgvars

-----------------------------------------------------------------------------
Single(r) == Cardinality({i \in DOMAIN deployments : deployments[i].region = r}) = 1

\* A region that was marked unhealthy gets no requests, by selection or failover,
\* as long as the provider has one deployment there, and one marked healthy again is
\* not forgotten.
UnhealthyAvoided ==
    \A client \in Regions \cup {NoRegion}, failed \in Regions :
      LET chosen == {select_provider(client), failover(client, failed)} \ {0}
      IN  /\ \A i \in chosen : LET r == deployments[i].region IN ~(Single(r) /\ r \in marked)
          /\ select_provider(client) = 0 =>
               \A i \in DOMAIN deployments : deployments[i].region \in marked

\* No deployment that could have been chosen is nearer to the client than the one
\* chosen, or as near and heavier; failover leaves the failed region and the
\* distance limit.
NearestChosen ==
    \A client \in Configured, failed \in Regions :
      LET s == select_provider(client)
          f == failover(client, failed)
          Closest(i, ok) == \A j \in ok :
              LET a == deployments[i]  b == deployments[j]
              IN  /\ distance(client, a.region) <= distance(client, b.region)
                  /\ a.region = b.region => a.weight >= b.weight
      IN  /\ s # 0 => Closest(s, healthy)
          /\ f # 0 => /\ deployments[f].region # failed
                      /\ in_reach(client, f)
                      /\ Closest(f, {j \in healthy : deployments[j].region # failed})
          /\ f = 0 => \A j \in healthy : deployments[j].region = failed \/ ~in_reach(client, j)
=============================================================================
