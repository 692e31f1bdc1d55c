--------------------------- MODULE ScalingAdvisor ---------------------------
(***************************************************************************)
(* The scaling advisor of core/scaling for one model: the traffic analyser, *)
(* the cost optimiser and the alert manager behind the engine's methods.    *)
(* All of it is synchronous; what makes it hard is the history it keeps: a  *)
(* request's cost moves from the running counters into a snapshot, old      *)
(* snapshots fall off the end, and every question looks at a window of the  *)
(* rest.  Latencies and error rates take the costs' way and are left out.   *)
(***************************************************************************)
EXTENDS Integers, Sequences

CONSTANTS
  Costs,          \* what a request may cost
  MaxSnapshots,
  AlertThresholds,     \* name -> [amount, period]
  Alternatives,   \* what a token costs with each alternative model
  SaMaxTime, SaMaxRequests

ASSUME SaAssumption ==
  /\ MaxSnapshots \in Nat \ {0} /\ Costs \subseteq Nat /\ Alternatives \subseteq Nat
  /\ SaMaxTime \in Nat /\ SaMaxRequests \in Nat
  /\ \A t \in DOMAIN AlertThresholds : AlertThresholds[t].amount \in Nat /\ AlertThresholds[t].period \in Nat \ {0}

VARIABLES
  running,     \* [requests, cost] since the last snapshot
  snapshots,   \* sequence of [at, requests, cost]
  fired,       \* threshold -> when its alert fired, or NotFired
  saClock,
  seen         \* history: every request since the last clear, as [at, cost]

saVars == <<running, snapshots, fired, saClock, seen>>

NotFired == -1
Quiet == [requests |-> 0, cost |-> 0]

Unseen == -1

sum_of(values) ==
  LET upto[n \in 0 .. Len(values)] == IF n = 0 THEN 0 ELSE upto[n - 1] + values[n]
  IN  upto[Len(values)]

total(log) == sum_of([i \in DOMAIN log |-> log[i].cost])
tokens(log) == sum_of([i \in DOMAIN log |-> log[i].requests])

\* What of a log is older than the window counts for nothing.
since(log, hours) ==
  [i \in DOMAIN log |-> IF log[i].at # Unseen /\ log[i].at >= saClock - hours THEN log[i] ELSE Quiet]

SaInit ==
  /\ running = Quiet /\ snapshots = <<>> /\ seen = <<>> /\ saClock = 0
  /\ fired = [t \in DOMAIN AlertThresholds |-> NotFired]

RecordRequest ==
  /\ Len(seen) < SaMaxRequests
  /\ \E c \in Costs :
       /\ running' = [requests |-> running.requests + 1, cost |-> running.cost + c]
       /\ seen' = Append(seen, [at |-> Unseen, cost |-> c])
  /\ UNCHANGED <<snapshots, fired, saClock>>

(* A snapshot is taken of every model with counters, quiet or not, and     *)
(* pushes the oldest one out.                                              *)
trim(log) == IF Len(log) > MaxSnapshots THEN SubSeq(log, Len(log) - MaxSnapshots + 1, Len(log)) ELSE log

counters_kept == [running EXCEPT !.requests = 0]
counters_reset == Quiet

TakeSnapshot ==
  /\ seen # <<>>
  /\ snapshots' = trim(Append(snapshots, [at |-> saClock, requests |-> running.requests,
                                          cost |-> running.cost]))
  /\ running' = counters_reset
  /\ seen' = [i \in DOMAIN seen |-> IF seen[i].at = Unseen THEN [seen[i] EXCEPT !.at = saClock] ELSE seen[i]]
  /\ UNCHANGED <<fired, saClock>>

get_total_cost(hours) == total(since(snapshots, hours))

(* The same alert does not fire again within its period.                   *)
deduplicated_daily(t) == fired[t] # NotFired /\ saClock - fired[t] < 1
deduplicated(t) == fired[t] # NotFired /\ saClock - fired[t] < AlertThresholds[t].period

triggered(t) ==
  /\ snapshots # <<>>
  /\ get_total_cost(AlertThresholds[t].period) >= AlertThresholds[t].amount
  /\ ~deduplicated(t)

CheckAlerts ==
  /\ fired' = [t \in DOMAIN AlertThresholds |-> IF triggered(t) THEN saClock ELSE fired[t]]
  /\ UNCHANGED <<running, snapshots, saClock, seen>>

ClearFired ==
  /\ fired' = [t \in DOMAIN AlertThresholds |-> NotFired]
  /\ UNCHANGED <<running, snapshots, saClock, seen>>

(* clear(model) drops the counters and the snapshots, not the alerts.      *)
ClearModel ==
  /\ running' = Quiet /\ snapshots' = <<>> /\ seen' = <<>>
  /\ UNCHANGED <<fired, saClock>>

SaTick ==
  /\ saClock < SaMaxTime
  /\ saClock' = saClock + 1
  /\ UNCHANGED <<running, snapshots, fired, seen>>

SaNext ==
  RecordRequest \/ TakeSnapshot \/ CheckAlerts \/ ClearFired \/ ClearModel \/ SaTick

SaSpec == SaInit /\ [][SaNext]_saVars

-----------------------------------------------------------------------------
(* What analyse() estimates for the last day: the window's cost less what  *)
(* the tokens of all the snapshots would cost with the alternative.        *)
estimate_savings_all(hours, alternative) == total(snapshots) - tokens(since(snapshots, hours)) * alternative
estimate_savings(hours, alternative) ==
  get_total_cost(hours) - tokens(snapshots) * alternative

recommended(hours) == {a \in Alternatives : get_total_cost(hours) > 0 /\ estimate_savings(hours, a) > 0}

-----------------------------------------------------------------------------
SaTypeOK ==
  /\ running.requests \in 0..SaMaxRequests /\ running.cost \in Nat
  /\ Len(snapshots) <= MaxSnapshots
  /\ \A i \in DOMAIN snapshots : snapshots[i].at \in 0..saClock /\ snapshots[i].cost \in Nat
  /\ \A t \in DOMAIN fired : fired[t] \in -1..saClock

(* An alert is true: the requests of its period have really cost the        *)
(* amount, each counted once, although they have passed through counters    *)
(* that are reset and snapshots that are dropped (traffic.py:58-103,        *)
(* alerts.py:66-107).                                                       *)
AlertsTrue ==
  [][\A t \in DOMAIN AlertThresholds : fired'[t] \notin {fired[t], NotFired} =>
       total(since(seen, AlertThresholds[t].period)) >= AlertThresholds[t].amount]_saVars

(* One threshold fires at most once a period, unless it is cleared.         *)
AlertsApart ==
  [][\A t \in DOMAIN AlertThresholds :
       fired'[t] # fired[t] /\ fired'[t] # NotFired /\ fired[t] # NotFired
         => fired'[t] - fired[t] >= AlertThresholds[t].period]_saVars

(* A switch is recommended only when the window's requests would have cost  *)
(* less with the alternative: the estimate takes the costs of the window    *)
(* and the tokens of every snapshot, and so errs on the side of not         *)
(* recommending (optimiser.py:104-127).                                     *)
RecommendationsSave ==
  \A a \in recommended(1) :
    LET window == since(snapshots, 1) IN total(window) > tokens(window) * a

(* With fewer snapshots than the period has, a threshold sees only a part   *)
(* of its period: "daily | weekly | monthly" (models.py:96) against 1440    *)
(* snapshots, one a minute.  So an alert that is due may not fire.          *)
PeriodWatched ==
  [][\A t \in DOMAIN AlertThresholds :
       CheckAlerts /\ total(since(seen, AlertThresholds[t].period)) >= AlertThresholds[t].amount /\ ~deduplicated(t)
         => fired'[t] = saClock]_saVars
==============================================================================
