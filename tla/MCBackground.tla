---------------------------- MODULE MCBackground ----------------------------
(* Work that goes on behind the requests, for TLC: the worker pool, batches, *)
(* what is told to the outside, the logs, the operators.  Components that   *)
(* do not share state, each explored alone in the behaviours of its part.   *)
EXTENDS WorkerPool, BatchManager, Delivery, Callbacks, RecordLog, Operator,
        Secrets, TLC

VARIABLE part   \* the component that moves in this behaviour

Hook(n, i) == [name |-> n, id |-> i]
MCHooks == {
  <<Hook("spend", "spend"), Hook("prometheus", "prometheus"), Hook("opentelemetry", "opentelemetry"),
    Hook("langfuse", "langfuse")>>,
  <<Hook("prometheus", "prometheus"), Hook("plugin:Hook", "hook1"), Hook("plugin:Hook", "hook2")>>}
MCTeams == {[mode |-> "plain", names |-> <<>>], [mode |-> "disabled", names |-> <<>>],
            [mode |-> "named", names |-> <<"prometheus", "gone">>]}
MCEvents == {{"end"}, {"start", "end", "error"}}
\* What the callbacks' settings are while another component moves.
QuietChoice == CHOOSE c \in HookLists \X TeamSettings \X EventSets : TRUE

\* One metric above its target, one of two below, far above; and no metric.
MCLoads == {{}, {10}, {50, 150}, {300}}
\* Bounds that move, with other cooldowns; and a manifest without autoscaling.
AutoSpec(lo, hi, up, down) == [min |-> lo, max |-> hi, up |-> up, down |-> down]
MCManifests == {[replicas |-> 3, auto |-> AutoSpec(2, 4, 1, 2)], [replicas |-> 1, auto |-> AutoSpec(1, 2, 2, 0)],
                [replicas |-> 5, auto |-> NoAutoscaling]}
Pod(n, r, again, h) == [n |-> n, ready |-> r, restarted |-> again, hot |-> h]
MCPods == {{}, {Pod(1, TRUE, FALSE, TRUE)}, {Pod(1, FALSE, FALSE, TRUE), Pod(2, TRUE, FALSE, TRUE)}}

MCFields == <<"user", "password", "token">>
MCFiles == {
  [fields |-> "user" :> SecretRef("db", "u") @@ "password" :> SecretRef("db", "p")
              @@ "token" :> EnvRef("TOKEN"), sets |-> <<>>],
  [fields |-> "user" :> SecretRef("db", "u") @@ "password" :> Literal("pw")
              @@ "token" :> Literal("t"), sets |-> "TOKEN" :> "t"]}
MCEnvirons  == {<<>>, "ROUTERBOT_USER" :> "root"}
MCOverrides == "ROUTERBOT_USER" :> "user"
AnyFile     == CHOOSE f \in Files : TRUE

Parts == {"pool", "batch", "delivery", "callbacks", "records", "gateways",
          "resources", "secrets"}

bundleVars == <<part, vars, bmvars, dlvars, cbVars, rlvars, gwVars, opVars,
                      ldvars>>

BackgroundInit ==
  /\ part \in Parts
  /\ Init
  /\ BmInit
  /\ DlInit /\ (part = "delivery" \/ (dl_kind = "webhook"))
  /\ CbInit /\ (part = "callbacks" \/ (<<cbToRegister, teamSetting, announced>> = QuietChoice))
  /\ RlInit
  /\ GwInit
  /\ OpInit
  /\ LdInit /\ (part = "secrets" \/ (ldTtl = 0 /\ ldFile = AnyFile /\ ldEnviron = <<>>))

BackgroundNext ==
  \/ part = "pool" /\ Next
     /\ UNCHANGED <<part, bmvars, dlvars, cbVars, rlvars, gwVars, opVars,
                          ldvars>>
  \/ part = "batch" /\ BmNext
     /\ UNCHANGED <<part, vars, dlvars, cbVars, rlvars, gwVars, opVars,
                          ldvars>>
  \/ part = "delivery" /\ DlNext
     /\ UNCHANGED <<part, vars, bmvars, cbVars, rlvars, gwVars, opVars,
                          ldvars>>
  \/ part = "callbacks" /\ CbNext
     /\ UNCHANGED <<part, vars, bmvars, dlvars, rlvars, gwVars, opVars,
                          ldvars>>
  \/ part = "records" /\ RlNext
     /\ UNCHANGED <<part, vars, bmvars, dlvars, cbVars, gwVars, opVars,
                          ldvars>>
  \/ part = "gateways" /\ GwNext
     /\ UNCHANGED <<part, vars, bmvars, dlvars, cbVars, rlvars, opVars,
                          ldvars>>
  \/ part = "resources" /\ OpNext
     /\ UNCHANGED <<part, vars, bmvars, dlvars, cbVars, rlvars, gwVars,
                          ldvars>>
  \/ part = "secrets" /\ LdNext
     /\ UNCHANGED <<part, vars, bmvars, dlvars, cbVars, rlvars, gwVars,
                          opVars>>
  \/ part # "pool" /\ UNCHANGED bundleVars

BackgroundSpec ==
  /\ BackgroundInit /\ [][BackgroundNext]_bundleVars
  /\ \A w \in Workers : WF_vars(part = "pool" /\ WorkerStep(w))
  /\ \A b \in BatchIds : WF_bmvars(part = "batch" /\ BmProgress(b))
  /\ SF_dlvars(part = "delivery" /\ PeriodicFlush)
  /\ \A c \in Carriers :
       WF_dlvars(part = "delivery" /\ (SendSucceeds(c) \/ SendRefused(c) \/ SendFails(c)))

-----------------------------------------------------------------------------
(* Every component keeps the types of its state: what the code declares,   *)
(* and the bounds the model puts on it.                                    *)
TypesOK ==
  /\ TypeOK /\ BmTypeOK /\ DlTypeOK /\ CbTypeOK
  /\ RlTypeOK /\ GwTypeOK /\ OpTypeOK /\ LdTypeOK

(* No job is lost or doubled: whatever fails, is retried, cancelled or       *)
(* stopped, a job is in one place, is tried no more often than it may be,    *)
(* and a worker never takes one while a more urgent one waits.               *)
JobsKept ==
  /\ [](InOnePlace /\ AttemptsBounded)
  /\ PriorityRespected

(* A batch accounts for each of its items however they end, runs no more of  *)
(* them at a time than it may, and what it has executed stays executed.      *)
BatchesKept ==
  /\ [](ResultsComplete /\ ConcurrencyHonoured)
  /\ ExecutedIsFinal

(* What has happened is told once, to everyone who asked: the queues of the  *)
(* webhooks, of Langfuse and of the exporters account for every event they   *)
(* took, in order, and flush what they hold when they stop; a callback hears *)
(* an event once whatever the others do; and who walks a log misses no row.  *)
EventsTold ==
  /\ EventsAccounted /\ ExportedInOrder /\ StopFlushes
  /\ EveryoneHearsOnce /\ GaugeFollowsEvents
  /\ WalkComplete

(* The operators end where the manifests point: the status of a gateway is   *)
(* of its last manifest, decisions are within the bounds they were taken     *)
(* under and as far apart as the manifest asks, and only those about an      *)
(* object that is held no more can part spec, status and bounds; and one     *)
(* pass over unchanged resources of models, keys and teams leaves nothing    *)
(* for the next.                                                             *)
OperatorsConverge ==
  /\ StatusFollowsSpec /\ ScaledInBounds
  /\ CooldownsHonoured
  /\ OnePassConverges

(* A secret that is loaded was replaced, if at all, no longer ago than its   *)
(* time to live, and the fields of one configuration come from different     *)
(* versions of a secret only if time passed between them.                    *)
SecretsFromTheSource == SecretsFresh /\ TornOnlyByTime

(* Work in the background ends: each job is carried out, fails for good or   *)
(* is cancelled, stopping the pool returns, a batch reaches an end, and a    *)
(* queued event is sent or given up.                                         *)
WorkEnds ==
  /\ EveryJobEnds /\ StopReturns
  /\ BatchEnds
  /\ EventLeavesQueue
=============================================================================
