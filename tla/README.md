# Verification of RouterBot

TLA+ models of the stateful parts of RouterBot (`src/src/routerbot`), checked
with TLC on small instances and, where a property should hold for every
configuration, proved with TLAPS. Paths below are relative to
`src/src/routerbot/` unless they start with `src/`.

RouterBot is an LLM gateway in one Python process: a FastAPI application whose
request handlers, health checks, workers and flush loops are asyncio tasks of
one event loop. A task runs without interruption from one `await` to the next,
so the unit of interleaving in every model is *the code between two awaits*:
one action does everything the code does in that stretch, in order, and the
only places where other tasks come in between are the ones where the code
really waits.

## 1. The system

Every component of the program, what it keeps, and the module that models it
(`—`: not modelled). "API only" marks code that is tested and exported but that
no request path reaches at this commit; it is modelled with the callers its
interface is made for.

| Component | State | Operations | Hard behaviour | Modules |
|---|---|---|---|---|
| Router (`router/router.py`, `retry.py`, `fallback.py`, `strategies.py`) | deployments with in-flight counts, round-robin counter, provider clients | completions, streams, embeddings, `aclose` | each request is a fallback loop around a retry loop around a call; clients disconnect in the middle | `Router`, `BoundedDispatch` |
| Cooldown manager (`router/cooldown.py`) | failures and expiry per key | record, look, expire, `reset` | results arrive in the order calls end; two dictionaries kept in step by hand | `Cooldown` |
| Health checker (`router/health.py`) | task, probes in flight | `start`, `stop`, rounds | writes the cooldowns requests use; stopped in a round | `RouterHealth` |
| Circuit breaker (`core/resilience/circuit_breaker.py`) | state, counters | allow, record, `reset` | results of calls admitted in an earlier state | `CircuitBreaker` |
| Bulkhead (API only), request queue (API only) (`core/resilience/`) | slots, waiters; a bounded deque | `acquire`; enqueue, drain, clear | time-out or cancellation while waiting; entries that expire in the queue | `AdmissionControl` |
| Degradation, regions (`core/resilience/`) | levels; health per provider and region | escalate, override; select, fail over | a provider registered twice | `ProviderChoice` |
| Job queue and worker pool (`core/batch/`) | jobs, priority queue, worker tasks | submit, take, complete, fail, cancel, expire; `start`, `stop` | stale queue entries; cancellation of a running job; retries with backoff; `start` while a `stop` waits | `WorkerPool` |
| Batch manager (`core/batch/batch_manager.py`, `proxy/routes/batches.py`) | batches, results, counts | create, execute, cancel | executed in the background while it is cancelled | `BatchManager` |
| MCP client over STDIO, MCP registry (`core/mcp/`) | process, pipe, lock; clients by name | connect, call, list, health, shutdown | concurrent callers on one pipe; time-outs; registered twice | `McpClient`, `McpRegistry` |
| Agents (`core/a2a/`) | clients with status | register, invoke, health, shutdown | two endpoints; lost answers | `AgentGateway` |
| Plugins (`core/plugins/`) | hooks by name, statuses | load, set up, tear down | two plugins of one name; one of several fails | `Extensions` |
| Rate limiter (`proxy/middleware/rate_limit*.py`) | time stamps per scope | check, record, set limits | sliding window, several scopes per request | `RateLimiter` |
| Middleware (`proxy/app.py`, `proxy/middleware/`) | — | authenticate, limit, filter, measure | the layers run in the reverse of the order of the code | `Application` |
| Completion route, cache, guardrails (`proxy/routes/completions.py`, `cache/`, `proxy/guardrails/`) | cache table with expiry, list of guardrails | transform, look up, screen, call, screen, store, report | concurrent misses; what one stage injects the next must see; tenants share a table; an answer has parts no guardrail sees | `Completion`, `Guardrails` |
| Configuration (`core/config.py`, `core/secrets/`, `proxy/config_reload.py` (API only), `proxy/routes/config.py`, `model_management.py`) | file, hash, live objects, router, cached secrets | poll, reload, update, add and delete models, load | the file is edited between two awaits; old clients closed in use | `Configuration`, `RouterReload`, `Secrets` |
| Provider budgets (`router/budget.py`, API only) | spend and period | record, check, remaining | a charge after its period | `Accounts` |
| Users, teams, keys, spend (`proxy/routes/{keys,users,teams}.py`, `db/`) | rows and references | create, rotate, deactivate, delete, admit, log | overlapping transactions; databases that do not enforce the foreign keys | `Accounts` |
| Audit and spend logs (`db/repositories/{audit,spend}.py`) | rows | add, page, delete old | pages by offset while rows come and go | `RecordLog` |
| Sign-on, sessions, JWT, advanced authentication (`auth/`) | states, sessions, key sets, claims, sets of grants | callback, renew, expire; fetch; check | concurrent fetches; what is cached of a token outlives it; cyclic inheritance | `Authentication`, `Jwt` |
| Callbacks, metrics, tracing, webhooks, Langfuse, exporters (`observability/`) | callbacks by name, counters, spans, queues | dispatch, record, batch, flush, close | one of several fails; shutdown during a flush | `Callbacks`, `Delivery` |
| Kubernetes operator, autoscaler, health manager (`k8s/`) | resources with spec and status, cooldowns | apply, reconcile, evaluate, report pods | several writers of one object; decisions applied under a later manifest | `Operator` |
| Scaling advisor (`core/scaling/`) | counters, snapshots, alerts | record, snapshot, recommend, alert | a cost counted in two places | `ScalingAdvisor` |
| Semantic router (`core/semantic/`) | intents, settings | classify, route | asks a model through the proxy it serves | `SemanticRouter` |
| Transforms (`core/transform/`), provider adapters (`providers/`) | message lists, streams, errors | translate, put together, raise | in place changes that fail half-way; six formats; whose fault an error is | `Adapters` |
| Prompts and playground (`hub/`), evaluation (`evaluation/`) | versions, sessions, suites | update, ask, run | changed while they are read | `Hub`, `Evaluation` |
| Start-up and shutdown (`proxy/app.py`) | what is open | `_startup`, `_shutdown` | steps that fail one by one | `Application` |
| Admin UI, CLI, deployment files | — | — | no state a request meets | — |

How they interact. The application builds a `Router` from the configuration and
hands requests to it through the completion route, behind the middleware. The
router, the streaming path and the health checker share one `CooldownManager`
and one table of provider clients (`Router`, `RouterHealth`).
`routes/config.py` replaces the router while requests of the old one run
(`RouterReload`) and the configuration with it (`Configuration`). The completion
route composes transforms, guardrails, the cache and the callbacks
(`Completion` extends `Guardrails`). Worker pool and batch manager run jobs in
the background through the same completion helper. The MCP registry owns MCP
clients and calls them from handlers and from its health loop; the semantic
router asks the proxy it is part of. Start-up decides which of all these exist
(`Application`). Circuit breakers, bulkheads, request queues, degradation and
region routing are built at start-up and offered through `state`; no request
path uses them yet.

## 2. Modules

```
Cooldown ── Router (refines BoundedDispatch) ──┬── MCRouter
                                               └── RouterHealth ──┬── MCRouterHealth
                                                                  └── RouterProofs
Guardrails ── Completion                 MCTools ──┬── ToolsProofs ────┬── ComputedProofs
MCResilience ── ResilienceProofs                   └── ContentProofs ──┘
MCEdge ── EdgeProofs                     MCBackground ── WorkProofs ── EventsProofs

MCResilience   CircuitBreaker AdmissionControl ProviderChoice RouterReload
               Configuration ScalingAdvisor Jwt
MCBackground   WorkerPool BatchManager Delivery Callbacks RecordLog Operator Secrets
MCTools        McpClient McpRegistry AgentGateway Extensions Adapters
               Hub Evaluation SemanticRouter
MCEdge         RateLimiter Application Completion Accounts
               Authentication
```

Components that share state are composed in one specification (the router with
its health checker, the queue with its workers, the completion route with
guardrails and cache, a sender with its queue). Components that share none are
checked side by side: the four MC modules above have a variable `part` that
says which of their components moves in a behaviour. The others keep the first
state, and the choice of *their* inputs is pinned, so that a run explores the
sum of the components' state spaces and not the product. Each component has
its own variables, `Init`, actions and `Next`, prefixed where names would clash,
and can be checked alone; two small components of one package share a module,
one after the other (`AdmissionControl`, `ProviderChoice`, `Configuration`,
`Operator`, `Hub`, `Evaluation`, `Application`, `Authentication`, `Adapters`,
`Accounts`).

**Cooldown** — `CooldownManager` as operators on its state: `cool[m].fails` is
`_failure_counts`, `cool[m].until` is `_cooldown_until` (`NotCooling` for a
missing key). `is_in_cooldown` is split into the answer and `expire`, the
deletion it does on the way; every user of the former applies the latter.

**Router** — one request is one record `req[r]`: its kind (chat with fallbacks,
a plain method without, a stream without retries), its position in the chain
and in the retry loop, the deployment it calls. The waits are the provider call
(`calling`) and the backoff sleep (`sleeping`). `Submit`, `Reply`,
`CancelCall`, `Wake` and `CancelSleep` are the stretches between them; all use
`Attempt` (selection, in-flight count, client look-up, start of the call) and
`GiveUpModel` (what `execute_with_fallbacks` does with the exception that comes
out of `with_retry`). The `except BaseException` of `fallback.py:75` is in the
model: a cancellation goes on to the next model. `Reset`, `Expire` are the
public methods of the cooldown manager, `Tick` the clock. Exceptions are the
five classes the code tells apart. Latency, cost and weights, on which the
other strategies decide, are left out: for those strategies any available
deployment may be selected. Only round-robin and least-connections, whose state
is in the model, select exactly.

**BoundedDispatch** — the abstract promise: a request asks for a call a bounded
number of times, each ends before the next begins, and it ends once. The end of
`Router` gives the mapping; `ImplementsDispatch` is the refinement.

**RouterHealth** — the router plus the checker's task. A round sends a probe to
every registered deployment (`gather`), a probe records into the cooldowns, the
round ends with its last probe. A cancelled probe records nothing, and `stop()`
cancels all of them.

**CircuitBreaker** — one breaker and the tasks that call through it. `call[c]`
is a history of when the call was admitted (closed, as a probe of this
half-open period, or before the last transition); the breaker itself does not
know. `Observe` is the transition that merely reading the `state` property
makes. A call ends as a success, a failure, or uncounted (an excluded
exception, or a cancelled caller).

**WorkerPool** — `JobQueue` and `WorkerPool`: the queue's methods that a worker calls in the
middle of a longer stretch are operators on the job table and the queue, the
clients' calls are actions. A worker waits in the handler, in the callback
POST, in the backoff sleep and in the poll sleep; `LoopTop` is the top of its
loop with the take of the next job. Which jobs have outlived their `ttl` is
left open in `ExpireStale`. `start()` looks at `_running` only, as
`worker_pool.py:58` does: called while a `stop()` waits for its workers it adds
`WorkerCount` new ones to those, and the `stop()` then closes the HTTP client
that both share, so that a callback may not be sent.

**McpClient** — tasks that wait for the subprocess, for the lock (a FIFO queue,
as in asyncio) or for a line. `pipe[p]` holds the ids of the requests written to
process `p` whose response has not been read; the server answers in order at
any time. A time-out or cancellation leaves the id in the pipe, which is what
the code does. A server may exit at any time having answered any prefix.
`Disconnect` is the registry's removal of the client.

**RateLimiter** — the in-memory limiter behind its middleware. A scope is a key
of `_windows`; `timestamps[b]` holds the requests in its list and `admitted[r]`
the time they were recorded at. `Admit` is a request that every scope lets
through and that is recorded in all of them, in one action because the
middleware has no `await` between `check_rate_limit` and `record_request`.
`Deny` is a 429 by the first scope that is full; the scopes before it have been
pruned, the ones after it have not. The two read the clock separately, some
microseconds apart; the model takes them as one instant, and takes `time.time()`
not to step back. A tick is a part of a second (`Second` ticks are one), and
`retry_header` is the conversion of `to_headers`: whole seconds, and one more.

### Resilience and configuration

**AdmissionControl** — a task's place between `acquire()` and the release, and
the FIFO of asyncio's semaphore (external): a slot that is released goes to the
first waiter, which resumes later, and may meanwhile have timed out or been
cancelled. Of the request queue, `enqueue`, `drain`, `drain_all`, `clear` with
the counters; `Age` is a request that outlives its `ttl`. **ProviderChoice** —
levels by hand and by `auto_escalate`, thresholds in percent, as in
`level_for`; the order by distance and weight that `select_provider` and
`failover` use, and health marks per provider and region; a region that is not
configured is infinitely far.

**RouterReload** — generations of routers, the requests that hold one, the
clients each has open, and the task that closes a replaced router, await by
await. **Configuration** — the poll task and `reload_now` as separate sequences
of reading, hashing and applying, while the file is edited and while versions
are invalid, unreadable or refused by the callback; beside it the file, the
live configuration, the router and the routes that change them; an update
reads, empties and writes the file in separate steps. **Secrets** — one load:
the secret references one by one through a cache with a time-to-live, the
environment, and the variables the file sets; secrets rotate at any time.

**Jwt** — the authenticator with its key set, its refresh interval and its
cache of claims. Fetches are concurrent and end in any order. Ages count down
and stop below zero, so that no clock bounds the liveness. **ScalingAdvisor** —
the way of a cost through counters, snapshots and windows to alerts and
recommendations.

### Background

**BatchManager** — `create`, `execute` with one task per request and a
semaphore, `cancel`, and the answers of the routes. **Delivery** — webhooks,
Langfuse and the exporters in one module: they share the shape (queue, loop,
batch, retry, close) and differ in what they lock and retry, which `dl_kind`
tells apart. **Callbacks** — registration by name, dispatch to a task per
callback, the failures `_safe_call` swallows, and what Prometheus,
OpenTelemetry and Langfuse remember of a request; the dispatcher that obeys
team settings is API only. **RecordLog** — rows with times, retention, and a
reader who walks the pages by offset, through all rows or one owner's.

**Operator** — the operator, the autoscaler and the health manager on the same
gateway objects. A manifest brings its bounds and cooldowns with it, and replaces the
object of the one before, whose status it takes over. A decision is taken under the
bounds of the moment and applied in a later step: to the object the operator holds by
then, or to the one that was evaluated, which may have been replaced or dropped. Beside
them models, keys and teams, `reconcile_*` and `reconcile_all`, with specs
edited in place.

### Tools and content

**McpRegistry**, **AgentGateway**, **Extensions** (the plugins) — what is registered,
connected, called and torn down, server by server, with names registered twice,
connections that fail half-way, and shutdown at any moment of the serving time. A tool
name is a sequence of characters because it is split at a separator that names may
contain. **Adapters** — what becomes of a request on its way to a provider and of the
answer on its way back: messages as `[role, from]` records under templates and
enrichment, with hooks that fail after a part of their work; conversations and answers
of the adapters as blocks (`packed`: Gemini sends the fragments of a text as the parts of
one chunk); a stream is translated event by event and compared with the
translation of the whole; and from a provider's answer, with the shape of its error body,
through the adapter's exception, the retry policy, the failures that count towards the
cooldown, and the fallback loop, to the status of the client. An adapter that calls
`.get()` on a string or a list raises `AttributeError` (`Unreadable`), and a model whose
deployments cool down, through this request's attempts or others', ends the chain
(`NotFound`, as in `Router_fallback`).
**SemanticRouter** — a routed call with the question it may have to ask first, which is
again a routed call; a text is what it is based on and how many questions it is wrapped
in.

**Hub**, **Evaluation** — templates with versions and A/B tests; sessions with
overlapping questions; a run that iterates over a list of samples that grows;
the two-row table of ROUGE-L step by step against the definition of a longest
common subsequence (places chosen in both texts), and clipped n-gram counts.

### Edge

**Application** — the middleware in the order in which Starlette runs it; and
the steps of `_startup` and `_shutdown`, what each opens, which failures it
survives, and what stays open because nothing closes it or its closing raised.
**Completion** — a request from the transforms to its report, over a
cache with an LRU order, expiry and tenants, where all callers who have neither key nor
team are one tenant. An answer is the content of its first choice and the `rest` (other
choices, arguments of tool calls), which the guardrails are not shown. `Guardrails` are
operators on texts, a text being the set of what detectors find in it; its second part is the
replacement of matches from the end of one text, position by position.

**Accounts** — users, teams, members, keys and spend rows; handlers that decide
on what they read (rotation, deletion of a team, a new member) are two steps. The
database either enforces foreign keys or, as SQLite without the PRAGMA that
`create_engine` does not issue, neither refuses a row nor cascades (`enforces`). Its
second part are the provider budgets: periods that start again only when they are looked at,
each call with its own reading of the clock.
**Authentication** — states and sessions between browser, identity provider and
store; the recursion through permission sets as a stack of visits, and the
webhook authenticator with calls in flight, which may take any time: the client's
timeout bounds each wait of a request and not the request.

Definitions marked *Variant* or *A plausible bug* change one definition of the
code in the way a mistake would. No specification uses them; they serve to show
that each property is sensitive to the code, by model-checking with the variant
in place of the original.

## 3. Runs

| Run | Checks | Instance | States |
|---|---|---|---|
| `Router` | `TypeOK`, `PositionOK`, `ActiveMatchesInFlight`, `CooldownConsistent`, `CallsWithinBudget`, `NoCallIntoCooldown`, `AbortNeverCounts`, `ImplementsDispatch` | 2 requests; m1 with two deployments, falling back to m2 and then to itself, m2 with one; 1 retry, threshold 2, clock 0..2; least-connections | 239 000 |
| `RouterHealth` | `HTypeOK`, `RoundOpenWhileProbing`, `EverythingEnds` | 1 request, 3 deployments, 2 rounds; round-robin | 40 000 |
| `Resilience` | `TypesOK`, `ThresholdsHonoured`, `ProbesBounded`, `OpenHoldsForTimeout`, `QueuesKept`, `ChoicesRight`, `KeptInStep`, `ComesBack` | `MCResilience` | 96 000 |
| `Background` | `TypesOK`, `JobsKept`, `BatchesKept`, `EventsTold`, `OperatorsConverge`, `SecretsFromTheSource`, `WorkEnds` | `MCBackground` | 219 000 |
| `Tools` | `TypesOK`, `ConnectionsKept`, `ComputedAsDefined`, `JudgedOnEvidence`, `FaultsPassedOn`, `RoutedAndExplained`, `CallsEnd` | `MCTools` | 208 000 |
| `Edge` | `TypesOK`, `LimiterExact`, `RedactionExact`, `LimitHonoured`, `RequestsScreened`, `AccountsSound`, `LifecycleSound` | `MCEdge` | 405 000 |
| `Router_fallback` | `FallbackAfterFailure`, violated | 1 request, 2 retries | |
| `Router_client` | `OwnClient`, violated | 2 requests | |
| `CircuitBreaker_stuck` | `AdmitsAgain`, violated | probes may end uncounted | |
| `WorkerPool_cancel` | `CancelIsFinal`, violated | 2 jobs, 2 workers | |
| `McpClient_late` | `OwnResponse`, violated | 2 tasks, 2 processes | |
| `Accounts_budget` | `KeyBudgetEnforced`, violated | 1 request, a key with a budget of 1 | |

**What the grouped properties say.** A property of the four larger runs is a
conjunction of named formulas, each defined and explained in the module of its
component; the MC module states the theme. A violation is reported with the
conjunct that broke.

* `QueuesKept`: the slots and waiters counted by a bulkhead are the tasks that
  hold and wait (`SlotsConserved`, `WaitersCounted`); the request queue answers
  in order and in batches as full as they can be (`RequestsInOrder`,
  `FullBatches`).
* `ChoicesRight`: the level follows exactly from the share of unhealthy
  providers (`EscalationExact`); no region marked unhealthy is chosen while
  another is left, and the nearest is (`UnhealthyAvoided`, `NearestChosen`); a
  recommended switch would have cost less (`RecommendationsSave`); an alert is
  true and fires once a period (`AlertsTrue`, `AlertsApart`).
* `KeptInStep`: a reload leaves the current router alone and closes the old
  one's clients unless they are used again (`CurrentUndisturbed`,
  `ReleasedUnlessUsed`); the hash in memory is that of a version that was applied
  or refused (`HashIsApplied`); the router belongs to the configuration in force
  (`RouterFromConfig`); settings are lost to overlapping updates only
  (`LostOnlyToOverlap`); a token past its expiry is accepted from the cache of
  claims only, and no hit prolongs that (`ExpiredOnlyFromCache`).
* `ComesBack`: the breaker admits again and leaves the half-open state
  (`CircuitAdmitsAgain`, `HalfOpenEnds`), a patient waiter gets a slot
  (`WaiterServed`), a valid edit is applied (`EditApplied`), a new signing key is
  learnt although fetches cross (`SigningKeyLearnt`).
* `JobsKept`, `BatchesKept`: `InOnePlace`, `AttemptsBounded`,
  `PriorityRespected`; `ResultsComplete`, `ConcurrencyHonoured`,
  `ExecutedIsFinal`.
* `EventsTold`: every event taken is sent, failed or lost to one of the ways the
  code has of losing it, once and in order, and a stop flushes
  (`EventsAccounted`, `ExportedInOrder`, `StopFlushes`); every callback hears
  once (`EveryoneHearsOnce`); where all events are dispatched, gauge, spans and
  traces agree (`GaugeFollowsEvents`); a walk misses no row (`WalkComplete`).
* `OperatorsConverge`: the status is of the last manifest and shows what the spec
  asks for, but for a decision applied to an object that was replaced
  (`StatusFollowsSpec`); a decision lies within the bounds it was taken under, and
  the bounds in force are left only through a manifest that says so or a decision
  about an object that was replaced or dropped (`ScaledInBounds`); decisions are as
  far apart as the manifest asks (`CooldownsHonoured`); and one pass of
  `reconcile_all` suffices (`OnePassConverges`).
* `SecretsFromTheSource`: `SecretsFresh`, `TornOnlyByTime`.
* `WorkEnds`: `EveryJobEnds`, `StopReturns` (a stop returns, unless a start
  overtakes it), `BatchEnds`, `EventLeavesQueue`.
* `ConnectionsKept`: the pipe's lock and its reader (`LockConsistent`,
  `ReaderIsLast`), no connection after shutdown (`ShutdownDisconnects`), tool
  names lead back (`ToolsResolve`), only connected agents are invoked and a lost
  answer is not asked for twice (`OnlyConnectedInvoked`, `LostNotRepeated`), and
  what is torn down was set up (`TornDownWereSetUp`).
* `ComputedAsDefined`: what is translated keeps the conversation
  (`ConversationKept`, `SystemFirst`; `StreamAddsUp`, but for the texts Gemini packs
  into one chunk; `ToolTrafficKept`, but for Ollama, which is sent neither calls nor
  results), and the metrics of the evaluation are what their definitions say
  (`FrontierDecides`, `RowIsLongestCommon`, `OverlapSymmetric`).
* `JudgedOnEvidence`: `CurrentIsLastVersion`, `VersionsImmutable`,
  `AnswersHaveQuestions`, `EndedTakesNoQuestions`, `RunCovers`.
* `FaultsPassedOn`: a caller's own fault is not retried nor held against a
  deployment (`FaultsTold`); without one, each model up to the one that is found
  cooling down is tried as often as the policy says (`AllTried`), but for what an
  adapter cannot read. `RoutedAndExplained`: `RoutedJustly`, `IntentsExplained`, and
  what the cache holds above its limit are answers of the classifier
  (`OnlyAnswersOutgrow`). `CallsEnd`: `EveryCallEnds`, `InvocationAnswered`,
  `CallsRouted`.
* `LimiterExact`: the windows remember exactly the requests of the last minute
  (`WindowsFaithful`), and the whole seconds in `Retry-After` are enough for a scope
  that is just full and at most a second too many (`RetryAfterSuffices`).
  `RedactionExact`: matches that lie apart are redacted exactly (`RdTypeOK`,
  `DisjointRedacted`).
* `RequestsScreened`: no handler runs for what a layer refuses
  (`HandledScreened`), a request counts against its own key (`CountedForKey`),
  prompts, and the content of an answer's first choice, have passed every guardrail
  that is on (`Screened`), tenants do not see each other's answers, where all callers
  without a key or a team are one tenant (`TenantsApart`), an answer is transformed
  once (`TransformedOnce`).
* `AccountsSound`: rows refer to rows there are where the database enforces it, and
  without that a membership still names a user there is and a team there is or was
  (`ReferencesSound`); `DeactivatedStays`, `StateUsedOnce`, `EndedStays`,
  `PermissionsInherited`, `AcceptedRecently`, `SpendIsThePeriods`.
* `LifecycleSound`: `ServesWhatItHas`; a shutdown that comes to its end leaves open
  only what no step closes and what raised when it was closed, and one that is cut
  short only what was still to come, whatever start-up steps had failed
  (`ShutdownCloses`).

**Bounds, and why they are enough.** Bounds stop clocks and counters of events;
no guard of the code is replaced by one.
*Router*: two requests interleave every pair of stretches, share a model, a
deployment and a cooldown, and with threshold 2 either can cross the threshold
alone or with the other; the chain m1, m2, m1 comes back to a model that has
failed; one retry gives the first attempt, a retry and the exhausted case; a
clock of 2 with `cooldown_seconds` 1 lets a cooldown start late and expire.
`MaxTime` only stops the clock. *RouterHealth*: one request against probes of
all three deployments, two rounds, so that a round follows another and a stop.

*Resilience*: thresholds of 2 are the smallest that differ from "the first
one", and four callers fill both probe slots while two late results are
outstanding; four tasks on two slots leave two waiters, of which one can be
overtaken; three requests overfill a queue of 2 (`QueueSize`, `BatchSize` 1); one
unlocated and three located regions give every order of distances; one reload
(`MaxReloads`) with four clients (`MaxClients`) closes while requests of both
routers run; four versions of the file (`LastVersion`) contain an invalid, an
unreadable, a refused and a good one; two updates of different settings and two
loads (`MaxLoads`) overlap; costs of 1 and 2 over three instants (`SaMaxTime`,
`SaMaxRequests` 2, `MaxSnapshots` 2) fill the snapshots and drop one; two
verifiers fetch across a rotation of keys (`LastKid` 2, `RefreshInterval`,
`Life` and `CacheTtl` 1).

*Background*: two jobs compete for priority and either may be cancelled,
expired, retried or removed while the other runs, two attempts give a retry and
the exhausted case; a start makes one worker (`WorkerCount` 1), and a start over a
waiting stop the second of `Workers`, after which both go on; one batch of up to three requests at concurrency 2 has one
that waits; three events in batches of two leave one over, two tries give a
retry and a failure; two requests and three or four callbacks, two of which may
share a name; three rows in pages of one (`MaxRows`, `PageLimit`) let rows come
in and go out around the reader, over two days (`RlMaxDay`); loads below, at and
above the target, three instants (`GwMaxTime`), two manifests (`GwMaxGeneration`)
with bounds of 2..4 and 1..2 and other cooldowns, and one without autoscaling, and two
decisions not applied yet (`GwMaxDecided`), so that one is applied under the other's
bounds; three fields, two rotations (`LdMaxVersion`) and
two instants (`LdMaxTime`) within one load.

*Tools*: `MaxId` 4 leaves room for a session (initialize, tools/list), a call
and another request behind it, two processes let two connection attempts
overlap; servers, agents and plugins with equal names, prefixes of each other,
disabled and unusable ones; templates up to three in all their modes; three
blocks of text, packed or not, and calls in any order; two models of a chain with one
retry (`MaxRetries`), a cooldown after two failures (`AllowedFails`), to which other
requests add theirs, and every class of answer and shape of its body; four routed calls (`MaxCalls`: two
requests and their questions) over a cache of one (`MaxCacheSize`); two versions,
two templates, two senders in a session of four messages (`PgMaxMessages`), three
samples where a run began with two (`MaxSamples`), texts of three tokens over two
words (`TextSize`), the first at which clipped counts and subsequences differ.

*Edge*: four requests overfill the global limit of 2 and one key's limit, and
twice the window lets requests leave it at different times (`Minute`,
`MaxClock`), at a whole second and between two (`Second` 2); two requests in the
middleware with every kind of shape; four
completion calls (one tenant, two users without one, one stream) over a cache of
one entry (`MaxItems`) meet hit, miss, eviction and expiry, with an answer of text and
one of a tool call (`Answers`); matches over a text
of six characters touch, overlap and lie apart (`TextLength`); a user, a team, two
keys, one handler that reads and one request on the default database, and two handlers
that read (`Handlers`) among teams, members and keys on either (part `teams`); two tokens, three redirects and two
providers; three permission sets in every shape of inheritance with up to two
parents each (`MaxParents`), cycles and gaps included;
two webhook calls over four instants (`AaMaxTime`); costs below zero, zero and
above, over two periods and an instant (`BuMaxTime` 5); four configurations that
cover every part, two failures (`AlMaxFailures`).

**Deadlock** is checked except in `Router` and `Tools`, where a finite set of
requests is answered and every component may come to an end. In the other runs
a component that can really end may rest, and the breaker (`Resilience`), the
worker pool (`Background`) and the limiter (`Edge`) may not: they never have to
stop.

**Fairness.** `RouterHealth`: the reply of a call in flight (the HTTP client
has connect, read, write and pool timeouts, `providers/base.py`), the end of a
backoff sleep and of a probe, which `asyncio.timeout` ensures; no client has to
submit or disconnect, and time need not pass. `Resilience`: callers of the
breaker ask when idle, their calls end, time passes; a task that was given a slot
resumes and leaves; the watcher polls, loads and applies; identity provider
answers and failures of fetches come, a fetch is answered if tried again and
again, and time passes for the refresh interval (strong fairness: the program
retries for as long as tokens arrive, it does not insist). `Background`:
handlers, sleeps and POSTs end, a batch's tasks go on, the periodic flush gets
its turn however often a batch is full before it. `Tools`: a subprocess starts or
fails to, a task that owns the lock runs, a read ends by a line, the end of file
or the `wait_for` timeout; a POST to an agent ends, as does the question to the
classifier, by its timeout: it is not assumed that anyone answers. Clients are
never fair.

**Disagreements.** Six runs end with a counterexample, each against a
statement of the code's own documentation:

* `Router_fallback`: the retries of the primary put it into cooldown, the next
  attempt then finds no deployment and raises `ModelNotFoundError`, which
  `execute_with_fallbacks` does not fall back from.
* `Router_client`: provider clients are cached under the model name, so that
  all deployments of a model use the credentials and URL of the first called.
* `CircuitBreaker_stuck`: probes that end uncounted keep their half-open slot,
  after which nobody is admitted any more.
* `WorkerPool_cancel`: a job cancelled while it is handled is completed, or
  queued and run again.
* `McpClient_late`: after a time-out every later caller reads the response of
  the one before.
* `Accounts_budget`: nothing adds to a key's spend, so its `max_budget` never
  refuses a request.

Twenty more statements are written down beside the models, each marked as not
holding, with the line that says it; TLC refutes each of them when it is added
to its bundle (`RetryAfterTells` with a `Minute` of 3 and a `Second` of 1), but none has a
run of its own: `CancelledStays` (a cancelled
batch is completed), `FinishReported` (no chunk of an Anthropic stream carries
the reason for its end), `FilePreserved` (overlapping updates of the
configuration lose the file's models), `AddedModelRoutable` (a model added
through the API is not routed to), `SetUpOnce` (of two plugins of one name, one
is set up twice), `PeriodWatched` (a monthly alert sees one day), `ClearEmpties`
(clearing a Redis cache leaves the entries of tenants), `AllRedacted` (overlapping
matches cut into each other's replacements), `RejectedBeforeAuth` (the address
filter runs after the authentication), `GaugeCountsActive` (the application
dispatches only the end of a request, so the gauge of active requests is wrong),
`ExpiredRefused` (claims that are cached are good past the `exp` of their token, for up
to `cache_ttl`), `BoundsInForce` (a scaling decision is applied under a later manifest,
or to a replaced object, outside the bounds in force), `ReferencesExist` (SQLite does
not enforce foreign keys: a key for a user that does not exist, a member of a deleted
team), `RetryAfterTells` (after a limit was lowered, the time told is that of the first
request to leave, and room is made only by several), `ResourcesCleanedUp` (no step of
the shutdown closes the cache's Redis connection, nor the HTTP clients of the webhook
authenticator and of the token exchange), `AllScreened` (the guardrails see only the
first choice's content), `CallersApart` (callers with neither key nor team share
answers), `ErrorsTranslated` (an error body whose `error` is a string or that is a list
raises `AttributeError`), `StreamedWhole` (of several texts in one chunk of Gemini's only
the last reaches the client), `CacheBounded` (the classifier's answers are stored
without a look at `MAX_CACHE_SIZE`).
Three things the models follow the code in, against what one would expect of it: a
question of the semantic router to its classifier is itself routed semantically,
Anthropic's adapter reports every error as a `ProviderError`, a client's mistakes
included, and Ollama's drops the calls of tools and what they answer.

## 4. Proofs

All theorems are checked by TLAPS with Z3, Zenon and LS4, for every value of the
constants that the named assumptions allow. These say what the code takes for granted of
its parameters and no more: limits, thresholds, sizes and times are natural numbers,
positive where the code divides, waits or admits by them (`BreakerAssumption`,
`BulkheadAssumption`, `QueueAssumption`, `PoolAssumption`, `BatchAssumption`,
`LimiterAssumption`, `DlAssumption`, `RlAssumption`, `SaAssumption`, `JwtAssumption`,
`RrAssumption`, `CwAssumption`); sets of clients and tasks that are counted are finite;
tables have the keys they are looked up by (`CooldownAssumption`, `RouterAssumption`,
`HealthAssumption`, `DegradationAssumption`, `RegionAssumption`, `CsAssumption`,
`EditsAssumption`, `GwAssumption`, `LdAssumption`, `SignInAssumption`,
`BudgetAssumption`); a manifest asks for replicas and bounds that are positive, in
whichever order (`GwAssumption`); the ids of registered callbacks are apart (`CbAssumption`); a
permission set names at most `MaxParents` parents, any number (`PermissionAssumption`);
the webhook's times are natural numbers (`WebhookAssumption`); every part a
configuration asks for is one some step of the start-up prepares
(`LifecycleAssumption`); a server has a name and names are sequences of characters
(`RegistryAssumption`), and the lists of agents and of plugins, at least one, name what
they are to name (`AgentsAssumption`, `PluginAssumption`). `AxAssumption`: the requests
in the middleware are finitely many and sizes natural numbers. `AccountsAssumption`: a
key expires at a time or never, and names a user and a team or none. `CompletionAssumption`: texts are sets of what detectors
find, a configuration's guardrails are a sequence of guardrails, and the memory cache
holds at least one answer. `RedactionAssumption`: a match is a part of the text, not
empty. `AdapterAssumption`: a chain names adapters, at least one, and Bedrock does not
answer throttling with the status of a missing signature, nor the other way round, and
a model cools down after at least one failure.
`SrAssumption`: an A/B test has two variants. `PgAssumption`: finitely many send at a
time. `BeAssumption`: a benchmark has a model and a sample; scores and costs are
integers, that is, multiples of a smallest unit. `TransformAssumption`: positions and
roles are those the code knows. `ConversationAssumption`: messages and blocks have their
types, and only the assistant calls tools, as OpenAI's protocol has it; nothing is asked
of how an answer is cut into blocks and fragments. These, `TmAssumption` and
`PhAssumption` else ask for natural numbers as sizes. TLC evaluates each in the run of
its module.

The components that stand side by side in an MC module are proved under the
specification of that module where their property is one of its groups. One lemma
(`PartsStep` in `EventsProofs` and in `ResilienceProofs`, `EdgeMoves` in `EdgeProofs`,
`ToolsMoves` in `ToolsProofs`, `ContentMoves` in `ContentProofs`, `ComputedMoves` in
`ComputedProofs`) says that a step of the whole is, for every component, one of its
steps or none. So the conjunction of the components' inductive invariants
(`BackgroundInv`, `ResilienceInv`, `EdgeInv`, `ToolsInv`, `ContentInv`, `ComputedInv`)
is inductive, and the grouped properties follow from it, without any bound on who moves.

**RouterProofs.** `TypeCorrect`, `PositionCorrect`, `CountsCorrect`,
`CooldownCorrect`, `BudgetCorrect` are `Spec => []...` for the invariants of the
`Router` run. The inductive invariant is the conjunction of `TypeOK`,
`PositionOK`, `CallsWithinBudget`, `CooldownConsistent` and
`ActiveMatchesInFlight`. None of the last three is inductive alone: the budget
needs the position (a retry happens only below the retry limit, a fallback only
inside the chain), and the in-flight count needs the position to know that the
deployment a request gives back is one whose count it has raised, which is also
why the clamp at zero is never reached. The lemmas go along the code: one on
`record_success`, `record_failure` and `expire` each, one on the selected
deployment, one on how a set of calls in flight grows and shrinks by one
request, then `Attempt` and `GiveUpModel`, then the actions. `CooldownRespected`
(`Spec => NoCallIntoCooldown`), `AbortHarmless` (`Spec => AbortNeverCounts`) and
`RouterImplementsDispatch` (the refinement) follow from the same invariant, step
by step. With the health checker beside it, the router's actions keep the
invariant by the same lemmas; what is left is that the checker's actions do:
`CountsCorrectWithHealth`, `CooldownCorrectWithHealth`, `RoundCorrect`,
`HealthTypeCorrect`.

**EdgeProofs.** *Rate limiter*: the type invariant and `WindowsFaithful` are inductive
together: the second relates what the limiter remembers (`pruned`) to what
happened (`InWindow`), whatever the order in which the scopes were pruned.
`LimitCorrect` adds that an admission puts one request into a set that has fewer
than `rpm` elements, `RetryCorrect` that the window has an oldest request, has room for
one exactly when that one has left (`RoomIsMade`), and that the whole seconds told are
later than that and at most a second later (`ToldInSeconds`). So all of the limiter's properties
(`LimiterCorrect`) hold for every number of requests and scopes and every length of the
window and of a second. *Middleware*
(`AxInv`): a request at a layer has passed those before it, and carries what they
decided; there are at most as many counted requests as requests past the limit.
*Completion* (`CpInv`): every entry of the cache, and every answer on its way out,
was made for a request that has begun, of the same tenant and with the same screened
messages, has been screened by the guardrails in force, and was transformed as often
as its stage says. Such a statement refers to other requests, so each step of one
request shows that the others' sources stay (`SourcedStays`, `RequestMoves`). What
screening gives is a lemma about the pipeline: `RequestPasses` and `ResponsePasses`
climb the list of guardrails, and what a guardrail has taken out, none behind it puts
back (`CutPasses`). `RequestsCorrect` follows: `Screened`, `TenantsApart`,
`TransformedOnce`, `HandledScreened` and `CountedForKey`, for any number of requests,
tenants and guardrails, whatever expires, is evicted or is cleared between two steps.
*Accounts* (`AccountsInv`): with
the types of the rows and of what a handler has read and still acts on,
`ReferencesSound` is inductive: where foreign keys are enforced, a row that is written
from a stale read is refused by them; where they are not, a user stays and a team that
was read is one there is or was. `DeactivatedStays` needs that a rotation changes no key
but the one it read and adds one that was not there. *Sign-on* (`SignInInv`): a state
that is pending was issued and its callback has not begun, and no two callbacks hold
one state, from which a used state never comes back. *Permission sets*: the theorem
is about the walk itself. `Found` is the invariant of its loop: what was visited or
waits is reached from the name, the parents of what was visited were visited or
wait, and what was granted so far is what the visited sets grant; its last part is
the measure, the names that wait plus `MaxParents` for every set not yet visited,
which every visit lowers, so that the walk ends by itself within `AllCalls` whatever
cycles the inheritance has. *Webhook* (`WebhookInv`): an entry is as old as the answer it
was stored for, whatever arrives or is read after it. *Budgets* (`BudgetInv`): what is held as
spent is what was charged since the start that is held, and no charge lies in the
future; a period that has ended unnoticed keeps this until the look that resets it.
*Start-up and shutdown* (`LifecycleInv`): what has been prepared so far, step by
step, and that all that is open and closable is closed by a step still to come, but for
what raised when its step had come.
*Redaction* (`RedactionInv`): behind the loop over the matches, what is in front of the
last one replaced is as it was, and behind it is what was not matched, in order
(`Redacted`), as long as every match ends where the one before it began or earlier;
that they are taken in this order is a bijection of matches and places (`PlacesApart`).
`RedactionCorrect`, `AccountsCorrect`, `LifecycleCorrect` and `EdgeTypes` follow from
`EdgeInv`.

**ResilienceProofs.** *Circuit breaker*: the invariant is `TypeOK`,
`ThresholdsHonoured` and `ProbesBounded` together; the probe bound needs a small
counting argument on the set of probes. `OpenCorrect` is the action property from
that invariant. They hold with `ProbesRecorded` false as well, the instance in
which liveness fails. *Bulkhead*: `BulkheadInv` says that the free slots and the
tasks that hold one (those inside and those that were granted one and have not
resumed) add up to `MaxConcurrent`, and that the semaphore's queue is exactly the
tasks not served yet, none twice. The second half is what makes the first
inductive: a release grants to the first *n* sleepers of the queue (`WokenFacts`),
and only if all of the queue are tasks in waiting, each once, does that take
exactly *n* slots. *Request queue*: `QueueInv` says that what has been drained and
what is still in the queue, in this order, is a part of what was enqueued, in that
order, and that the rest has expired, was refused or was cleared; `drain` is followed entry by
entry through the function `results`, whose values are known by the least
counterexample (below).
*Reload*: `ReloadInv` has to follow, for each router that was
replaced and that no request has used since, how far `aclose` has come: behind the
position of its loop no client is usable, before it the cache is as it was, and
every open client is found through the cache; a request that comes late is exactly
what breaks this, and is exempt in the code as in the property. *Watcher*: a race
between `reload_now` and the poll task can leave the hash ahead of what was
applied; as long as none has happened, `Raceless` says which pairs of positions the
two can be in and which version each carries. *Stored configuration*: an update
that is done is in the file, or another is between reading and writing, or one has
written that had not read it (`ConfigInv`). *Keys of JWTs*: the age of a token past
its expiry and the age left of its cache entry together never exceed the lifetime
of the cache, and nothing else accepts it by then (`JwtInv`). *Degradation and regions*: a deployment is healthy unless
it is the first of a region marked unhealthy (`RegionsInv`); that `select_provider`
and `failover` return the nearest and heaviest follows from an order on the
deployments, whose least element exists by induction (`HeaviestOf`,
`FirstExists`). *Scaling advisor*: for every start of a window, what the snapshots
attribute to it is at most what the requests in it have cost (`AdvisorInv`): a
request counts from the snapshot it went into, and the snapshots that are trimmed
take theirs with them, so that only this direction is kept. From `ResilienceInv` follow
`QueuesCorrect`, `StepsKept`, `ChoicesCorrect` and `ResilienceTypes`.

**WorkProofs.** *Worker pool* (`JobsSafe`): `Sound` is stated on a table, a queue
and a crew of workers rather than on the variables, because one pass of a worker
through its loop ends a job, posts, and takes the next in one stretch; each part
keeps `Sound` of the intermediate tables. A pending job is in the queue and one in
progress is held, none twice or both, which a bare `InOnePlace` does not say of
jobs that were never submitted. It is stated of any crew, so that a start over a waiting
stop, which adds workers to it, keeps it (`StartKeeps`). *Batch manager* (`BatchesSafe`): the counts of the
batch, the outputs so far and the positions of its tasks account for one another
(`Accounted`). *Operators* (`OperatorsSafe`): status, phase and generation of an
object are in step (`InStep`); a decision that is still to be applied lies within the
bounds it was taken under, and as long as the object it was taken of is the one the
operator holds, these are the bounds in force (`SoundDecision`), which a manifest or a
deletion marks on every decision about the object before (`ReplacedKeeps`); and no time
of a scaling lies in the future; the convergence of one pass needs only the types. *Secrets* (`SecretsSafe`): every cached entry and
every loaded value was current until within its time to live, and two values of
one secret differ only if they were read at different times (`SecretsInv`).

**EventsProofs.** *Logs*: a row that is due has been seen, or as many newer rows
stand before it as the walk has skipped (`Reachable`), which is what an offset
means while rows come and go. *Senders*: each event that was taken is in exactly
one of queue, batch, done, failed and lost, and for the exporters, whose order
matters, what was received precedes what is carried, which precedes what is queued
(`DeliveryInv`). *Callbacks*: `GaugeInv` relates the tasks that are still to run
to what metrics, spans and traces have recorded of each request. `EventsToldOnce`
and `BackgroundTypes` follow from `BackgroundInv`.

**ToolsProofs.** `ConnectionsCorrect` follows from `ToolsInv`. *STDIO client*: that the
reader is the last who wrote needs more than the lock. `LockInv` says who holds it and
who waits: the queue names each waiter once, and a waiter is in the queue or is the
holder who has not yet run. `PipesInv` says what is in a pipe: no request twice, none
of a caller that still waits, and that of the reader last, unless its server has
exited. Each stretch between two waits either writes (`SendKeeps`), or ends a call
(`LeaveKeeps`), or cuts a pipe (`ExitKeeps`), and the actions are these one after the
other. *Registry*: every open connection is a server's or one that was replaced, and a
caller that waits for a connection waits for a server that holds one (`RegistryInv`);
so a shutdown, after the last caller, leaves none. `CutAfterServer` is the fact about
names: the first separator of a tool's full name stands after the server's own name
when that has none in it and does not end in half of one. *Agents*: what was posted
was posted to an agent that had connected, and what lost its answer has ended
(`AgentsInv`). *Plugins*: of the plugins of one name the last is registered, so its own
setup is the last that is done for the name, and the status of its entry is the outcome
of that one (`PluginsInv`).

**ContentProofs.** What is decided from what was recorded; all from `ContentInv`.
*Faults* (`FaultsReachRouter`, `ErrInv`): what each of the seven adapters raises for an
answer, or fails to raise for a body it cannot read, is followed through `raised`; that
the models before the one that was found cooling down are tried needs that a model that
was left has had all its attempts, or an error that is not tried again, which was its
last; the failures that other requests add change only where the chain ends. *Semantic router* (`RoutingExplained`, `SrInv`): an entry of the cache comes from
the keywords of some text with its key or from the classifier's answer about one, a
question is asked by an earlier call, and the cache is over its size by at most the
answers of the classifier, whose entries are added without trimming. *Prompts*
(`PhInv`): the current text is that of the last version, and nothing refers to a
template that was not created. *Playground* (`PgInv`): in a session, the answers and the
questions that wait for one are together at most the questions; this counts calls by
session and phase, and `Busy` says how the count moves when one of them does.
*Benchmark* (`BeInv`): the results for a model and a sample are the places of the run
before its position that bear that name, which counts a model that is listed twice
twice. The summary of a model is a loop over its results, one model's average is below
another's exactly if their sums times the other's count are, and domination is a strict
order on finitely many models, so that what is not on the frontier is dominated by what
is (`FrontierIs`). *ROUGE-L* (`TmInv`): the previous row and the part of the current one
that is filled hold, at each place, the greatest number of tokens in common
(`InCommon`), which the three cases of `next_row` keep: a common choice ends in both
last tokens, or does without one of them. *Overlap*: the clipped counts of two texts,
gram by gram, count one set, the occurrences by number that both have, which is the same
from either side (`OverlapIs`). `EvidenceKept` is the theorem about the hub and
benchmark runs, its action properties (`VersionsImmutable`, `EndedTakesNoQuestions`)
included.

**ComputedProofs.** What is computed is what its definition says: `ComputedCorrect`, from
`ComputedInv`. *Transforms* (`TpInv`): the messages are the client's with some more
in front of or behind turns; what `Only` selects from a list is followed through every
way of inserting into it, and a system message goes behind the last one or in front,
so that the leading ones stay leading until an enrichment appends. *Conversation*:
`ToolTrafficKept` is about a translation message by message; what each message becomes
is compared with what was asked of it, and the pieces are put together again by
the lemmas on `FlattenSeq`. *Stream* (`PsInv`): the invariant says where the stream is
on the run of the *whole* answer's events, and that the decoder and the joined answer
are what the run has at that place. The run (`RunIs`) is a function from the places
of the events to decoder and answer; its values at the ends of blocks are known by
climbing block by block, where inside a block of a call the arguments so far are
the fragments so far (`SoFar`), while a block of text adds its fragments to the text;
and behind the last block the stop ends both. So the end of the run is the answer put
together from the blocks at once, which is what `response_to_openai` makes, adapter by
adapter (Anthropic and Bedrock give a call without arguments none, Gemini an empty
one; a packed text is one event, of which Gemini's decoder passes on the last part, so
that only its calls are claimed).
`ToolTypes` takes the types of `MCTools` from the three invariants of its components.

**How the proofs count and repeat.** Cardinalities go through the library's
theorems on finite sets, intervals and bijections. What is computed step by step
(a loop over a queue, a sum, the least of an order) is written as a recursive
function, and what it returns is proved by the *least counterexample*: the lemma
`LeastOf` or `LeastExists`, from the well-foundedness of the naturals, gives the smallest number in
a non-empty set, and there the step contradicts it; a function with the recursive
equation is first shown to exist by climbing from each length to the next. This
replaces the induction theorems, which take an operator as a parameter.

**Only model-checked.** The liveness properties, which need fairness and `ENABLED`:
`EverythingEnds`, `ComesBack`, `WorkEnds`, `CallsEnd`. Every invariant and every action
property that a passing run checks is proved as well.

## 5. What is not modelled

Token counts and prices; the payloads of embeddings, images, audio and reranking;
the sums of reports; forecasts, latencies and error rates of the scaling advisor;
`evaluation/regression.py` and the judge, `hub/model_hub.py`, the text functions of
the post-processor, `key_scoping.py`, `mtls.py` and `token_exchange.py` (each a
comparison or a single exchange that keeps no state); the SDK calls of secret
managers, exporters and the Redis server, whose promises the models assume; the
database engine and its migrations; the admin UI, the CLI and the deployment
files. In the modelled parts: logging, the choices of the latency, cost and
weighted strategies (any deployment may be picked there), attributes of spans and
payloads of events, the statistics methods, token limits (no caller records a
token), the public methods nothing calls (`PROJECT.json` names them component by
component), and jitter and length of sleeps, which end at any time.

## 6. Plan

1. An abstract cache (a table per tenant) and the refinement of it by
   `Completion`; the breaker beside the region router, once a request path uses
   both.
2. The Redis backend of the cache with its expiry, the token exchange, the
   regression report.
3. Requests that hold the database session across a reload.
