------------------------------- MODULE Router -------------------------------
(***************************************************************************)
(* The routing layer of router/router.py with the retry loop of            *)
(* router/retry.py, the fallback chain of router/fallback.py and the       *)
(* cooldown bookkeeping of router/cooldown.py.                             *)
(*                                                                         *)
(* A request is one asyncio task.  The event loop runs a task without      *)
(* interruption from one await to the next, so one action stands for all   *)
(* the code between two awaits: the reply of a provider, the bookkeeping,  *)
(* the step to the next fallback model, the selection of its deployment    *)
(* and the start of the next provider call happen in a single step.  The   *)
(* two places where a task waits are the provider call ("calling") and the *)
(* backoff sleep between two attempts ("sleeping").                        *)
(*                                                                         *)
(* An exception is abstracted to what the code tells apart:                *)
(*   fatal      AuthenticationError, BadRequestError, and a provider's own *)
(*              ModelNotFoundError                                         *)
(*   not_found  ModelNotFoundError raised by _select_deployment            *)
(*   transient  what RetryPolicy.should_retry accepts                      *)
(*   other      every other Exception                                      *)
(*   cancelled  CancelledError or GeneratorExit: the client went away      *)
(***************************************************************************)
EXTENDS Cooldown, Sequences, FiniteSets

CONSTANTS Models,        \* model names, the keys of Router._deployments
          Deployments,   \* identities of the Deployment objects
          Registry,      \* Router._deployments: model -> list of deployments
          Fallbacks,     \* Router._fallbacks: model -> list of models
          MaxRetries,    \* RetryPolicy.max_retries
          Strategy,      \* RouterSettings.routing_strategy
          Requests,      \* identities of the client requests
          MaxTime,       \* bound on the clock
          None           \* no deployment

ASSUME RouterAssumption ==
    /\ Registry \in [Models -> Seq(Deployments)]
    /\ Fallbacks \in [Models -> Seq(Models)]
    /\ MaxRetries \in Nat
    /\ MaxTime \in Nat
    /\ None \notin Deployments
    /\ IsFiniteSet(Requests)

VARIABLES now,        \* time.monotonic()
          cool,       \* the CooldownManager, keyed by Deployment.name
          active,     \* Deployment.active_requests
          counter,    \* RoundRobinStrategy._counter
          providers,  \* _provider_cache: model -> deployment it was built for
          req         \* the client requests

vars == <<now, cool, active, counter, providers, req>>

Kinds    == {"chat", "plain", "stream"}
Errors   == {"fatal", "not_found", "transient", "other", "cancelled"}
Outcomes == {"ok"} \cup Errors

\* The errors a provider call can end with.
CallErrors == Errors \ {"not_found"}

-----------------------------------------------------------------------------
(* The chain of models of one request: primary first, then its fallbacks.  *)
(* Only chat_completion passes its fallbacks to execute_with_fallbacks.    *)

chain(k, m) == <<m>> \o (IF k = "chat" THEN Fallbacks[m] ELSE <<>>)

Chain(r) == chain(req[r].kind, req[r].model)

\* The model the request is trying now; also the cooldown key of its
\* deployment, since _build_registry sets Deployment.name to the model name.
Current(r) == Chain(r)[req[r].idx]

\* Variant: the range of with_retry is one too long.
retries_plus_one(k) == IF k = "stream" THEN 0 ELSE MaxRetries + 1

\* Attempts one model gets: with_retry makes one call and MaxRetries more;
\* a stream is never retried.
retries(k) == IF k = "stream" THEN 0 ELSE MaxRetries

\* Variant: the cooldowns are not looked at.
get_deployments_all(c, m) == Registry[m]

\* get_deployments(): every deployment of a model has the model's name, so
\* a model's deployments are all available or all cooling.
get_deployments(c, m) ==
    IF is_in_cooldown(c, m, now) THEN <<>> ELSE Registry[m]

\* LeastConnectionsStrategy: the first of the deployments with fewest calls.
least_connections(avail, act) ==
    {avail[i] : i \in {i \in DOMAIN avail :
        /\ \A j \in DOMAIN avail : act[avail[i]] <= act[avail[j]]
        /\ \A j \in 1..(i - 1) : act[avail[i]] < act[avail[j]]}}

\* The deployments Strategy.select can return.  Latency, cost and weights
\* are not modelled: those strategies may return any member of the list.
select(avail, act) ==
    IF Strategy = "round-robin" THEN {avail[(counter % Len(avail)) + 1]}
    ELSE IF Strategy = "least-connections" THEN least_connections(avail, act)
    ELSE {avail[i] : i \in DOMAIN avail}

-----------------------------------------------------------------------------
\* RetryPolicy.should_retry
should_retry(o) == o = "transient"

\* Variant: the stream's clause is "except BaseException".
counts_as_failure_base(k, o) == IF k = "stream" THEN o # "ok" ELSE should_retry(o)

\* What the except clauses report to the CooldownManager.  A request with
\* retries counts what it would retry; a stream counts every Exception.
counts_as_failure(k, o) ==
    IF k = "stream" THEN o \notin {"ok", "cancelled"} ELSE should_retry(o)

report(c, k, m, o) ==
    IF o = "ok" THEN record_success(c, m)
    ELSE IF counts_as_failure(k, o) THEN record_failure(c, m, now)
    ELSE c

\* execute_with_fallbacks: these errors leave the chain at once.
stops_chain(o) == o \in {"fatal", "not_found"}

\* The request ends with outcome o.
Finish(r, o) == req' = [req EXCEPT ![r].phase = "done", ![r].last = o,
                                   ![r].dep = None]

\* One attempt of request r, which is q, at model number i of its chain:
\* _select_deployment, the in-flight count, _make_provider and the call.  It
\* starts from the cooldown state c and the in-flight counts act that the
\* code before it, in the same step, has left.
Attempt(r, q, i, n, c, act) ==
    LET m     == chain(q.kind, q.model)[i]
        c2    == expire(c, m, now)
        avail == get_deployments(c2, m)
    IN  /\ cool' = c2
        /\ \/ /\ avail = <<>>
              /\ active' = act
              /\ req' = [req EXCEPT ![r] = [q EXCEPT !.phase = "done",
                             !.idx = i, !.attempt = n, !.dep = None,
                             !.last = "not_found"]]
              /\ UNCHANGED <<counter, providers>>
           \/ /\ avail # <<>>
              /\ \E d \in select(avail, act) :
                   /\ active' = [act EXCEPT ![d] = @ + 1]
                   /\ providers' = IF providers[m] = None
                                   THEN [providers EXCEPT ![m] = d]
                                   ELSE providers
                   /\ req' = [req EXCEPT ![r] = [q EXCEPT !.phase = "calling",
                                  !.idx = i, !.attempt = n, !.dep = d,
                                  !.calls = @ + 1]]
              /\ counter' = IF Strategy = "round-robin" THEN counter + 1
                                                        ELSE counter

\* Variant: the next model goes on with the attempts of the one before.
GiveUpModel_attempts(r, o, c, act) ==
    IF ~stops_chain(o) /\ req[r].idx < Len(Chain(r))
    THEN Attempt(r, [req[r] EXCEPT !.last = o], req[r].idx + 1, req[r].attempt + 1, c, act)
    ELSE /\ cool' = c
         /\ active' = act
         /\ Finish(r, o)
         /\ UNCHANGED <<counter, providers>>

\* The current model of r has ended with error o, raised out of with_retry.
\* execute_with_fallbacks goes on with the next model of the chain, also
\* when the error is a cancellation, or lets the error out.
GiveUpModel(r, o, c, act) ==
    IF ~stops_chain(o) /\ req[r].idx < Len(Chain(r))
    THEN Attempt(r, [req[r] EXCEPT !.last = o], req[r].idx + 1, 0, c, act)
    ELSE /\ cool' = c
         /\ active' = act
         /\ Finish(r, o)
         /\ UNCHANGED <<counter, providers>>

-----------------------------------------------------------------------------
NewRequest == [phase |-> "new", kind |-> "chat", model |-> None, idx |-> 0,
               attempt |-> 0, dep |-> None, calls |-> 0, last |-> "none"]

Init ==
    /\ now = 0
    /\ cool = [m \in Models |-> Healthy]
    /\ active = [d \in Deployments |-> 0]
    /\ counter = 0
    /\ providers = [m \in Models |-> None]
    /\ req = [r \in Requests |-> NewRequest]

\* chat_completion, chat_completion_stream, or one of embeddings,
\* image_generation, rerank, audio_transcription and audio_speech.
Submit(r) ==
    /\ req[r].phase = "new"
    /\ \E k \in Kinds, m \in Models :
         Attempt(r, [NewRequest EXCEPT !.kind = k, !.model = m], 1, 0, cool, active)
    /\ UNCHANGED now

\* The provider call of r ends with outcome o: attempt()'s or
\* _stream_completion's except and finally clauses, with_retry's handler and
\* what follows in execute_with_fallbacks.
Return(r, o) ==
    LET m   == Current(r)
        d   == req[r].dep
        c   == report(cool, req[r].kind, m, o)
        act == [active EXCEPT ![d] = IF @ > 0 THEN @ - 1 ELSE 0]
    IN  /\ req[r].phase = "calling"
        /\ \/ /\ o = "ok"
              /\ cool' = c
              /\ active' = act
              /\ Finish(r, o)
              /\ UNCHANGED <<counter, providers>>
           \/ /\ should_retry(o) /\ req[r].attempt < retries(req[r].kind)
              /\ cool' = c
              /\ active' = act
              /\ req' = [req EXCEPT ![r].phase = "sleeping", ![r].last = o,
                                      ![r].dep = None]
              /\ UNCHANGED <<counter, providers>>
           \/ /\ o # "ok"
              /\ ~(should_retry(o) /\ req[r].attempt < retries(req[r].kind))
              /\ GiveUpModel(r, o, c, act)
        /\ UNCHANGED now

Reply(r)  == \E o \in {"ok"} \cup (CallErrors \ {"cancelled"}) : Return(r, o)

\* Variant: the in-flight count is decremented in the except clause of
\* Exception and not in the finally clause.
CancelCall_leak(r) ==
    /\ req[r].phase = "calling"
    /\ GiveUpModel(r, "cancelled", cool, active)
    /\ UNCHANGED now

\* The client disconnects while the call is in flight.
CancelCall(r) == Return(r, "cancelled")

\* Variants: the attempts are not counted; the loop leaves the last one out.
Wake_uncounted(r) ==
    /\ req[r].phase = "sleeping"
    /\ Attempt(r, req[r], req[r].idx, req[r].attempt, cool, active)
    /\ UNCHANGED now

Wake_short(r) ==
    /\ req[r].phase = "sleeping"
    /\ req[r].attempt + 1 < retries(req[r].kind)
    /\ Attempt(r, req[r], req[r].idx, req[r].attempt + 1, cool, active)
    /\ UNCHANGED now

\* The backoff sleep of with_retry ends; the next attempt selects again.
Wake(r) ==
    /\ req[r].phase = "sleeping"
    /\ Attempt(r, req[r], req[r].idx, req[r].attempt + 1, cool, active)
    /\ UNCHANGED now

\* The client disconnects during the sleep: CancelledError leaves with_retry.
CancelSleep(r) ==
    /\ req[r].phase = "sleeping"
    /\ GiveUpModel(r, "cancelled", cool, active)
    /\ UNCHANGED now

\* CooldownManager.reset: an operator clears a model by hand.
Reset(m) ==
    /\ cool[m] # Healthy
    /\ cool' = record_success(cool, m)
    /\ UNCHANGED <<now, active, counter, providers, req>>

\* A caller of the public get_deployments or is_in_cooldown, outside of any
\* request: the expired entry is dropped.
Expire(m) ==
    /\ expire(cool, m, now) # cool
    /\ cool' = expire(cool, m, now)
    /\ UNCHANGED <<now, active, counter, providers, req>>

Tick ==
    /\ now < MaxTime
    /\ now' = now + 1
    /\ UNCHANGED <<cool, active, counter, providers, req>>

RequestStep(r) == Submit(r) \/ Reply(r) \/ CancelCall(r) \/ Wake(r) \/ CancelSleep(r)

Next ==
    \/ \E r \in Requests : RequestStep(r)
    \/ \E m \in Models : Reset(m) \/ Expire(m)
    \/ Tick

Spec == Init /\ [][Next]_vars

\* A provider call ends: the HTTP client has connect, read, write and pool
\* timeouts (providers/base.py).  A sleep ends.  Nothing forces a client to
\* submit, to disconnect, or time to pass.
FairSpec == Spec /\ \A r \in Requests : WF_vars(Reply(r)) /\ WF_vars(Wake(r))

-----------------------------------------------------------------------------
Request == [phase : {"new", "calling", "sleeping", "done"}, kind : Kinds,
            model : Models \cup {None}, idx : Nat, attempt : Nat,
            dep : Deployments \cup {None}, calls : Nat, last : Outcomes \cup {"none"}]

\* Type invariant.
TypeOK ==
    /\ now \in Nat
    /\ cool \in [Models -> CooldownState]
    /\ active \in [Deployments -> Nat]
    /\ counter \in Nat
    /\ providers \in [Models -> Deployments \cup {None}]
    /\ req \in [Requests -> Request]

\* Where a request is in its chain: the loop of execute_with_fallbacks stays
\* inside models_to_try, the loop of with_retry inside its range, and a
\* request holds a deployment of its current model exactly while it calls.
Placed(q) ==
    /\ q.phase # "new" => /\ q.model \in Models
                          /\ q.idx \in 1..Len(chain(q.kind, q.model))
                          /\ q.attempt \in 0..retries(q.kind)
    /\ q.phase = "sleeping" => q.attempt < retries(q.kind)
    /\ q.phase = "calling" => \E i \in DOMAIN Registry[chain(q.kind, q.model)[q.idx]] :
                                 q.dep = Registry[chain(q.kind, q.model)[q.idx]][i]
    /\ q.phase # "calling" => q.dep = None

PositionOK == \A r \in Requests : Placed(req[r])

\* The requests whose call is in flight at deployment d.
InFlight(d) == {r \in Requests : req[r].phase = "calling" /\ req[r].dep = d}

\* Deployment.active_requests, on which LeastConnectionsStrategy relies, is
\* the number of calls in flight, whatever mix of successes, errors, retries,
\* fallbacks and cancellations has happened; in particular the clamp
\* max(0, active_requests - 1) never hides an unmatched decrement.
ActiveMatchesInFlight == \A d \in Deployments : active[d] = Cardinality(InFlight(d))

\* A model is cooling exactly when its counted failures have reached the
\* threshold, and never for longer than cooldown_seconds from now: late
\* failures, successes, expiry and manual resets, in any order, leave the two
\* dictionaries of CooldownManager consistent.
CooldownConsistent ==
    \A m \in Models :
        /\ cool[m].until # NotCooling <=> cool[m].fails >= AllowedFails
        /\ cool[m].until <= now + CooldownSeconds

\* The calls a request has made never exceed what its position in the chain
\* allows, so a request makes at most (max_retries + 1) calls per model of
\* its chain, also when it is cancelled and the chain goes on regardless.
CallsWithinBudget ==
    \A r \in Requests : req[r].phase # "new" =>
        req[r].calls <= (req[r].idx - 1) * (MaxRetries + 1) + req[r].attempt + 1

\* A provider is called only when its model is not cooling at that moment,
\* the failure recorded earlier in the same step included: a chain that comes
\* back to a model that has just crossed the threshold does not call it.
CallsRespectCooldown ==
    \A r \in Requests : req'[r].calls > req[r].calls =>
        ~is_in_cooldown(cool', Current(r)', now)

NoCallIntoCooldown == [][CallsRespectCooldown]_vars

\* A client that disconnects never brings a model closer to its cooldown
\* (the comment in _stream_completion), also when the cancelled task goes on
\* with the next model of its chain.
AbortNeverCounts ==
    [][\A r \in Requests : (CancelCall(r) \/ CancelSleep(r)) =>
          \A m \in Models : cool'[m].fails <= cool[m].fails]_vars

\* Every request that was submitted gets its answer or its error, whatever
\* the other requests, the cooldowns and the clients do.
EveryRequestEnds ==
    \A r \in Requests : (req[r].phase # "new") ~> (req[r].phase = "done")
-----------------------------------------------------------------------------
(* What the documentation says and the code does not do.                   *)

\* chat_completion "falls back through the configured fallback chain if all
\* retry attempts on the primary model fail": a chat request that has called
\* its primary and ends with an error that is not the client's fault has
\* tried its whole chain.
FallbackAfterFailure ==
    \A r \in Requests :
        (/\ req[r].phase = "done" /\ req[r].kind = "chat" /\ req[r].calls > 0
         /\ req[r].last \notin {"ok", "fatal"}) => req[r].idx = Len(Chain(r))

\* _make_provider returns "the (cached) provider instance for a deployment",
\* one that is "built once per deployment": a call in flight at a deployment
\* uses the client that was built with that deployment's key and base URL.
OwnClient ==
    \A r \in Requests : req[r].phase = "calling" => providers[Current(r)] = req[r].dep
-----------------------------------------------------------------------------
(***************************************************************************)
(* The router implements BoundedDispatch: the refinement mapping.          *)
(***************************************************************************)

Stage(r) == IF req[r].phase = "new" THEN "idle"
            ELSE IF req[r].phase = "done" THEN "closed"
            ELSE "open"

\* The calls left: those of the models still ahead in the chain and the
\* retries left at the current model.
Credit(r) ==
    IF Stage(r) = "open"
    THEN (Len(Chain(r)) - req[r].idx) * (retries(req[r].kind) + 1)
         + (retries(req[r].kind) - req[r].attempt)
    ELSE 0

Answer(r) == IF req[r].phase = "done" THEN req[r].last ELSE "none"

Dispatch == INSTANCE BoundedDispatch
    WITH Clients <- Requests,
         Answers <- Outcomes,
         Refusal <- "not_found",
         stage   <- [r \in Requests |-> Stage(r)],
         credit  <- [r \in Requests |-> Credit(r)],
         made    <- [r \in Requests |-> req[r].calls],
         answer  <- [r \in Requests |-> Answer(r)]

\* The router, with its retry and fallback loops, its cooldowns and its
\* clients that may disconnect at any await, implements BoundedDispatch: each
\* further provider call of a request strictly uses up a finite credit, a
\* request is answered once, and an answer is never replaced.
ImplementsDispatch == Dispatch!DSpec
=============================================================================
