----------------------------- MODULE Application -----------------------------
(* The application: its middleware, and its start-up and shutdown.          *)
EXTENDS Integers, Sequences, FiniteSets, SequencesExt

(* The way of an HTTP request through the middleware of the application:      *)
(* authentication, rate limiting, address filter, size limit, and the route's *)
(* handler (proxy/app.py, proxy/middleware/). The layer added last runs first.*)

CONSTANTS AxRequests, \* requests that may overlap
          Shapes,     \* what a request may be: [path, master, key, jwt, cookie, ip, declared, size]
          Settings,   \* what the application may be set up with: [limiter, allowed, blocked]
          SizeLimit,  \* max_request_body_mb
          KeyLimit    \* the requests a key may make in the window

ASSUME AxAssumption ==
    /\ IsFiniteSet(AxRequests) /\ SizeLimit \in Nat
    /\ \A s \in Shapes : s.size \in Nat

VARIABLES ax_setting, \* the settings of this application
          ax_request, \* each request: its shape, the next layer, its context, its answer
          ax_counted, \* who each request was counted for, in the window
          ax_seen     \* the layers that ran for each request

axvars == <<ax_setting, ax_request, ax_counted, ax_seen>>

Anonymous == [method |-> "none", key |-> "none"]

NoShape == [path |-> "none"]

AxInit ==
    /\ ax_setting \in Settings
    /\ ax_request = [r \in AxRequests |-> [shape |-> NoShape, layer |-> 0, context |-> Anonymous,
                                           answer |-> "none"]]
    /\ ax_counted = <<>>
    /\ ax_seen = [r \in AxRequests |-> {}]

(* A plausible bug: the rate limit is added after the authentication.         *)
Layers_limit_first == <<"rate_limit", "auth", "ip_filter", "size_limit", "handler">>

(* The layers in the order they run; those that change nothing of what is     *)
(* modelled (request id, logging, robots, CORS) are left out.                 *)
Layers == <<"auth", "rate_limit", "ip_filter", "size_limit", "handler">>

Arrive(r, shape) ==
    /\ ax_request[r].answer = "none" /\ ax_request[r].layer = 0
    /\ ax_request' = [ax_request EXCEPT ![r].shape = shape, ![r].layer = 1]
    /\ UNCHANGED <<ax_setting, ax_counted, ax_seen>>

At_layer(r, name) ==
    /\ ax_request[r].answer = "none"
    /\ ax_request[r].layer \in DOMAIN Layers
    /\ Layers[ax_request[r].layer] = name
    /\ ax_seen' = [ax_seen EXCEPT ![r] = @ \cup {name}]

Pass(r) == ax_request' = [ax_request EXCEPT ![r].layer = @ + 1]

Answer_with(r, status) == ax_request' = [ax_request EXCEPT ![r].answer = status]

(* _resolve_auth: the master key, else the API key, else the JWT, both in the *)
(* bearer token, else the cookie of a session. A look-up that raises counts   *)
(* as one that found nothing.                                                 *)
_resolve_auth(s, reachable) ==
    LET valid(m) ==
          CASE m = "master_key" -> s.master
            [] m = "api_key" -> s.key # "none" /\ reachable
            [] m = "jwt" -> s.jwt
            [] m = "sso" -> s.cookie
        found == SelectSeq(<<"master_key", "api_key", "jwt", "sso">>, valid)
    IN IF found = <<>> THEN Anonymous
       ELSE [method |-> Head(found), key |-> IF Head(found) = "api_key" THEN s.key ELSE "none"]

(* AuthMiddleware: never an answer of its own. The database may be out of     *)
(* reach while it looks a key up.                                             *)
Authenticate(r) ==
    /\ At_layer(r, "auth")
    /\ \E reachable \in BOOLEAN :
          LET context == IF ax_request[r].shape.path = "public" THEN Anonymous
                         ELSE _resolve_auth(ax_request[r].shape, reachable)
          IN ax_request' = [ax_request EXCEPT ![r].layer = @ + 1, ![r].context = context]
    /\ UNCHANGED <<ax_setting, ax_counted>>

CountOf(key) == Len(SelectSeq(ax_counted, LAMBDA k : k = key))

(* RateLimitMiddleware: only the paths that reach a model are limited; the    *)
(* check and the record are one step of the event loop.                       *)
Limit(r) ==
    LET key == ax_request[r].context.key
    IN /\ At_layer(r, "rate_limit")
       /\ IF ~ax_setting.limiter \/ ax_request[r].shape.path # "model"
          THEN Pass(r) /\ UNCHANGED ax_counted
          ELSE IF key # "none" /\ CountOf(key) >= KeyLimit
          THEN Answer_with(r, "429") /\ UNCHANGED ax_counted
          ELSE Pass(r) /\ ax_counted' = Append(ax_counted, key)
       /\ UNCHANGED ax_setting

(* IPFilterMiddleware: the block list first, then the allow list if any.      *)
allowed_in(ip) ==
    ip \notin ax_setting.blocked /\ (ax_setting.allowed = {} \/ ip \in ax_setting.allowed)

Filter(r) ==
    /\ At_layer(r, "ip_filter")
    /\ IF allowed_in(ax_request[r].shape.ip) THEN Pass(r) ELSE Answer_with(r, "403")
    /\ UNCHANGED <<ax_setting, ax_counted>>

(* A plausible bug: the body is not measured when its length was declared.    *)
Measure_declared(r) ==
    LET s == ax_request[r].shape
    IN /\ At_layer(r, "size_limit")
       /\ IF s.declared > SizeLimit \/ (s.declared = 0 /\ s.size > SizeLimit)
          THEN Answer_with(r, "413") ELSE Pass(r)
       /\ UNCHANGED <<ax_setting, ax_counted>>

(* RequestSizeLimitMiddleware: the declared length first (0 when there is     *)
(* none or it is no number), then the body itself.                            *)
Measure(r) ==
    LET s == ax_request[r].shape
    IN /\ At_layer(r, "size_limit")
       /\ IF s.declared > SizeLimit \/ s.size > SizeLimit
          THEN Answer_with(r, "413") ELSE Pass(r)
       /\ UNCHANGED <<ax_setting, ax_counted>>

Handle(r) ==
    /\ At_layer(r, "handler")
    /\ Answer_with(r, "200")
    /\ UNCHANGED <<ax_setting, ax_counted>>

(* The window passes: the oldest count is forgotten.                          *)
WindowMoves ==
    /\ ax_counted # <<>>
    /\ ax_counted' = Tail(ax_counted)
    /\ UNCHANGED <<ax_setting, ax_request, ax_seen>>

AxNext ==
    \/ \E r \in AxRequests :
          \/ \E s \in Shapes : Arrive(r, s)
          \/ Authenticate(r) \/ Limit(r) \/ Filter(r) \/ Measure(r) \/ Handle(r)
    \/ WindowMoves

AxSpec == AxInit /\ [][AxNext]_axvars

-----------------------------------------------------------------------------
AxTypeOK ==
    /\ ax_setting \in Settings
    /\ \A r \in AxRequests : LET q == ax_request[r] IN
          /\ q.shape \in Shapes \cup {NoShape}
          /\ q.layer \in 0 .. Len(Layers)
          /\ q.answer \in {"none", "200", "403", "413", "429"}
    /\ Len(ax_counted) <= Cardinality(AxRequests)

(* No handler runs for a body over the limit, whatever length was declared,   *)
(* nor for an address the lists refuse (size_limit.py:94, ip_filter.py:119).  *)
HandledScreened ==
    \A r \in AxRequests : "handler" \in ax_seen[r] =>
        ax_request[r].shape.size <= SizeLimit /\ allowed_in(ax_request[r].shape.ip)

(* The holder of a key is held to the limit of that key: of the requests with *)
(* the key as their only credential, none is counted for nobody unless the    *)
(* key could not be looked up (app.py:183).                                   *)
CountedForKey ==
    [][\A r \in AxRequests :
          Len(ax_counted') > Len(ax_counted) /\ ax_request'[r] # ax_request[r] =>
              Last(ax_counted') = ax_request'[r].context.key
              /\ "auth" \in ax_seen'[r]]_axvars

(* Violated: the address filter runs before the authentication (app.py:165).  *)
RejectedBeforeAuth ==
    \A r \in AxRequests : ax_request[r].answer = "403" => "auth" \notin ax_seen[r]

-----------------------------------------------------------------------------
(* The start-up and the shutdown of the application (proxy/app.py): what each *)
(* step sets up, which failures it survives, what stays open.                 *)

CONSTANTS Configurations, \* the sets of optional parts a configuration may enable
          CacheBackends,  \* "redis" or "memory"
          AlMaxFailures   \* bound: steps that fail in one behaviour

(* A step of _startup: its part, whether an exception in it is caught there,  *)
(* and the resource it opens, which stays open until it is closed.            *)
Part(part, caught, opens) == [part |-> part, caught |-> caught, opens |-> opens]

Nothing == "nothing"

CoreSteps ==
    << Part("database", TRUE, "engine"), Part("redis", TRUE, "redis"),
       Part("router", FALSE, "clients"), Part("mcp", FALSE, "mcp"),
       Part("a2a", FALSE, "a2a") >>

RoutingSteps ==
    << Part("semantic_routing", FALSE, Nothing), Part("request_transform", FALSE, Nothing),
       Part("scaling", FALSE, Nothing), Part("plugins", FALSE, "plugins"),
       Part("resilience", FALSE, Nothing), Part("webhook_auth", FALSE, "webhook_client"),
       Part("token_exchange", FALSE, "exchange_client") >>

ServiceSteps ==
    << Part("batch", FALSE, "workers"), Part("hub", FALSE, Nothing),
       Part("evaluation", FALSE, Nothing), Part("k8s_operator", FALSE, Nothing),
       Part("cache", FALSE, "cache_redis") >>

EdgeSteps ==
    << Part("callbacks", FALSE, Nothing), Part("rate_limit", FALSE, Nothing),
       Part("guardrails", FALSE, Nothing) >>

(* A plausible bug: the callbacks are set up before what they call.           *)
Steps_early == EdgeSteps \o CoreSteps \o RoutingSteps \o ServiceSteps

Steps == CoreSteps \o RoutingSteps \o ServiceSteps \o EdgeSteps

(* Parts that every configuration has.                                        *)
Always == {"database", "router", "callbacks"}

ASSUME LifecycleAssumption ==
    /\ \A c \in Configurations : \A p \in c : \E i \in DOMAIN Steps : Steps[i].part = p
    /\ AlMaxFailures \in Nat

VARIABLES configured, \* the parts the configuration enables
          backend_is, \* the type of the cache backend
          phase,      \* starting, serving, stopping, stopped, or the end of it that an
                      \* exception made: failed in start-up, aborted in the shutdown
          next_step,  \* the step that is next, of the start-up or of the shutdown
          present,    \* the attributes of AppState that are set
          open,       \* the resources that are open
          called_back, \* who is registered with the CallbackManager
          unclosed,   \* the resources whose closing raised
          failures    \* how many steps failed

alvars == <<configured, backend_is, phase, next_step, present, open, called_back, unclosed, failures>>

AlInit ==
    /\ configured \in {Always \cup c : c \in Configurations}
    /\ backend_is \in CacheBackends
    /\ phase = "starting" /\ next_step = 1
    /\ present = {} /\ open = {} /\ called_back = {} /\ unclosed = {} /\ failures = 0

Opened(step) ==
    IF step.opens = "cache_redis" /\ backend_is = "memory" THEN {} ELSE {step.opens} \ {Nothing}

(* The CallbackManager gets the spend log when there is a database engine and *)
(* the callback hooks of the plugins when there is a plugin manager.          *)
Registered ==
    {"spend_log" : d \in present \cap {"database"}} \cup {"plugin" : d \in present \cap {"plugins"}}

Advance_to(done) == IF next_step = Len(done) THEN 1 ELSE next_step + 1

(* A step of a part that is configured succeeds; others are skipped.          *)
StepDone ==
    LET step == Steps[next_step]
    IN /\ phase = "starting"
       /\ IF step.part \in configured
          THEN /\ present' = present \cup {step.part}
               /\ open' = open \cup Opened(step)
               /\ called_back' = IF step.part = "callbacks" THEN Registered ELSE called_back
          ELSE UNCHANGED <<present, open, called_back>>
       /\ next_step' = Advance_to(Steps)
       /\ phase' = IF next_step = Len(Steps) THEN "serving" ELSE "starting"
       /\ UNCHANGED <<configured, backend_is, unclosed, failures>>

(* A step raises. Where the exception is caught the part stays absent and the *)
(* start-up goes on, but an engine whose tables cannot be created is never    *)
(* disposed. Elsewhere the start-up ends there: the application does not      *)
(* serve, and nothing is shut down.                                           *)
StepFails ==
    LET step == Steps[next_step]
    IN /\ phase = "starting"
       /\ step.part \in configured
       /\ failures < AlMaxFailures /\ failures' = failures + 1
       /\ IF step.caught
          THEN /\ \/ UNCHANGED open
                  \/ step.part = "database" /\ open' = open \cup {"orphan_engine"}
               /\ next_step' = Advance_to(Steps) /\ UNCHANGED phase
          ELSE phase' = "failed" /\ UNCHANGED <<next_step, open>>
       /\ UNCHANGED <<configured, backend_is, present, called_back, unclosed>>

(* Requests make the router's adapters open their HTTP clients; by now they   *)
(* are counted open in any case.                                              *)
Stop ==
    /\ phase = "serving"
    /\ phase' = "stopping"
    /\ UNCHANGED <<configured, backend_is, next_step, present, open, called_back, unclosed,
                   failures>>

(* The steps of _shutdown: the part and what it closes.                       *)
Closing(part, closes) == [part |-> part, closes |-> closes]

(* A plausible bug: the agent gateway is forgotten.                           *)
ShutdownSteps_no_a2a ==
    << Closing("mcp", "mcp"), Closing("plugins", "plugins"), Closing("batch", "workers"),
       Closing("router", "clients"), Closing("redis", "redis"), Closing("database", "engine") >>

ShutdownSteps ==
    << Closing("mcp", "mcp"), Closing("a2a", "a2a"), Closing("plugins", "plugins"),
       Closing("batch", "workers"), Closing("router", "clients"), Closing("redis", "redis"),
       Closing("database", "engine") >>

Next_closing ==
    /\ next_step' = Advance_to(ShutdownSteps)
    /\ phase' = IF next_step = Len(ShutdownSteps) THEN "stopped" ELSE "stopping"

CloseDone ==
    LET step == ShutdownSteps[next_step]
    IN /\ phase = "stopping"
       /\ open' = IF step.part \in present THEN open \ {step.closes} ELSE open
       /\ Next_closing
       /\ UNCHANGED <<configured, backend_is, present, called_back, unclosed, failures>>

(* A step of the shutdown raises: the later ones do not run, unless it is the *)
(* one that closes Redis, whose exceptions are suppressed.                    *)
CloseFails ==
    LET step == ShutdownSteps[next_step]
    IN /\ phase = "stopping"
       /\ step.part \in present
       /\ failures < AlMaxFailures /\ failures' = failures + 1
       /\ unclosed' = unclosed \cup {step.closes}
       /\ IF step.part = "redis" THEN Next_closing
          ELSE phase' = "aborted" /\ UNCHANGED next_step
       /\ UNCHANGED <<configured, backend_is, present, open, called_back>>

AlNext == StepDone \/ StepFails \/ Stop \/ CloseDone \/ CloseFails

AlSpec == AlInit /\ [][AlNext]_alvars

-----------------------------------------------------------------------------
AlTypeOK ==
    /\ phase \in {"starting", "serving", "stopping", "stopped", "failed", "aborted"}
    /\ next_step \in 1 .. Len(Steps)
    /\ present \subseteq configured
    /\ failures \in 0 .. AlMaxFailures
    /\ unclosed # {} => phase \in {"stopping", "stopped", "aborted"}

(* While the application serves, every part that is configured is there       *)
(* except the database and Redis, whose failures the start-up survives; spend *)
(* is logged exactly when there is a database, and plugins are called back    *)
(* exactly when they were loaded (app.py:574, app.py:601).                    *)
ServesWhatItHas ==
    phase = "serving" =>
        /\ configured \ present \subseteq {"database", "redis"}
        /\ "spend_log" \in called_back <=> "database" \in present
        /\ "plugin" \in called_back <=> "plugins" \in present

(* What no step of the shutdown closes: the Redis of the cache, the clients   *)
(* of the two authenticators, and the engine of a failed database step.       *)
NeverClosed == {"cache_redis", "webhook_client", "exchange_client", "orphan_engine"}

(* Whatever start-up steps failed and were survived, a shutdown that comes to *)
(* its end leaves nothing else open but what raised when it was closed, and   *)
(* one that an exception ends leaves open only what it would have closed      *)
(* after that (app.py:672).                                                   *)
ShutdownCloses ==
    LET left == open \ (NeverClosed \cup unclosed)
    IN /\ phase = "stopped" => left = {}
       /\ phase = "aborted" => \A o \in left :
             \E j \in DOMAIN ShutdownSteps : j > next_step /\ ShutdownSteps[j].closes = o

(* "Clean up resources on application shutdown." (app.py:673) says it of all  *)
(* there are. It does not hold: the cache has a Redis connection and the two  *)
(* authenticators have HTTP clients of their own that no step closes.         *)
ResourcesCleanedUp == phase = "stopped" => open \subseteq unclosed
=============================================================================
