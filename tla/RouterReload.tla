---------------------------- MODULE RouterReload ----------------------------
(* What a configuration reload does to the HTTP clients of the provider      *)
(* adapters: it swaps in a new router and closes the old one's clients in a   *)
(* task nobody waits for, while requests that hold the old router go on       *)
(* (proxy/routes/config.py, router/router.py, providers/base.py).             *)
EXTENDS Integers, Sequences, SequencesExt, FiniteSets

CONSTANTS RrDeployments, \* deployments of every configuration
          RrRequests,    \* requests that may overlap
          MaxReloads,    \* bound: reloads of a behaviour
          MaxClients     \* bound: HTTP clients ever created

ASSUME RrAssumption == MaxReloads \in Nat

Routers == 0 .. MaxReloads

VARIABLES rr_current, \* state.router
          rr_cache,   \* _provider_cache of each router, in insertion order
          rr_client,  \* the _client of each router's provider, 0 for None
          rr_opened,  \* the HTTP clients created, each with its owner and whether it is open
          rr_closer,  \* where the aclose() of each router is
          rr_request, \* the router each request holds, none between requests
          rr_late     \* routers a request used after their aclose() had begun

rrvars == <<rr_current, rr_cache, rr_client, rr_opened, rr_closer, rr_request, rr_late>>

NoRouter == MaxReloads + 1

RrInit ==
    /\ rr_current = 0
    /\ rr_cache = [g \in Routers |-> <<>>]
    /\ rr_client = [g \in Routers |-> [d \in RrDeployments |-> 0]]
    /\ rr_opened = <<>>
    /\ rr_closer = [g \in Routers |-> [at |-> "none", pos |-> 0, size |-> 0]]
    /\ rr_request = [r \in RrRequests |-> NoRouter]
    /\ rr_late = {}

(* A request takes the router once and keeps it.                              *)
TakeRouter(r) ==
    /\ rr_request[r] = NoRouter
    /\ rr_request' = [rr_request EXCEPT ![r] = rr_current]
    /\ UNCHANGED <<rr_current, rr_cache, rr_client, rr_opened, rr_closer, rr_late>>

usable(c) == c # 0 /\ rr_opened[c].open

(* One attempt: _make_provider() caches the provider, and its client property *)
(* creates an HTTP client when there is none or it is closed.                 *)
CallProvider(r, d) ==
    LET g == rr_request[r]
    IN /\ g # NoRouter
       /\ rr_cache' = [rr_cache EXCEPT ![g] = IF d \in Range(@) THEN @ ELSE Append(@, d)]
       /\ rr_late' = IF rr_closer[g].at = "none" THEN rr_late ELSE rr_late \cup {g}
       /\ IF usable(rr_client[g][d]) THEN UNCHANGED <<rr_client, rr_opened>>
          ELSE /\ Len(rr_opened) < MaxClients
               /\ rr_opened' = Append(rr_opened, [router |-> g, open |-> TRUE])
               /\ rr_client' = [rr_client EXCEPT ![g][d] = Len(rr_opened) + 1]
       /\ UNCHANGED <<rr_current, rr_closer, rr_request>>

RequestEnds(r) ==
    /\ rr_request[r] # NoRouter
    /\ rr_request' = [rr_request EXCEPT ![r] = NoRouter]
    /\ UNCHANGED <<rr_current, rr_cache, rr_client, rr_opened, rr_closer, rr_late>>

(* A plausible bug: the router is read after it was replaced.                 *)
rebuild_router_new ==
    /\ rr_current < MaxReloads
    /\ rr_current' = rr_current + 1
    /\ rr_closer' = [rr_closer EXCEPT ![rr_current + 1].at = "loop"]
    /\ UNCHANGED <<rr_cache, rr_client, rr_opened, rr_request, rr_late>>

(* _rebuild_router: the new router replaces the old one, whose aclose() is    *)
(* started as a task.                                                         *)
rebuild_router ==
    /\ rr_current < MaxReloads
    /\ rr_current' = rr_current + 1
    /\ rr_closer' = [rr_closer EXCEPT ![rr_current].at = "loop"]
    /\ UNCHANGED <<rr_cache, rr_client, rr_opened, rr_request, rr_late>>

(* The loop of aclose() over the cache. Its first step notes the size of the  *)
(* dictionary, a later one raises when the size has changed; then the task    *)
(* ends with the exception. At the end of the loop the cache is cleared.      *)
(* close() marks the client closed at once and waits for its connections.     *)
NextProvider(g) ==
    LET closer == rr_closer[g]
        size == IF closer.pos = 0 THEN Len(rr_cache[g]) ELSE closer.size
        d == rr_cache[g][closer.pos + 1]
        To(at) == rr_closer' = [rr_closer EXCEPT ![g] = [at |-> at, pos |-> closer.pos + 1,
                                                         size |-> size]]
    IN /\ closer.at = "loop"
       /\ \/ /\ size # Len(rr_cache[g])
             /\ To("raised")
             /\ UNCHANGED <<rr_cache, rr_opened>>
          \/ /\ size = Len(rr_cache[g])
             /\ closer.pos = size
             /\ To("done")
             /\ rr_cache' = [rr_cache EXCEPT ![g] = <<>>]
             /\ UNCHANGED rr_opened
          \/ /\ size = Len(rr_cache[g])
             /\ closer.pos < size
             /\ IF usable(rr_client[g][d])
                THEN /\ To("closing")
                     /\ rr_opened' = [rr_opened EXCEPT ![rr_client[g][d]].open = FALSE]
                ELSE To("loop") /\ UNCHANGED rr_opened
             /\ UNCHANGED rr_cache
       /\ UNCHANGED <<rr_current, rr_client, rr_request, rr_late>>

(* A plausible bug: aclose() returns after the first client it closed.         *)
ProviderClosed_last(g) ==
    LET d == rr_cache[g][rr_closer[g].pos]
    IN /\ rr_closer[g].at = "closing"
       /\ rr_closer' = [rr_closer EXCEPT ![g].at = "done"]
       /\ rr_client' = [rr_client EXCEPT ![g][d] = 0]
       /\ UNCHANGED <<rr_current, rr_cache, rr_opened, rr_request, rr_late>>

(* The connections are gone: close() forgets the client, whichever it is now. *)
ProviderClosed(g) ==
    LET d == rr_cache[g][rr_closer[g].pos]
    IN /\ rr_closer[g].at = "closing"
       /\ rr_closer' = [rr_closer EXCEPT ![g].at = "loop"]
       /\ rr_client' = [rr_client EXCEPT ![g][d] = 0]
       /\ UNCHANGED <<rr_current, rr_cache, rr_opened, rr_request, rr_late>>

RrNext ==
    \/ \E r \in RrRequests : TakeRouter(r) \/ RequestEnds(r) \/ \E d \in RrDeployments : CallProvider(r, d)
    \/ rebuild_router
    \/ \E g \in Routers : NextProvider(g) \/ ProviderClosed(g)

RrSpec == RrInit /\ [][RrNext]_rrvars

-----------------------------------------------------------------------------
RrTypeOK ==
    /\ rr_current \in Routers
    /\ \A g \in Routers :
          /\ rr_cache[g] \in Seq(RrDeployments) /\ IsInjective(rr_cache[g])
          /\ \A d \in RrDeployments : rr_client[g][d] \in 0 .. Len(rr_opened)
          /\ rr_closer[g].at \in {"none", "loop", "closing", "raised", "done"}
    /\ rr_request \in [RrRequests -> 0 .. NoRouter]
    /\ rr_late \subseteq Routers

OpenOf(g) == {c \in DOMAIN rr_opened : rr_opened[c].router = g /\ rr_opened[c].open}

(* A reload never closes a client of the router requests are given            *)
(* (config.py:84).                                                            *)
CurrentUndisturbed ==
    \A c \in DOMAIN rr_opened : rr_opened[c].router = rr_current => rr_opened[c].open

(* When the task that closes a replaced router has ended, no HTTP client of   *)
(* that router is open, unless a request that still held the router used it   *)
(* after the closing had begun; only then may it end with an exception        *)
(* (router.py:273).                                                           *)
ReleasedUnlessUsed ==
    \A g \in Routers : rr_closer[g].at \in {"done", "raised"} /\ g \notin rr_late =>
        rr_closer[g].at = "done" /\ OpenOf(g) = {}
=============================================================================
