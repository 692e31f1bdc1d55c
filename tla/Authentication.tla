--------------------------- MODULE Authentication ---------------------------
(* Authentication: single sign-on with sessions, and the advanced helpers.  *)
EXTENDS Integers, Sequences, FiniteSets, SequencesExt

(***************************************************************************)
(* Single sign-on: the SSOManager and providers of auth/sso.py, the        *)
(* SessionManager of auth/session.py and the routes of proxy/routes/sso.py *)
(* between them.  The identity provider is external: it sends a browser    *)
(* back with the state it was given, once or several times, or never.      *)
(*                                                                         *)
(* Session expiry is counted in ticks left; the store drops an expired     *)
(* session when it is looked up or cleaned.                                *)
(***************************************************************************)

CONSTANTS Tokens,      \* states that token_urlsafe() makes
          SsoProviders, \* registered providers
          Oidc,        \* those of type oidc; the others are oauth2
          Callbacks,   \* requests for /sso/callback that may overlap
          SessionTtl   \* session_ttl

ASSUME SignInAssumption ==
    /\ Oidc \subseteq SsoProviders /\ SessionTtl \in Nat \ {0}
    /\ "none" \notin Tokens

VARIABLES discovered,  \* providers whose discovery document was read
          issued,      \* states handed to browsers
          pending,     \* _pending_states: state |-> provider
          login,       \* state |-> where its request for /sso/login is
          callback,    \* per callback: where it is, with which state
          sessions,    \* session, named by the callback that made it |-> ticks left
          ended        \* sessions that were deleted or dropped

sivars == <<discovered, issued, pending, login, callback, sessions, ended>>

SiInit ==
    /\ discovered = {} /\ issued = {} /\ pending = <<>>
    /\ login = [t \in Tokens |-> "none"]
    /\ callback = [c \in Callbacks |-> [at |-> "new", state |-> "none", provider |-> "none"]]
    /\ sessions = <<>> /\ ended = {}

Less(f, S) == [x \in DOMAIN f \ S |-> f[x]]
Plus(f, x, v) == [y \in DOMAIN f \cup {x} |-> IF y = x THEN v ELSE f[y]]

-----------------------------------------------------------------------------
\* GET /sso/login: generate_state() comes first ...
Login(t, p) ==
    /\ login[t] = "none"
    /\ pending' = Plus(pending, t, p)
    /\ login' = [login EXCEPT ![t] = IF p \in Oidc \ discovered THEN "discover" ELSE "redirected"]
    /\ issued' = IF p \in Oidc \ discovered THEN issued ELSE issued \cup {t}
    /\ UNCHANGED <<discovered, callback, sessions, ended>>

\* ... then an OIDC provider is discovered, unless it was, and the browser redirected.
Discovered(t) ==
    /\ login[t] = "discover"
    /\ discovered' = discovered \cup {pending[t]}
    /\ login' = [login EXCEPT ![t] = "redirected"]
    /\ issued' = issued \cup {t}
    /\ UNCHANGED <<pending, callback, sessions, ended>>

\* Discovery fails: 400, and the state stays pending for ever.
DiscoveryFails(t) ==
    /\ login[t] = "discover"
    /\ login' = [login EXCEPT ![t] = "failed"]
    /\ UNCHANGED <<discovered, issued, pending, callback, sessions, ended>>

\* Variant: the state is looked up and not consumed.
Callback_late(c, t) ==
    /\ callback[c].at = "new" /\ t \in issued
    /\ IF t \in DOMAIN pending
       THEN callback' = [callback EXCEPT ![c] = [at |-> "exchange", state |-> t, provider |-> pending[t]]]
       ELSE callback' = [callback EXCEPT ![c].at = "refused"]
    /\ UNCHANGED <<discovered, issued, pending, login, sessions, ended>>

\* GET /sso/callback with a state that was issued: validate_state() consumes it.
Callback(c, t) ==
    /\ callback[c].at = "new" /\ t \in issued
    /\ IF t \in DOMAIN pending
       THEN /\ callback' = [callback EXCEPT ![c] = [at |-> "exchange", state |-> t, provider |-> pending[t]]]
            /\ pending' = Less(pending, {t})
       ELSE callback' = [callback EXCEPT ![c].at = "refused"] /\ UNCHANGED pending
    /\ UNCHANGED <<discovered, issued, login, sessions, ended>>

\* handle_callback(): the code is exchanged and the user looked up; an error, a user
\* without e-mail or, for OIDC, of a domain that is not allowed, is answered with 401.
SignedIn(c) ==
    /\ callback[c].at = "exchange"
    /\ callback' = [callback EXCEPT ![c].at = "authenticated"]
    /\ sessions' = Plus(sessions, c, SessionTtl)
    /\ UNCHANGED <<discovered, issued, pending, login, ended>>

SignInFails(c) ==
    /\ callback[c].at = "exchange"
    /\ callback' = [callback EXCEPT ![c].at = "refused"]
    /\ UNCHANGED <<discovered, issued, pending, login, sessions, ended>>

-----------------------------------------------------------------------------
Live == {c \in DOMAIN sessions : sessions[c] >= 0}

\* get_session() for the cookie of a request: an expired session is dropped.
UseSession(c) ==
    /\ c \in DOMAIN sessions /\ c \notin Live
    /\ sessions' = Less(sessions, {c})
    /\ ended' = ended \cup {c}
    /\ UNCHANGED <<discovered, issued, pending, login, callback>>

\* cleanup_expired(); nothing calls it.
CleanupExpired ==
    /\ sessions' = Less(sessions, DOMAIN sessions \ Live)
    /\ ended' = ended \cup (DOMAIN sessions \ Live)
    /\ UNCHANGED <<discovered, issued, pending, login, callback>>

\* POST /sso/logout.
Logout(c) ==
    /\ c \in DOMAIN sessions
    /\ sessions' = Less(sessions, {c})
    /\ ended' = ended \cup {c}
    /\ UNCHANGED <<discovered, issued, pending, login, callback>>

\* Variant: the session is stored again without a look whether it is there.
RenewSession_blind(c) ==
    /\ callback[c].at = "authenticated"
    /\ sessions' = Plus(sessions, c, SessionTtl)
    /\ UNCHANGED <<discovered, issued, pending, login, callback, ended>>

\* renew_session(); no route calls it.  An expired session is dropped instead.
RenewSession(c) ==
    /\ c \in DOMAIN sessions
    /\ sessions' = IF c \in Live THEN Plus(sessions, c, SessionTtl) ELSE Less(sessions, {c})
    /\ ended' = IF c \in Live THEN ended ELSE ended \cup {c}
    /\ UNCHANGED <<discovered, issued, pending, login, callback>>

\* A session that was given ttl ticks is good at ttl and gone after it.
SiTick ==
    /\ \E c \in DOMAIN sessions : c \in Live
    /\ sessions' = [c \in DOMAIN sessions |-> IF c \in Live THEN sessions[c] - 1 ELSE sessions[c]]
    /\ UNCHANGED <<discovered, issued, pending, login, callback, ended>>

SiNext ==
    \/ \E t \in Tokens :
         \/ \E p \in SsoProviders : Login(t, p)
         \/ Discovered(t) \/ DiscoveryFails(t)
         \/ \E c \in Callbacks : Callback(c, t)
    \/ \E c \in Callbacks :
         \/ SignedIn(c) \/ SignInFails(c)
         \/ UseSession(c) \/ Logout(c) \/ RenewSession(c)
    \/ CleanupExpired
    \/ SiTick

SiSpec == SiInit /\ [][SiNext]_sivars

-----------------------------------------------------------------------------
SiTypeOK ==
    /\ DOMAIN pending \subseteq Tokens /\ issued \subseteq Tokens
    /\ discovered \subseteq Oidc
    /\ DOMAIN sessions \cup ended \subseteq {c \in Callbacks : callback[c].at = "authenticated"}

\* A state is good for one sign-on: a redirect that the browser follows twice makes one
\* session, of the provider the state was made for.
StateUsedOnce == \A c, d \in Callbacks :
    (callback[c].at \in {"exchange", "authenticated"} /\ callback[d].state = callback[c].state)
        => c = d

\* A session that was logged out or has expired and been dropped does not come back,
\* whatever renewals, sign-ons and logouts follow.
EndedStays == ended \cap DOMAIN sessions = {}

-----------------------------------------------------------------------------
(* The advanced authentication helpers: named permission sets with            *)
(* inheritance (the PermissionManager of auth/advanced/permissions.py) and    *)
(* the webhook authenticator with its cache of accepted answers               *)
(* (auth/advanced/webhook_auth.py).                                           *)

CONSTANTS SetNames,    \* names of permission sets
          Grants,      \* permissions
          SetShapes,   \* the [grants, parents] a set may be registered with
          MaxParents,  \* the most names an inherit_from lists
          Headers,     \* the forwarded headers of a caller: the cache key
          WhCalls,     \* calls of authenticate that may overlap
          WhTtl,       \* cache_ttl_seconds
          AaMaxTime    \* bound: the clock stops here

ASSUME PermissionAssumption ==
    /\ IsFiniteSet(SetNames) /\ MaxParents \in Nat
    /\ \A shape \in SetShapes :
         /\ shape.grants \subseteq Grants /\ shape.parents \in Seq(SetNames)
         /\ Len(shape.parents) <= MaxParents

ASSUME WebhookAssumption == WhTtl \in Nat /\ AaMaxTime \in Nat

VARIABLES sets,     \* _sets: name -> its shape, for the registered names
          says,     \* what the external service answers for each header
          wh_cache, \* _cache: header -> when it was stored and when the answer arrived
          wh_calls, \* the calls in flight, waiting for their answer
          wh_hits,  \* history: how long ago the answers had arrived that hits returned
          aa_now

avars == <<sets, says, wh_cache, wh_calls, wh_hits, aa_now>>

-----------------------------------------------------------------------------
(* Permission sets *)

(* A plausible bug: a parent that is not registered ends the whole look-up.   *)
Visit_stops(s) ==
    LET name == Head(s.todo)
    IN IF name \in s.visited THEN [s EXCEPT !.todo = Tail(@)]
       ELSE IF name \notin DOMAIN sets THEN [s EXCEPT !.todo = <<>>]
       ELSE [todo |-> sets[name].parents \o Tail(s.todo),
             visited |-> s.visited \cup {name},
             granted |-> s.granted \cup sets[name].grants]

(* One call of the recursion of resolve_permissions: the calls still to be    *)
(* made wait in todo, depth first and in the order of inherit_from; visited   *)
(* is the set every call shares.                                              *)
Visit(s) ==
    LET name == Head(s.todo)
    IN IF name \in s.visited THEN [s EXCEPT !.todo = Tail(@)]
       ELSE IF name \notin DOMAIN sets
       THEN [s EXCEPT !.todo = Tail(@), !.visited = @ \cup {name}]
       ELSE [todo |-> sets[name].parents \o Tail(s.todo),
             visited |-> s.visited \cup {name},
             granted |-> s.granted \cup sets[name].grants]

(* No set is expanded twice, so the calls are one and at most MaxParents per  *)
(* set.                                                                       *)
AllCalls == 1 + MaxParents * Cardinality(DOMAIN sets)

resolve_permissions(name) ==
    LET after[n \in 0 .. AllCalls] ==
          IF n = 0 THEN [todo |-> <<name>>, visited |-> {}, granted |-> {}]
          ELSE IF after[n - 1].todo = <<>> THEN after[n - 1] ELSE Visit(after[n - 1])
    IN after[AllCalls]

check_permission(permission, user_sets) ==
    \E name \in Range(user_sets) : permission \in resolve_permissions(name).granted

RegisterSet(name, shape) ==
    /\ sets' = [n \in DOMAIN sets \cup {name} |-> IF n = name THEN shape ELSE sets[n]]
    /\ UNCHANGED <<says, wh_cache, wh_calls, wh_hits, aa_now>>

RemoveSet(name) ==
    /\ name \in DOMAIN sets
    /\ sets' = Restrict(sets, DOMAIN sets \ {name})
    /\ UNCHANGED <<says, wh_cache, wh_calls, wh_hits, aa_now>>

-----------------------------------------------------------------------------
(* Webhook authentication *)

fresh(h) == h \in DOMAIN wh_cache /\ aa_now - wh_cache[h].at <= WhTtl

(* A plausible bug: a hit renews the entry.                                   *)
WhHit_renews(h) ==
    /\ fresh(h)
    /\ wh_hits' = wh_hits \cup {aa_now - wh_cache[h].arrived}
    /\ wh_cache' = [wh_cache EXCEPT ![h].at = aa_now]
    /\ UNCHANGED <<sets, says, wh_calls, aa_now>>

(* authenticate with a usable entry in the cache returns it, and leaves it    *)
(* as it is.                                                                  *)
WhHit(h) ==
    /\ fresh(h)
    /\ wh_hits' = wh_hits \cup {aa_now - wh_cache[h].arrived}
    /\ UNCHANGED <<sets, says, wh_cache, wh_calls, aa_now>>

(* authenticate without one: an expired entry is dropped, the request sent.   *)
WhSend(c, h) ==
    /\ ~fresh(h)
    /\ c \notin DOMAIN wh_calls
    /\ wh_cache' = Restrict(wh_cache, DOMAIN wh_cache \ {h})
    /\ wh_calls' = [d \in DOMAIN wh_calls \cup {c} |->
                      IF d = c THEN [header |-> h, answer |-> "none"] ELSE wh_calls[d]]
    /\ UNCHANGED <<sets, says, wh_hits, aa_now>>

(* The service answers; the answer is on its way.                             *)
WhAnswer(c) ==
    /\ c \in DOMAIN wh_calls
    /\ wh_calls[c].answer = "none"
    /\ wh_calls' = [wh_calls EXCEPT ![c].answer = says[wh_calls[c].header]]
    /\ UNCHANGED <<sets, says, wh_cache, wh_hits, aa_now>>

(* The whole answer has arrived. Only an accepted caller is cached, from that *)
(* moment on.                                                                 *)
WhEnds(c) ==
    /\ c \in DOMAIN wh_calls
    /\ wh_calls[c].answer # "none"
    /\ wh_cache' = IF wh_calls[c].answer = "no" THEN wh_cache
                   ELSE [h \in DOMAIN wh_cache \cup {wh_calls[c].header} |->
                           IF h = wh_calls[c].header
                           THEN [at |-> aa_now, arrived |-> aa_now]
                           ELSE wh_cache[h]]
    /\ wh_calls' = Restrict(wh_calls, DOMAIN wh_calls \ {c})
    /\ UNCHANGED <<sets, says, wh_hits, aa_now>>

(* The request fails (an httpx.HTTPError): refused, and nothing is stored.    *)
WhFails(c) ==
    /\ c \in DOMAIN wh_calls
    /\ wh_calls' = Restrict(wh_calls, DOMAIN wh_calls \ {c})
    /\ UNCHANGED <<sets, says, wh_cache, wh_hits, aa_now>>

ClearCache ==
    /\ wh_cache # <<>>
    /\ wh_cache' = <<>>
    /\ UNCHANGED <<sets, says, wh_calls, wh_hits, aa_now>>

(* The service changes its mind about a caller.                               *)
WhDecides(h) ==
    /\ says' = [says EXCEPT ![h] = IF @ = "yes" THEN "no" ELSE "yes"]
    /\ UNCHANGED <<sets, wh_cache, wh_calls, wh_hits, aa_now>>

(* Time passes.  The client's timeout bounds each wait of a request (for a    *)
(* connection, for the next part of an answer), not the request.              *)
AaTick ==
    /\ aa_now < AaMaxTime
    /\ aa_now' = aa_now + 1
    /\ UNCHANGED <<sets, says, wh_cache, wh_calls, wh_hits>>

AaInit ==
    /\ sets = <<>> /\ wh_cache = <<>> /\ wh_calls = <<>>
    /\ says = [h \in Headers |-> "yes"]
    /\ wh_hits = {} /\ aa_now = 0

SetsNext ==
    \E n \in SetNames : (\E s \in SetShapes : RegisterSet(n, s)) \/ RemoveSet(n)

WebhookNext ==
    \/ \E h \in Headers : WhHit(h) \/ WhDecides(h) \/ \E c \in WhCalls : WhSend(c, h)
    \/ \E c \in WhCalls : WhAnswer(c) \/ WhEnds(c) \/ WhFails(c)
    \/ ClearCache \/ AaTick

AaNext == SetsNext \/ WebhookNext

AaSpec == AaInit /\ [][AaNext]_avars

-----------------------------------------------------------------------------
AaTypeOK ==
    /\ DOMAIN sets \subseteq SetNames /\ Range(sets) \subseteq SetShapes
    /\ DOMAIN wh_cache \subseteq Headers
    /\ \A h \in DOMAIN wh_cache : wh_cache[h].arrived <= wh_cache[h].at
    /\ DOMAIN wh_calls \subseteq WhCalls
    /\ says \in [Headers -> {"yes", "no"}]
    /\ aa_now \in 0 .. AaMaxTime

(* The names a set reaches: the least set of names that holds it and the      *)
(* parents of the registered names it holds.                                  *)
Reached(name) ==
    LET closed == {S \in SUBSET SetNames :
                     name \in S /\ \A n \in S \cap DOMAIN sets : Range(sets[n].parents) \subseteq S}
    IN {n \in SetNames : \A S \in closed : n \in S}

(* resolve_permissions ends, whatever cycles the inheritance has, and returns *)
(* what all registered ancestors grant, each once, also when some of them     *)
(* are missing or are reached along two ways (permissions.py:52).             *)
PermissionsInherited ==
    \A name \in SetNames :
        LET r == resolve_permissions(name)
        IN /\ r.todo = <<>>
           /\ r.granted = UNION {sets[n].grants : n \in Reached(name) \cap DOMAIN sets}
           /\ \A p \in Grants : check_permission(p, <<name>>) <=> p \in r.granted

(* A caller served from the cache was accepted by an answer that arrived      *)
(* within the cache's time to live: no number of hits, of overlapping         *)
(* requests or of other verdicts keeps an old answer alive                    *)
(* (webhook_auth.py:160).  How long the answer had been on its way is not     *)
(* bounded.                                                                   *)
AcceptedRecently == \A age \in wh_hits : age <= WhTtl
=============================================================================
