---------------------------------- MODULE Jwt ----------------------------------
(***************************************************************************)
(* The JWTAuthenticator of auth/jwt.py with its two caches: the signing    *)
(* keys of the identity provider, read at most once per refresh interval,  *)
(* and the claims of tokens it has verified, kept for cache_ttl.  Requests *)
(* that need a key fetch the key set concurrently, and the answers may     *)
(* come back in any order.  The identity provider is external: it adds     *)
(* signing keys and retires the oldest.                                    *)
(*                                                                         *)
(* Times count down and stop one below zero, so that no clock is bounded.  *)
(***************************************************************************)
EXTENDS Integers, FiniteSets

CONSTANTS Bearers,     \* tokens; 1..n
          Verifiers,   \* requests that carry one
          Life,        \* ticks until the exp of a token
          CacheTtl,    \* config.cache_ttl
          RefreshInterval, \* JWKS_REFRESH_INTERVAL
          LastKid      \* signing keys are 1..LastKid

ASSUME JwtAssumption ==
    /\ Bearers \subseteq Nat /\ LastKid \in Nat \ {0}
    /\ Life \in Nat /\ CacheTtl \in Nat /\ RefreshInterval \in Nat

VARIABLES published,  \* the key set of the identity provider
          kid,        \* key that signed each token, 0 while there is no such token
          left,       \* ticks to the exp of each token, -1 after it
          past,       \* ticks since the exp of each token
          jwks,       \* _jwks_keys
          wait,       \* ticks until _refresh_jwks() fetches again, 0 when it may
          cached,     \* token |-> ticks its cached claims are good for, -1 for none
          verify,     \* per verifier: where it is, its token, the key set it was answered,
                \* and the ticks until a fetch begun with it is no longer recent
          accepted    \* tokens of which the last verification succeeded

jwtvars == <<published, kid, left, past, jwks, wait, cached, verify, accepted>>

Idle == [at |-> "idle", token |-> 0, keys |-> {}, due |-> 0]
Fetching(t) == [at |-> "fetching", token |-> t, keys |-> {}, due |-> RefreshInterval]

JwtInit ==
    /\ published = {1}
    /\ kid = [t \in Bearers |-> 0]
    /\ left = [t \in Bearers |-> Life] /\ past = [t \in Bearers |-> 0]
    /\ jwks = {} /\ wait = 0
    /\ cached = [t \in Bearers |-> -1]
    /\ verify = [v \in Verifiers |-> Idle]
    /\ accepted = {}

Newest(S) == CHOOSE k \in S : \A j \in S : j <= k

\* The identity provider signs token t, adds a key, or drops the older of two.
Issue(t) ==
    /\ kid[t] = 0
    /\ kid' = [kid EXCEPT ![t] = Newest(published)]
    /\ UNCHANGED <<published, left, past, jwks, wait, cached, verify, accepted>>

AddKid ==
    /\ Newest(published) < LastKid
    /\ published' = published \cup {Newest(published) + 1}
    /\ UNCHANGED <<kid, left, past, jwks, wait, cached, verify, accepted>>

RetireKid ==
    /\ Cardinality(published) > 1
    /\ published' = {Newest(published)}
    /\ UNCHANGED <<kid, left, past, jwks, wait, cached, verify, accepted>>

-----------------------------------------------------------------------------

\* jwt.decode(): an expired token is refused; otherwise its claims are cached.
Decode(v, t) ==
    /\ cached' = IF left[t] >= 0 THEN [cached EXCEPT ![t] = CacheTtl] ELSE cached
    /\ accepted' = IF left[t] >= 0 THEN accepted \cup {t} ELSE accepted \ {t}

\* Variant: a hit makes the claims good for another cache_ttl.
CacheHit_renews(v, t) ==
    /\ verify[v].at = "idle" /\ kid[t] # 0 /\ cached[t] >= 0
    /\ accepted' = accepted \cup {t}
    /\ cached' = [cached EXCEPT ![t] = CacheTtl]
    /\ UNCHANGED <<published, kid, left, past, jwks, wait, verify>>

\* verify_token(): claims that are cached are good, whatever the exp of the token.
CacheHit(v, t) ==
    /\ verify[v].at = "idle" /\ kid[t] # 0 /\ cached[t] >= 0
    /\ accepted' = accepted \cup {t}
    /\ UNCHANGED <<published, kid, left, past, jwks, wait, cached, verify>>

\* The signing key is known.
KnownKey(v, t) ==
    /\ verify[v].at = "idle" /\ kid[t] # 0 /\ cached[t] < 0
    /\ kid[t] \in jwks
    /\ Decode(v, t)
    /\ UNCHANGED <<published, kid, left, past, jwks, wait, verify>>

\* Variant: once refreshed, an unknown key is never looked for again.
UnknownKey_once(v, t) ==
    /\ verify[v].at = "idle" /\ kid[t] # 0 /\ cached[t] < 0
    /\ kid[t] \notin jwks
    /\ IF jwks # {}
       THEN accepted' = accepted \ {t} /\ UNCHANGED verify
       ELSE verify' = [verify EXCEPT ![v] = Fetching(t)] /\ UNCHANGED accepted
    /\ UNCHANGED <<published, kid, left, past, jwks, wait, cached>>

\* It is not: the key set is fetched, or was fetched too recently, and the token refused.
UnknownKey(v, t) ==
    /\ verify[v].at = "idle" /\ kid[t] # 0 /\ cached[t] < 0
    /\ kid[t] \notin jwks
    /\ IF wait > 0
       THEN accepted' = accepted \ {t} /\ UNCHANGED verify
       ELSE verify' = [verify EXCEPT ![v] = Fetching(t)] /\ UNCHANGED accepted
    /\ UNCHANGED <<published, kid, left, past, jwks, wait, cached>>

\* The identity provider answers with the keys it has now.
Answer(v) ==
    /\ verify[v].at = "fetching"
    /\ verify' = [verify EXCEPT ![v].at = "answered", ![v].keys = published]
    /\ UNCHANGED <<published, kid, left, past, jwks, wait, cached, accepted>>

\* The answer is read; it replaces the keys, also those a later answer brought.  The
\* time of the refresh is that of its beginning.
Refreshed(v) ==
    LET t == verify[v].token
    IN  /\ verify[v].at = "answered"
        /\ jwks' = verify[v].keys
        /\ wait' = verify[v].due
        /\ verify' = [verify EXCEPT ![v] = Idle]
        /\ IF kid[t] \in jwks' THEN Decode(v, t)
           ELSE accepted' = accepted \ {t} /\ UNCHANGED cached
        /\ UNCHANGED <<published, kid, left, past>>

\* The fetch fails: the keys are kept, and the next unknown key fetches again.
FetchFails(v) ==
    /\ verify[v].at = "fetching"
    /\ verify' = [verify EXCEPT ![v] = Idle]
    /\ accepted' = accepted \ {verify[v].token}
    /\ UNCHANGED <<published, kid, left, past, jwks, wait, cached>>

\* Time passes.  (clear_cache() and force_refresh_jwks() are left out: nothing in the
\* program calls them.)
JwtTick ==
    /\ left' = [t \in Bearers |-> IF kid[t] # 0 /\ left[t] >= 0 THEN left[t] - 1 ELSE left[t]]
    /\ past' = [t \in Bearers |-> IF left[t] < 1 /\ past[t] <= CacheTtl /\ kid[t] # 0
                                  THEN past[t] + 1 ELSE past[t]]
    /\ cached' = [t \in Bearers |-> IF cached[t] >= 0 THEN cached[t] - 1 ELSE cached[t]]
    /\ accepted' = {}
    /\ wait' = IF wait > 0 THEN wait - 1 ELSE 0
    /\ verify' = [v \in Verifiers |-> [verify[v] EXCEPT !.due = IF @ > 0 THEN @ - 1 ELSE 0]]
    /\ UNCHANGED <<published, kid, jwks>>

Verify(v, t) == CacheHit(v, t) \/ KnownKey(v, t) \/ UnknownKey(v, t)

JwtNext ==
    \/ \E t \in Bearers : Issue(t)
    \/ AddKid \/ RetireKid
    \/ \E v \in Verifiers :
         \/ \E t \in Bearers : Verify(v, t)
         \/ Answer(v) \/ Refreshed(v) \/ FetchFails(v)
    \/ JwtTick

\* Time passes, requests with a token keep coming, and the identity provider is not
\* always unreachable.
JwtFairness ==
    /\ WF_jwtvars(JwtTick) /\ SF_jwtvars(\E v \in Verifiers : Answer(v))
    /\ \A t \in Bearers : SF_jwtvars(\E v \in Verifiers : UnknownKey(v, t))
    /\ \A v \in Verifiers : WF_jwtvars(FetchFails(v) \/ Refreshed(v))

JwtSpec == JwtInit /\ [][JwtNext]_jwtvars /\ JwtFairness

-----------------------------------------------------------------------------
JwtTypeOK ==
    /\ published \subseteq 1..LastKid /\ jwks \subseteq 1..LastKid
    /\ \A t \in Bearers : left[t] \in -1..Life /\ cached[t] \in -1..CacheTtl
    /\ wait \in 0..RefreshInterval

\* What verify_token() says of itself (jwt.py:138-141), that it raises for a token that
\* has expired.  It does not hold: claims that are cached are good without a look at the
\* exp of their token.
ExpiredRefused == \A t \in accepted : left[t] >= 0

\* The cache is the only way around the exp, and it ends: a token is accepted past its exp
\* only while its cached claims are still good, and the time since the exp and the time
\* they are still good for are together at most cache_ttl, however often they are hit.
ExpiredOnlyFromCache == \A t \in accepted :
    left[t] < 0 => cached[t] >= 0 /\ past[t] + cached[t] <= CacheTtl

\* The key that signs tokens now becomes known, or a newer one takes its place, however
\* the answers of concurrent fetches cross.
SigningKeyLearnt == \A k \in 1..LastKid :
    (\E t \in Bearers : kid[t] = k) ~> (k \in jwks \/ k \notin published)
=============================================================================
