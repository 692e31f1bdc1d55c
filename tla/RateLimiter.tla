----------------------------- MODULE RateLimiter -----------------------------
(***************************************************************************)
(* The InMemoryRateLimiter of proxy/middleware/rate_limit.py as the        *)
(* RateLimitMiddleware of rate_limit_mw.py uses it: check_rate_limit and,  *)
(* if it allows the request, record_request, without an await in between.  *)
(*                                                                         *)
(* A scope is a (scope, identifier) pair of _windows.  A window keeps the  *)
(* requests that were recorded in it; the timestamps of the code are the   *)
(* times of their admission.  The middleware records no tokens, so every   *)
(* token count is 0 and only request limits are modelled.  The clock is    *)
(* taken not to step back.                                                 *)
(***************************************************************************)
EXTENDS Integers, Sequences, FiniteSets

CONSTANTS Calls,         \* identities of the HTTP requests
          Scopes,        \* the keys of _windows
          Global,        \* the global scope, whose limit is fixed at the start
          ScopesOf,      \* the scopes of each request, in the order of the checks
          Minute,        \* the length of the window, in ticks of the clock
          Second,        \* ticks of the clock in a second
          Limits,        \* the request limits that may be configured
          MaxClock       \* bound on the clock

Unlimited == -1          \* rpm is None

ASSUME LimiterAssumption ==
    /\ Global \in Scopes
    /\ ScopesOf \in [Calls -> Seq(Scopes)]
    /\ IsFiniteSet(Calls)
    /\ Minute \in Nat \ {0} /\ Second \in Nat \ {0}
    /\ Limits \subseteq Nat \cup {Unlimited}
    /\ MaxClock \in Nat

VARIABLES clock,      \* time.time()
          rpm,        \* RateLimitConfig.rpm of each scope
          timestamps, \* _windows: the requests in each scope's list
          admitted    \* when each request was admitted, since the last reset

ratevars == <<clock, rpm, timestamps, admitted>>

NotAdmitted == -1

ScopesAre(r, b) == \E i \in DOMAIN ScopesOf[r] : ScopesOf[r][i] = b

-----------------------------------------------------------------------------
\* Variant: an entry leaves the window one tick early.
pruned_early(b) == {r \in timestamps[b] : admitted[r] > clock - Minute + 1}

\* _prune: the requests of scope b that are still in its window.
pruned(b) == {r \in timestamps[b] : admitted[r] > clock - Minute}

\* _check_scope denies the request.
exceeded(b) == rpm[b] # Unlimited /\ Cardinality(pruned(b)) >= rpm[b]

\* How long request r still counts.
stays(r) == admitted[r] + Minute - clock

\* Variant: the youngest request instead of the oldest.
retry_after_youngest(b) ==
    IF pruned(b) = {} THEN 0
    ELSE CHOOSE n \in 0..Minute : /\ \E r \in pruned(b) : n = stays(r)
                                  /\ \A r \in pruned(b) : stays(r) <= n

\* _time_until_slot: how long until the oldest request leaves the window.
retry_after(b) ==
    IF pruned(b) = {} THEN 0
    ELSE CHOOSE n \in 0..Minute : /\ \E r \in pruned(b) : n = stays(r)
                                  /\ \A r \in pruned(b) : n <= stays(r)

\* Variant: the fraction of a second is cut off.
retry_header_cut(b) == retry_after(b) \div Second

\* to_headers: the client is told whole seconds, one more than the whole ones left.
retry_header(b) == retry_after(b) \div Second + 1

-----------------------------------------------------------------------------
RateInit ==
    /\ clock = 0
    /\ rpm \in [Scopes -> Limits]
    /\ timestamps = [b \in Scopes |-> {}]
    /\ admitted = [r \in Calls |-> NotAdmitted]

\* The middleware lets request r through: no scope denies it, and it is
\* recorded in all of them.
Admit(r) ==
    /\ admitted[r] = NotAdmitted
    /\ \A b \in Scopes : ScopesAre(r, b) => ~exceeded(b)
    /\ timestamps' = [b \in Scopes |->
           IF ScopesAre(r, b) THEN pruned(b) \cup {r} ELSE timestamps[b]]
    /\ admitted' = [admitted EXCEPT ![r] = clock]
    /\ UNCHANGED <<clock, rpm>>

\* Scope number i is the first to deny request r.
FirstToDeny(r, i) ==
    exceeded(ScopesOf[r][i]) /\ \A k \in 1..(i - 1) : ~exceeded(ScopesOf[r][k])

LookedAt(r, i, b) == \E k \in 1..i : ScopesOf[r][k] = b

\* Variant: each scope records the request as soon as it has allowed it.
Deny_records(r) ==
    /\ admitted[r] = NotAdmitted
    /\ \E i \in DOMAIN ScopesOf[r] :
         /\ FirstToDeny(r, i)
         /\ timestamps' = [b \in Scopes |->
                IF LookedAt(r, i - 1, b) THEN pruned(b) \cup {r} ELSE timestamps[b]]
    /\ UNCHANGED <<clock, rpm, admitted>>

\* Request r is answered with 429 and recorded nowhere; the scopes looked at
\* have been pruned.
Deny(r) ==
    /\ admitted[r] = NotAdmitted
    /\ \E i \in DOMAIN ScopesOf[r] :
         /\ FirstToDeny(r, i)
         /\ timestamps' = [b \in Scopes |->
                IF LookedAt(r, i, b) THEN pruned(b) ELSE timestamps[b]]
    /\ UNCHANGED <<clock, rpm, admitted>>

\* set_key_config and its like for users, teams and models.
SetConfig(b, n) ==
    /\ b # Global /\ rpm[b] # n
    /\ rpm' = [rpm EXCEPT ![b] = n]
    /\ UNCHANGED <<clock, timestamps, admitted>>

\* Variant: the new table is empty instead of giving an empty window per scope.
ResetWindows_plain ==
    /\ timestamps' = <<>>
    /\ admitted' = [r \in Calls |-> NotAdmitted]
    /\ UNCHANGED <<clock, rpm>>

\* reset(): the requests admitted before do not count any more.
ResetWindows ==
    /\ timestamps' = [b \in Scopes |-> {}]
    /\ admitted' = [r \in Calls |-> NotAdmitted]
    /\ UNCHANGED <<clock, rpm>>

Advance ==
    /\ clock < MaxClock
    /\ clock' = clock + 1
    /\ UNCHANGED <<rpm, timestamps, admitted>>

RateNext ==
    \/ \E r \in Calls : Admit(r) \/ Deny(r)
    \/ \E b \in Scopes, n \in Limits : SetConfig(b, n)
    \/ ResetWindows
    \/ Advance

RateSpec == RateInit /\ [][RateNext]_ratevars

-----------------------------------------------------------------------------
\* The requests of scope b that were admitted in the window that ends now,
\* whatever the limiter remembers of them.
InWindow(b) ==
    {r \in Calls : ScopesAre(r, b) /\ admitted[r] # NotAdmitted
                   /\ admitted[r] > clock - Minute}

\* Type invariant.
RateTypeOK ==
    /\ clock \in Nat
    /\ rpm \in [Scopes -> Limits]
    /\ timestamps \in [Scopes -> SUBSET Calls]
    /\ admitted \in [Calls -> Nat \cup {NotAdmitted}]

\* The limiter counts in every scope exactly the requests admitted there in the
\* current window: none is forgotten, however the scopes are pruned at different
\* times, none counts too long, and a denied request costs nothing in the scopes
\* that had allowed it.
WindowsFaithful ==
    \A b \in Scopes :
        /\ \A r \in timestamps[b] : ScopesAre(r, b) /\ admitted[r] \in 0..clock
        /\ pruned(b) = InWindow(b)

\* No window of length Minute that ends with an admission holds more admitted
\* requests than the limit of the scope at that moment, in any of the scopes.
AdmissionBounded ==
    \A r \in Calls : admitted'[r] # admitted[r] /\ admitted'[r] # NotAdmitted =>
        \A b \in Scopes : ScopesAre(r, b) /\ rpm[b] # Unlimited =>
            Cardinality(InWindow(b)') <= rpm[b]

LimitHonoured == [][AdmissionBounded]_ratevars

\* Has scope b room for a request when wait ticks have passed and none was admitted?
RoomAfter(b, wait) ==
    Cardinality({r \in pruned(b) : admitted[r] > clock + wait - Minute}) < rpm[b]

\* A client that waits as long as the Retry-After of a scope that holds as many requests as
\* it may finds room in it, if no other comes first, and would have found none more than a
\* second earlier.
RetryAfterSuffices ==
    \A b \in Scopes : (rpm[b] > 0 /\ Cardinality(pruned(b)) = rpm[b]) =>
        LET told == Second * retry_header(b)
        IN  /\ RoomAfter(b, told)
            /\ \A wait \in 0..told : wait + Second < told => ~RoomAfter(b, wait)

\* retry_after: "Seconds until the next request would be allowed (only on deny)"
\* (rate_limit.py:106) says so of every refusal.  It does not hold where a limit was lowered
\* below what the scope holds: room is only made when several requests have left, and the
\* time told is that of the first.
RetryAfterTells ==
    \A b \in Scopes : rpm[b] > 0 /\ exceeded(b) => RoomAfter(b, Second * retry_header(b))
=============================================================================
