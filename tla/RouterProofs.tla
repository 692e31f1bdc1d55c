---------------------------- MODULE RouterProofs ----------------------------
(***************************************************************************)
(* Proofs about the router: for every registry, fallback table, threshold, *)
(* retry bound and finite set of requests, and with the health checker     *)
(* running beside it.                                                      *)
(***************************************************************************)
EXTENDS RouterHealth, FiniteSetTheorems, TLAPS

-----------------------------------------------------------------------------
(* The operators the actions are built from.                               *)

\* The chain of a request is a non-empty list of models, of which the primary
\* is the first (models_to_try in execute_with_fallbacks).
LEMMA ChainType ==
    ASSUME NEW k \in Kinds, NEW m \in Models
    PROVE  chain(k, m) \in Seq(Models) /\ Len(chain(k, m)) \in Nat \ {0}
  BY RouterAssumption DEF chain

\* Whatever the strategy, select returns a member of the list it is given.
LEMMA SelectMember ==
    ASSUME NEW avail \in Seq(Deployments), avail # <<>>, counter \in Nat,
           NEW act, NEW d \in select(avail, act)
    PROVE  \E i \in DOMAIN avail : d = avail[i]
<1>1. Len(avail) \in Nat \ {0} /\ DOMAIN avail = 1..Len(avail)
  OBVIOUS
<1>2. (counter % Len(avail)) + 1 \in DOMAIN avail
  BY <1>1
<1>3. CASE Strategy = "round-robin"
  BY <1>2, <1>3 DEF select
<1>4. CASE Strategy = "least-connections"
  BY <1>4 DEF select, least_connections
<1>5. CASE Strategy # "round-robin" /\ Strategy # "least-connections"
  BY <1>5 DEF select
<1> QED BY <1>3, <1>4, <1>5

\* The two dictionaries of a CooldownManager agree: what CooldownConsistent
\* says of the variable cool, for any state c of the manager at time t.
Agree(c, t) ==
    /\ c \in [Models -> CooldownState]
    /\ \A m \in Models : /\ c[m].until # NotCooling <=> c[m].fails >= AllowedFails
                         /\ c[m].until <= t + CooldownSeconds

\* Each method of CooldownManager keeps the two dictionaries in agreement.
LEMMA CooldownOps ==
    ASSUME NEW c, NEW t \in Nat, Agree(c, t), NEW m \in Models
    PROVE  /\ Agree(record_success(c, m), t)
           /\ Agree(record_failure(c, m, t), t)
           /\ Agree(expire(c, m, t), t)
<1>1. /\ Healthy \in CooldownState
      /\ Healthy.until = NotCooling /\ ~(Healthy.fails >= AllowedFails)
      /\ Healthy.until <= t + CooldownSeconds
  BY CooldownAssumption DEF Healthy, CooldownState, NotCooling
<1>2. Agree(record_success(c, m), t)
  BY <1>1 DEF Agree, record_success
<1>3. Agree(expire(c, m, t), t)
  BY <1>1 DEF Agree, expire
<1>4. Agree(record_failure(c, m, t), t)
  <2> DEFINE n == c[m].fails + 1
             u == IF n >= AllowedFails THEN t + CooldownSeconds ELSE c[m].until
             e == [fails |-> n, until |-> u]
  <2>1. c[m] \in CooldownState /\ c \in [Models -> CooldownState]
    BY DEF Agree
  <2>2. /\ n \in Nat /\ u \in Nat \cup {NotCooling}
        /\ u # NotCooling <=> n >= AllowedFails
        /\ u <= t + CooldownSeconds
    BY <2>1, CooldownAssumption DEF Agree, CooldownState, NotCooling
  <2>3. e \in CooldownState /\ e.fails = n /\ e.until = u
    BY <2>2 DEF CooldownState
  <2>4. record_failure(c, m, t) = [c EXCEPT ![m] = e]
    BY DEF record_failure
  <2> HIDE DEF e
  <2> QED BY <2>1, <2>2, <2>3, <2>4 DEF Agree
<1> QED BY <1>2, <1>3, <1>4

-----------------------------------------------------------------------------
(* One attempt, and one step of a request.                                 *)

\* CallsWithinBudget, for one request q.
Budgeted(q) ==
    q.phase # "new" => q.calls <= (q.idx - 1) * (MaxRetries + 1) + q.attempt + 1

Good(q) == q \in Request /\ Placed(q) /\ Budgeted(q)

\* The variables that _make_provider and the strategy use.
Supplied == counter \in Nat /\ providers \in [Models -> Deployments \cup {None}]

\* What a step that leaves request r as z does, when act is what the in-flight
\* counts are before r starts a new call.
Leaves(r, z, act) ==
    /\ req' = [req EXCEPT ![r] = z]
    /\ Good(z) /\ z.phase # "new"
    /\ active' = IF z.phase = "calling" THEN [act EXCEPT ![z.dep] = @ + 1] ELSE act
    /\ Agree(cool', now)
    /\ Supplied'

\* The calls of request z, when n were made before the step that leaves it.
CallsMade(n, z) == IF z.phase = "calling" THEN n + 1 ELSE n

\* Request z is q at model i of its chain, attempt n: calling or refused.
At(q, z, i, n) ==
    /\ z.kind = q.kind /\ z.model = q.model /\ z.idx = i /\ z.attempt = n
    /\ z.phase \in {"calling", "done"}
    /\ z.phase = "done" => z.last = "not_found"
    /\ z.calls = CallsMade(q.calls, z)

\* How a request moves from q to z: one attempt further at the same model, or
\* to the first attempt at the next one, or to sleep, or to its end.
Moves(q, z) ==
    /\ q.phase # "done"
    /\ z.phase \in {"calling", "sleeping", "done"}
    /\ z.phase = "done" => z.last \in Outcomes
    /\ q.phase = "new" => z.phase = "calling" \/ (z.phase = "done" /\ z.last = "not_found")
    /\ q.phase # "new" => z.kind = q.kind /\ z.model = q.model
    /\ z.phase = "sleeping" => z.idx = q.idx /\ z.attempt = q.attempt
    /\ (z.phase = "calling" /\ q.phase # "new") =>
          \/ z.idx = q.idx /\ z.attempt = q.attempt + 1
          \/ z.idx = q.idx + 1 /\ z.attempt = 0
    /\ z.calls = CallsMade(IF q.phase = "new" THEN 0 ELSE q.calls, z)

\* One attempt (attempt() up to its await) leaves the request either finished
\* as not found, or calling one deployment of the model it is trying.
LEMMA AttemptStep ==
    ASSUME NEW r \in Requests, NEW q \in Request, NEW i, NEW n, NEW c, NEW act,
           now \in Nat, Supplied, Agree(c, now), act \in [Deployments -> Nat],
           q.model \in Models, i \in 1..Len(chain(q.kind, q.model)),
           n \in 0..retries(q.kind),
           q.calls <= (i - 1) * (MaxRetries + 1) + n,
           Attempt(r, q, i, n, c, act)
    PROVE  \E z : Leaves(r, z, act) /\ At(q, z, i, n)
<1> DEFINE m     == chain(q.kind, q.model)[i]
           c2    == expire(c, m, now)
           avail == get_deployments(c2, m)
<1>1. q.kind \in Kinds /\ q.calls \in Nat
  BY DEF Request
<1>2. m \in Models /\ i \in Nat \ {0}
  <2> DEFINE s == chain(q.kind, q.model)
  <2>1. s \in Seq(Models) /\ Len(s) \in Nat \ {0} /\ i \in 1..Len(s)
    BY <1>1, ChainType
  <2> HIDE DEF s
  <2>2. s[i] \in Models /\ i \in Nat \ {0}
    BY <2>1
  <2> QED BY <2>2 DEF s
<1>3. n \in Nat /\ (i - 1) * (MaxRetries + 1) \in Nat
  <2>1. retries(q.kind) \in Nat /\ MaxRetries + 1 \in Nat
    BY RouterAssumption DEF retries
  <2>2. i - 1 \in Nat
    BY <1>2
  <2>3. \A a, b \in Nat : a * b \in Nat
    OBVIOUS
  <2> QED BY <2>1, <2>2, <2>3
<1>4. cool' = c2 /\ Agree(cool', now)
  BY <1>2, CooldownOps DEF Attempt
<1>5. avail \in Seq(Deployments)
  BY <1>2, RouterAssumption DEF get_deployments
<1>6. CASE avail = <<>>
  <2> DEFINE z == [q EXCEPT !.phase = "done", !.idx = i, !.attempt = n,
                            !.dep = None, !.last = "not_found"]
  <2>1. /\ active' = act /\ req' = [req EXCEPT ![r] = z]
        /\ UNCHANGED <<counter, providers>>
    BY <1>6 DEF Attempt
  <2>2. z \in Request
    BY <1>2, <1>3 DEF Request, Outcomes, Errors
  <2>3. /\ z.phase = "done" /\ z.kind = q.kind /\ z.model = q.model /\ z.idx = i
        /\ z.attempt = n /\ z.dep = None /\ z.calls = q.calls /\ z.last = "not_found"
    BY DEF Request
  <2> HIDE DEF z
  <2>4. Placed(z) /\ Budgeted(z)
    BY <2>3, <1>1, <1>3 DEF Placed, Budgeted
  <2> QED BY <1>4, <2>1, <2>2, <2>3, <2>4 DEF Leaves, Good, Supplied, At, CallsMade
<1>7. CASE avail # <<>>
  <2>1. PICK d \in select(avail, act) :
          /\ active' = [act EXCEPT ![d] = @ + 1]
          /\ providers' = IF providers[m] = None THEN [providers EXCEPT ![m] = d]
                                                 ELSE providers
          /\ req' = [req EXCEPT ![r] = [q EXCEPT !.phase = "calling", !.idx = i,
                         !.attempt = n, !.dep = d, !.calls = @ + 1]]
    BY <1>7 DEF Attempt
  <2> DEFINE z == [q EXCEPT !.phase = "calling", !.idx = i, !.attempt = n,
                            !.dep = d, !.calls = @ + 1]
  <2>2. \E j \in DOMAIN avail : d = avail[j]
    BY <1>5, <1>7, SelectMember DEF Supplied
  <2>3. avail = Registry[m]
    BY <1>7 DEF get_deployments
  <2>4. d \in Deployments
    BY <1>5, <2>2
  <2>5. z \in Request
    <3>1. z = [q EXCEPT !.phase = "calling", !.idx = i, !.attempt = n,
                        !.dep = d, !.calls = q.calls + 1]
      OBVIOUS
    <3>2. q.calls + 1 \in Nat /\ i \in Nat /\ n \in Nat
      BY <1>1, <1>2, <1>3
    <3> HIDE DEF z
    <3> QED BY <2>4, <3>1, <3>2 DEF Request
  <2>6. /\ z.phase = "calling" /\ z.kind = q.kind /\ z.model = q.model /\ z.idx = i
        /\ z.attempt = n /\ z.dep = d /\ z.calls = q.calls + 1
    BY DEF Request
  <2>7. req' = [req EXCEPT ![r] = z]
    BY <2>1
  <2>8. counter' \in Nat
    <3>1. counter' = IF Strategy = "round-robin" THEN counter + 1 ELSE counter
      BY <1>7 DEF Attempt
    <3> QED BY <3>1 DEF Supplied
  <2>9. providers' \in [Models -> Deployments \cup {None}]
    BY <2>1, <2>4 DEF Supplied
  <2> HIDE DEF z
  <2>10. Placed(z) /\ Budgeted(z)
    BY <2>2, <2>3, <2>6, <1>1, <1>3 DEF Placed, Budgeted
  <2>11. active' = [act EXCEPT ![z.dep] = @ + 1]
    BY <2>1, <2>6
  <2> QED BY <1>4, <2>5, <2>6, <2>7, <2>8, <2>9, <2>10, <2>11 DEF Leaves, Good, Supplied, At, CallsMade
<1> QED BY <1>6, <1>7

\* The in-flight counts once the call of r, if it has one, is over.
Released(r) ==
    IF req[r].phase = "calling"
    THEN [active EXCEPT ![req[r].dep] = IF @ > 0 THEN @ - 1 ELSE 0]
    ELSE active

\* The inductive invariant.
IInv == /\ TypeOK /\ PositionOK /\ CallsWithinBudget
        /\ CooldownConsistent /\ ActiveMatchesInFlight

LEMMA IInvParts ==
    ASSUME IInv
    PROVE  /\ now \in Nat /\ Supplied /\ Agree(cool, now)
           /\ active \in [Deployments -> Nat]
           /\ req \in [Requests -> Request]
           /\ \A r \in Requests : Good(req[r])
  BY DEF IInv, TypeOK, PositionOK, CallsWithinBudget, CooldownConsistent, Supplied,
         Agree, Good, Budgeted

\* The multiplication the call budget needs when the chain advances.
LEMMA NextModelBudget ==
    ASSUME NEW i \in Nat \ {0}, NEW n \in Nat, NEW k \in Nat, k <= (i - 1) * (MaxRetries + 1) + n + 1,
           n <= MaxRetries
    PROVE  k <= ((i + 1) - 1) * (MaxRetries + 1) + 0
<1>1. MaxRetries \in Nat
  BY RouterAssumption
<1>2. (i - 1) * (MaxRetries + 1) + MaxRetries + 1 = i * (MaxRetries + 1)
  BY <1>1
<1>3. i * (MaxRetries + 1) \in Nat /\ (i - 1) * (MaxRetries + 1) \in Nat
  <2>1. \A a, b \in Nat : a * b \in Nat
    OBVIOUS
  <2> QED BY <1>1, <2>1
<1>4. (i + 1) - 1 = i
  OBVIOUS
<1> QED BY <1>1, <1>2, <1>3, <1>4

\* GiveUpModel goes on with the next model of the chain or ends the request.
LEMMA GiveUpStep ==
    ASSUME IInv, NEW r \in Requests, NEW o \in CallErrors, NEW c, NEW act,
           Agree(c, now), act \in [Deployments -> Nat],
           req[r].phase \in {"calling", "sleeping"},
           GiveUpModel(r, o, c, act)
    PROVE  \E z : Leaves(r, z, act) /\ Moves(req[r], z)
<1> DEFINE q == req[r]
<1>1. /\ now \in Nat /\ Supplied /\ q \in Request /\ Good(q)
      /\ o \in Outcomes
  BY IInvParts DEF CallErrors, Outcomes, Errors
<1>2. /\ q.kind \in Kinds /\ q.model \in Models /\ q.calls \in Nat
      /\ q.idx \in 1..Len(chain(q.kind, q.model))
      /\ q.attempt \in Nat /\ q.attempt <= MaxRetries
      /\ q.calls <= (q.idx - 1) * (MaxRetries + 1) + q.attempt + 1
  <2>1. q.phase # "new"
    OBVIOUS
  <2>2. /\ q.kind \in Kinds /\ q.model \in Models /\ q.calls \in Nat /\ q.attempt \in Nat
        /\ q.idx \in 1..Len(chain(q.kind, q.model))
        /\ q.attempt \in 0..retries(q.kind)
        /\ q.calls <= (q.idx - 1) * (MaxRetries + 1) + q.attempt + 1
    BY <1>1, <2>1 DEF Good, Request, Placed, Budgeted
  <2>3. q.attempt <= MaxRetries
    BY <2>2, RouterAssumption DEF retries
  <2> QED BY <2>2, <2>3
<1>3. Len(chain(q.kind, q.model)) \in Nat
  BY <1>2, ChainType
<1>4. CASE ~stops_chain(o) /\ q.idx < Len(Chain(r))
  <2> DEFINE p == [q EXCEPT !.last = o]
             i == q.idx + 1
  <2>1. Attempt(r, p, i, 0, c, act)
    BY <1>4 DEF GiveUpModel
  <2>2. p \in Request
    BY <1>1 DEF Request
  <2>3. p.kind = q.kind /\ p.model = q.model /\ p.calls = q.calls
    BY <1>1 DEF Request
  <2>4. i \in 1..Len(chain(q.kind, q.model))
    BY <1>2, <1>3, <1>4 DEF Chain
  <2>5. q.calls <= (i - 1) * (MaxRetries + 1) + 0
    BY <1>2, <1>3, NextModelBudget
  <2>6. 0 \in 0..retries(q.kind)
    BY RouterAssumption DEF retries
  <2> HIDE DEF p
  <2>7. PICK z : Leaves(r, z, act) /\ At(p, z, i, 0)
    <3> HIDE DEF i, q
    <3> QED BY <1>1, <1>2, <2>1, <2>2, <2>3, <2>4, <2>5, <2>6, AttemptStep
  <2>8. Moves(q, z)
    BY <2>3, <2>7 DEF At, Moves, CallsMade, Outcomes, Errors
  <2> QED BY <2>7, <2>8
<1>5. CASE ~(~stops_chain(o) /\ q.idx < Len(Chain(r)))
  <2> DEFINE z == [q EXCEPT !.phase = "done", !.last = o, !.dep = None]
  <2>1. /\ cool' = c /\ active' = act /\ UNCHANGED <<counter, providers>>
        /\ req' = [req EXCEPT ![r] = z]
    <3>1. /\ cool' = c /\ active' = act /\ UNCHANGED <<counter, providers>>
          /\ Finish(r, o)
      BY <1>5 DEF GiveUpModel
    <3> QED BY <3>1, IInvParts DEF Finish
  <2>2. z \in Request
    BY <1>1 DEF Request
  <2>3. /\ z.phase = "done" /\ z.kind = q.kind /\ z.model = q.model /\ z.idx = q.idx
        /\ z.attempt = q.attempt /\ z.dep = None /\ z.calls = q.calls /\ z.last = o
    BY <1>1 DEF Request
  <2>4. q.attempt \in 0..retries(q.kind)
    BY <1>1 DEF Good, Placed
  <2> HIDE DEF z, q
  <2>5. Good(z)
    BY <1>2, <2>2, <2>3, <2>4 DEF Good, Placed, Budgeted
  <2>6. Agree(cool', now)
    BY <2>1
  <2>7. Supplied'
    BY <1>1, <2>1 DEF Supplied
  <2>8. Leaves(r, z, act)
    BY <2>1, <2>3, <2>5, <2>6, <2>7 DEF Leaves
  <2>9. Moves(q, z)
    BY <1>1, <2>3 DEF Moves, CallsMade, q
  <2> QED BY <2>8, <2>9 DEF q
<1> QED BY <1>4, <1>5

\* Every step of a request leaves it placed, within its budget, and the shared
\* state consistent.
LEMMA RequestStepForm ==
    ASSUME IInv, NEW r \in Requests, RequestStep(r)
    PROVE  (\E z : Leaves(r, z, Released(r)) /\ Moves(req[r], z)) /\ now' = now
<1> DEFINE q == req[r]
<1>1. /\ now \in Nat /\ Supplied /\ q \in Request /\ Good(q) /\ Agree(cool, now)
      /\ active \in [Deployments -> Nat] /\ req \in [Requests -> Request]
  BY IInvParts
<1>2. ASSUME Submit(r) PROVE (\E z : Leaves(r, z, Released(r)) /\ Moves(req[r], z)) /\ now' = now
  <2>1. PICK k \in Kinds, m \in Models :
          Attempt(r, [NewRequest EXCEPT !.kind = k, !.model = m], 1, 0, cool, active)
    BY <1>2 DEF Submit
  <2> DEFINE p == [NewRequest EXCEPT !.kind = k, !.model = m]
  <2>2. /\ p \in Request /\ p.kind = k /\ p.model = m /\ p.calls = 0
    BY DEF NewRequest, Request
  <2>3. 1 \in 1..Len(chain(p.kind, p.model))
    BY <2>2, ChainType
  <2>4. 0 \in 0..retries(p.kind)
    BY RouterAssumption DEF retries
  <2>5. p.calls <= (1 - 1) * (MaxRetries + 1) + 0
    BY <2>2, RouterAssumption
  <2>6. Attempt(r, p, 1, 0, cool, active) /\ p.model \in Models
    BY <2>1, <2>2
  <2>7. Released(r) = active /\ now' = now
    BY <1>2 DEF Submit, Released
  <2> HIDE DEF p
  <2>8. PICK z : Leaves(r, z, active) /\ At(p, z, 1, 0)
    <3> HIDE DEF q
    <3> QED BY <1>1, <2>2, <2>3, <2>4, <2>5, <2>6, AttemptStep
  <2>9. Moves(q, z)
    BY <1>2, <2>2, <2>8 DEF Submit, At, Moves, CallsMade, Outcomes, Errors
  <2> QED BY <2>7, <2>8, <2>9
<1>3. ASSUME NEW o \in {"ok"} \cup CallErrors, Return(r, o)
      PROVE  (\E z : Leaves(r, z, Released(r)) /\ Moves(req[r], z)) /\ now' = now
  <2> DEFINE m   == Current(r)
             d   == q.dep
             c   == report(cool, q.kind, m, o)
             act == [active EXCEPT ![d] = IF @ > 0 THEN @ - 1 ELSE 0]
  <2>1. q.phase = "calling" /\ now' = now
    BY <1>3 DEF Return
  <2>2. /\ q.kind \in Kinds /\ q.model \in Models /\ q.calls \in Nat
        /\ q.idx \in 1..Len(chain(q.kind, q.model))
        /\ q.attempt \in 0..retries(q.kind)
        /\ q.calls <= (q.idx - 1) * (MaxRetries + 1) + q.attempt + 1
    BY <1>1, <2>1 DEF Good, Request, Placed, Budgeted
  <2>3. m \in Models
    BY <2>2, ChainType DEF Current, Chain
  <2>4. Agree(c, now)
    BY <1>1, <2>3, CooldownOps DEF report
  <2>5. act = Released(r)
    BY <2>1 DEF Released
  <2>6. act \in [Deployments -> Nat]
    <3>1. \A e \in Deployments : (IF active[e] > 0 THEN active[e] - 1 ELSE 0) \in Nat
      BY <1>1
    <3> HIDE DEF q
    <3> QED BY <1>1, <3>1
  <2>7. ASSUME NEW z \in Request, z = [q EXCEPT !.phase = z.phase, !.last = o, !.dep = None],
               z.phase \in {"done", "sleeping"},
               cool' = c, active' = act, req' = [req EXCEPT ![r] = z],
               UNCHANGED <<counter, providers>>,
               z.phase = "sleeping" => q.attempt < retries(q.kind)
        PROVE  Leaves(r, z, Released(r)) /\ Moves(q, z)
    <3>1. /\ z.kind = q.kind /\ z.model = q.model /\ z.idx = q.idx
          /\ z.attempt = q.attempt /\ z.dep = None /\ z.calls = q.calls /\ z.last = o
      BY <1>1, <2>7 DEF Request
    <3>2. Good(z)
      BY <2>2, <2>7, <3>1 DEF Good, Placed, Budgeted
    <3>3. Supplied'
      BY <1>1, <2>7 DEF Supplied
    <3>4. o \in Outcomes
      BY DEF Outcomes, CallErrors
    <3>5. Moves(q, z)
      BY <2>1, <2>7, <3>1, <3>4 DEF Moves, CallsMade
    <3> QED BY <2>4, <2>5, <2>7, <3>2, <3>3, <3>5 DEF Leaves
  <2>8. o \in Outcomes
    BY DEF Outcomes, CallErrors
  <2>9. CASE o = "ok"
    <3> DEFINE z == [q EXCEPT !.phase = "done", !.last = o, !.dep = None]
    <3>1. /\ cool' = c /\ active' = act /\ UNCHANGED <<counter, providers>>
          /\ Finish(r, o)
      BY <1>3, <2>9 DEF Return, should_retry
    <3>2. req' = [req EXCEPT ![r] = z]
      BY <1>1, <3>1 DEF Finish
    <3>3. z \in Request /\ z.phase = "done"
      BY <1>1, <2>8 DEF Request
    <3> QED BY <2>1, <2>7, <3>1, <3>2, <3>3
  <2>10. CASE should_retry(o) /\ q.attempt < retries(q.kind)
    <3> DEFINE z == [q EXCEPT !.phase = "sleeping", !.last = o, !.dep = None]
    <3>1. /\ cool' = c /\ active' = act /\ UNCHANGED <<counter, providers>>
          /\ req' = [req EXCEPT ![r].phase = "sleeping", ![r].last = o, ![r].dep = None]
      BY <1>3, <2>10 DEF Return, should_retry
    <3>2. req' = [req EXCEPT ![r] = z]
      BY <1>1, <3>1
    <3>3. z \in Request /\ z.phase = "sleeping"
      BY <1>1, <2>8 DEF Request
    <3> QED BY <2>1, <2>7, <2>10, <3>1, <3>2, <3>3
  <2>11. CASE o # "ok" /\ ~(should_retry(o) /\ q.attempt < retries(q.kind))
    <3>1. GiveUpModel(r, o, c, act)
      BY <1>3, <2>11 DEF Return
    <3>2. o \in CallErrors
      BY <2>11
    <3> HIDE DEF c, act
    <3> QED BY <2>1, <2>4, <2>5, <2>6, <3>1, <3>2, GiveUpStep
  <2> QED BY <2>9, <2>10, <2>11
<1>4. ASSUME Wake(r) PROVE (\E z : Leaves(r, z, Released(r)) /\ Moves(req[r], z)) /\ now' = now
  <2> DEFINE n == q.attempt + 1
  <2>1. /\ q.phase = "sleeping" /\ now' = now
        /\ Attempt(r, q, q.idx, n, cool, active)
    BY <1>4 DEF Wake
  <2>2. /\ q.kind \in Kinds /\ q.model \in Models
        /\ q.idx \in 1..Len(chain(q.kind, q.model))
        /\ q.attempt \in Nat /\ q.attempt < retries(q.kind)
        /\ q.calls <= (q.idx - 1) * (MaxRetries + 1) + q.attempt + 1
    BY <1>1, <2>1, RouterAssumption DEF Good, Request, Placed, Budgeted, retries
  <2>3. n \in 0..retries(q.kind)
    BY <2>2, RouterAssumption, SMTT(20) DEF retries
  <2>4. q.calls <= (q.idx - 1) * (MaxRetries + 1) + n
    <3>1. Len(chain(q.kind, q.model)) \in Nat /\ MaxRetries \in Nat /\ q.calls \in Nat
      BY <1>1, <2>2, ChainType, RouterAssumption DEF Request
    <3>2. (q.idx - 1) * (MaxRetries + 1) \in Int
      BY <2>2, <3>1
    <3> QED BY <2>2, <3>1, <3>2
  <2>5. Released(r) = active
    BY <2>1 DEF Released
  <2>6. PICK z : Leaves(r, z, active) /\ At(q, z, q.idx, n)
    <3> HIDE DEF n, q
    <3> QED BY <1>1, <2>1, <2>2, <2>3, <2>4, AttemptStep
  <2>7. Moves(q, z)
    BY <2>1, <2>6 DEF At, Moves, CallsMade, Outcomes, Errors
  <2> QED BY <2>1, <2>5, <2>6, <2>7
<1>5. ASSUME CancelSleep(r) PROVE (\E z : Leaves(r, z, Released(r)) /\ Moves(req[r], z)) /\ now' = now
  <2>1. /\ q.phase = "sleeping" /\ now' = now
        /\ GiveUpModel(r, "cancelled", cool, active)
    BY <1>5 DEF CancelSleep
  <2>2. Released(r) = active /\ "cancelled" \in CallErrors
    BY <2>1 DEF Released, CallErrors, Errors
  <2> QED BY <1>1, <2>1, <2>2, GiveUpStep
<1> QED BY <1>2, <1>3, <1>4, <1>5 DEF RequestStep, Reply, CancelCall, CallErrors, Errors

-----------------------------------------------------------------------------
(* The in-flight counts.                                                   *)

\* The requests other than r whose call is in flight at d.
Others(r, d) == InFlight(d) \ {r}

\* After Released(r), the counts are those of the other requests.
LEMMA ReleasedCounts ==
    ASSUME IInv, NEW r \in Requests, NEW d \in Deployments
    PROVE  Released(r)[d] = Cardinality(Others(r, d)) /\ IsFiniteSet(Others(r, d))
<1>1. IsFiniteSet(InFlight(d)) /\ IsFiniteSet(Others(r, d))
  BY RouterAssumption, FS_Subset DEF InFlight, Others
<1>2. active[d] = Cardinality(InFlight(d)) /\ active \in [Deployments -> Nat]
  BY IInvParts DEF IInv, ActiveMatchesInFlight
<1>3. CASE r \in InFlight(d)
  <2>1. Cardinality(Others(r, d)) = Cardinality(InFlight(d)) - 1
    BY <1>1, <1>3, FS_RemoveElement DEF Others
  <2>2. Cardinality(Others(r, d)) \in Nat
    BY <1>1, FS_CardinalityType
  <2>3. Released(r)[d] = IF active[d] > 0 THEN active[d] - 1 ELSE 0
    BY <1>2, <1>3 DEF Released, InFlight
  <2> QED BY <1>1, <1>2, <2>1, <2>2, <2>3
<1>4. CASE r \notin InFlight(d)
  <2>1. Others(r, d) = InFlight(d)
    BY <1>4 DEF Others
  <2>2. Released(r)[d] = active[d]
    BY <1>2, <1>4 DEF Released, InFlight
  <2> QED BY <1>1, <1>2, <2>1, <2>2
<1> QED BY <1>3, <1>4

\* A step of one request keeps the counts equal to the calls in flight.
LEMMA CountsStep ==
    ASSUME IInv, NEW r \in Requests, NEW z, Leaves(r, z, Released(r))
    PROVE  ActiveMatchesInFlight'
<1> SUFFICES ASSUME NEW d \in Deployments
             PROVE  active'[d] = Cardinality(InFlight(d)')
  BY DEF ActiveMatchesInFlight
<1>1. /\ Released(r)[d] = Cardinality(Others(r, d)) /\ IsFiniteSet(Others(r, d))
      /\ r \notin Others(r, d)
  BY ReleasedCounts DEF Others
<1>2. req' = [req EXCEPT ![r] = z] /\ req \in [Requests -> Request]
  BY IInvParts DEF Leaves
<1>3. d \in DOMAIN Released(r)
  BY IInvParts DEF Released
<1>4. CASE z.phase = "calling" /\ z.dep = d
  <2>1. InFlight(d)' = Others(r, d) \cup {r}
    BY <1>2, <1>4 DEF InFlight, Others
  <2>2. Cardinality(Others(r, d) \cup {r}) = Cardinality(Others(r, d)) + 1
    BY <1>1, FS_AddElement
  <2>3. active'[d] = Released(r)[d] + 1
    BY <1>3, <1>4 DEF Leaves
  <2> QED BY <1>1, <2>1, <2>2, <2>3
<1>5. CASE ~(z.phase = "calling" /\ z.dep = d)
  <2>1. InFlight(d)' = Others(r, d)
    BY <1>2, <1>5 DEF InFlight, Others
  <2>2. active'[d] = Released(r)[d]
    BY <1>3, <1>5 DEF Leaves
  <2> QED BY <1>1, <2>1, <2>2
<1> QED BY <1>4, <1>5

-----------------------------------------------------------------------------
(* The invariant.                                                          *)

LEMMA InitIInv == Init => IInv
<1> SUFFICES ASSUME Init PROVE IInv
  OBVIOUS
<1>1. NewRequest \in Request /\ NewRequest.phase = "new" /\ NewRequest.dep = None
  BY DEF NewRequest, Request, Kinds
<1>2. \A r \in Requests : req[r] = NewRequest
  BY DEF Init
<1>3. /\ Healthy \in CooldownState /\ Healthy.until = NotCooling
      /\ ~(Healthy.fails >= AllowedFails) /\ Healthy.until <= 0 + CooldownSeconds
  BY CooldownAssumption DEF Healthy, CooldownState, NotCooling
<1>4. TypeOK
  BY <1>1, <1>3 DEF Init, TypeOK
<1>5. PositionOK /\ CallsWithinBudget
  BY <1>1, <1>2 DEF PositionOK, Placed, CallsWithinBudget
<1>6. CooldownConsistent
  BY <1>3 DEF Init, CooldownConsistent
<1>7. ActiveMatchesInFlight
  <2> SUFFICES ASSUME NEW d \in Deployments PROVE active[d] = Cardinality(InFlight(d))
    BY DEF ActiveMatchesInFlight
  <2>1. InFlight(d) = {}
    BY <1>1, <1>2 DEF InFlight
  <2> QED BY <2>1, FS_EmptySet DEF Init
<1> QED BY <1>4, <1>5, <1>6, <1>7 DEF IInv

\* A step that touches only the cooldowns and the clock.
LEMMA QuietStep ==
    ASSUME IInv, UNCHANGED <<active, counter, providers, req>>,
           now' \in Nat, Agree(cool', now')
    PROVE  IInv'
<1>1. TypeOK'
  BY DEF IInv, TypeOK, Agree
<1>2. PositionOK' /\ CallsWithinBudget'
  BY DEF IInv, PositionOK, CallsWithinBudget
<1>3. CooldownConsistent'
  BY DEF Agree, CooldownConsistent
<1>4. ActiveMatchesInFlight'
  BY DEF IInv, ActiveMatchesInFlight, InFlight
<1> QED BY <1>1, <1>2, <1>3, <1>4 DEF IInv

LEMMA NextIInv == IInv /\ [Next]_vars => IInv'
<1> SUFFICES ASSUME IInv, [Next]_vars PROVE IInv'
  OBVIOUS
<1>1. /\ now \in Nat /\ Supplied /\ Agree(cool, now)
      /\ req \in [Requests -> Request] /\ \A s \in Requests : Good(req[s])
      /\ active \in [Deployments -> Nat]
  BY IInvParts
<1>2. ASSUME NEW r \in Requests, RequestStep(r) PROVE IInv'
  <2>1. PICK z : Leaves(r, z, Released(r)) /\ now' = now
    BY <1>2, RequestStepForm
  <2>2. \A s \in Requests : Good(req'[s])
    BY <1>1, <2>1 DEF Leaves
  <2>3. PositionOK' /\ CallsWithinBudget'
    BY <2>2 DEF PositionOK, CallsWithinBudget, Good, Budgeted
  <2>4. CooldownConsistent'
    BY <2>1 DEF Leaves, Agree, CooldownConsistent
  <2>5. ActiveMatchesInFlight'
    BY <2>1, CountsStep
  <2>6. TypeOK'
    <3>1. req' \in [Requests -> Request]
      BY <1>1, <2>1 DEF Leaves, Good
    <3>2. active' \in [Deployments -> Nat]
      <4>1. Released(r) \in [Deployments -> Nat]
        <5>1. \A e \in Deployments : (IF active[e] > 0 THEN active[e] - 1 ELSE 0) \in Nat
          BY <1>1
        <5> QED BY <1>1, <5>1 DEF Released
      <4>2. \A e \in Deployments : Released(r)[e] + 1 \in Nat
        BY <4>1
      <4>3. active' = IF z.phase = "calling" THEN [Released(r) EXCEPT ![z.dep] = @ + 1]
                                             ELSE Released(r)
        BY <2>1 DEF Leaves
      <4> QED BY <4>1, <4>2, <4>3
    <3> QED BY <1>1, <2>1, <3>1, <3>2 DEF Leaves, Supplied, Agree, TypeOK
  <2> QED BY <2>3, <2>4, <2>5, <2>6 DEF IInv
<1>3. ASSUME NEW m \in Models, Reset(m) \/ Expire(m) PROVE IInv'
  <2>1. /\ UNCHANGED <<now, active, counter, providers, req>>
        /\ cool' = record_success(cool, m) \/ cool' = expire(cool, m, now)
    BY <1>3 DEF Reset, Expire
  <2> QED BY <1>1, <2>1, CooldownOps, QuietStep
<1>4. ASSUME Tick PROVE IInv'
  <2>1. now' = now + 1 /\ UNCHANGED <<cool, active, counter, providers, req>>
    BY <1>4 DEF Tick
  <2>2. Agree(cool', now')
    BY <1>1, <2>1, CooldownAssumption DEF Agree, CooldownState, NotCooling
  <2> QED BY <1>1, <2>1, <2>2, QuietStep
<1>5. ASSUME UNCHANGED vars PROVE IInv'
  BY <1>1, <1>5, QuietStep DEF vars
<1> QED BY <1>2, <1>3, <1>4, <1>5 DEF Next

\* In every reachable state the request records, the counts and the cooldowns
\* have their types.
THEOREM TypeCorrect == Spec => []TypeOK
<1>1. IInv => TypeOK
  BY DEF IInv
<1> QED BY <1>1, InitIInv, NextIInv, PTL DEF Spec

\* execute_with_fallbacks and with_retry never leave their ranges, and a
\* request holds a deployment of its current model exactly while it calls.
THEOREM PositionCorrect == Spec => []PositionOK
<1>1. IInv => PositionOK
  BY DEF IInv
<1> QED BY <1>1, InitIInv, NextIInv, PTL DEF Spec

\* Deployment.active_requests is the number of calls in flight, in every
\* reachable state of every instance.
THEOREM CountsCorrect == Spec => []ActiveMatchesInFlight
<1>1. IInv => ActiveMatchesInFlight
  BY DEF IInv
<1> QED BY <1>1, InitIInv, NextIInv, PTL DEF Spec

\* The two dictionaries of CooldownManager always agree, and no cooldown
\* reaches further than cooldown_seconds into the future.
THEOREM CooldownCorrect == Spec => []CooldownConsistent
<1>1. IInv => CooldownConsistent
  BY DEF IInv
<1> QED BY <1>1, InitIInv, NextIInv, PTL DEF Spec

\* A request never makes more provider calls than its position in the chain
\* allows, for every chain length and every retry bound.
THEOREM BudgetCorrect == Spec => []CallsWithinBudget
<1>1. IInv => CallsWithinBudget
  BY DEF IInv
<1> QED BY <1>1, InitIInv, NextIInv, PTL DEF Spec

-----------------------------------------------------------------------------
(* The refinement of BoundedDispatch.                                      *)

\* The refinement mapping of Router, for a request record q.
StageOf(q) == IF q.phase = "new" THEN "idle"
              ELSE IF q.phase = "done" THEN "closed" ELSE "open"
CreditOf(q) ==
    IF StageOf(q) = "open"
    THEN (Len(chain(q.kind, q.model)) - q.idx) * (retries(q.kind) + 1)
         + (retries(q.kind) - q.attempt)
    ELSE 0
AnswerOf(q) == IF q.phase = "done" THEN q.last ELSE "none"

\* The credit of an open request is a natural number.
LEMMA CreditNat ==
    ASSUME NEW q, Good(q), StageOf(q) = "open"
    PROVE  /\ CreditOf(q) \in Nat
           /\ retries(q.kind) \in Nat /\ q.idx \in Nat /\ q.attempt \in Nat
           /\ Len(chain(q.kind, q.model)) \in Nat
<1>1. /\ q.kind \in Kinds /\ q.model \in Models /\ q.idx \in Nat /\ q.attempt \in Nat
      /\ q.idx \in 1..Len(chain(q.kind, q.model))
      /\ q.attempt \in 0..retries(q.kind)
  BY DEF Good, Request, Placed, StageOf
<1>2. retries(q.kind) \in Nat /\ Len(chain(q.kind, q.model)) \in Nat
  BY <1>1, ChainType, RouterAssumption DEF retries
<1>3. \A a, b, d \in Nat : a * (b + 1) + d \in Nat
  <2>1. \A a, b \in Nat : a * b \in Nat
    OBVIOUS
  <2> QED BY <2>1
<1>4. Len(chain(q.kind, q.model)) - q.idx \in Nat /\ retries(q.kind) - q.attempt \in Nat
  BY <1>1, <1>2
<1> QED BY <1>1, <1>2, <1>3, <1>4 DEF CreditOf

\* Every further call uses up credit.
LEMMA CreditFalls ==
    ASSUME NEW q, NEW z, Good(q), Good(z), Moves(q, z), StageOf(q) = "open",
           z.phase = "calling"
    PROVE  CreditOf(z) < CreditOf(q)
<1>1. StageOf(z) = "open" /\ z.kind = q.kind /\ z.model = q.model
  BY DEF Moves, StageOf
<1> DEFINE l == Len(chain(q.kind, q.model))
           b == retries(q.kind)
<1>2. /\ l \in Nat /\ b \in Nat /\ q.idx \in Nat /\ q.attempt \in Nat
      /\ CreditOf(q) = (l - q.idx) * (b + 1) + (b - q.attempt)
      /\ CreditOf(z) = (l - z.idx) * (b + 1) + (b - z.attempt)
  BY <1>1, CreditNat DEF CreditOf
<1>3. q.attempt <= b
  <2>1. q.attempt \in 0..b
    BY DEF Good, Placed, StageOf
  <2> HIDE DEF b
  <2> QED BY <1>2, <2>1
<1>4. CASE z.idx = q.idx /\ z.attempt = q.attempt + 1
  <2>1. (l - q.idx) * (b + 1) \in Int
    BY <1>2
  <2> HIDE DEF l, b
  <2> QED BY <1>2, <1>4, <2>1
<1>5. CASE z.idx = q.idx + 1 /\ z.attempt = 0
  <2>1. (l - (q.idx + 1)) * (b + 1) = (l - q.idx) * (b + 1) - (b + 1)
    BY <1>2
  <2>2. (l - q.idx) * (b + 1) \in Int
    BY <1>2
  <2> HIDE DEF l, b
  <2> QED BY <1>2, <1>3, <1>5, <2>1, <2>2
<1> QED BY <1>4, <1>5 DEF Moves, StageOf

\* A step of a request is a step of BoundedDispatch or changes none of its
\* variables.
LEMMA DispatchStep ==
    ASSUME IInv, NEW r \in Requests, RequestStep(r)
    PROVE  [Dispatch!DNext]_(Dispatch!dvars)
<1> DEFINE st == [s \in Requests |-> Stage(s)]
           cr == [s \in Requests |-> Credit(s)]
           an == [s \in Requests |-> Answer(s)]
           ma == [s \in Requests |-> req[s].calls]
<1>1. PICK z : Leaves(r, z, Released(r)) /\ Moves(req[r], z)
  BY RequestStepForm
<1> DEFINE q == req[r]
<1>2. /\ req \in [Requests -> Request] /\ Good(q) /\ Good(z)
      /\ req' = [req EXCEPT ![r] = z]
  BY <1>1, IInvParts DEF Leaves
<1>3. \A s \in Requests : /\ Stage(s) = StageOf(req[s]) /\ Stage(s)' = StageOf(req'[s])
                          /\ Credit(s) = CreditOf(req[s]) /\ Credit(s)' = CreditOf(req'[s])
                          /\ Answer(s) = AnswerOf(req[s]) /\ Answer(s)' = AnswerOf(req'[s])
  BY DEF Stage, StageOf, Credit, CreditOf, Answer, AnswerOf, Chain
<1>4. /\ req'[r] = z
      /\ \A s \in Requests : s # r => req'[s] = req[s]
  BY <1>2
<1>5. /\ st' = [st EXCEPT ![r] = StageOf(z)]
      /\ cr' = [cr EXCEPT ![r] = CreditOf(z)]
      /\ an' = [an EXCEPT ![r] = AnswerOf(z)]
      /\ ma' = [ma EXCEPT ![r] = z.calls]
      /\ st[r] = StageOf(q) /\ cr[r] = CreditOf(q) /\ an[r] = AnswerOf(q)
      /\ cr'[r] = CreditOf(z) /\ ma[r] = q.calls
  BY <1>3, <1>4, ZenonT(40)
<1>6. /\ (st[r] = StageOf(z) => st' = st) /\ (cr[r] = CreditOf(z) => cr' = cr)
      /\ (an[r] = AnswerOf(z) => an' = an) /\ (ma[r] = z.calls => ma' = ma)
  BY <1>5
<1>7. CASE q.phase = "new" /\ z.phase = "calling"
  <2>1. /\ StageOf(q) = "idle" /\ StageOf(z) = "open" /\ AnswerOf(z) = AnswerOf(q)
    BY <1>7 DEF StageOf, AnswerOf
  <2>2. CreditOf(z) \in Nat /\ z.calls = 1
    BY <1>1, <1>2, <1>7, <2>1, CreditNat DEF Moves, CallsMade
  <2>3. Dispatch!Accept(r)
    <3> HIDE DEF q
    <3> QED BY <1>5, <1>6, <2>1, <2>2 DEF Dispatch!Accept, Dispatch!SetCredit
  <2> QED BY <2>3 DEF Dispatch!DNext
<1>8. CASE q.phase = "new" /\ z.phase = "done"
  <2>1. /\ StageOf(q) = "idle" /\ StageOf(z) = "closed" /\ AnswerOf(z) = "not_found"
        /\ CreditOf(z) = 0 /\ CreditOf(q) = 0 /\ z.calls = 0
    BY <1>1, <1>8 DEF StageOf, AnswerOf, CreditOf, Moves, CallsMade
  <2>2. Dispatch!Refuse(r)
    <3> HIDE DEF q
    <3> QED BY <1>5, <1>6, <2>1 DEF Dispatch!Refuse
  <2> QED BY <2>2 DEF Dispatch!DNext
<1>9. CASE q.phase \in {"calling", "sleeping"} /\ z.phase = "calling"
  <2>1. /\ StageOf(q) = "open" /\ StageOf(z) = "open" /\ AnswerOf(z) = AnswerOf(q)
    BY <1>9 DEF StageOf, AnswerOf
  <2>2. CreditOf(z) \in Nat /\ CreditOf(z) < CreditOf(q) /\ z.calls = q.calls + 1
    BY <1>1, <1>2, <1>9, <2>1, CreditNat, CreditFalls DEF Moves, CallsMade
  <2>3. Dispatch!CallAgain(r)
    <3> HIDE DEF q
    <3> QED BY <1>5, <1>6, <2>1, <2>2 DEF Dispatch!CallAgain, Dispatch!SetCredit
  <2> QED BY <2>3 DEF Dispatch!DNext
<1>10. CASE q.phase \in {"calling", "sleeping"} /\ z.phase = "sleeping"
  <2>1. /\ StageOf(q) = StageOf(z) /\ AnswerOf(z) = AnswerOf(q)
        /\ CreditOf(z) = CreditOf(q) /\ z.calls = q.calls
    BY <1>1, <1>10 DEF StageOf, AnswerOf, CreditOf, Moves, CallsMade
  <2> HIDE DEF q
  <2> QED BY <1>5, <1>6, <2>1 DEF Dispatch!dvars
<1>11. CASE q.phase \in {"calling", "sleeping"} /\ z.phase = "done"
  <2>1. /\ StageOf(q) = "open" /\ StageOf(z) = "closed" /\ AnswerOf(z) = z.last
        /\ z.last \in Outcomes /\ CreditOf(z) = 0 /\ z.calls = q.calls
    BY <1>1, <1>11 DEF StageOf, AnswerOf, CreditOf, Moves, CallsMade
  <2>2. Dispatch!Close(r, z.last)
    <3> HIDE DEF q
    <3> QED BY <1>5, <1>6, <2>1 DEF Dispatch!Close
  <2> QED BY <2>1, <2>2 DEF Dispatch!DNext
<1>12. q.phase \in {"new", "calling", "sleeping", "done"}
  BY <1>2 DEF Good, Request
<1> QED BY <1>1, <1>7, <1>8, <1>9, <1>10, <1>11, <1>12 DEF Moves

\* The router implements BoundedDispatch: a request makes finitely many calls,
\* each using up credit, and is answered once, for every registry, fallback
\* table and retry bound.
THEOREM RouterImplementsDispatch == Spec => ImplementsDispatch
<1>1. Init => Dispatch!DInit
  <2> SUFFICES ASSUME Init PROVE Dispatch!DInit
    OBVIOUS
  <2>1. \A r \in Requests : /\ Stage(r) = "idle" /\ Credit(r) = 0
                            /\ Answer(r) = "none" /\ req[r].calls = 0
    BY DEF Init, NewRequest, Stage, Credit, Answer
  <2> QED BY <2>1 DEF Dispatch!DInit
<1>2. IInv /\ [Next]_vars => [Dispatch!DNext]_(Dispatch!dvars)
  <2> SUFFICES ASSUME IInv, [Next]_vars PROVE [Dispatch!DNext]_(Dispatch!dvars)
    OBVIOUS
  <2>1. ASSUME NEW r \in Requests, RequestStep(r)
        PROVE  [Dispatch!DNext]_(Dispatch!dvars)
    BY <2>1, DispatchStep
  <2>2. ASSUME UNCHANGED req PROVE UNCHANGED Dispatch!dvars
    BY <2>2 DEF Dispatch!dvars, Stage, Credit, Answer, Chain
  <2> QED BY <2>1, <2>2 DEF Next, Reset, Expire, Tick, vars
<1> QED BY <1>1, <1>2, InitIInv, NextIInv, PTL DEF Spec, ImplementsDispatch, Dispatch!DSpec

-----------------------------------------------------------------------------
(* The breaker in front of the providers.                                  *)

\* An attempt that makes a call makes it to a model that is not cooling in the
\* state the step ends in.
LEMMA AttemptNotCooling ==
    ASSUME NEW r \in Requests, NEW q \in Request, NEW i, NEW n, NEW c, NEW act,
           req \in [Requests -> Request], Attempt(r, q, i, n, c, act),
           q.calls <= req[r].calls,
           NEW s \in Requests, req'[s].calls > req[s].calls
    PROVE  ~is_in_cooldown(cool', Current(s)', now)
<1> DEFINE m     == chain(q.kind, q.model)[i]
           c2    == expire(c, m, now)
           avail == get_deployments(c2, m)
<1>1. CASE avail = <<>>
  <2> DEFINE z == [q EXCEPT !.phase = "done", !.idx = i, !.attempt = n,
                            !.dep = None, !.last = "not_found"]
  <2>1. req' = [req EXCEPT ![r] = z]
    BY <1>1 DEF Attempt
  <2>2. z.calls = q.calls
    BY DEF Request
  <2> HIDE DEF z
  <2>3. req'[s].calls <= req[s].calls
    <3>1. req[s].calls \in Nat
      BY DEF Request
    <3> QED BY <2>1, <2>2, <3>1
  <2>4. req[s].calls \in Nat /\ req'[s].calls \in Nat
    <3>1. q.calls \in Nat /\ req[s].calls \in Nat
      BY DEF Request
    <3> QED BY <2>1, <2>2, <3>1
  <2> QED BY <2>3, <2>4
<1>2. CASE avail # <<>>
  <2>1. PICK d : req' = [req EXCEPT ![r] = [q EXCEPT !.phase = "calling", !.idx = i,
                            !.attempt = n, !.dep = d, !.calls = @ + 1]]
    BY <1>2 DEF Attempt
  <2> DEFINE z == [q EXCEPT !.phase = "calling", !.idx = i, !.attempt = n,
                            !.dep = d, !.calls = @ + 1]
  <2>2. z.kind = q.kind /\ z.model = q.model /\ z.idx = i
    BY DEF Request
  <2>3. req' = [req EXCEPT ![r] = z]
    BY <2>1
  <2> HIDE DEF z
  <2>4. s = r
    <3>1. req[s].calls \in Nat
      BY DEF Request
    <3> QED BY <2>3, <3>1
  <2>5. Current(s)' = m
    BY <2>2, <2>3, <2>4 DEF Current, Chain
  <2>6. cool' = c2 /\ ~is_in_cooldown(c2, m, now)
    BY <1>2 DEF Attempt, get_deployments
  <2> QED BY <2>5, <2>6
<1> QED BY <1>1, <1>2

\* No provider is called while its model is cooling.
THEOREM CooldownRespected == Spec => NoCallIntoCooldown
<1>1. IInv /\ [Next]_vars => [CallsRespectCooldown]_vars
  <2> SUFFICES ASSUME IInv, [Next]_vars, NEW s \in Requests,
                      req'[s].calls > req[s].calls
               PROVE  ~is_in_cooldown(cool', Current(s)', now)
    BY DEF CallsRespectCooldown
  <2>1. req \in [Requests -> Request] /\ req[s].calls \in Nat
    BY IInvParts DEF Request
  <2>2. ~(req' = req)
    BY <2>1
  <2>3. PICK r \in Requests : RequestStep(r)
    BY <2>2 DEF Next, Reset, Expire, Tick, vars
  <2>4. req[r] \in Request
    BY <2>1
  <2>5. ASSUME NEW q \in Request, NEW i, NEW n, NEW c, NEW act,
               Attempt(r, q, i, n, c, act), q.calls <= req[r].calls
        PROVE  ~is_in_cooldown(cool', Current(s)', now)
    BY <2>1, <2>5, AttemptNotCooling
  <2>6. ASSUME NEW p, NEW l, req' = [req EXCEPT ![r].phase = p, ![r].last = l,
                                                ![r].dep = None]
        PROVE  FALSE
    <3>1. req'[r].calls = req[r].calls /\ (s # r => req'[s] = req[s])
      BY <2>1, <2>4, <2>6 DEF Request
    <3> QED BY <2>1, <3>1
  <2>7. ASSUME NEW o \in Outcomes, NEW c, NEW act, GiveUpModel(r, o, c, act)
        PROVE  ~is_in_cooldown(cool', Current(s)', now)
    <3> DEFINE q == [req[r] EXCEPT !.last = o]
    <3>1. CASE Attempt(r, q, req[r].idx + 1, 0, c, act)
      <4>1. q \in Request /\ q.calls <= req[r].calls
        BY <2>4 DEF Request
      <4> QED BY <2>5, <3>1, <4>1
    <3>2. CASE Finish(r, o)
      BY <2>6, <3>2 DEF Finish
    <3> QED BY <2>7, <3>1, <3>2 DEF GiveUpModel
  <2>8. CASE Submit(r)
    <3>1. PICK k \in Kinds, m \in Models :
            Attempt(r, [NewRequest EXCEPT !.kind = k, !.model = m], 1, 0, cool, active)
      BY <2>8 DEF Submit
    <3> DEFINE q == [NewRequest EXCEPT !.kind = k, !.model = m]
    <3>2. q \in Request /\ q.calls = 0
      BY DEF NewRequest, Request
    <3>3. q.calls <= req[r].calls
      BY <2>4, <3>2 DEF Request
    <3> QED BY <2>5, <3>1, <3>2, <3>3
  <2>9. ASSUME NEW o \in Outcomes, Return(r, o)
        PROVE  ~is_in_cooldown(cool', Current(s)', now)
    <3>1. CASE \E c, act : GiveUpModel(r, o, c, act)
      BY <2>7, <3>1
    <3>2. CASE \E p, l : req' = [req EXCEPT ![r].phase = p, ![r].last = l, ![r].dep = None]
      BY <2>6, <3>2
    <3> QED BY <2>9, <3>1, <3>2 DEF Return, Finish
  <2>10. CASE Wake(r)
    <3>1. req[r].calls <= req[r].calls
      BY <2>4 DEF Request
    <3> QED BY <2>4, <2>5, <2>10, <3>1 DEF Wake
  <2>11. CASE CancelSleep(r)
    BY <2>7, <2>11 DEF CancelSleep, Outcomes, Errors
  <2>12. {"ok"} \cup CallErrors \subseteq Outcomes
    BY DEF CallErrors, Outcomes
  <2>13. "cancelled" \in Outcomes
    BY DEF Outcomes, Errors
  <2> QED BY <2>3, <2>8, <2>9, <2>10, <2>11, <2>12, <2>13 DEF RequestStep, Reply, CancelCall
<1> QED BY <1>1, InitIInv, NextIInv, PTL DEF Spec, NoCallIntoCooldown

\* A client that disconnects, in a call or in a sleep, brings no model closer to
\* its cooldown, whatever the model its request goes on with.
THEOREM AbortHarmless == Spec => AbortNeverCounts
<1>1. IInv /\ [Next]_vars =>
        [\A r \in Requests : (CancelCall(r) \/ CancelSleep(r)) =>
            \A m \in Models : cool'[m].fails <= cool[m].fails]_vars
  <2> SUFFICES ASSUME IInv, NEW r \in Requests, CancelCall(r) \/ CancelSleep(r), NEW m \in Models
               PROVE  cool'[m].fails <= cool[m].fails
    OBVIOUS
  <2>1. cool \in [Models -> CooldownState]
    BY DEF IInv, TypeOK
  <2>2. report(cool, req[r].kind, Current(r), "cancelled") = cool
    BY DEF report, counts_as_failure, should_retry
  <2>3. cool' = cool \/ \E i : cool' = expire(cool, i, now)
    BY <2>2 DEF CancelCall, CancelSleep, Return, GiveUpModel, Attempt
  <2> QED BY <2>1, <2>3 DEF expire, Healthy, CooldownState
<1> QED BY <1>1, InitIInv, NextIInv, PTL DEF Spec, AbortNeverCounts

-----------------------------------------------------------------------------
(* The invariants of the router survive the health checker running beside  *)
(* it: the composition RouterHealth keeps IInv.                            *)

HIInv == IInv /\ HTypeOK /\ RoundOpenWhileProbing

\* A registered deployment has a name, and the name is a model.
LEMMA NameType ==
    ASSUME NEW d \in Registered
    PROVE  NameOf(d) \in Models
  BY DEF Registered, NameOf

\* What the checker does to the shared state keeps IInv.
LEMMA HealthKeepsIInv ==
    ASSUME HIInv, HealthStep
    PROVE  IInv'
<1>1. /\ IInv /\ now \in Nat /\ Agree(cool, now)
  BY IInvParts DEF HIInv
<1>2. ASSUME RunChecks PROVE IInv'
  <2>1. UNCHANGED <<now, cool, active, counter, req>>
    BY <1>2 DEF RunChecks
  <2>2. providers' \in [Models -> Deployments \cup {None}]
    <3>1. \A m \in Models : Registry[m] # <<>> => Registry[m][1] \in Deployments
      BY RouterAssumption
    <3> QED BY <1>1, <1>2, <3>1 DEF RunChecks, IInv, TypeOK
  <2>3. TypeOK'
    BY <1>1, <2>1, <2>2 DEF IInv, TypeOK
  <2>4. PositionOK' /\ CallsWithinBudget' /\ CooldownConsistent'
    BY <1>1, <2>1 DEF IInv, PositionOK, CallsWithinBudget, CooldownConsistent
  <2>5. ActiveMatchesInFlight'
    BY <1>1, <2>1 DEF IInv, ActiveMatchesInFlight, InFlight
  <2> QED BY <2>3, <2>4, <2>5 DEF IInv
<1>3. ASSUME NEW d \in Deployments, NEW ok \in BOOLEAN, ProbeReturn(d, ok) PROVE IInv'
  <2>1. NameOf(d) \in Models
    BY <1>3, NameType DEF HIInv, HTypeOK, ProbeReturn
  <2>2. Agree(cool', now)
    BY <1>1, <1>3, <2>1, CooldownOps DEF ProbeReturn
  <2>3. UNCHANGED <<now, active, counter, providers, req>>
    BY <1>3 DEF ProbeReturn
  <2> QED BY <1>1, <2>2, <2>3, QuietStep
<1>4. ASSUME UNCHANGED vars PROVE IInv'
  BY <1>1, <1>4, QuietStep DEF vars
<1> QED BY <1>2, <1>3, <1>4 DEF HealthStep, Start, Stop

LEMMA HInitIInv == HInit => HIInv
  BY InitIInv, HealthAssumption DEF HInit, HIInv, HTypeOK, RoundOpenWhileProbing, IInv

LEMMA HNextIInv == HIInv /\ [HNext]_allvars => HIInv'
<1> SUFFICES ASSUME HIInv, [HNext]_allvars PROVE HIInv'
  OBVIOUS
<1>1. IInv'
  <2>1. CASE HealthStep
    BY <2>1, HealthKeepsIInv
  <2>2. CASE RouterStep \/ UNCHANGED allvars
    BY <2>2, NextIInv DEF HIInv, RouterStep, allvars, vars
  <2> QED BY <2>1, <2>2 DEF HNext
<1>2. /\ checker' \in {"stopped", "sleeping", "probing"}
      /\ probing' \subseteq Registered /\ rounds' \in 0..MaxRounds
      /\ RoundOpenWhileProbing'
  <2>1. CASE Start
    BY <2>1 DEF HIInv, HTypeOK, Start, RoundOpenWhileProbing
  <2>2. CASE RunChecks
    BY <2>2, HealthAssumption DEF HIInv, HTypeOK, RunChecks, RoundOpenWhileProbing
  <2>3. CASE Stop
    BY <2>3 DEF HIInv, HTypeOK, Stop, RoundOpenWhileProbing
  <2>4. ASSUME NEW d \in Deployments, NEW ok \in BOOLEAN, ProbeReturn(d, ok)
        PROVE  /\ checker' \in {"stopped", "sleeping", "probing"}
               /\ probing' \subseteq Registered /\ rounds' \in 0..MaxRounds
               /\ RoundOpenWhileProbing'
    <3>1. probing' = probing \ {d} /\ d \in probing /\ rounds' = rounds
      BY <2>4 DEF ProbeReturn
    <3>2. checker' = IF probing = {d} THEN "sleeping" ELSE checker
      BY <2>4 DEF ProbeReturn
    <3> QED BY <3>1, <3>2 DEF HIInv, HTypeOK, RoundOpenWhileProbing
  <2>5. CASE RouterStep \/ UNCHANGED allvars
    BY <2>5 DEF HIInv, HTypeOK, RoundOpenWhileProbing, RouterStep, hvars, allvars
  <2> QED BY <2>1, <2>2, <2>3, <2>4, <2>5 DEF HNext, HealthStep
<1> QED BY <1>1, <1>2 DEF HIInv, HTypeOK, IInv

\* The in-flight counts stay exact with the probes running.
THEOREM CountsCorrectWithHealth == HSpec => []ActiveMatchesInFlight
<1>1. HIInv => ActiveMatchesInFlight
  BY DEF HIInv, IInv
<1> QED BY <1>1, HInitIInv, HNextIInv, PTL DEF HSpec

\* Probe results arriving between, or together with, the failures of requests
\* leave the two dictionaries of CooldownManager in agreement.
THEOREM CooldownCorrectWithHealth == HSpec => []CooldownConsistent
<1>1. HIInv => CooldownConsistent
  BY DEF HIInv, IInv
<1> QED BY <1>1, HInitIInv, HNextIInv, PTL DEF HSpec

\* The router and its checker keep the types of their state.
THEOREM HealthTypeCorrect == HSpec => []HTypeOK
<1>1. HIInv => HTypeOK
  BY DEF HIInv
<1> QED BY <1>1, HInitIInv, HNextIInv, PTL DEF HSpec

\* A round is open exactly while a probe is in flight, stop() included.
THEOREM RoundCorrect == HSpec => []RoundOpenWhileProbing
<1>1. HIInv => RoundOpenWhileProbing
  BY DEF HIInv
<1> QED BY <1>1, HInitIInv, HNextIInv, PTL DEF HSpec
=============================================================================
