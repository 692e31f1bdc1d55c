------------------------------- MODULE Accounts -------------------------------
(***************************************************************************)
(* The rows the proxy keeps about users, teams, memberships, virtual keys  *)
(* and spend (db/models.py, db/repositories), the management routes that   *)
(* change them (proxy/routes/keys.py, users.py, teams.py), and the         *)
(* requests that are admitted by a key and logged when they end.           *)
(*                                                                         *)
(* A handler runs in a transaction of its own: it reads, then writes the   *)
(* columns it has changed, and the commit is one step.  The database is    *)
(* external: READ COMMITTED, with the unique keys of the models and, where *)
(* it enforces them, their foreign keys: PostgreSQL does, SQLite, which is *)
(* the default, only after a PRAGMA that create_engine() does not issue.   *)
(* A write that does not depend on what was read is one step; those that   *)
(* do (rotation, deletion of a team, a new member) are two.                *)
(***************************************************************************)
EXTENDS Integers, FiniteSets

CONSTANTS AcUsers, AcTeams, AcKeys, \* ids that may come to exist
          Handlers,                 \* concurrent two-step handlers
          AcRequests,               \* requests that carry a key
          Nobody,                   \* no user, no team, no budget, no key
          Never,                    \* no expires_at
          KeyBudget,                \* a max_budget
          Bodies,                   \* of POST /key/generate: records of a row's settings
          AcMaxTime                 \* bound of the clock

ASSUME AccountsAssumption == \A body \in Bodies :
    /\ body.expires \in {Never} \cup Nat
    /\ body.user \in AcUsers \cup {Nobody} /\ body.team \in AcTeams \cup {Nobody}

VARIABLES acUsers,   \* user |-> is_active, on the rows there are
          acTeams,   \* the teams there are
          acGone,    \* history: the teams there were, whose ids are not used again
          members,   \* <<user, team>>: rows of user_teams
          keys,      \* key |-> row of virtual_keys, on the rows there are
          logged,    \* key |-> sum of its rows in spend_logs
          handler,   \* per two-step handler: what it has read
          served,    \* per request: the key that admitted it while it runs
          acNow,
          enforces   \* does the database enforce foreign keys?

acvars == <<acUsers, acTeams, acGone, members, keys, logged, handler, served, acNow, enforces>>

NoRead == [op |-> "none", key |-> Nobody, user |-> Nobody, team |-> Nobody, row |-> Nobody,
           seen |-> {}]
Idles == {h \in Handlers : handler[h].op = "none"}

AcInit ==
    /\ acUsers = <<>> /\ acTeams = {} /\ acGone = {} /\ members = {} /\ keys = <<>>
    /\ enforces \in BOOLEAN
    /\ logged = [k \in AcKeys |-> 0]
    /\ handler = [h \in Handlers |-> NoRead]
    /\ served = [r \in AcRequests |-> Nobody]
    /\ acNow = 0

ROLE_PERMISSIONS ==
    [admin    |-> {"teams:manage", "users:manage", "llm:access"},
     editor   |-> {"llm:access"},
     viewer   |-> {},
     api_user |-> {"llm:access"}]

\* require_permission() for some caller; the routes of keys ask for the master key.
require_permission(perm) == \E role \in DOMAIN ROLE_PERMISSIONS : perm \in ROLE_PERMISSIONS[role]

With(f, x, v) == [y \in DOMAIN f \cup {x} |-> IF y = x THEN v ELSE f[y]]

\* What a row refers to exists: the foreign keys of virtual_keys and of user_teams.
refers(user, team) == user \in DOMAIN acUsers \cup {Nobody} /\ team \in acTeams \cup {Nobody}

-----------------------------------------------------------------------------
\* POST /user/new, with the unique e-mail as the id ...
CreateUser(u) ==
    /\ require_permission("users:manage")
    /\ u \notin DOMAIN acUsers
    /\ acUsers' = With(acUsers, u, TRUE)
    /\ UNCHANGED <<acTeams, acGone, members, keys, logged, handler, served, acNow, enforces>>

\* ... and /user/delete, which leaves keys and memberships alone.
DeactivateUser(u) ==
    /\ require_permission("users:manage")
    /\ u \in DOMAIN acUsers /\ acUsers[u]
    /\ acUsers' = With(acUsers, u, FALSE)
    /\ UNCHANGED <<acTeams, acGone, members, keys, logged, handler, served, acNow, enforces>>

\* POST /team/new, with an id of its own (a name that is taken is refused).
CreateTeam(t) ==
    /\ require_permission("teams:manage")
    /\ t \notin acTeams \cup acGone
    /\ acTeams' = acTeams \cup {t}
    /\ UNCHANGED <<acUsers, acGone, members, keys, logged, handler, served, acNow, enforces>>

\* POST /team/member/add looks for the team, the user and the membership ...
ReadMember(h, u, t) ==
    /\ require_permission("teams:manage")
    /\ h \in Idles /\ u \in DOMAIN acUsers /\ t \in acTeams /\ <<u, t>> \notin members
    /\ handler' = [handler EXCEPT ![h] = [NoRead EXCEPT !.op = "member", !.user = u, !.team = t]]
    /\ UNCHANGED <<acUsers, acTeams, acGone, members, keys, logged, served, acNow, enforces>>

\* ... and inserts it, unless another handler has, ...
AddMember(h) ==
    /\ handler[h].op = "member"
    /\ <<handler[h].user, handler[h].team>> \notin members
    /\ enforces => refers(handler[h].user, handler[h].team)
    /\ members' = members \cup {<<handler[h].user, handler[h].team>>}
    /\ handler' = [handler EXCEPT ![h] = NoRead]
    /\ UNCHANGED <<acUsers, acTeams, acGone, keys, logged, served, acNow, enforces>>

\* ... or the team has gone, and the database refuses.
AddFails(h) ==
    /\ handler[h].op = "member"
    /\ \/ <<handler[h].user, handler[h].team>> \in members
       \/ enforces /\ ~refers(handler[h].user, handler[h].team)
    /\ handler' = [handler EXCEPT ![h] = NoRead]
    /\ UNCHANGED <<acUsers, acTeams, acGone, members, keys, logged, served, acNow, enforces>>

\* POST /team/member/remove.
RemoveMember(u, t) ==
    /\ require_permission("teams:manage")
    /\ <<u, t>> \in members
    /\ members' = members \ {<<u, t>>}
    /\ UNCHANGED <<acUsers, acTeams, acGone, keys, logged, handler, served, acNow, enforces>>

\* POST /team/delete reads the team, its members and its keys.  A team with members
\* cannot be deleted: the session would have to clear the team of each of them, which is
\* part of its primary key, and raises.
ReadTeam(h, t) ==
    /\ require_permission("teams:manage")
    /\ h \in Idles /\ t \in acTeams
    /\ \A u \in AcUsers : <<u, t>> \notin members
    /\ handler' = [handler EXCEPT ![h] = [NoRead EXCEPT !.op = "delete", !.team = t,
                       !.seen = {k \in DOMAIN keys : keys[k].team = t}]]
    /\ UNCHANGED <<acUsers, acTeams, acGone, members, keys, logged, served, acNow, enforces>>

\* Variant: only the keys that were read lose the team.
DeleteTeam_seen(h) ==
    /\ handler[h].op = "delete"
    /\ LET t == handler[h].team
       IN  /\ acTeams' = acTeams \ {t} /\ acGone' = acGone \cup {t}
           /\ members' = {m \in members : enforces => m[2] # t}
           /\ keys' = [k \in DOMAIN keys |->
                  IF k \in handler[h].seen THEN [keys[k] EXCEPT !.team = Nobody] ELSE keys[k]]
    /\ handler' = [handler EXCEPT ![h] = NoRead]
    /\ UNCHANGED <<acUsers, logged, served, acNow, enforces>>

\* The commit.  The session has cleared the team of the keys it read; those made since
\* are left to ON DELETE SET NULL, as the members added since are to ON DELETE CASCADE,
\* which are of effect only where foreign keys are enforced.
DeleteTeam(h) ==
    /\ handler[h].op = "delete"
    /\ LET t == handler[h].team
           cleared == {k \in DOMAIN keys : k \in handler[h].seen \/ (enforces /\ keys[k].team = t)}
       IN  /\ acTeams' = acTeams \ {t} /\ acGone' = acGone \cup {t}
           /\ members' = {m \in members : enforces => m[2] # t}
           /\ keys' = [k \in DOMAIN keys |->
                  IF k \in cleared THEN [keys[k] EXCEPT !.team = Nobody] ELSE keys[k]]
    /\ handler' = [handler EXCEPT ![h] = NoRead]
    /\ UNCHANGED <<acUsers, logged, served, acNow, enforces>>

-----------------------------------------------------------------------------
\* POST /key/generate looks for neither the user nor the team it is given.
GenerateKey(k, body) ==
    /\ k \notin DOMAIN keys
    /\ enforces => refers(body.user, body.team)
    /\ keys' = With(keys, k, [user |-> body.user, team |-> body.team, expires |-> body.expires,
                              budget |-> body.budget, active |-> TRUE, spend |-> 0])
    /\ UNCHANGED <<acUsers, acTeams, acGone, members, logged, handler, served, acNow, enforces>>

\* POST /key/update; fields that are null are not changed.
UpdateKey(k, expires) ==
    /\ k \in DOMAIN keys
    /\ keys' = [keys EXCEPT ![k].expires = expires]
    /\ UNCHANGED <<acUsers, acTeams, acGone, members, logged, handler, served, acNow, enforces>>

\* POST /key/delete.
DeleteKey(k) ==
    /\ k \in DOMAIN keys
    /\ keys' = [keys EXCEPT ![k].active = FALSE]
    /\ UNCHANGED <<acUsers, acTeams, acGone, members, logged, handler, served, acNow, enforces>>

\* POST /key/rotate reads the old key, whatever its state ...
ReadKey(h, k) ==
    /\ h \in Idles /\ k \in DOMAIN keys
    /\ handler' = [handler EXCEPT ![h] = [NoRead EXCEPT !.op = "rotate", !.key = k, !.row = keys[k]]]
    /\ UNCHANGED <<acUsers, acTeams, acGone, members, keys, logged, served, acNow, enforces>>

\* Variant: the whole row is written back, not only what has changed.
RotateKey_rows(h, new, grace) ==
    /\ handler[h].op = "rotate" /\ new \notin DOMAIN keys
    /\ LET old == handler[h].key
           row == handler[h].row
           end == IF grace > 0 THEN [row EXCEPT !.expires = acNow + grace]
                               ELSE [row EXCEPT !.active = FALSE]
       IN  /\ enforces => refers(row.user, row.team)
           /\ keys' = With([keys EXCEPT ![old] = end], new, [row EXCEPT !.active = TRUE, !.spend = 0])
    /\ handler' = [handler EXCEPT ![h] = NoRead]
    /\ UNCHANGED <<acUsers, acTeams, acGone, members, logged, served, acNow, enforces>>

\* ... makes a new one with the owner and settings read, and ends the old one now or after
\* the grace period, which may be later than the end it had.
RotateKey(h, new, grace) ==
    /\ handler[h].op = "rotate" /\ new \notin DOMAIN keys
    /\ LET old == handler[h].key
           row == handler[h].row
           end == IF grace > 0 THEN [keys[old] EXCEPT !.expires = acNow + grace]
                               ELSE [keys[old] EXCEPT !.active = FALSE]
       IN  /\ enforces => refers(row.user, row.team)
           /\ keys' = With([keys EXCEPT ![old] = end], new, [row EXCEPT !.active = TRUE, !.spend = 0])
    /\ handler' = [handler EXCEPT ![h] = NoRead]
    /\ UNCHANGED <<acUsers, acTeams, acGone, members, logged, served, acNow, enforces>>

\* The insert of the new key is refused when its team has gone and the database looks.
RotateFails(h) ==
    /\ handler[h].op = "rotate"
    /\ enforces /\ ~refers(handler[h].row.user, handler[h].row.team)
    /\ handler' = [handler EXCEPT ![h] = NoRead]
    /\ UNCHANGED <<acUsers, acTeams, acGone, members, keys, logged, served, acNow, enforces>>

-----------------------------------------------------------------------------
\* validate_key(): what it looks at, in its order.
valid(k) ==
    /\ k \in DOMAIN keys
    /\ keys[k].active
    /\ keys[k].expires # Never => acNow < keys[k].expires
    /\ keys[k].budget # Nobody => keys[k].spend < keys[k].budget

\* AuthMiddleware finds the key of a request valid; others are anonymous.
AdmitKey(r, k) ==
    /\ served[r] = Nobody /\ valid(k)
    /\ served' = [served EXCEPT ![r] = k]
    /\ UNCHANGED <<acUsers, acTeams, acGone, members, keys, logged, handler, acNow, enforces>>

\* The request ends: SpendLogCallback writes a row; the spend of the key stays as it is.
LogSpend(r, cost) ==
    LET k == served[r]
    IN  /\ k # Nobody /\ logged[k] < KeyBudget       \* bound of the model
        /\ logged' = [logged EXCEPT ![k] = @ + cost]
        /\ served' = [served EXCEPT ![r] = Nobody]
        /\ UNCHANGED <<acUsers, acTeams, acGone, members, keys, handler, acNow, enforces>>

AcTick ==
    /\ acNow < AcMaxTime
    /\ acNow' = acNow + 1
    /\ UNCHANGED <<acUsers, acTeams, acGone, members, keys, logged, handler, served, enforces>>

Expiries == {Never} \cup 0..AcMaxTime

AcNext ==
    \/ \E u \in AcUsers : CreateUser(u) \/ DeactivateUser(u)
    \/ \E t \in AcTeams : CreateTeam(t)
    \/ \E u \in AcUsers, t \in AcTeams :
         RemoveMember(u, t) \/ \E h \in Handlers : ReadMember(h, u, t)
    \/ \E k \in AcKeys, body \in Bodies : GenerateKey(k, body)
    \/ \E k \in AcKeys : DeleteKey(k) \/ \E expires \in Expiries \ {Never} : UpdateKey(k, expires)
    \/ \E h \in Handlers :
         \/ \E t \in AcTeams : ReadTeam(h, t)
         \/ \E k \in AcKeys : ReadKey(h, k) \/ \E grace \in 0..1 : RotateKey(h, k, grace)
         \/ DeleteTeam(h) \/ RotateFails(h) \/ AddMember(h) \/ AddFails(h)
    \/ \E r \in AcRequests :
         \/ \E k \in AcKeys : AdmitKey(r, k)
         \/ \E cost \in 0..1 : LogSpend(r, cost)
    \/ AcTick

AcSpec == AcInit /\ [][AcNext]_acvars

-----------------------------------------------------------------------------
AcTypeOK ==
    /\ DOMAIN acUsers \subseteq AcUsers /\ acTeams \subseteq AcTeams /\ acGone \subseteq AcTeams
    /\ DOMAIN keys \subseteq AcKeys
    /\ \A k \in DOMAIN keys : keys[k].active \in BOOLEAN /\ keys[k].expires \in Expiries \cup Nat
    /\ \A k \in AcKeys : logged[k] \in Nat

\* The foreign keys of db/models.py, for every row there is.
Referenced ==
    /\ \A m \in members : refers(m[1], m[2])
    /\ \A k \in DOMAIN keys : refers(keys[k].user, keys[k].team)

\* Where the database enforces foreign keys, memberships and keys refer to rows that exist,
\* whichever handlers overlap.  Where it does not, the look-ups of the routes still keep a
\* membership from naming a user that never was, or a team that neither is nor was.
ReferencesSound ==
    /\ enforces => Referenced
    /\ \A m \in members : m[1] \in DOMAIN acUsers /\ m[2] \in acTeams \cup acGone

\* user_id, team_id: "ForeignKey(...)" (db/models.py:120-121, 144, 147) says so of every row
\* of every database.  It does not hold: on SQLite a key may be made for a user that does
\* not exist, as tests/unit/test_api_keys.py:313 does, and a team may be deleted while a
\* member is being added.
ReferencesExist == Referenced

\* "The key record is preserved but can no longer authenticate" (routes/keys.py:230): a key
\* that was deactivated is never active again, whatever a handler had read before.
DeactivatedStays == [][\A k \in DOMAIN keys :
    k \in DOMAIN keys' /\ (~keys[k].active => ~keys'[k].active)]_acvars

\* "Max spend in USD" (routes/keys.py:45): a key of which as much has been spent as it may
\* admits no further request.
KeyBudgetEnforced == [][\A r \in AcRequests, k \in DOMAIN keys :
    AdmitKey(r, k) /\ keys[k].budget # Nobody => logged[k] < keys[k].budget]_acvars

-----------------------------------------------------------------------------
(***************************************************************************)
(* The ProviderBudgetManager of router/budget.py.  Providers and tags have *)
(* budgets of the same form in two pairs of tables; a name of Providers or *)
(* Tags stands for its entry in either pair.  A period that has elapsed    *)
(* starts again only when its budget is looked at or charged.              *)
(*                                                                         *)
(* Every call reads a clock of its own: time.time() does not stand still   *)
(* between two calls.  Costs are whole numbers of some small unit.         *)
(***************************************************************************)
CONSTANTS Providers, Tags,
          Budgets,      \* sets of max_budget values
          Periods,      \* lengths of budget periods; 0 stands for UNLIMITED
          Costs,        \* costs of one call, a provider may report none or less
          BuMaxTime     \* bound on the clock

Names == Providers \cup Tags

ASSUME BudgetAssumption ==
    /\ Providers \cap Tags = {} /\ Budgets \subseteq Nat /\ Periods \subseteq Nat
    /\ Costs \subseteq Int /\ BuMaxTime \in Nat

VARIABLES budgets,    \* _provider_budgets and _tag_budgets
          states,     \* _provider_states and _tag_states
          buNow,      \* time.time()
          charges     \* history: what each name was charged from each moment on, since
                      \* it has its budget

buvars == <<budgets, states, buNow, charges>>

Moments == 0 .. BuMaxTime + 1
Uncharged == [t \in Moments |-> 0]

None == [max |-> 0, period |-> -1]     \* no budget is configured
NoState == [spend |-> 0, start |-> -1] \* nothing is tracked yet

BuInit ==
    /\ budgets = [n \in Names |-> None]
    /\ states = [n \in Names |-> NoState]
    /\ buNow = 0
    /\ charges = [n \in Names |-> Uncharged]

\* _get_provider_state() and _get_tag_state(): a new state starts now.
tracked(n, now) == IF states[n] = NoState THEN [spend |-> 0, start |-> now] ELSE states[n]

should_reset(n, state, now) ==
    budgets[n].period # 0 /\ now - state.start >= budgets[n].period

\* Variant: the spend starts again, the period does not.
refreshed_spend(n, now) ==
    LET state == tracked(n, now)
    IN  IF should_reset(n, state, now) THEN [state EXCEPT !.spend = 0] ELSE state

\* The state of n after a look at it.
refreshed(n, now) ==
    LET state == tracked(n, now)
    IN  IF should_reset(n, state, now) THEN [spend |-> 0, start |-> now] ELSE state

\* The clock advances between any two calls.
Tick == buNow < BuMaxTime /\ \E step \in {1, 2} : buNow' = buNow + step

\* set_provider_budget() and set_tag_budget(): what was spent stays.
SetBudget(n, max, period) ==
    /\ Tick
    /\ budgets' = [budgets EXCEPT ![n] = [max |-> max, period |-> period]]
    /\ UNCHANGED <<states, charges>>

\* remove_provider_budget() and remove_tag_budget().
RemoveBudget(n) ==
    /\ Tick
    /\ budgets' = [budgets EXCEPT ![n] = None]
    /\ states' = [states EXCEPT ![n] = NoState]
    /\ charges' = [charges EXCEPT ![n] = Uncharged]

\* record_spend(): the provider and the tags that have a budget are charged; a tag
\* that is listed twice is charged twice, which this leaves out.
RecordSpend(provider, tags, cost) ==
    LET charged == {n \in tags \cup {provider} : budgets[n] # None}
    IN  /\ Tick
        /\ cost > 0
        /\ states' = [n \in Names |->
               IF n \notin charged THEN states[n]
               ELSE [refreshed(n, buNow') EXCEPT !.spend = @ + cost]]
        /\ charges' = [n \in Names |->
               [t \in Moments |-> charges[n][t] + IF n \in charged /\ t <= buNow' THEN cost ELSE 0]]
        /\ UNCHANGED budgets

\* check_provider_budget(), check_tag_budget(), get_provider_spend(), get_tag_spend()
\* and, for several names, get_available_providers() and get_all_*_status().
Check(looked) ==
    /\ Tick
    /\ states' = [n \in Names |->
           IF n \in looked /\ budgets[n] # None THEN refreshed(n, buNow') ELSE states[n]]
    /\ UNCHANGED <<budgets, charges>>

\* reset_provider(), reset_tag() and, for all names, reset_all().
Reset(resets) ==
    /\ Tick
    /\ states' = [n \in Names |->
           IF n \in resets /\ states[n] # NoState THEN [spend |-> 0, start |-> buNow']
           ELSE states[n]]
    /\ UNCHANGED <<budgets, charges>>

BuNext ==
    \/ \E n \in Names :
         \/ \E max \in Budgets, period \in Periods : SetBudget(n, max, period)
         \/ RemoveBudget(n)
    \/ \E p \in Providers, tags \in SUBSET Tags, cost \in Costs : RecordSpend(p, tags, cost)
    \/ \E looked \in {{n} : n \in Names} \cup {Providers, Tags} : Check(looked)
    \/ \E resets \in {{n} : n \in Names} \cup {Names} : Reset(resets)

BuSpec == BuInit /\ [][BuNext]_buvars

-----------------------------------------------------------------------------
\* What check_provider_budget(n), check_tag_budget(n) or a get_..._spend(n) answers.
spent(n) == refreshed(n, buNow).spend


BuTypeOK ==
    /\ budgets \in [Names -> [max : Nat, period : Nat] \cup {None}]
    /\ \A n \in Names : states[n].spend \in Nat /\ states[n].start \in -1..buNow

\* The spend a check answers with is that of all charges since the period began and of
\* none before, so that a charge is neither counted in two periods nor lost within one,
\* whichever of the calls noticed the end of the period; no period lasts too long.
SpendIsThePeriods == \A n \in Names : budgets[n] # None =>
    LET state == refreshed(n, buNow)
    IN  /\ spent(n) = charges[n][state.start]
        /\ budgets[n].period > 0 => buNow - state.start < budgets[n].period
=============================================================================
