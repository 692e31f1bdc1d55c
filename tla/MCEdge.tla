------------------------------- MODULE MCEdge -------------------------------
(* What stands between a client and the router, for TLC: limits, access,    *)
(* accounts, sign-in, guardrails, cache, budgets, and the application's      *)
(* life.  Components that do not share state, each explored alone in the    *)
(* behaviours of its part.                                                 *)
EXTENDS RateLimiter, Application, Completion, Accounts,
        Authentication, TLC

VARIABLE part   \* the component that moves in this behaviour

CONSTANTS q1, q2, q3, q4, g, k1, k2

\* Two keys behind the global scope, and an anonymous request.
MCScopesOf == q1 :> <<g, k1>> @@ q2 :> <<g, k1>> @@ q3 :> <<g, k2>> @@ q4 :> <<g>>

\* No limit, or one or two requests per window.
MCLimits == {Unlimited, 1, 2}

Plain == [path |-> "model", master |-> FALSE, key |-> "k", jwt |-> FALSE, cookie |-> FALSE,
          ip |-> "in", declared |-> 1, size |-> 1]
MCShapes == {Plain, [Plain EXCEPT !.ip = "out"], [Plain EXCEPT !.size = 2],
             [Plain EXCEPT !.size = 2, !.declared = 0], [Plain EXCEPT !.cookie = TRUE, !.declared = 2],
             [Plain EXCEPT !.path = "public"]}
MCSettings == {[limiter |-> TRUE, allowed |-> {"in"}, blocked |-> {}],
               [limiter |-> FALSE, allowed |-> {}, blocked |-> {"out"}],
               [limiter |-> TRUE, allowed |-> {}, blocked |-> {}]}

\* c1 and c3 ask the same for different tenants; c2 and c3, two users without a tenant,
\* ask the same once their mail addresses are taken out.
MCPrompt(c) == <<[text |-> IF c = "c2" THEN {"hint"} ELSE {"mail", "hint"}, plain |-> TRUE],
                 [text |-> {"token"}, plain |-> FALSE]>>
MCPrompts  == [c \in CpCalls |-> MCPrompt(c)]
MCTenants  == [c \in CpCalls |-> IF c \in {"c2", "c3"} THEN NoTenant ELSE "acme"]
MCCallers  == [c \in CpCalls |-> CASE c = "c3" -> "mallory" [] c = "c2" -> "bob" [] OTHER -> "alice"]
MCStreamed == [c \in CpCalls |-> c = "c4"]

Guard(kind, mode, priority) ==
  [kind |-> kind, mode |-> mode, priority |-> priority, enabled |-> TRUE, responses |-> TRUE, works |-> TRUE,
   tolerates |-> {}]
InOrder(gs) == FoldLeft(register, <<>>, gs)
MCSetups ==
  {InOrder(<<Guard("secret", "redact", 2), Guard("pii", "redact", 1), Guard("moderation", "flag", 1)>>),
   InOrder(<<[Guard("pii", "block", 1) EXCEPT !.works = FALSE], Guard("secret", "redact", 2), Guard("keyword", "block", 3),
             [Guard("moderation", "block", 2) EXCEPT !.enabled = FALSE]>>),
   unregister(InOrder(<<Guard("users", "block", 1), [Guard("moderation", "block", 1) EXCEPT !.responses = FALSE],
                        [Guard("moderation", "block", 2) EXCEPT !.tolerates = {"hint"}],
                        Guard("keyword", "block", 1)>>), "keyword")}
\* A text, and an answer of which the first choice only calls a tool.
MCAnswers == {[text |-> {"mail", "word", "hint"}, rest |-> {}], [text |-> {}, rest |-> {"mail", "word"}]}

\* One to three matches of a text of six characters, by pattern, then by position.
Match(s, e, w) == [start |-> s, end |-> e, with |-> w]
MCMatches == {Match(s, e, w) : s \in {1, 3, 4}, e \in {5, 7}, w \in {0, 3}} \cup {Match(1, 2, 1), Match(2, 4, 5)}
MCMatchLists == {<<m>> : m \in MCMatches} \cup (MCMatches \X MCMatches) \cup
  {<<Match(4, 5, 3), Match(1, 2, 1), m>> : m \in MCMatches}

MCBodies == {[user |-> "u", team |-> "t", expires |-> Never, budget |-> 1]}

\* Rows of teams, members and keys alone: two handlers overlap on either database.  The
\* part of all rows has one handler and the default database.
KeysLast == \A k \in DOMAIN keys' : keys'[k].expires = Never

MCSetShapes == {[grants |-> gs, parents |-> ps] :
  gs \in {{"r"}, {"w"}}, ps \in {<<>>, <<"b">>, <<"a", "c">>, <<"c", "b">>}}

\* A provider may report a cost below zero.
MCCosts == {-1, 0, 2}

MCConfigurations == {{}, {"redis", "mcp", "a2a", "plugins"},
  {"batch", "cache", "webhook_auth", "token_exchange"},
  {"semantic_routing", "request_transform", "scaling", "resilience", "hub", "evaluation",
   "k8s_operator", "rate_limit", "guardrails", "redis", "a2a"}}

\* The input of a component while another component moves.
AnyLimits   == CHOOSE l \in [Scopes -> Limits] : TRUE
AnySettings == CHOOSE s \in Settings : TRUE
AnySetup    == CHOOSE s \in Setups : TRUE
AnyMatches  == CHOOSE m \in MatchLists : TRUE
AnyConfig   == CHOOSE c \in Configurations : TRUE

Parts == {"limits", "access", "completion", "redaction", "accounts",
          "teams", "signin", "sets", "webhook", "budget", "lifecycle"}

bundleVars == <<part, ratevars, axvars, cpvars, rdvars, acvars, sivars,
                      avars, buvars, alvars>>

EdgeInit ==
  /\ part \in Parts
  /\ RateInit /\ (part = "limits" \/ (rpm = AnyLimits))
  /\ AxInit /\ (part = "access" \/ (ax_setting = AnySettings))
  /\ CpInit /\ (part = "completion" \/ (<<guardrails, backend>> = <<AnySetup, "memory">>))
  /\ RdInit /\ (part = "redaction" \/ (scanned = AnyMatches))
  /\ AcInit /\ (part = "teams" \/ ~enforces)
  /\ SiInit
  /\ AaInit
  /\ BuInit
  /\ AlInit /\ (part = "lifecycle" \/ (<<configured, backend_is>> = <<Always \cup AnyConfig, "redis">>))

EdgeNext ==
  \/ part = "limits" /\ RateNext
     /\ UNCHANGED <<part, axvars, cpvars, rdvars, acvars, sivars, avars,
                          buvars, alvars>>
  \/ part = "access" /\ AxNext
     /\ UNCHANGED <<part, ratevars, cpvars, rdvars, acvars, sivars, avars,
                          buvars, alvars>>
  \/ part = "completion" /\ CpNext
     /\ UNCHANGED <<part, ratevars, axvars, rdvars, acvars, sivars, avars,
                          buvars, alvars>>
  \/ part = "redaction" /\ Redact
     /\ UNCHANGED <<part, ratevars, axvars, cpvars, acvars, sivars, avars,
                          buvars, alvars>>
  \/ part = "accounts" /\ AcNext /\ handler'["i"] = NoRead
     /\ UNCHANGED <<part, ratevars, axvars, cpvars, rdvars, sivars, avars,
                          buvars, alvars>>
  \/ part = "teams" /\ AcNext /\ KeysLast
     /\ UNCHANGED <<part, logged, served, acNow>>
     /\ UNCHANGED <<ratevars, axvars, cpvars, rdvars, sivars, avars,
                          buvars, alvars>>
  \/ part = "signin" /\ SiNext
     /\ UNCHANGED <<part, ratevars, axvars, cpvars, rdvars, acvars, avars,
                          buvars, alvars>>
  \/ part = "sets" /\ SetsNext
     /\ UNCHANGED <<part, ratevars, axvars, cpvars, rdvars, acvars, sivars,
                          buvars, alvars>>
  \/ part = "webhook" /\ WebhookNext
     /\ UNCHANGED <<part, ratevars, axvars, cpvars, rdvars, acvars, sivars,
                          buvars, alvars>>
  \/ part = "budget" /\ BuNext
     /\ UNCHANGED <<part, ratevars, axvars, cpvars, rdvars, acvars, sivars,
                          avars, alvars>>
  \/ part = "lifecycle" /\ AlNext
     /\ UNCHANGED <<part, ratevars, axvars, cpvars, rdvars, acvars, sivars,
                          avars, buvars>>
  \/ part # "limits" /\ UNCHANGED bundleVars

EdgeSpec ==
  /\ EdgeInit /\ [][EdgeNext]_bundleVars

-----------------------------------------------------------------------------
(* Every component keeps the types of its state: what the code declares,   *)
(* and the bounds the model puts on it.                                    *)
TypesOK ==
  /\ RateTypeOK /\ AxTypeOK /\ CpTypeOK
  /\ AcTypeOK /\ SiTypeOK /\ AaTypeOK /\ BuTypeOK
  /\ AlTypeOK

(* The limiter counts exactly what it admitted in the current window, and    *)
(* the whole seconds it tells a client to wait are enough for a scope that is *)
(* just full, and at most one more than it takes.                             *)
LimiterExact == WindowsFaithful /\ RetryAfterSuffices

(* What two patterns match apart is gone from a redacted text, and the rest  *)
(* of the text is as it was.                                                 *)
RedactionExact == RdTypeOK /\ DisjointRedacted

(* What a provider is asked, and what a client is answered, has passed what  *)
(* stands between them: a handled request has passed every layer and counts  *)
(* against its own key; a prompt, and the content of an answer's first       *)
(* choice, have passed every guardrail, and an answer is transformed once;   *)
(* and the cache answers a tenant, or callers who have none, from their own  *)
(* answers.                                                                  *)
RequestsScreened ==
  /\ [](HandledScreened /\ Screened)
  /\ [](TenantsApart /\ TransformedOnce)
  /\ CountedForKey

(* Accounts, sessions and grants stay sound: where the database enforces     *)
(* foreign keys, what refers to a team or a user refers to one there is, and *)
(* where it does not, a membership still names a user there is and a team    *)
(* there is or was; a deactivated key, a used state and an ended session     *)
(* stay so; a set grants what its ancestors grant; a webhook's verdict is no *)
(* older than its time to live; and what is spent is what was charged in the *)
(* current period.                                                           *)
AccountsSound ==
  /\ [](ReferencesSound /\ SpendIsThePeriods)
  /\ [](StateUsedOnce /\ EndedStays)
  /\ [](PermissionsInherited /\ AcceptedRecently)
  /\ DeactivatedStays

(* The application serves with what its configuration asks for, and once it  *)
(* has shut down it leaves open only what no step of the shutdown closes or  *)
(* what a failed step kept.                                                  *)
LifecycleSound == ServesWhatItHas /\ ShutdownCloses
=============================================================================
