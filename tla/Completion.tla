------------------------------ MODULE Completion ------------------------------
(***************************************************************************)
(* A request to POST /v1/chat/completions (proxy/routes/completions.py)    *)
(* from the pre-request transforms to the background task that reports its *)
(* end, with the response cache (cache/manager.py and its two backends)    *)
(* that concurrent requests share.  Every await is a place where another   *)
(* request may run.  The router is its own component; here a call of it    *)
(* returns a text or fails.                                                *)
(***************************************************************************)
EXTENDS Guardrails

CONSTANTS CpCalls,           \* requests
          Tenant, User, Prompt, Streamed, \* of a request: functions of CpCalls
          NoTenant,        \* neither key nor team is known
          Injected,        \* what the pre-request transforms put into a prompt
          Answers,         \* what a model may answer with
          Setups,          \* the guardrail lists the configuration may ask for
          MaxItems         \* max_memory_items

Tenants  == {Tenant[r] : r \in CpCalls} \cup {NoTenant}
Messages == Seq([text : SUBSET Taints, plain : BOOLEAN])

\* Texts are what detectors can find in them.
ASSUME CompletionAssumption ==
    /\ MaxItems \in Nat \ {0}
    /\ Injected \subseteq Taints /\ Answers \subseteq [text : SUBSET Taints, rest : SUBSET Taints]
    /\ \A r \in CpCalls : Prompt[r] \in Messages
    /\ \A s \in Setups : s \in Seq(Guards)

VARIABLES guardrails,  \* state.guardrail_manager
          backend,     \* cache_params.type
          store,       \* the backend's entries, least recently used first
          call         \* per request: where it is and what it holds

cpvars == <<guardrails, backend, store, call>>

\* Of a response: the content of its first choice, and the rest, which is what its other
\* choices say and the arguments of its tool calls.
NoResponse == [text |-> {}, rest |-> {}, origin |-> "none", posts |-> 0]
Idle == [at |-> "new", messages |-> <<>>, response |-> NoResponse, hit |-> FALSE,
         sent |-> FALSE, reported |-> FALSE]

CpInit ==
    /\ guardrails \in Setups
    /\ backend \in {"memory", "redis"}
    /\ store = <<>>
    /\ call = [r \in CpCalls |-> Idle]

Move(r, c) == call' = [call EXCEPT ![r] = c]

-----------------------------------------------------------------------------
\* Variant: callers with equal prompts share an entry.
build_cache_key_shared(messages, tenant) == [messages |-> messages, tenant |-> NoTenant]

\* build_cache_key(): the sampling parameters go with the messages.
build_cache_key(messages, tenant) == [messages |-> messages, tenant |-> tenant]

entry_at(key) == {i \in DOMAIN store : store[i].key = key}
without(key) ==
    IF entry_at(key) = {} THEN store ELSE RemoveAt(store, CHOOSE i \in entry_at(key) : TRUE)

\* get() of the memory backend takes an expired entry out and makes another the most
\* recently used; Redis drops what has expired by itself and keeps no order.
after_get(key) ==
    IF entry_at(key) = {} THEN store
    ELSE LET e == store[CHOOSE i \in entry_at(key) : TRUE]
         IN  IF e.expired THEN without(key)
             ELSE IF backend = "memory" THEN Append(without(key), e) ELSE store

\* Variant: nothing is evicted.
after_set_unbounded(key, response) ==
    Append(without(key), [key |-> key, response |-> response, expired |-> FALSE])

\* set(): the memory backend evicts the least recently used.
after_set(key, response) ==
    LET all == Append(without(key), [key |-> key, response |-> response, expired |-> FALSE])
    IN  IF backend = "memory" /\ Len(all) > MaxItems THEN Tail(all) ELSE all

\* An entry outlives its time to live.
Expire(i) ==
    /\ i \in DOMAIN store /\ ~store[i].expired
    /\ store' = [store EXCEPT ![i].expired = TRUE]
    /\ UNCHANGED <<guardrails, backend, call>>

\* ResponseCacheManager.clear(); no route calls it.  Redis deletes the keys that match
\* namespace:cache:*, which the keys of tenants do not.
ClearResponses ==
    /\ store' = IF backend = "memory" THEN <<>>
                ELSE SetToSeq({store[i] : i \in {j \in DOMAIN store : store[j].key.tenant # NoTenant}})
    /\ UNCHANGED <<guardrails, backend, call>>

\* invalidate(), without a tenant; no route calls it.
Invalidate(messages) ==
    /\ store' = without(build_cache_key(messages, NoTenant))
    /\ UNCHANGED <<guardrails, backend, call>>

-----------------------------------------------------------------------------
transformed(messages) ==
    [i \in DOMAIN messages |-> [messages[i] EXCEPT !.text = @ \cup Injected]]

\* Variant: the transforms run on what has passed the guardrails.
Screen_first(r) ==
    /\ call[r].at = "new"
    /\ LET verdict == run_request_guardrails(guardrails, Prompt[r], User[r])
       IN  Move(r, IF verdict.action = "block" THEN [call[r] EXCEPT !.at = "refused"]
                   ELSE [call[r] EXCEPT !.at = IF Streamed[r] THEN "stream" ELSE "lookup",
                                        !.messages = transformed(verdict.content)])
    /\ UNCHANGED <<guardrails, backend, store>>

\* The pre-request transforms, then the request guardrails; BLOCK is answered with 400.
Screen(r) ==
    /\ call[r].at = "new"
    /\ LET verdict == run_request_guardrails(guardrails, transformed(Prompt[r]), User[r])
       IN  Move(r, IF verdict.action = "block" THEN [call[r] EXCEPT !.at = "refused"]
                   ELSE [call[r] EXCEPT !.at = IF Streamed[r] THEN "stream" ELSE "lookup",
                                        !.messages = verdict.content])
    /\ UNCHANGED <<guardrails, backend, store>>

\* A stream goes to the client as it comes: no cache, no response guardrail, and no
\* REQUEST_END.
Stream(r) ==
    /\ call[r].at = "stream"
    /\ Move(r, [call[r] EXCEPT !.at = "streamed", !.sent = TRUE])
    /\ UNCHANGED <<guardrails, backend, store>>

\* cache_manager.lookup() finds an entry ...
Hit(r) ==
    LET key == build_cache_key(call[r].messages, Tenant[r])
    IN  /\ call[r].at = "lookup"
        /\ \E i \in entry_at(key) :
             /\ ~store[i].expired
             /\ Move(r, [call[r] EXCEPT !.at = "post", !.hit = TRUE, !.response = store[i].response])
        /\ store' = after_get(key)
        /\ UNCHANGED <<guardrails, backend>>

\* ... or none.  A Redis that fails to answer counts as a miss.
Miss(r) ==
    LET key == build_cache_key(call[r].messages, Tenant[r])
    IN  /\ call[r].at = "lookup"
        /\ \/ /\ \A i \in entry_at(key) : store[i].expired
              /\ store' = after_get(key)
           \/ backend = "redis" /\ UNCHANGED store
        /\ Move(r, [call[r] EXCEPT !.at = "call"])
        /\ UNCHANGED <<guardrails, backend>>

\* llm_router.chat_completion() returns ...
Answered(r, a) ==
    /\ call[r].at = "call"
    /\ Move(r, [call[r] EXCEPT !.at = "check", !.sent = TRUE,
                               !.response = [text |-> a.text, rest |-> a.rest, origin |-> r, posts |-> 0]])
    /\ UNCHANGED <<guardrails, backend, store>>

\* ... or raises.
Failed(r) ==
    /\ call[r].at = "call"
    /\ Move(r, [call[r] EXCEPT !.at = "refused", !.sent = TRUE])
    /\ UNCHANGED <<guardrails, backend, store>>

\* Variant: what the guardrails made of the response is not kept.
CheckResponse_unmodified(r) ==
    /\ call[r].at = "check"
    /\ LET verdict == run_response_guardrails(guardrails, call[r].response.text)
       IN  Move(r, [call[r] EXCEPT !.at = IF verdict.action = "block" THEN "refused" ELSE "store"])
    /\ UNCHANGED <<guardrails, backend, store>>

\* The response guardrails, which are shown the content of the first choice and replace
\* that.  BLOCK raises, and with the response the background task is gone: this call of a
\* model is not reported.
CheckResponse(r) ==
    /\ call[r].at = "check"
    /\ LET verdict == run_response_guardrails(guardrails, call[r].response.text)
       IN  Move(r, IF verdict.action = "block" THEN [call[r] EXCEPT !.at = "refused"]
                   ELSE [call[r] EXCEPT !.at = "store", !.response.text = verdict.content])
    /\ UNCHANGED <<guardrails, backend, store>>

\* cache_manager.store(); a failure of Redis is logged.
Store(r) ==
    /\ call[r].at = "store"
    /\ \/ store' = after_set(build_cache_key(call[r].messages, Tenant[r]), call[r].response)
       \/ backend = "redis" /\ UNCHANGED store
    /\ Move(r, [call[r] EXCEPT !.at = "post"])
    /\ UNCHANGED <<guardrails, backend>>

\* Variant: the post-response transforms change the entry of the cache in place.
PostResponse_shared(r) ==
    /\ call[r].at = "post"
    /\ Move(r, [call[r] EXCEPT !.at = "answered", !.response.posts = @ + 1])
    /\ store' = [i \in DOMAIN store |->
           IF store[i].key = build_cache_key(call[r].messages, Tenant[r])
           THEN [store[i] EXCEPT !.response.posts = @ + 1] ELSE store[i]]
    /\ UNCHANGED <<guardrails, backend>>

\* The post-response transforms, on a copy, and the answer.
PostResponse(r) ==
    /\ call[r].at = "post"
    /\ Move(r, [call[r] EXCEPT !.at = "answered", !.response.posts = @ + 1])
    /\ UNCHANGED <<guardrails, backend, store>>

\* The background task that was added before the response guardrails; a hit is reported
\* like a call of a model.
DispatchRequestEnd(r) ==
    /\ call[r].at = "answered" /\ ~call[r].reported
    /\ Move(r, [call[r] EXCEPT !.reported = TRUE])
    /\ UNCHANGED <<guardrails, backend, store>>

CpNext ==
    \/ \E r \in CpCalls :
         \/ Screen(r) \/ Stream(r) \/ Hit(r) \/ Miss(r) \/ Failed(r)
         \/ CheckResponse(r) \/ Store(r) \/ PostResponse(r) \/ DispatchRequestEnd(r)
         \/ \E a \in Answers : Answered(r, a)
    \/ \E i \in DOMAIN store : Expire(i)
    \/ ClearResponses
    \/ \E r \in CpCalls : Invalidate(call[r].messages)

CpSpec == CpInit /\ [][CpNext]_cpvars

-----------------------------------------------------------------------------
Sent == {r \in CpCalls : call[r].sent}
AnswerSeen == {r \in CpCalls : call[r].at = "answered"}

CpTypeOK ==
    /\ guardrails \in Setups
    /\ backend = "memory" => Len(store) <= MaxItems
    /\ \A i, j \in DOMAIN store : store[i].key = store[j].key => i = j
    /\ \A r \in CpCalls : call[r].response.text \cup call[r].response.rest \subseteq Taints

\* Nothing that a working guardrail keeps out of requests reaches a provider in a plain
\* message, be it the caller's or put there by a transform, and nothing that one keeps
\* out of responses reaches a client who does not stream in the content of the first
\* choice, from the cache or not.
Screened ==
    /\ \A r \in Sent : \A i \in DOMAIN call[r].messages :
         LET m == call[r].messages[i]
         IN  m.plain => m.text \cap forbidden_in_requests(guardrails) = {}
    /\ \A r \in AnswerSeen : call[r].response.text \cap forbidden_in_responses(guardrails) = {}

\* "The cached content already passed it when stored" (proxy/routes/completions.py:249),
\* of the whole answer.  Does not hold: no guardrail sees the rest of it.
AllScreened == \A r \in AnswerSeen :
    call[r].response.rest \cap forbidden_in_responses(guardrails) = {}

\* "Two callers never share a cached response for the same prompt" (197-198).  Does not
\* hold: callers with neither key nor team, such as those who signed in, are one tenant.
CallersApart == \A r \in AnswerSeen :
    Tenant[r] = NoTenant => User[call[r].response.origin] = User[r]

\* A caller with a key or a team is answered with what was asked for with the same prompt,
\* as it was sent to the provider, by a caller of the same key or team; any other caller,
\* with what another of these asked for.
TenantsApart == \A r \in AnswerSeen :
    LET o == call[r].response.origin
    IN  Tenant[o] = Tenant[r] /\ call[o].messages = call[r].messages

\* The post-response transforms have run once on every answer, and on no cached one.
TransformedOnce ==
    /\ \A r \in AnswerSeen : call[r].response.posts = 1
    /\ \A i \in DOMAIN store : store[i].response.posts = 0

\* "Clear all cached responses" (cache/manager.py:216).  Does not hold: see
\* ClearResponses.
ClearEmpties == [][ClearResponses => store' = <<>>]_cpvars
=============================================================================
