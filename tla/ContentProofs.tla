----------------------------- MODULE ContentProofs ----------------------------
(***************************************************************************)
(* Proofs about what is decided from what was recorded: the retries and the *)
(* chain of models after a fault, the choices of the semantic router, the   *)
(* versions of prompts, the sessions of the playground, benchmark runs with *)
(* what they recommend, and the metrics of texts.                           *)
(***************************************************************************)
EXTENDS MCTools, SequenceTheorems, FiniteSetTheorems, NaturalsInduction,
        WellFoundedInduction, TLAPS

-----------------------------------------------------------------------------
(* Faults: the adapters and the chain of models.                           *)

\* The place in tried of the calls of the model at place m of the chain.
CallsOf(m) == {i \in DOMAIN tried : tried[i].model = m}

\* What may be asked of an adapter and answered; what is tried again; what ends a chain.
Called  == AdapterNames \X Answers
Retried == {c \in Called : should_retry(raised(c[1], c[2]))}
Leaving == {c \in Called : leaves_chain(raised(c[1], c[2]))}

CallAt(i) == <<chain[tried[i].model], tried[i].answer>>

\* The model at place m was given up before its attempts were used up.
GivenUp(m) == \E i \in CallsOf(m) : CallAt(i) \notin Retried

\* A model is called as often as attempt says, and one that was left has had all its
\* attempts or an error that is not tried again; such an error is the last of its model.
\* The chain ends where no deployment is found (404), or with its last model, or with an
\* error that leaves it.
ErrInv ==
    /\ chain \in Seq(AdapterNames) /\ chain \in Chains /\ stream \in BOOLEAN
    /\ model \in DOMAIN chain /\ attempt \in 0..MaxRetries /\ fails \in 0..AllowedFails
    /\ tried \in Seq([model : Nat, answer : Answers, blamed : BOOLEAN])
    /\ \A i \in DOMAIN tried : tried[i].model \in 1..model
    /\ ~stream =>
         /\ \A i \in DOMAIN tried : tried[i].blamed = (CallAt(i) \in Retried)
         /\ \A i, j \in DOMAIN tried :
              CallAt(i) \notin Retried /\ tried[j].model = tried[i].model => j <= i
         /\ \A m \in 1..(model - 1) : Cardinality(CallsOf(m)) = MaxRetries + 1 \/ GivenUp(m)
         /\ replied = 0 => Cardinality(CallsOf(model)) = attempt /\ ~GivenUp(model)
         /\ replied >= 400 /\ replied # 404 =>
              /\ Cardinality(CallsOf(model)) = MaxRetries + 1 \/ GivenUp(model)
              /\ model = Len(chain) \/ \E i \in CallsOf(model) : CallAt(i) \in Leaving

\* Whatever happens, the client is told some status.
LEMMA RaisedStatus ==
    ASSUME NEW p \in AdapterNames, NEW a \in Answers
    PROVE  raised(p, a).status # 0
<1>1. a.status \in Nat
  BY AdapterAssumption DEF Outcomes
<1>2. by_status(a).status # 0
  BY <1>1 DEF by_status, NoError, Authentication, RateLimit, Unavailable, ProviderError
<1>3. ProviderError(500).status # 0 /\ \A w : Unhandled(w).status # 0
  BY DEF ProviderError, Unhandled
<1>4. \A q, e : e.status # 0 => read(q, a, e).status # 0
  BY <1>3, Zenon DEF read
<1>5. Authentication.status # 0 /\ RateLimit.status # 0
  BY DEF Authentication, RateLimit
<1>6. openai_check(a).status # 0 /\ compat_check(a).status # 0 /\ cohere_check(a).status # 0 /\ ollama_check(a).status # 0
  BY <1>2, <1>4, Zenon DEF openai_check, compat_check, cohere_check, ollama_check
<1>7. gemini_check(a).status # 0
  <2>1. gemini_check(a) \in {read("gemini", a, Authentication), read("gemini", a, by_status(a))}
    BY DEF gemini_check
  <2> QED BY <1>2, <1>4, <1>5, <2>1, Zenon
<1>8. bedrock_check(a).status # 0
  <2>1. bedrock_check(a) \in {read("bedrock", a, Authentication), read("bedrock", a, RateLimit),
                              read("bedrock", a, by_status(a))}
    BY DEF bedrock_check
  <2> QED BY <1>2, <1>4, <1>5, <2>1, Zenon
<1>9. anthropic_check(a).status # 0
  <2>1. anthropic_check(a) \in {read("anthropic", a, ProviderError(500)), read("anthropic", a, by_status(a))}
    BY DEF anthropic_check
  <2>2. PICK e : e = ProviderError(500)
    OBVIOUS
  <2>3. e.status # 0
    BY <1>3, <2>2
  <2> QED BY <1>2, <1>4, <2>1, <2>2, <2>3, Zenon
<1> QED BY <1>3, <1>6, <1>7, <1>8, <1>9 DEF AdapterNames, raised, openai_post, compat_post,
      cohere_completion, ollama_completion, gemini_completion, converse, anthropic_completion, called

\* A fault of the caller's is not tried again.
LEMMA FaultKept ==
    ASSUME NEW p \in AdapterNames, NEW a \in Answers, p # "anthropic", AtFault(p, a)
    PROVE  ~should_retry(raised(p, a))
<1>1. a \in Outcomes /\ a.status \in 400..499 /\ a.status # 429 /\ a.what = "http"
  BY AdapterAssumption DEF AtFault
<1>2. ~should_retry(by_status(a)) /\ ~should_retry(Authentication) /\ ~should_retry(Unhandled("attribute"))
  BY <1>1 DEF Outcomes, by_status, should_retry, RetryableStatusCodes, Authentication, RateLimit,
       Unavailable, ProviderError, NoError, Unhandled
<1>3. \A q, e : ~should_retry(e) => ~should_retry(read(q, a, e))
  BY <1>2, Zenon DEF read
<1>4. p = "bedrock" => ~should_retry(bedrock_check(a))
  <2>1. SUFFICES ASSUME p = "bedrock" PROVE ~should_retry(bedrock_check(a))
    OBVIOUS
  <2>2. a.type # "TooManyRequestsException"
    BY <2>1 DEF AtFault
  <2>3. bedrock_check(a) \in {read("bedrock", a, Authentication), read("bedrock", a, by_status(a))}
    BY <2>2 DEF bedrock_check
  <2> QED BY <1>2, <1>3, <2>3, Zenon
<1>5. /\ ~should_retry(openai_check(a)) /\ ~should_retry(compat_check(a))
      /\ ~should_retry(cohere_check(a)) /\ ~should_retry(ollama_check(a))
  BY <1>2, <1>3, Zenon DEF openai_check, compat_check, cohere_check, ollama_check
<1>6. ~should_retry(gemini_check(a))
  BY <1>2, <1>3, Zenon DEF gemini_check
<1> QED BY <1>1, <1>4, <1>5, <1>6 DEF AdapterNames, raised, openai_post, compat_post,
      cohere_completion, ollama_completion, gemini_completion, converse, called

\* What is nobody's fault is tried again and keeps the chain, but for a cut connection
\* of Anthropic's.
LEMMA PassingRetried ==
    ASSUME NEW p \in AdapterNames, NEW a \in Answers, Passing(p, a)
    PROVE  /\ raised(p, a) # NoError /\ ~leaves_chain(raised(p, a))
           /\ should_retry(raised(p, a)) \/ (p = "anthropic" /\ a.what = "protocol")
<1>1. a \in Outcomes /\ ~Unreadable(p, a)
  BY AdapterAssumption DEF Passing
<1>2. CASE a.what # "http"
  <2>1. p # "anthropic" => raised(p, a) = ProviderError(500)
    BY <1>2 DEF AdapterNames, raised, openai_post, compat_post, cohere_completion, ollama_completion,
         gemini_completion, converse, called
  <2>2. p = "anthropic" => raised(p, a) = Unhandled(a.what)
    BY <1>2 DEF raised, anthropic_completion
  <2>3. should_retry(ProviderError(500)) /\ ~leaves_chain(ProviderError(500)) /\ ProviderError(500) # NoError
    BY DEF should_retry, RetryableStatusCodes, ProviderError, leaves_chain, NoError
  <2>4. a.what \in {"timeout", "network", "protocol"}
    BY <1>1, <1>2 DEF Outcomes
  <2>5. /\ ~leaves_chain(Unhandled(a.what)) /\ Unhandled(a.what) # NoError
        /\ a.what # "protocol" => should_retry(Unhandled(a.what))
    BY <2>4 DEF should_retry, Unhandled, leaves_chain, NoError
  <2> QED BY <2>1, <2>2, <2>3, <2>5
<1>3. CASE a.what = "http"
  <2>1. a.status \in Nat /\ a.status >= 400
    BY <1>1, <1>3 DEF Passing, Outcomes
  <2> DEFINE Again(e) == e # NoError /\ ~leaves_chain(e) /\ should_retry(e)
  <2>2. Again(RateLimit) /\ Again(Unavailable) /\ Again(ProviderError(500))
    BY DEF should_retry, RetryableStatusCodes, ProviderError, RateLimit, Unavailable, leaves_chain, NoError
  <2>3. a.status = 429 \/ a.status >= 500 => Again(by_status(a))
    BY <2>1, <2>2 DEF by_status
  <2>30. \A e : read(p, a, e) = e
    BY <1>1, Zenon DEF read
  <2>4. p # "bedrock" => a.status = 429 \/ a.status >= 500
    BY <1>3, <2>1 DEF Passing, AtFault
  <2>5. p = "bedrock" => Again(bedrock_check(a))
    <3> SUFFICES ASSUME p = "bedrock" PROVE Again(bedrock_check(a))
      OBVIOUS
    <3>0. bedrock_check(a) = CASE a.type = "UnrecognizedClientException" -> Authentication
                               [] a.type = "TooManyRequestsException" /\ a.status # 401 -> RateLimit
                               [] OTHER -> by_status(a)
      BY <2>30 DEF bedrock_check
    <3>1. a.type = "TooManyRequestsException" => bedrock_check(a) = RateLimit
      BY <3>0, AdapterAssumption
    <3>2. a.type # "TooManyRequestsException" => a.status = 429 \/ a.status >= 500 \/ p # "bedrock"
      BY <1>3, <2>1 DEF Passing, AtFault
    <3>3. a.type # "TooManyRequestsException" /\ p = "bedrock" => a.type # "UnrecognizedClientException"
      <4>1. a.type = "UnrecognizedClientException" => a.status \in 400..499
        BY AdapterAssumption
      <4>2. a.type = "UnrecognizedClientException" => a.status # 429
        BY AdapterAssumption
      <4> QED BY <2>1, <3>2, <4>1, <4>2
    <3> QED BY <2>2, <2>3, <3>0, <3>1, <3>2, <3>3
  <2>6. p = "anthropic" => Again(anthropic_check(a))
    <3> SUFFICES ASSUME p = "anthropic" PROVE Again(anthropic_check(a))
      OBVIOUS
    <3>1. anthropic_check(a) = IF by_status(a).class = "provider" THEN ProviderError(500) ELSE by_status(a)
      BY <2>30, Zenon DEF anthropic_check
    <3> QED BY <2>2, <2>3, <2>4, <3>1
  <2>7. p = "gemini" => gemini_check(a) = by_status(a)
    <3> SUFFICES ASSUME p = "gemini" PROVE gemini_check(a) = by_status(a)
      OBVIOUS
    <3>1. gemini_check(a) = IF a.status = 403 THEN Authentication ELSE by_status(a)
      BY <2>30, Zenon DEF gemini_check
    <3> QED BY <2>1, <2>4, <3>1
  <2>8. /\ p = "openai" => openai_check(a) = by_status(a)
        /\ p = "compat" => compat_check(a) = by_status(a)
        /\ p = "cohere" => cohere_check(a) = by_status(a)
        /\ p = "ollama" => ollama_check(a) = by_status(a)
    BY <2>30, Zenon DEF openai_check, compat_check, cohere_check, ollama_check
  <2> QED BY <1>3, <2>3, <2>4, <2>5, <2>6, <2>7, <2>8 DEF AdapterNames, raised, openai_post, compat_post,
        cohere_completion, ollama_completion, gemini_completion, converse, anthropic_completion, called
<1> QED BY <1>2, <1>3

LEMMA ErrInit0 == ErrInit => ErrInv
<1> SUFFICES ASSUME ErrInit PROVE ErrInv
  OBVIOUS
<1>1. chain \in Seq(AdapterNames) /\ chain # <<>> /\ MaxRetries \in Nat
  BY AdapterAssumption DEF ErrInit
<1>2. 1 \in DOMAIN chain
  BY <1>1
<1>3. CallsOf(1) = {} /\ Cardinality(CallsOf(1)) = 0
  BY FS_EmptySet DEF CallsOf, ErrInit
<1> QED BY <1>1, <1>2, <1>3 DEF ErrInit, ErrInv, GivenUp

Tried == [model : Nat, answer : Answers, blamed : BOOLEAN]

\* What one more answer does to the calls of the models.
LEMMA SeenMore ==
    ASSUME ErrInv, NEW s \in Tried, s.model = model,
           tried' = Append(tried, s), UNCHANGED chain, NEW n, n = Len(tried) + 1, NEW m, m = model
    PROVE  /\ n \in Nat /\ DOMAIN tried' = DOMAIN tried \cup {n}
           /\ \A i \in DOMAIN tried : i \in Nat /\ i < n
           /\ tried' \in Seq(Tried)
           /\ \A i \in DOMAIN tried : tried'[i] = tried[i] /\ CallAt(i)' = CallAt(i)
           /\ tried'[n] = s /\ CallAt(n)' = <<chain[model], s.answer>>
           /\ \A k : CallsOf(k)' = IF k = m THEN CallsOf(m) \cup {n} ELSE CallsOf(k)
           /\ Cardinality(CallsOf(m)') = Cardinality(CallsOf(m)) + 1
           /\ Cardinality(CallsOf(m)) \in Nat
<1>1. model \in Nat /\ tried \in Seq(Tried)
  BY DEF ErrInv, Tried
<1>2. chain' = chain
  OBVIOUS
<1>3. /\ n \in Nat /\ DOMAIN tried' = DOMAIN tried \cup {n} /\ \A i \in DOMAIN tried : i \in Nat /\ i < n
      /\ tried' \in Seq(Tried)
      /\ \A i \in DOMAIN tried : tried'[i] = tried[i]
      /\ tried'[n] = s
  BY <1>1
<1>4. ASSUME NEW i \in DOMAIN tried PROVE CallAt(i)' = CallAt(i)
  BY <1>2, <1>3 DEF CallAt
<1>5. CallAt(n)' = <<chain[model], s.answer>>
  BY <1>2, <1>3 DEF CallAt
<1>6. ASSUME NEW k PROVE CallsOf(k)' = IF k = m THEN CallsOf(m) \cup {n} ELSE CallsOf(k)
  BY <1>3 DEF CallsOf
<1>7. IsFiniteSet(CallsOf(m)) /\ n \notin CallsOf(m)
  <2>1. CallsOf(m) \subseteq 1..Len(tried) /\ Len(tried) \in Nat
    BY <1>1 DEF CallsOf
  <2>2. IsFiniteSet(1..Len(tried))
    BY <2>1, FS_Interval
  <2>3. IsFiniteSet(CallsOf(m))
    BY <2>1, <2>2, FS_Subset
  <2>4. n \notin DOMAIN tried
    BY <1>1
  <2> QED BY <2>3, <2>4 DEF CallsOf
<1>8. /\ Cardinality(CallsOf(m) \cup {n}) = Cardinality(CallsOf(m)) + 1
      /\ Cardinality(CallsOf(m)) \in Nat
  BY <1>7, FS_AddElement, FS_CardinalityType
<1> QED BY <1>3, <1>4, <1>5, <1>6, <1>8

LEMMA ErrStep == ErrInv /\ [ErrNext]_errorVars => ErrInv'
<1> SUFFICES ASSUME ErrInv, [ErrNext]_errorVars PROVE ErrInv'
  OBVIOUS
<1>1. CASE UNCHANGED errorVars \/ NotFound \/ Elsewhere
  <2>1. /\ chain' = chain /\ stream' = stream /\ model' = model /\ attempt' = attempt
        /\ tried' = tried /\ fails' \in 0..AllowedFails
        /\ replied' = replied \/ replied' \in {200, 404}
    BY <1>1 DEF errorVars, NotFound, Elsewhere, ErrInv
  <2>2. /\ \A k : CallsOf(k)' = CallsOf(k)
        /\ \A i : CallAt(i)' = CallAt(i)
    BY <2>1 DEF CallsOf, CallAt
  <2>3. \A k : GivenUp(k)' <=> GivenUp(k)
    BY <2>2 DEF GivenUp
  <2>4. CallsOf(model)' = CallsOf(model) /\ (GivenUp(model)' <=> GivenUp(model))
    BY <2>1, <2>2 DEF GivenUp, CallsOf
  <2> QED BY <2>1, <2>2, <2>3, <2>4 DEF ErrInv
<1>2. ASSUME NEW a \in Answers, Retry(a) \/ Fallback(a) \/ Reply(a) PROVE ErrInv'
  <2>1. /\ chain' = chain /\ stream' = stream /\ chain \in Seq(AdapterNames) /\ chain \in Chains
        /\ stream \in BOOLEAN /\ replied = 0 /\ model \in DOMAIN chain /\ attempt \in 0..MaxRetries
        /\ MaxRetries \in Nat /\ chain[model] \in AdapterNames
    BY <1>2, AdapterAssumption DEF Retry, Fallback, Reply, ErrInv
  <2>20. fails' \in 0..AllowedFails
    <3>1. fails \in 0..AllowedFails /\ AllowedFails \in Nat
      BY AdapterAssumption DEF ErrInv
    <3>2. selects => fails + 1 \in 0..AllowedFails /\ 0 \in 0..AllowedFails
      BY <3>1 DEF selects
    <3>3. \A e : counted(e) \in {0, fails, fails + 1}
      BY Zenon DEF counted
    <3> QED BY <1>2, <3>1, <3>2, <3>3 DEF Retry, Fallback, Reply
  <2>2. PICK n, m, p : n = Len(tried) + 1 /\ m = model /\ p = chain[model]
    OBVIOUS
  <2>3. m \in Nat /\ p \in AdapterNames /\ <<p, a>> \in Called
    BY <2>1, <2>2 DEF Called
  <2>4. /\ should_retry(raised(p, a)) <=> <<p, a>> \in Retried
        /\ leaves_chain(raised(p, a)) <=> <<p, a>> \in Leaving
    BY <2>3 DEF Retried, Leaving
  <2>5. PICK s \in Tried : /\ s.model = model /\ s.answer = a
                           /\ ~stream => s.blamed = (<<p, a>> \in Retried)
                           /\ tried' = Append(tried, s)
    <3> DEFINE e == raised(p, a)
               es == IF stream THEN raised_by_stream(p, a) ELSE raised(p, a)
    <3>1. Seen(a, e) \/ Seen(a, es)
      BY <1>2, <2>2 DEF Retry, Fallback, Reply
    <3>2. PICK b \in BOOLEAN : /\ tried' = Append(tried, [model |-> model, answer |-> a, blamed |-> b])
                               /\ ~stream => b = (<<p, a>> \in Retried)
      <4>1. PICK f \in {e, es} : Seen(a, f) /\ (~stream => f = e)
        BY <3>1
      <4>2. PICK b : b = IF stream THEN f # NoError ELSE should_retry(f)
        OBVIOUS
      <4>3. tried' = Append(tried, [model |-> model, answer |-> a, blamed |-> b])
        BY <4>1, <4>2, Zenon DEF Seen, blames
      <4>4. should_retry(f) \in BOOLEAN /\ b \in BOOLEAN
        BY <4>2 DEF should_retry
      <4>5. ~stream => b = (<<p, a>> \in Retried)
        BY <2>4, <4>1, <4>2, <4>4
      <4> QED BY <4>3, <4>4, <4>5
    <3> QED BY <2>2, <2>3, <3>2 DEF Tried
  <2>6. /\ n \in Nat /\ DOMAIN tried' = DOMAIN tried \cup {n}
        /\ \A i \in DOMAIN tried : i \in Nat /\ i < n
        /\ tried' \in Seq(Tried)
        /\ \A i \in DOMAIN tried : tried'[i] = tried[i] /\ CallAt(i)' = CallAt(i)
        /\ tried'[n] = s /\ CallAt(n)' = <<p, a>>
        /\ \A k : CallsOf(k)' = IF k = m THEN CallsOf(m) \cup {n} ELSE CallsOf(k)
        /\ Cardinality(CallsOf(m)') = Cardinality(CallsOf(m)) + 1
        /\ Cardinality(CallsOf(m)) \in Nat
    BY <2>1, <2>2, <2>5, SeenMore
  <2>7. \A k \in 1..m : k # m => CallsOf(k)' = CallsOf(k) /\ (GivenUp(k)' <=> GivenUp(k))
    <3>1. \A k : \A i \in CallsOf(k) : CallAt(i)' = CallAt(i)
      BY <2>6 DEF CallsOf
    <3> QED BY <2>6, <3>1 DEF GivenUp
  <2>8. GivenUp(m)' <=> GivenUp(m) \/ <<p, a>> \notin Retried
    <3>1. \A i \in CallsOf(m) : CallAt(i)' = CallAt(i)
      BY <2>6 DEF CallsOf
    <3> QED BY <2>6, <3>1 DEF GivenUp
  <2>9. CASE stream
    <3>1. tried' \in Seq([model : Nat, answer : Answers, blamed : BOOLEAN])
          /\ model' = model /\ attempt' = attempt
      BY <1>2, <2>6, <2>9 DEF Tried, Retry, Fallback, Reply, Sends
    <3>2. \A i \in DOMAIN tried' : tried'[i].model \in 1..model'
      BY <2>1, <2>5, <2>6, <3>1 DEF ErrInv
    <3> QED BY <2>1, <2>9, <2>20, <3>1, <3>2 DEF ErrInv
  <2>10. CASE ~stream
    <3>1. \/ /\ model' = m /\ attempt' = attempt + 1 /\ attempt < MaxRetries /\ replied' = 0
             /\ <<p, a>> \in Retried
          \/ /\ model' = m + 1 /\ m < Len(chain) /\ attempt' = 0 /\ replied' = 0
             /\ <<p, a>> \notin Retried \/ attempt = MaxRetries
          \/ /\ model' = m /\ attempt' = attempt /\ replied' # 0
             /\ replied' >= 400 =>
                  /\ <<p, a>> \notin Retried \/ attempt = MaxRetries
                  /\ <<p, a>> \in Leaving \/ m = Len(chain)
      <4> DEFINE e == raised(p, a)
      <4>1. CASE Retry(a)
        BY <2>1, <2>2, <2>4, <4>1 DEF Retry, Sends
      <4>2. CASE Fallback(a)
        <5>1. e # NoError /\ ~Sends(e) /\ model' = m + 1 /\ m < Len(chain) /\ attempt' = 0 /\ replied' = 0
          BY <2>1, <2>2, <4>2 DEF Fallback
        <5> QED BY <2>1, <2>4, <2>10, <5>1 DEF Sends
      <4>3. CASE Reply(a)
        <5>1. /\ model' = m /\ attempt' = attempt /\ replied' = e.status
              /\ e = NoError \/ (~Sends(e) /\ (leaves_chain(e) \/ m = Len(chain)))
          BY <2>2, <2>10, <4>3 DEF Reply
        <5>2. replied' # 0
          BY <2>3, <5>1, RaisedStatus
        <5>3. e = NoError => ~(replied' >= 400)
          BY <5>1 DEF NoError
        <5> QED BY <2>1, <2>4, <2>10, <5>1, <5>2, <5>3 DEF Sends
      <4> QED BY <1>2, <4>1, <4>2, <4>3
    <3>2. \A i \in DOMAIN tried' : tried'[i].model \in 1..model'
      BY <2>1, <2>2, <2>3, <2>5, <2>6, <3>1 DEF ErrInv
    <3>3. \A i \in DOMAIN tried' : tried'[i].blamed = (CallAt(i)' \in Retried)
      BY <2>5, <2>6, <2>10 DEF ErrInv
    <3>4. \A i, j \in DOMAIN tried' :
             CallAt(i)' \notin Retried /\ tried'[j].model = tried'[i].model => j <= i
      <4> SUFFICES ASSUME NEW i \in DOMAIN tried', NEW j \in DOMAIN tried',
                          CallAt(i)' \notin Retried, tried'[j].model = tried'[i].model
                   PROVE  j <= i
        OBVIOUS
      <4>1. CASE i = n
        BY <2>6, <4>1
      <4>2. CASE i # n /\ j # n
        BY <2>6, <2>10, <4>2 DEF ErrInv
      <4>3. CASE i # n /\ j = n
        <5>1. tried[i].model = m /\ i \in DOMAIN tried /\ CallAt(i) \notin Retried
          BY <2>2, <2>5, <2>6, <4>3
        <5>2. GivenUp(m)
          BY <5>1 DEF GivenUp, CallsOf
        <5> QED BY <2>1, <2>2, <2>10, <5>2 DEF ErrInv
      <4> QED BY <4>1, <4>2, <4>3
    <3>5. Cardinality(CallsOf(m)) = attempt /\ ~GivenUp(m)
      BY <2>1, <2>2, <2>10 DEF ErrInv
    <3>6. Cardinality(CallsOf(m)') = attempt + 1 /\ (GivenUp(m)' <=> <<p, a>> \notin Retried)
      BY <2>6, <2>8, <3>5
    <3>7. \A k \in 1..(m - 1) : Cardinality(CallsOf(k)') = MaxRetries + 1 \/ GivenUp(k)'
      <4> TAKE k \in 1..(m - 1)
      <4>1. k \in 1..m /\ k # m /\ k \in 1..(model - 1)
        BY <2>2, <2>3
      <4>2. Cardinality(CallsOf(k)) = MaxRetries + 1 \/ GivenUp(k)
        BY <2>10, <4>1 DEF ErrInv
      <4> QED BY <2>7, <4>1, <4>2
    <3>8. \A k \in 1..(model' - 1) : Cardinality(CallsOf(k)') = MaxRetries + 1 \/ GivenUp(k)'
      BY <2>1, <2>3, <3>1, <3>6, <3>7
    <3>9. model' # m => CallsOf(model)' = {} /\ Cardinality(CallsOf(model)') = 0
      <4>1. ASSUME model' # m PROVE CallsOf(model)' = {}
        BY <2>2, <2>3, <2>5, <2>6, <3>1, <4>1 DEF CallsOf, ErrInv
      <4> QED BY <4>1, FS_EmptySet
    <3>10. model' = m => CallsOf(model)' = CallsOf(m)' /\ (GivenUp(model)' <=> GivenUp(m)')
      BY DEF CallsOf, GivenUp
    <3>11. replied' = 0 => Cardinality(CallsOf(model)') = attempt' /\ ~GivenUp(model)'
      <4>1. model' # m => ~GivenUp(model)'
        BY <3>9 DEF GivenUp
      <4> QED BY <2>1, <2>3, <3>1, <3>6, <3>9, <3>10, <4>1
    <3>12. replied' >= 400 => Cardinality(CallsOf(model)') = MaxRetries + 1 \/ GivenUp(model)'
      BY <2>1, <2>3, <3>1, <3>6, <3>10
    <3>13. replied' >= 400 => model' = Len(chain) \/ \E i \in CallsOf(model)' : CallAt(i)' \in Leaving
      BY <2>3, <2>6, <3>1, <3>10
    <3>14. model' \in DOMAIN chain /\ attempt' \in 0..MaxRetries
      BY <2>1, <2>2, <3>1
    <3>15. tried' \in Seq([model : Nat, answer : Answers, blamed : BOOLEAN])
      BY <2>6 DEF Tried
    <3>16. \A k \in 1..(model' - 1) : Cardinality(CallsOf(k))' = MaxRetries + 1 \/ GivenUp(k)'
      BY <3>8
    <3>17. /\ replied' = 0 => Cardinality(CallsOf(model))' = attempt' /\ ~GivenUp(model)'
           /\ replied' >= 400 => Cardinality(CallsOf(model))' = MaxRetries + 1 \/ GivenUp(model)'
      BY <3>11, <3>12
    <3> QED BY <2>1, <2>20, <3>2, <3>3, <3>4, <3>13, <3>14, <3>15, <3>16, <3>17 DEF ErrInv
  <2> QED BY <2>9, <2>10
<1> QED BY <1>1, <1>2 DEF ErrNext

LEMMA ErrSound == ErrInv => FaultsTold /\ AllTried /\ ErrTypeOK
<1> SUFFICES ASSUME ErrInv PROVE FaultsTold /\ AllTried /\ ErrTypeOK
  OBVIOUS
<1>1. ASSUME NEW i \in DOMAIN tried
      PROVE  /\ tried[i].model \in DOMAIN chain /\ chain[tried[i].model] \in AdapterNames
             /\ tried[i].answer \in Answers /\ CallAt(i) \in Called
             /\ CallAt(i) \in Retried <=> should_retry(raised(chain[tried[i].model], tried[i].answer))
             /\ CallAt(i) \in Leaving <=> leaves_chain(raised(chain[tried[i].model], tried[i].answer))
  <2>1. tried[i].model \in DOMAIN chain /\ tried[i].answer \in Answers
    <3>1. tried \in Seq(Tried) /\ chain \in Seq(AdapterNames) /\ model \in DOMAIN chain /\ tried[i].model \in 1..model
      BY DEF ErrInv, Tried
    <3>2. tried[i] \in Tried
      BY <3>1
    <3> QED BY <3>1, <3>2 DEF Tried
  <2>2. chain[tried[i].model] \in AdapterNames
    BY <2>1 DEF ErrInv
  <2>3. CallAt(i) \in Called
    BY <2>1, <2>2 DEF CallAt, Called
  <2> QED BY <2>1, <2>2, <2>3 DEF CallAt, Retried, Leaving
<1>2. FaultsTold
  <2> SUFFICES ASSUME NEW i \in DOMAIN tried, ~stream, chain[tried[i].model] # "anthropic",
                      AtFault(chain[tried[i].model], tried[i].answer)
               PROVE  /\ ~tried[i].blamed
                      /\ \A j \in DOMAIN tried : tried[j].model = tried[i].model => j <= i
    BY DEF FaultsTold
  <2>1. CallAt(i) \notin Retried
    BY <1>1, FaultKept
  <2> QED BY <2>1 DEF ErrInv
<1>3. AllTried
  <2> SUFFICES ASSUME ~stream, replied >= 400,
                      \A i \in DOMAIN tried : Passing(chain[tried[i].model], tried[i].answer),
                      NEW m \in IF replied = 404 THEN 1..(model - 1) ELSE DOMAIN chain
               PROVE  \/ \E i \in DOMAIN tried : /\ tried[i].model = m /\ chain[m] = "anthropic"
                                                 /\ tried[i].answer.what = "protocol"
                      \/ Cardinality({i \in DOMAIN tried : tried[i].model = m}) = MaxRetries + 1
    BY DEF AllTried
  <2>1. \A i \in DOMAIN tried :
          /\ CallAt(i) \notin Leaving
          /\ CallAt(i) \notin Retried => chain[tried[i].model] = "anthropic" /\ tried[i].answer.what = "protocol"
    BY <1>1, PassingRetried
  <2>2. replied # 404 => model = Len(chain)
    <3> SUFFICES ASSUME replied # 404 PROVE model = Len(chain)
      OBVIOUS
    <3>1. model = Len(chain) \/ \E i \in CallsOf(model) : CallAt(i) \in Leaving
      BY DEF ErrInv
    <3>2. CallsOf(model) \subseteq DOMAIN tried
      BY DEF CallsOf
    <3>3. \A i \in DOMAIN tried : CallAt(i) \notin Leaving
      BY <2>1
    <3>4. \A i \in CallsOf(model) : CallAt(i) \notin Leaving
      BY <3>2, <3>3
    <3> QED BY <3>1, <3>4
  <2>3. Cardinality(CallsOf(m)) = MaxRetries + 1 \/ GivenUp(m)
    <3>1. m \in 1..(model - 1) \/ (m = model /\ replied # 404)
      BY <2>2 DEF ErrInv
    <3> QED BY <3>1 DEF ErrInv
  <2>4. CallsOf(m) = {i \in DOMAIN tried : tried[i].model = m}
    BY DEF CallsOf
  <2>5. \A i \in CallsOf(m) : i \in DOMAIN tried /\ tried[i].model = m
    BY <2>4
  <2>6. GivenUp(m) => \E i \in CallsOf(m) : CallAt(i) \notin Retried
    BY DEF GivenUp
  <2>7. GivenUp(m) => \E i \in DOMAIN tried : /\ tried[i].model = m /\ chain[m] = "anthropic"
                                              /\ tried[i].answer.what = "protocol"
    <3>1. SUFFICES ASSUME GivenUp(m)
                   PROVE  \E i \in DOMAIN tried : /\ tried[i].model = m /\ chain[m] = "anthropic"
                                                  /\ tried[i].answer.what = "protocol"
      OBVIOUS
    <3>2. PICK i \in CallsOf(m) : CallAt(i) \notin Retried
      BY <2>6, <3>1
    <3>3. i \in DOMAIN tried /\ tried[i].model = m
      BY <2>5
    <3>4. chain[tried[i].model] = "anthropic" /\ tried[i].answer.what = "protocol"
      BY <2>1, <3>2, <3>3
    <3> QED BY <3>3, <3>4
  <2> QED BY <2>3, <2>4, <2>7
<1>4. ErrTypeOK
  <2>1. \A i \in DOMAIN tried : tried[i].answer \in Answers
    BY <1>1
  <2> QED BY <2>1 DEF ErrInv, ErrTypeOK
<1> QED BY <1>2, <1>3, <1>4

-----------------------------------------------------------------------------
(* The semantic router.                                                    *)

\* The names of models and of intents that the configuration and the requests hold.
ModelNames  == {"none"} \cup {i.model : i \in SrInputs} \cup {PatternOf[b] : b \in Bases}
               \cup {s.default : s \in Settings} \cup {s.classifier : s \in Settings}
               \cup (UNION {{s.test[k] : k \in DOMAIN s.test} : s \in Settings})
               \cup (UNION {{s.rules[k] : k \in DOMAIN s.rules} : s \in Settings})
IntentNames == {"none", "general", "math", "translation"} \cup {IntentOf[b] : b \in Bases}
               \cup (UNION {DOMAIN s.rules : s \in Settings})
CacheKeys   == {KeyOf[b] : b \in Bases} \X Nat

\* A request as the state keeps it, and an entry of the cache.
Requested == [text : Texts, model : ModelNames, session : Sessions \cup {NoSession}, asker : Nat,
              state : {"asking", "routed", "answered"}, to : ModelNames, intent : IntentNames]
CacheRows   == [key : CacheKeys, intent : IntentNames]

\* A request that asks has no pattern and gets its own model of the test; one that has
\* been routed went where the first of the rules that fits sends it.
SoundCalls == {r \in Requested :
    /\ r.state = "asking" =>
         /\ _match_pattern(r.text) = "none"
         /\ r.model \in Range(setting.test) /\ r.session # NoSession =>
              setting.test[bucket[r.session]] = r.model
    /\ r.state # "asking" =>
         /\ _match_pattern(r.text) # "none" => r.to = _match_pattern(r.text)
         /\ (_match_pattern(r.text) = "none" /\ r.model \in Range(setting.test)
             /\ r.session # NoSession) =>
              r.to = setting.test[bucket[r.session]] \/ setting.test[bucket[r.session]] = r.model
         /\ r.intent # "none" => r.to = by_intent(r.intent, r.model)}

\* The keys the classifier has answered about, and the entries the keywords tell.
TaughtKeys == {_make_cache_key(srCalls[c].text) : c \in learnt}
ToldEntries == {Entry(srCalls[c].text, keywords(srCalls[c].text)) : c \in DOMAIN srCalls}
Explained  == {e \in CacheRows : e.key \in TaughtKeys \/ e \in ToldEntries}

SrInv ==
    /\ setting \in Settings /\ bucket \in [Sessions -> {1, 2}]
    /\ srCalls \in Seq(Requested) /\ srCalls \in Seq(SoundCalls)
    /\ \A c \in DOMAIN srCalls : srCalls[c].asker < c
    /\ IsFiniteSet(learnt) /\ learnt \subseteq DOMAIN srCalls
    /\ \A c \in learnt : srCalls[c].state # "asking"
    /\ srCache \in Seq(CacheRows) /\ srCache \in Seq(Explained)
    /\ \A j, k \in DOMAIN srCache : srCache[j].key = srCache[k].key => j = k
    /\ Len(srCache) <= MaxCacheSize + Cardinality(learnt)

LEMMA SrInit0 == SrInit => SrInv
<1>1. Cardinality({}) = 0 /\ IsFiniteSet({})
  BY FS_EmptySet
<1> QED BY <1>1, SrAssumption DEF SrInit, SrInv

\* What the rules make of a text or an intent has a name.
LEMMA NamesGiven ==
    ASSUME SrInv, NEW t \in Texts, NEW n \in IntentNames, NEW v \in ModelNames
    PROVE  /\ by_intent(n, v) \in ModelNames /\ _match_pattern(t) \in ModelNames
           /\ keywords(t) \in IntentNames /\ _make_cache_key(t) \in CacheKeys
<1>1. setting \in Settings
  BY DEF SrInv
<1>2. by_intent(n, v) \in ModelNames
  <2>1. setting.default \in ModelNames
    <3>1. setting.default \in {s.default : s \in Settings}
      BY <1>1
    <3> QED BY <3>1 DEF ModelNames
  <2>2. ASSUME NEW k \in DOMAIN setting.rules PROVE setting.rules[k] \in ModelNames
    <3>1. setting.rules[k] \in {setting.rules[d] : d \in DOMAIN setting.rules}
      OBVIOUS
    <3>2. setting.rules[k] \in UNION {{s.rules[d] : d \in DOMAIN s.rules} : s \in Settings}
      BY <1>1, <3>1
    <3> QED BY <3>2 DEF ModelNames
  <2> QED BY <2>1, <2>2 DEF by_intent
<1>3. t.base \in Bases /\ t.wraps \in Nat
  BY DEF Texts
<1>4. /\ IntentOf[t.base] \in IntentNames /\ PatternOf[t.base] \in ModelNames
      /\ KeyOf[t.base] \in {KeyOf[b] : b \in Bases}
  BY <1>3 DEF IntentNames, ModelNames
<1>5. _match_pattern(t) \in ModelNames
  <2>1. "none" \in ModelNames
    BY DEF ModelNames
  <2> QED BY <1>4, <2>1 DEF _match_pattern
<1>6. keywords(t) \in IntentNames
  <2>1. "none" \in IntentNames /\ "translation" \in IntentNames
    BY DEF IntentNames
  <2> QED BY <1>4, <2>1 DEF keywords
<1>7. _make_cache_key(t) \in CacheKeys
  BY <1>3, <1>4 DEF _make_cache_key, CacheKeys
<1> QED BY <1>2, <1>5, <1>6, <1>7

LEMMA CachedKnown ==
    ASSUME SrInv, NEW t \in Texts
    PROVE  /\ known(t) \in IntentNames
           /\ cached(t) = {e \in CacheRows : setting.caches /\ e.key = _make_cache_key(t)
                                          /\ \E k \in DOMAIN srCache : e = srCache[k]}
<1>1. srCache \in Seq(CacheRows)
  BY DEF SrInv
<1>2. \A k \in DOMAIN srCache : srCache[k] \in CacheRows
  BY <1>1
<1>3. cached(t) = {e \in CacheRows : setting.caches /\ e.key = _make_cache_key(t)
                                          /\ \E k \in DOMAIN srCache : e = srCache[k]}
  BY <1>2 DEF cached, Range
<1>4. cached(t) # {} => (CHOOSE e \in cached(t) : TRUE) \in CacheRows
  <2>1. ASSUME cached(t) # {} PROVE (CHOOSE e \in cached(t) : TRUE) \in cached(t)
    BY <2>1
  <2> QED BY <1>3, <2>1
<1>5. cached(t) # {} => (CHOOSE e \in cached(t) : TRUE).intent \in IntentNames
  BY <1>4 DEF CacheRows
<1>6. keywords(t) \in IntentNames
  <2>1. "none" \in IntentNames /\ "none" \in ModelNames
    BY DEF IntentNames, ModelNames
  <2> QED BY <2>1, NamesGiven
<1> QED BY <1>3, <1>5, <1>6 DEF known

\* A text is remembered at most once.
LEMMA Remembered ==
    ASSUME SrInv, NEW t \in Texts, remember(t) # srCache
    PROVE  /\ remember(t) = Append(IF Len(srCache) >= MaxCacheSize THEN Tail(srCache) ELSE srCache,
                                   Entry(t, keywords(t)))
           /\ \A k \in DOMAIN srCache : srCache[k].key # _make_cache_key(t)
<1>1. setting.caches /\ cached(t) = {}
  BY DEF remember
<1>2. srCache \in Seq(CacheRows)
  BY DEF SrInv
<1>3. \A k \in DOMAIN srCache : srCache[k] \in CacheRows
  BY <1>2
<1>4. cached(t) = {e \in CacheRows : setting.caches /\ e.key = _make_cache_key(t)
                                          /\ \E k \in DOMAIN srCache : e = srCache[k]}
  BY CachedKnown
<1>5. \A k \in DOMAIN srCache : srCache[k].key # _make_cache_key(t)
  BY <1>1, <1>3, <1>4
<1> QED BY <1>1, <1>5 DEF remember

\* The rules and the intents do not change.
LEMMA RulesStay ==
    ASSUME UNCHANGED <<setting, bucket>>
    PROVE  /\ SoundCalls' = SoundCalls
           /\ \A t : keywords(t)' = keywords(t)
<1>1. SoundCalls' = SoundCalls
  BY DEF SoundCalls, by_intent
<1>2. ASSUME NEW t PROVE keywords(t)' = keywords(t)
  BY DEF keywords, available_intents
<1> QED BY <1>1, <1>2

\* The model that answers a request of an A/B test.
LEMMA TestGiven ==
    ASSUME SrInv, NEW v \in ModelNames, NEW s \in Sessions \cup {NoSession},
           NEW w \in _resolve_ab_test(v, s)
    PROVE  /\ w \in ModelNames
           /\ v \in Range(setting.test) /\ s # NoSession => w = setting.test[bucket[s]]
           /\ v \notin Range(setting.test) => w = v
<1>1. setting \in Settings /\ bucket \in [Sessions -> {1, 2}]
  BY DEF SrInv
<1>2. setting.test = <<>> \/ DOMAIN setting.test = {1, 2}
  BY <1>1, SrAssumption
<1>3. v \notin Range(setting.test) => w = v
  BY DEF _resolve_ab_test
<1>4. CASE v \in Range(setting.test)
  <2>1. DOMAIN setting.test = {1, 2}
    BY <1>2, <1>4 DEF Range
  <2>2. \A k \in DOMAIN setting.test : setting.test[k] \in ModelNames
    <3>1. ASSUME NEW k \in DOMAIN setting.test PROVE setting.test[k] \in ModelNames
      <4>1. setting.test[k] \in {setting.test[d] : d \in DOMAIN setting.test}
        OBVIOUS
      <4>2. setting.test[k] \in UNION {{q.test[d] : d \in DOMAIN q.test} : q \in Settings}
        BY <1>1, <4>1
      <4> QED BY <4>2 DEF ModelNames
    <3> QED BY <3>1
  <2>3. CASE s = NoSession
    BY <1>4, <2>2, <2>3 DEF _resolve_ab_test, Range
  <2>4. CASE s # NoSession
    <3>1. w = setting.test[bucket[s]]
      BY <1>4, <2>4 DEF _resolve_ab_test
    <3>2. bucket[s] \in {1, 2}
      BY <1>1, <2>4
    <3> QED BY <1>4, <2>1, <2>2, <3>1, <3>2
  <2> QED BY <1>4, <2>3, <2>4
<1> QED BY <1>3, <1>4

\* A text or an answer enters the cache under a key that is new to it.
LEMMA CacheTakes ==
    ASSUME SrInv, NEW e, NEW S, srCache \in Seq(S), e \in S,
           \A k \in DOMAIN srCache : srCache[k].key # e.key
    PROVE  /\ Append(srCache, e) \in Seq(S) /\ (Append(Tail(srCache), e) \in Seq(S) \/ Len(srCache) = 0)
           /\ Len(Append(srCache, e)) = Len(srCache) + 1
           /\ Len(srCache) # 0 => Len(Append(Tail(srCache), e)) = Len(srCache)
           /\ \A j, k \in DOMAIN Append(srCache, e) :
                Append(srCache, e)[j].key = Append(srCache, e)[k].key => j = k
           /\ Len(srCache) # 0 => \A j, k \in DOMAIN Append(Tail(srCache), e) :
                Append(Tail(srCache), e)[j].key = Append(Tail(srCache), e)[k].key => j = k
<1>1. \A j, k \in DOMAIN srCache : srCache[j].key = srCache[k].key => j = k
  BY DEF SrInv
<1>2. Append(srCache, e) \in Seq(S) /\ Len(Append(srCache, e)) = Len(srCache) + 1
  OBVIOUS
<1>3. \A j \in DOMAIN Append(srCache, e) :
        Append(srCache, e)[j] = IF j = Len(srCache) + 1 THEN e ELSE srCache[j]
  OBVIOUS
<1>4. ASSUME NEW j \in DOMAIN Append(srCache, e), NEW k \in DOMAIN Append(srCache, e),
             Append(srCache, e)[j].key = Append(srCache, e)[k].key
      PROVE  j = k
  BY <1>1, <1>2, <1>3, <1>4
<1>5. CASE Len(srCache) # 0
  <2>1. Tail(srCache) \in Seq(S) /\ Len(Tail(srCache)) = Len(srCache) - 1
    BY <1>5
  <2>2. \A j \in DOMAIN Tail(srCache) : j + 1 \in DOMAIN srCache /\ Tail(srCache)[j] = srCache[j + 1]
    BY <1>5
  <2>3. PICK t : t = Tail(srCache)
    OBVIOUS
  <2>4. Append(t, e) \in Seq(S) /\ Len(Append(t, e)) = Len(srCache)
    BY <2>1, <2>3
  <2>5. \A j \in DOMAIN Append(t, e) :
          Append(t, e)[j] = IF j = Len(srCache) THEN e ELSE t[j]
    BY <2>1, <2>3
  <2>6. \A j \in DOMAIN Append(t, e) : j # Len(srCache) => j \in DOMAIN t
    BY <2>1, <2>3, <2>4
  <2>7. ASSUME NEW j \in DOMAIN Append(t, e), NEW k \in DOMAIN Append(t, e),
               Append(t, e)[j].key = Append(t, e)[k].key
        PROVE  j = k
    <3>1. j \in Nat /\ k \in Nat
      BY <2>4
    <3>2. CASE j # Len(srCache) /\ k # Len(srCache)
      <4>1. srCache[j + 1].key = srCache[k + 1].key /\ j + 1 \in DOMAIN srCache /\ k + 1 \in DOMAIN srCache
        BY <2>2, <2>3, <2>5, <2>6, <2>7, <3>2
      <4> QED BY <1>1, <3>1, <4>1
    <3>3. CASE j = Len(srCache) /\ k # Len(srCache)
      BY <2>2, <2>3, <2>5, <2>6, <2>7, <3>3
    <3>4. CASE j # Len(srCache) /\ k = Len(srCache)
      BY <2>2, <2>3, <2>5, <2>6, <2>7, <3>4
    <3> QED BY <3>2, <3>3, <3>4
  <2> QED BY <1>2, <1>4, <1>5, <2>3, <2>4, <2>7
<1> QED BY <1>2, <1>4, <1>5

\* An arriving request is routed by the first rule that fits, or asks.
LEMMA CallSound ==
    ASSUME SrInv, NEW i, i.text \in Texts, i.model \in ModelNames,
           i.session \in Sessions \cup {NoSession}, NEW asker \in 0..Len(srCalls),
           NEW w \in _resolve_ab_test(i.model, i.session), NEW r,
           LET pattern == _match_pattern(i.text)
               intent  == known(i.text)
               settled == pattern # "none" \/ w # i.model
           IN  r = CASE pattern # "none" -> Call(i, asker, "routed", pattern, "none")
                     [] pattern = "none" /\ settled -> Call(i, asker, "routed", w, "none")
                     [] ~settled /\ intent # "none" ->
                          Call(i, asker, "routed", by_intent(intent, i.model), intent)
                     [] OTHER -> IF setting.classifier = "none"
                          THEN Call(i, asker, "routed", by_intent("general", i.model), "general")
                          ELSE Call(i, asker, "asking", "none", "none")
    PROVE  r \in SoundCalls /\ r.text = i.text /\ r.asker = asker
<1> DEFINE pattern == _match_pattern(i.text)
           intent  == known(i.text)
<1>1. pattern \in ModelNames /\ intent \in IntentNames
  <2>1. "none" \in IntentNames /\ "none" \in ModelNames
    BY DEF IntentNames, ModelNames
  <2> QED BY <2>1, NamesGiven, CachedKnown
<1>2. /\ by_intent(intent, i.model) \in ModelNames /\ by_intent("general", i.model) \in ModelNames
      /\ "none" \in ModelNames /\ "none" \in IntentNames /\ "general" \in IntentNames
  <2>1. "none" \in IntentNames /\ "none" \in ModelNames /\ "general" \in IntentNames
    BY DEF IntentNames, ModelNames
  <2> QED BY <1>1, <2>1, NamesGiven
<1>3. /\ w \in ModelNames
      /\ i.model \in Range(setting.test) /\ i.session # NoSession => w = setting.test[bucket[i.session]]
      /\ i.model \notin Range(setting.test) => w = i.model
  BY TestGiven
<1>4. /\ \A st \in {"asking", "routed"}, v \in ModelNames, n \in IntentNames :
           /\ Call(i, asker, st, v, n) \in Requested
           /\ Call(i, asker, st, v, n).text = i.text /\ Call(i, asker, st, v, n).asker = asker
           /\ Call(i, asker, st, v, n).model = i.model /\ Call(i, asker, st, v, n).session = i.session
           /\ Call(i, asker, st, v, n).state = st /\ Call(i, asker, st, v, n).to = v
           /\ Call(i, asker, st, v, n).intent = n
  BY DEF Call, Requested
<1> HIDE DEF pattern, intent
<1>5. CASE pattern # "none"
  <2>1. r = Call(i, asker, "routed", pattern, "none")
    BY <1>5 DEF pattern, intent
  <2>2. r \in Requested /\ r.text = i.text /\ r.asker = asker /\ r.state = "routed" /\ r.to = pattern /\ r.intent = "none"
    BY <1>1, <1>2, <1>4, <2>1
  <2> QED BY <1>5, <2>2 DEF SoundCalls, pattern
<1>6. CASE pattern = "none" /\ w # i.model
  <2>1. r = Call(i, asker, "routed", w, "none")
    BY <1>6 DEF pattern, intent
  <2>2. /\ r \in Requested /\ r.text = i.text /\ r.asker = asker /\ r.state = "routed" /\ r.to = w
        /\ r.intent = "none" /\ r.model = i.model /\ r.session = i.session
    BY <1>2, <1>3, <1>4, <2>1
  <2> QED BY <1>3, <1>6, <2>2 DEF SoundCalls, pattern
<1>7. CASE pattern = "none" /\ w = i.model
  <2>1. i.model \in Range(setting.test) /\ i.session # NoSession => setting.test[bucket[i.session]] = i.model
    BY <1>3, <1>7
  <2>2. CASE intent # "none"
    <3>1. r = Call(i, asker, "routed", by_intent(intent, i.model), intent)
      BY <1>7, <2>2 DEF pattern, intent
    <3>2. /\ r \in Requested /\ r.text = i.text /\ r.asker = asker /\ r.state = "routed"
          /\ r.to = by_intent(r.intent, r.model) /\ r.model = i.model /\ r.session = i.session
      BY <1>1, <1>2, <1>4, <3>1
    <3> QED BY <1>7, <2>1, <3>2 DEF SoundCalls, pattern
  <2>3. CASE intent = "none" /\ setting.classifier = "none"
    <3>1. r = Call(i, asker, "routed", by_intent("general", i.model), "general")
      BY <1>7, <2>3 DEF pattern, intent
    <3>2. /\ r \in Requested /\ r.text = i.text /\ r.asker = asker /\ r.state = "routed"
          /\ r.to = by_intent(r.intent, r.model) /\ r.model = i.model /\ r.session = i.session
      BY <1>1, <1>2, <1>4, <3>1
    <3> QED BY <1>7, <2>1, <3>2 DEF SoundCalls, pattern
  <2>4. CASE intent = "none" /\ setting.classifier # "none"
    <3>1. r = Call(i, asker, "asking", "none", "none")
      BY <1>7, <2>4 DEF pattern, intent
    <3>2. /\ r \in Requested /\ r.text = i.text /\ r.asker = asker /\ r.state = "asking"
          /\ r.model = i.model /\ r.session = i.session
      BY <1>1, <1>2, <1>4, <3>1
    <3> QED BY <1>7, <2>1, <3>2 DEF SoundCalls, pattern
  <2> QED BY <2>2, <2>3, <2>4
<1> QED BY <1>5, <1>6, <1>7

\* A request more, and what its keywords say of it.
LEMMA RouteStep ==
    ASSUME SrInv, NEW i, i.text \in Texts, i.model \in ModelNames,
           i.session \in Sessions \cup {NoSession}, NEW asker \in 0..Len(srCalls),
           route(i, asker), UNCHANGED <<setting, bucket, learnt>>
    PROVE  SrInv'
<1>1. PICK w \in _resolve_ab_test(i.model, i.session) :
        /\ srCache' = srCache \/ srCache' = remember(i.text)
        /\ \E r : /\ srCalls' = Append(srCalls, r)
                  /\ r \in SoundCalls /\ r.text = i.text /\ r.asker = asker
  <2>1. PICK w \in _resolve_ab_test(i.model, i.session) :
          LET pattern == _match_pattern(i.text)
              intent  == known(i.text)
              settled == pattern # "none" \/ w # i.model
          IN  /\ srCache' = IF settled THEN srCache ELSE remember(i.text)
              /\ srCalls' = Append(srCalls,
                   CASE pattern # "none" -> Call(i, asker, "routed", pattern, "none")
                     [] pattern = "none" /\ settled -> Call(i, asker, "routed", w, "none")
                     [] ~settled /\ intent # "none" ->
                          Call(i, asker, "routed", by_intent(intent, i.model), intent)
                     [] OTHER -> IF setting.classifier = "none"
                        THEN Call(i, asker, "routed", by_intent("general", i.model), "general")
                        ELSE Call(i, asker, "asking", "none", "none"))
    BY DEF route
  <2>2. PICK r : LET pattern == _match_pattern(i.text)
                     intent  == known(i.text)
                     settled == pattern # "none" \/ w # i.model
                 IN  /\ r = CASE pattern # "none" -> Call(i, asker, "routed", pattern, "none")
                              [] pattern = "none" /\ settled -> Call(i, asker, "routed", w, "none")
                              [] ~settled /\ intent # "none" ->
                                   Call(i, asker, "routed", by_intent(intent, i.model), intent)
                              [] OTHER -> IF setting.classifier = "none"
                                 THEN Call(i, asker, "routed", by_intent("general", i.model), "general")
                                 ELSE Call(i, asker, "asking", "none", "none")
                     /\ srCalls' = Append(srCalls, r)
    BY <2>1
  <2>3. r \in SoundCalls /\ r.text = i.text /\ r.asker = asker
    BY <2>2, CallSound
  <2>4. srCache' = srCache \/ srCache' = remember(i.text)
    BY <2>1
  <2> QED BY <2>2, <2>3, <2>4
<1>2. PICK r : /\ srCalls' = Append(srCalls, r)
               /\ r \in SoundCalls /\ r.text = i.text /\ r.asker = asker
  BY <1>1
<1>3. SoundCalls' = SoundCalls /\ keywords(i.text)' = keywords(i.text)
  BY RulesStay
<1>4. r \in Requested /\ srCalls \in Seq(Requested) /\ srCalls \in Seq(SoundCalls)
  BY <1>2 DEF SrInv, SoundCalls
<1>5. srCalls' \in Seq(Requested) /\ srCalls' \in Seq(SoundCalls')
  BY <1>2, <1>3, <1>4
<1>6. /\ DOMAIN srCalls \subseteq DOMAIN srCalls' /\ Len(srCalls) + 1 \in DOMAIN srCalls'
      /\ \A c \in DOMAIN srCalls : srCalls'[c] = srCalls[c]
      /\ srCalls'[Len(srCalls) + 1] = r
      /\ \A c \in DOMAIN srCalls' : c \in DOMAIN srCalls \/ c = Len(srCalls) + 1
  BY <1>2, <1>4
<1>7. \A c \in DOMAIN srCalls' : srCalls'[c].asker < c
  BY <1>2, <1>4, <1>6 DEF SrInv
<1>8. learnt' = learnt /\ learnt \subseteq DOMAIN srCalls' /\ \A c \in learnt : srCalls'[c] = srCalls[c]
  BY <1>6 DEF SrInv
<1>9. Explained \subseteq Explained' /\ Entry(i.text, keywords(i.text)) \in Explained'
  <2>1. TaughtKeys' = TaughtKeys
    BY <1>8 DEF TaughtKeys
  <2>2. ToldEntries \subseteq ToldEntries'
    <3>1. ASSUME NEW c \in DOMAIN srCalls
          PROVE  Entry(srCalls[c].text, keywords(srCalls[c].text)) \in ToldEntries'
      <4>1. srCalls'[c] = srCalls[c] /\ c \in DOMAIN srCalls'
        BY <1>6
      <4>2. PICK t : t = srCalls[c].text
        OBVIOUS
      <4>3. keywords(t)' = keywords(t)
        BY RulesStay
      <4>4. Entry(t, keywords(t)') \in ToldEntries'
        BY <4>1, <4>2 DEF ToldEntries, keywords, available_intents, Entry
      <4> QED BY <4>2, <4>3, <4>4
    <3> QED BY <3>1 DEF ToldEntries
  <2>3. Entry(i.text, keywords(i.text)) \in ToldEntries'
    <3>1. PICK t : t = i.text
      OBVIOUS
    <3>2. srCalls'[Len(srCalls) + 1].text = t /\ Len(srCalls) + 1 \in DOMAIN srCalls'
      BY <1>2, <1>6, <3>1
    <3>3. Entry(t, keywords(t)') \in ToldEntries'
      BY <3>2 DEF ToldEntries, keywords, available_intents, Entry
    <3>4. keywords(t)' = keywords(t)
      BY RulesStay
    <3> QED BY <3>1, <3>3, <3>4
  <2>4. Entry(i.text, keywords(i.text)) \in CacheRows
    <3>1. "none" \in IntentNames /\ "none" \in ModelNames
      BY DEF IntentNames, ModelNames
    <3> QED BY <3>1, NamesGiven DEF Entry, CacheRows
  <2> QED BY <2>1, <2>2, <2>3, <2>4 DEF Explained
<1>10. /\ srCache' \in Seq(CacheRows) /\ srCache' \in Seq(Explained')
       /\ \A j, k \in DOMAIN srCache' : srCache'[j].key = srCache'[k].key => j = k
       /\ Len(srCache') <= MaxCacheSize + Cardinality(learnt)
  <2>1. srCache \in Seq(CacheRows) /\ srCache \in Seq(Explained')
    BY <1>9 DEF SrInv
  <2>2. CASE srCache' = srCache
    BY <2>1, <2>2 DEF SrInv
  <2>3. CASE srCache' # srCache
    <3>1. srCache' = remember(i.text) /\ remember(i.text) # srCache
      BY <1>1, <2>3
    <3>2. PICK e : e = Entry(i.text, keywords(i.text))
      OBVIOUS
    <3>3. /\ srCache' = Append(IF Len(srCache) >= MaxCacheSize THEN Tail(srCache) ELSE srCache, e)
          /\ \A k \in DOMAIN srCache : srCache[k].key # _make_cache_key(i.text)
      BY <3>1, <3>2, Remembered
    <3>4. e.key = _make_cache_key(i.text) /\ e \in Explained' /\ e \in CacheRows
      BY <1>9, <3>2 DEF Entry, Explained
    <3>5. MaxCacheSize \in Nat \ {0} /\ Cardinality(learnt) \in Nat
      BY SrAssumption, FS_CardinalityType DEF SrInv
    <3>6. Len(srCache) <= MaxCacheSize + Cardinality(learnt)
      BY DEF SrInv
    <3>7. CASE Len(srCache) >= MaxCacheSize
      <4>1. srCache' = Append(Tail(srCache), e) /\ Len(srCache) # 0
        BY <3>3, <3>5, <3>7
      <4>2. srCache' \in Seq(CacheRows) /\ srCache' \in Seq(Explained') /\ Len(srCache') = Len(srCache)
        BY <2>1, <3>4, <4>1
      <4>3. \A j, k \in DOMAIN srCache' : srCache'[j].key = srCache'[k].key => j = k
        BY <2>1, <3>3, <3>4, <4>1, CacheTakes
      <4> QED BY <3>6, <4>2, <4>3
    <3>8. CASE Len(srCache) < MaxCacheSize
      <4>1. srCache' = Append(srCache, e)
        BY <2>1, <3>3, <3>5, <3>8
      <4>2. srCache' \in Seq(CacheRows) /\ srCache' \in Seq(Explained') /\ Len(srCache') = Len(srCache) + 1
        BY <2>1, <3>4, <4>1
      <4>3. \A j, k \in DOMAIN srCache' : srCache'[j].key = srCache'[k].key => j = k
        BY <2>1, <3>3, <3>4, <4>1, CacheTakes
      <4> QED BY <2>1, <3>5, <3>8, <4>2, <4>3
    <3> QED BY <2>1, <3>5, <3>7, <3>8
  <2> QED BY <2>2, <2>3
<1> QED BY <1>5, <1>6, <1>7, <1>8, <1>10 DEF SrInv

\* Requests are decided, and at most one of them has taught the cache an intent.
LEMMA SettledStep ==
    ASSUME SrInv, UNCHANGED <<setting, bucket>>, srCalls' \in Seq(SoundCalls),
           DOMAIN srCalls' = DOMAIN srCalls,
           \A d \in DOMAIN srCalls : /\ srCalls'[d].text = srCalls[d].text
                                     /\ srCalls'[d].asker = srCalls[d].asker
                                     /\ srCalls'[d].state = "asking" => srCalls[d].state = "asking",
           \/ srCache' = srCache /\ learnt' = learnt
           \/ \E c \in DOMAIN srCalls, n \in IntentNames :
                /\ srCalls[c].state = "asking" /\ srCalls'[c].state # "asking" /\ setting.caches
                /\ learnt' = learnt \cup {c}
                /\ srCache' = IF cached(srCalls[c].text) = {}
                              THEN Append(srCache, Entry(srCalls[c].text, n))
                              ELSE [k \in DOMAIN srCache |->
                                      IF srCache[k].key = _make_cache_key(srCalls[c].text)
                                      THEN Entry(srCalls[c].text, n) ELSE srCache[k]]
    PROVE  SrInv'
<1>1. SoundCalls' = SoundCalls
  BY RulesStay
<1>2. srCalls' \in Seq(Requested) /\ srCalls' \in Seq(SoundCalls')
  BY <1>1 DEF SoundCalls
<1>3. \A d \in DOMAIN srCalls' : srCalls'[d].asker < d
  BY DEF SrInv
<1>4. setting' \in Settings /\ bucket' \in [Sessions -> {1, 2}]
  BY DEF SrInv
<1>5. ToldEntries' = ToldEntries
  <2>1. ASSUME NEW d \in DOMAIN srCalls
        PROVE  Entry(srCalls[d].text, keywords(srCalls[d].text))' = Entry(srCalls[d].text, keywords(srCalls[d].text))
    <3>1. PICK t : t = srCalls[d].text
      OBVIOUS
    <3>2. keywords(t)' = keywords(t)
      BY RulesStay
    <3>3. srCalls'[d].text = t
      BY <3>1
    <3> QED BY <3>1, <3>2, <3>3 DEF keywords, available_intents, Entry
  <2> QED BY <2>1 DEF ToldEntries, Entry, keywords, available_intents
<1>6. CASE srCache' = srCache /\ learnt' = learnt
  <2>1. TaughtKeys' = TaughtKeys
    BY <1>6 DEF SrInv, TaughtKeys
  <2>2. Explained' = Explained
    BY <1>5, <2>1 DEF Explained
  <2>3. \A c \in learnt' : srCalls'[c].state # "asking"
    BY <1>6 DEF SrInv
  <2>4. IsFiniteSet(learnt') /\ learnt' \subseteq DOMAIN srCalls'
    BY <1>6 DEF SrInv
  <2>5. /\ srCache' \in Seq(CacheRows) /\ srCache' \in Seq(Explained')
        /\ \A j, k \in DOMAIN srCache' : srCache'[j].key = srCache'[k].key => j = k
        /\ Len(srCache') <= MaxCacheSize + Cardinality(learnt')
    BY <1>6, <2>2 DEF SrInv
  <2> QED BY <1>2, <1>3, <1>4, <2>3, <2>4, <2>5 DEF SrInv
<1>7. CASE ~(srCache' = srCache /\ learnt' = learnt)
  <2>1. PICK c \in DOMAIN srCalls, n \in IntentNames :
          /\ srCalls[c].state = "asking" /\ srCalls'[c].state # "asking" /\ setting.caches
          /\ learnt' = learnt \cup {c}
          /\ srCache' = IF cached(srCalls[c].text) = {}
                        THEN Append(srCache, Entry(srCalls[c].text, n))
                        ELSE [k \in DOMAIN srCache |->
                                IF srCache[k].key = _make_cache_key(srCalls[c].text)
                                THEN Entry(srCalls[c].text, n) ELSE srCache[k]]
    BY <1>7
  <2>2. c \notin learnt /\ IsFiniteSet(learnt) /\ learnt \subseteq DOMAIN srCalls
    BY <2>1 DEF SrInv
  <2>3. IsFiniteSet(learnt') /\ Cardinality(learnt') = Cardinality(learnt) + 1
    BY <2>1, <2>2, FS_AddElement
  <2>4. Cardinality(learnt) \in Nat /\ MaxCacheSize \in Nat
    BY <2>2, FS_CardinalityType, SrAssumption
  <2>5. learnt' \subseteq DOMAIN srCalls' /\ \A d \in learnt' : srCalls'[d].state # "asking"
    BY <2>1, <2>2 DEF SrInv
  <2>6. PICK t : t = srCalls[c].text
    OBVIOUS
  <2>7. TaughtKeys \subseteq TaughtKeys' /\ _make_cache_key(t) \in TaughtKeys'
    BY <2>1, <2>2, <2>6 DEF TaughtKeys, _make_cache_key
  <2>8. t \in Texts
    <3>1. srCalls \in Seq(Requested)
      BY DEF SrInv
    <3>2. srCalls[c] \in Requested
      BY <3>1
    <3> QED BY <2>6, <3>2 DEF Requested
  <2>9. PICK e : e = Entry(t, n)
    OBVIOUS
  <2>10. e.key = _make_cache_key(t) /\ e \in CacheRows /\ e \in Explained'
    <3>1. "none" \in IntentNames /\ "none" \in ModelNames
      BY DEF IntentNames, ModelNames
    <3>2. _make_cache_key(t) \in CacheKeys
      BY <2>8, <3>1, NamesGiven
    <3>3. e.key = _make_cache_key(t) /\ e \in CacheRows
      BY <2>9, <3>2 DEF Entry, CacheRows
    <3> QED BY <2>7, <3>3 DEF Explained
  <2>11. Explained \subseteq Explained'
    BY <1>5, <2>7 DEF Explained
  <2>12. srCache \in Seq(CacheRows) /\ srCache \in Seq(Explained')
    BY <2>11 DEF SrInv
  <2>13. \A j, k \in DOMAIN srCache : srCache[j].key = srCache[k].key => j = k
    BY DEF SrInv
  <2>14. Len(srCache) <= MaxCacheSize + Cardinality(learnt)
    BY DEF SrInv
  <2>15. CASE cached(t) = {}
    <3>1. srCache' = Append(srCache, e)
      BY <2>1, <2>6, <2>9, <2>15
    <3>2. cached(t) = {d \in CacheRows : setting.caches /\ d.key = _make_cache_key(t)
                                          /\ \E k \in DOMAIN srCache : d = srCache[k]}
      BY <2>8, CachedKnown
    <3>3. \A k \in DOMAIN srCache : srCache[k] \in CacheRows
      BY <2>12
    <3>4. \A k \in DOMAIN srCache : srCache[k].key # e.key
      BY <2>1, <2>10, <2>15, <3>2, <3>3
    <3>5. \A j, k \in DOMAIN srCache' : srCache'[j].key = srCache'[k].key => j = k
      BY <2>10, <2>12, <3>1, <3>4, CacheTakes
    <3>6. srCache' \in Seq(CacheRows) /\ srCache' \in Seq(Explained') /\ Len(srCache') = Len(srCache) + 1
      BY <2>10, <2>12, <3>1
    <3>7. Len(srCache') <= MaxCacheSize + Cardinality(learnt')
      BY <2>3, <2>4, <2>12, <2>14, <3>6
    <3> QED BY <1>2, <1>3, <1>4, <2>3, <2>5, <3>5, <3>6, <3>7 DEF SrInv
  <2>16. CASE cached(t) # {}
    <3>1. srCache' = [k \in DOMAIN srCache |-> IF srCache[k].key = _make_cache_key(t) THEN e ELSE srCache[k]]
      BY <2>1, <2>6, <2>9, <2>16
    <3>2. DOMAIN srCache' = DOMAIN srCache /\ \A k \in DOMAIN srCache : srCache'[k].key = srCache[k].key
      BY <2>10, <3>1
    <3>3. srCache' \in Seq(CacheRows) /\ srCache' \in Seq(Explained') /\ Len(srCache') = Len(srCache)
      <4>1. \A k \in DOMAIN srCache : srCache[k] \in CacheRows /\ srCache[k] \in Explained'
        BY <2>12
      <4>2. \A k \in DOMAIN srCache : srCache'[k] \in CacheRows /\ srCache'[k] \in Explained'
        BY <2>10, <3>1, <4>1
      <4>3. Len(srCache) \in Nat /\ DOMAIN srCache' = 1..Len(srCache)
        BY <2>12, <3>1
      <4>4. srCache' = [k \in 1..Len(srCache) |-> srCache'[k]]
        BY <3>1, <4>3
      <4>5. PICK q, z : q = srCache' /\ z = Len(srCache)
        OBVIOUS
      <4>6. q \in [1..z -> CacheRows] /\ q \in [1..z -> Explained'] /\ z \in Nat
        BY <4>2, <4>3, <4>4, <4>5
      <4>7. q \in Seq(CacheRows) /\ Len(q) = z
        BY <4>6
      <4>8. q \in Seq(Explained')
        BY <4>6
      <4> QED BY <4>5, <4>7, <4>8
    <3>4. Len(srCache') <= MaxCacheSize + Cardinality(learnt')
      BY <2>3, <2>4, <2>12, <2>14, <3>3
    <3>5. \A j, k \in DOMAIN srCache' : srCache'[j].key = srCache'[k].key => j = k
      BY <2>13, <3>2
    <3> QED BY <1>2, <1>3, <1>4, <2>3, <2>5, <3>3, <3>4, <3>5 DEF SrInv
  <2> QED BY <2>15, <2>16
<1> QED BY <1>6, <1>7

\* A request that asks may be decided for any intent.
LEMMA RoutedSound ==
    ASSUME SrInv, NEW c \in DOMAIN srCalls, srCalls[c].state = "asking", NEW n \in IntentNames,
           NEW calls, calls \in Seq(SoundCalls), DOMAIN calls = DOMAIN srCalls, calls[c] = srCalls[c]
    PROVE  /\ Routed(calls, c, n) \in Seq(SoundCalls) /\ DOMAIN Routed(calls, c, n) = DOMAIN calls
           /\ \A d \in DOMAIN calls : d # c => Routed(calls, c, n)[d] = calls[d]
           /\ Routed(calls, c, n)[c].text = calls[c].text /\ Routed(calls, c, n)[c].asker = calls[c].asker
           /\ Routed(calls, c, n)[c].state = "routed"
<1>1. srCalls \in Seq(SoundCalls)
  BY DEF SrInv
<1>2. PICK r : r = calls[c]
  OBVIOUS
<1>3. r \in SoundCalls /\ r.state = "asking"
  BY <1>1, <1>2
<1>4. by_intent(n, r.model) \in ModelNames
  <2>1. r \in Requested
    BY <1>3 DEF SoundCalls
  <2>2. r.model \in ModelNames
    BY <2>1 DEF Requested
  <2>3. r.text \in Texts
    BY <2>1 DEF Requested
  <2> QED BY <2>2, <2>3, NamesGiven
<1>5. PICK q : q = [r EXCEPT !.state = "routed", !.intent = n, !.to = by_intent(n, r.model)]
  OBVIOUS
<1>6. q \in SoundCalls /\ q.text = r.text /\ q.asker = r.asker /\ q.state = "routed"
  <2>1. /\ q \in Requested /\ q.text = r.text /\ q.asker = r.asker /\ q.state = "routed" /\ q.model = r.model
        /\ q.session = r.session /\ q.intent = n /\ q.to = by_intent(q.intent, q.model)
    BY <1>3, <1>4, <1>5 DEF SoundCalls, Requested
  <2>2. /\ _match_pattern(r.text) = "none"
        /\ r.model \in Range(setting.test) /\ r.session # NoSession => setting.test[bucket[r.session]] = r.model
    BY <1>3 DEF SoundCalls
  <2> QED BY <2>1, <2>2 DEF SoundCalls
<1>7. Routed(calls, c, n) = [calls EXCEPT ![c] = q]
  BY <1>2, <1>5 DEF Routed
<1> QED BY <1>2, <1>6, <1>7

LEMMA SrStep ==
    ASSUME SrInv, [SrNext]_srVars
    PROVE  SrInv'
<1>1. CASE UNCHANGED srVars
  BY <1>1 DEF SrInv, srVars, SoundCalls, Explained, TaughtKeys, ToldEntries, keywords, available_intents,
       by_intent
<1>2. ASSUME NEW i \in SrInputs, Receive(i) PROVE SrInv'
  <2>1. i.text \in Texts /\ i.model \in ModelNames /\ i.session \in Sessions \cup {NoSession}
    BY SrAssumption DEF ModelNames, Sessions
  <2>2. Client \in 0..Len(srCalls)
    <3>1. srCalls \in Seq(Requested)
      BY DEF SrInv
    <3> QED BY <3>1 DEF Client
  <2> QED BY <1>2, <2>1, <2>2, RouteStep DEF Receive
<1>3. \A c \in DOMAIN srCalls : srCalls[c] \in Requested /\ srCalls[c].text \in Texts /\ c \in 1..Len(srCalls)
  <2>1. srCalls \in Seq(Requested)
    BY DEF SrInv
  <2>2. ASSUME NEW c \in DOMAIN srCalls PROVE srCalls[c] \in Requested /\ c \in 1..Len(srCalls)
    BY <2>1
  <2> QED BY <2>2 DEF Requested
<1>4. ASSUME NEW c \in DOMAIN srCalls, Loopback(c) PROVE SrInv'
  <2>1. PICK i : i = [text |-> prompt(srCalls[c].text), model |-> setting.classifier, session |-> NoSession]
    OBVIOUS
  <2>2. prompt(srCalls[c].text) \in Texts
    BY <1>3 DEF prompt, Texts
  <2>3. setting.classifier \in ModelNames
    <3>1. setting.classifier \in {s.classifier : s \in Settings}
      BY DEF SrInv
    <3> QED BY <3>1 DEF ModelNames
  <2>4. i.text \in Texts /\ i.model \in ModelNames /\ i.session \in Sessions \cup {NoSession}
    BY <2>1, <2>2, <2>3
  <2>5. route(i, c) /\ UNCHANGED <<setting, bucket, learnt>>
    BY <1>4, <2>1 DEF Loopback
  <2>6. c \in 0..Len(srCalls)
    BY <1>3
  <2> QED BY <2>4, <2>5, <2>6, RouteStep
<1>5. "general" \in IntentNames /\ available_intents \subseteq IntentNames
  <2>1. setting \in Settings
    BY DEF SrInv
  <2> QED BY <2>1 DEF IntentNames, available_intents
<1>6. srCalls \in Seq(SoundCalls)
  BY DEF SrInv
<1>7. ASSUME NEW c \in DOMAIN srCalls, AskFails(c) PROVE SrInv'
  <2>1. srCalls[c].state = "asking" /\ srCalls' = Routed(srCalls, c, "general")
    BY <1>7 DEF AskFails, Asking
  <2>2. UNCHANGED <<setting, bucket, srCache, learnt>>
    BY <1>7 DEF AskFails
  <2>3. /\ srCalls' \in Seq(SoundCalls) /\ DOMAIN srCalls' = DOMAIN srCalls
        /\ \A d \in DOMAIN srCalls : d # c => srCalls'[d] = srCalls[d]
        /\ srCalls'[c].text = srCalls[c].text /\ srCalls'[c].asker = srCalls[c].asker
        /\ srCalls'[c].state = "routed"
    BY <1>5, <1>6, <2>1, RoutedSound
  <2>4. \A d \in DOMAIN srCalls : /\ srCalls'[d].text = srCalls[d].text
                                  /\ srCalls'[d].asker = srCalls[d].asker
                                  /\ srCalls'[d].state = "asking" => srCalls[d].state = "asking"
    BY <2>1, <2>3
  <2> QED BY <2>2, <2>3, <2>4, SettledStep
<1>8. ASSUME NEW d \in DOMAIN srCalls, NEW said \in available_intents \cup {"chatter"}, QuestionAnswered(d, said)
      PROVE  SrInv'
  <2>1. PICK calls : calls = [srCalls EXCEPT ![d].state = "answered"]
    OBVIOUS
  <2>2. srCalls[d].state = "routed" /\ UNCHANGED <<setting, bucket>>
    BY <1>8 DEF QuestionAnswered
  <2>3. PICK c : c = srCalls[d].asker
    OBVIOUS
  <2>4. /\ ~Asking(c) => srCalls' = calls /\ UNCHANGED <<srCache, learnt>>
        /\ Asking(c) /\ said \in available_intents =>
             /\ srCalls' = Routed(calls, c, said)
             /\ srCache' = IF setting.caches THEN learn(d, said) ELSE srCache
             /\ learnt' = IF setting.caches THEN learnt \cup {c} ELSE learnt
        /\ Asking(c) /\ said \notin available_intents =>
             srCalls' = Routed(calls, c, "general") /\ UNCHANGED <<srCache, learnt>>
    BY <1>8, <2>1, <2>3 DEF QuestionAnswered
  <2>5. /\ calls \in Seq(SoundCalls) /\ DOMAIN calls = DOMAIN srCalls
        /\ \A k \in DOMAIN srCalls : /\ k # d => calls[k] = srCalls[k]
                                     /\ calls[k].text = srCalls[k].text /\ calls[k].asker = srCalls[k].asker
                                     /\ calls[k].state = "asking" => srCalls[k].state = "asking"
    <3>1. PICK r : r = [srCalls[d] EXCEPT !.state = "answered"]
      OBVIOUS
    <3>2. srCalls[d] \in SoundCalls /\ srCalls[d] \in Requested
      BY <1>3, <1>6
    <3>3. r \in SoundCalls /\ r.text = srCalls[d].text /\ r.asker = srCalls[d].asker /\ r.state = "answered"
      BY <2>2, <3>1, <3>2 DEF SoundCalls, Requested
    <3>4. calls = [srCalls EXCEPT ![d] = r]
      BY <2>1, <3>1
    <3> QED BY <1>6, <3>3, <3>4
  <2>6. CASE ~Asking(c)
    BY <2>2, <2>4, <2>5, <2>6, SettledStep
  <2>7. CASE Asking(c)
    <3>1. c \in DOMAIN srCalls /\ srCalls[c].state = "asking" /\ c # d /\ calls[c] = srCalls[c]
      BY <2>2, <2>5, <2>7 DEF Asking
    <3>2. PICK n \in IntentNames : srCalls' = Routed(calls, c, n)
      BY <1>5, <2>4, <2>7
    <3>3. /\ srCalls' \in Seq(SoundCalls) /\ DOMAIN srCalls' = DOMAIN srCalls
          /\ \A k \in DOMAIN srCalls : k # c => srCalls'[k] = calls[k]
          /\ srCalls'[c].text = calls[c].text /\ srCalls'[c].asker = calls[c].asker
          /\ srCalls'[c].state = "routed"
      BY <2>5, <3>1, <3>2, RoutedSound
    <3>4. \A k \in DOMAIN srCalls : /\ srCalls'[k].text = srCalls[k].text
                                    /\ srCalls'[k].asker = srCalls[k].asker
                                    /\ srCalls'[k].state = "asking" => srCalls[k].state = "asking"
      BY <2>5, <3>1, <3>3
    <3>5. CASE srCache' = srCache /\ learnt' = learnt
      BY <2>2, <3>3, <3>4, <3>5, SettledStep
    <3>6. CASE ~(srCache' = srCache /\ learnt' = learnt)
      <4>1. said \in available_intents /\ setting.caches /\ learnt' = learnt \cup {c} /\ srCache' = learn(d, said)
        BY <2>4, <2>7, <3>6
      <4>2. said \in IntentNames
        BY <1>5, <4>1
      <4>3. srCache' = IF cached(srCalls[c].text) = {}
                       THEN Append(srCache, Entry(srCalls[c].text, said))
                       ELSE [k \in DOMAIN srCache |->
                               IF srCache[k].key = _make_cache_key(srCalls[c].text)
                               THEN Entry(srCalls[c].text, said) ELSE srCache[k]]
        BY <2>3, <4>1 DEF learn
      <4> QED BY <2>2, <3>1, <3>3, <3>4, <4>1, <4>2, <4>3, SettledStep
    <3> QED BY <3>5, <3>6
  <2> QED BY <2>6, <2>7
<1> QED BY <1>1, <1>2, <1>4, <1>7, <1>8 DEF SrNext

LEMMA SrSound == SrInv => RoutedJustly /\ IntentsExplained /\ OnlyAnswersOutgrow /\ SrTypeOK
<1> SUFFICES ASSUME SrInv PROVE RoutedJustly /\ IntentsExplained /\ OnlyAnswersOutgrow /\ SrTypeOK
  OBVIOUS
<1>1. ASSUME NEW c \in DOMAIN srCalls PROVE srCalls[c] \in SoundCalls /\ srCalls[c] \in Requested
  <2>1. srCalls \in Seq(SoundCalls)
    BY DEF SrInv
  <2>2. srCalls[c] \in SoundCalls
    BY <2>1
  <2> QED BY <2>2 DEF SoundCalls
<1>2. RoutedJustly
  <2>1. ASSUME NEW c \in DOMAIN srCalls, Decided(c)
        PROVE  LET r == srCalls[c]
               IN  /\ _match_pattern(r.text) # "none" => r.to = _match_pattern(r.text)
                   /\ (_match_pattern(r.text) = "none" /\ r.model \in Range(setting.test)
                       /\ r.session # NoSession) =>
                        r.to = setting.test[bucket[r.session]] \/ setting.test[bucket[r.session]] = r.model
                   /\ r.intent # "none" => r.to = by_intent(r.intent, r.model)
    <3>1. PICK r : r = srCalls[c]
      OBVIOUS
    <3>2. r \in SoundCalls /\ r.state # "asking"
      BY <1>1, <2>1, <3>1 DEF Decided
    <3>3. /\ _match_pattern(r.text) # "none" => r.to = _match_pattern(r.text)
          /\ (_match_pattern(r.text) = "none" /\ r.model \in Range(setting.test)
              /\ r.session # NoSession) =>
               r.to = setting.test[bucket[r.session]] \/ setting.test[bucket[r.session]] = r.model
          /\ r.intent # "none" => r.to = by_intent(r.intent, r.model)
      BY <3>2 DEF SoundCalls
    <3> QED BY <3>1, <3>3
  <2> QED BY <2>1 DEF RoutedJustly
<1>3. \A k \in DOMAIN srCache : srCache[k] \in Explained
  <2>1. srCache \in Seq(Explained)
    BY DEF SrInv
  <2> QED BY <2>1
<1>4. IntentsExplained
  <2>1. ASSUME NEW k \in DOMAIN srCache
        PROVE  \/ srCache[k].key \in {_make_cache_key(srCalls[c].text) : c \in learnt}
               \/ \E c \in DOMAIN srCalls :
                    _make_cache_key(srCalls[c].text) = srCache[k].key /\ keywords(srCalls[c].text) = srCache[k].intent
    <3>1. srCache[k].key \in TaughtKeys \/ srCache[k] \in ToldEntries
      BY <1>3 DEF Explained
    <3>2. CASE srCache[k] \in ToldEntries
      <4>1. PICK c \in DOMAIN srCalls : srCache[k] = Entry(srCalls[c].text, keywords(srCalls[c].text))
        BY <3>2 DEF ToldEntries
      <4>2. srCache[k].key = _make_cache_key(srCalls[c].text) /\ srCache[k].intent = keywords(srCalls[c].text)
        BY <4>1 DEF Entry
      <4> QED BY <4>2
    <3> QED BY <3>1, <3>2 DEF TaughtKeys
  <2> QED BY <2>1 DEF IntentsExplained
<1>5. OnlyAnswersOutgrow
  <2>1. Len(srCache) \in Nat /\ MaxCacheSize \in Nat /\ Cardinality(learnt) \in Nat
    BY SrAssumption, FS_CardinalityType, LenProperties DEF SrInv
  <2> QED BY <2>1 DEF SrInv, OnlyAnswersOutgrow
<1>6. Cardinality({e.key : e \in Range(srCache)}) = Len(srCache)
  <2>1. srCache \in Seq(CacheRows)
    BY DEF SrInv
  <2>2. Len(srCache) \in Nat /\ DOMAIN srCache = 1..Len(srCache)
    BY <2>1
  <2>3. PICK K : K = {e.key : e \in Range(srCache)}
    OBVIOUS
  <2>4. K = {srCache[k].key : k \in DOMAIN srCache}
    BY <2>3 DEF Range
  <2>5. PICK f : f = [k \in DOMAIN srCache |-> srCache[k].key]
    OBVIOUS
  <2>6. f \in [DOMAIN srCache -> K]
    BY <2>4, <2>5
  <2>7. \A j, k \in DOMAIN srCache : f[j] = f[k] => j = k
    BY <2>5 DEF SrInv
  <2>8. \A x \in K : \E k \in DOMAIN srCache : f[k] = x
    BY <2>4, <2>5
  <2>9. f \in Bijection(DOMAIN srCache, K)
    BY <2>6, <2>7, <2>8 DEF Bijection, Injection, Surjection, IsInjective
  <2>10. ExistsBijection(DOMAIN srCache, K)
    BY <2>9 DEF ExistsBijection
  <2>11. IsFiniteSet(1..Len(srCache)) /\ Cardinality(1..Len(srCache)) = Len(srCache)
    <3>1. PICK z \in Nat : z = Len(srCache)
      BY <2>2
    <3>2. IsFiniteSet(1..z) /\ Cardinality(1..z) = IF 1 > z THEN 0 ELSE z - 1 + 1
      BY FS_Interval
    <3> QED BY <3>1, <3>2
  <2>12. IsFiniteSet(DOMAIN srCache) /\ Cardinality(DOMAIN srCache) = Len(srCache)
    BY <2>2, <2>11
  <2>13. Cardinality(K) = Cardinality(DOMAIN srCache)
    BY <2>10, <2>12, FS_Bijection
  <2> QED BY <2>3, <2>12, <2>13
<1>7. SrTypeOK
  BY <1>1, <1>6 DEF SrInv, SrTypeOK, Requested
<1> QED BY <1>2, <1>4, <1>5, <1>7

-----------------------------------------------------------------------------
(* The prompts of the hub.                                                 *)

\* What is stored of a template is its last version; ids beyond those created are unused.
PhInv ==
    /\ created \in 0..MaxCreated
    /\ templates \in [TemplateIds -> [version : 0..MaxVersions, content : Contents \cup {{}}, status : {"missing", "draft", "active", "archived"}]]
    /\ versions \in [TemplateIds -> Seq(Contents)]
    /\ uses \in [TemplateIds -> [1..MaxVersions -> [total : Nat, good : Nat]]]
    /\ \A t \in TemplateIds : \A v \in 1..MaxVersions : uses[t][v].good <= uses[t][v].total
    /\ \A t \in TemplateIds : templates[t].status = "missing" => templates[t] = Missing /\ versions[t] = <<>>
    /\ \A t \in TemplateIds : templates[t].status # "missing" =>
         Len(versions[t]) = templates[t].version /\ versions[t] # <<>> /\ versions[t][Len(versions[t])] = templates[t].content
    /\ \A t \in TemplateIds : t > created => templates[t].status = "missing"
    /\ abTests \subseteq [template : 1..created, a : 1..MaxVersions, b : 1..MaxVersions]

LEMMA PhInit0 == PhInit => PhInv
BY PhAssumption DEF PhInit, PhInv, TemplateIds, Missing

LEMMA PhStored ==
    ASSUME PhInv, NEW t \in TemplateIds
    PROVE  /\ Stored(t) <=> templates[t].status # "missing"
           /\ Stored(t) => templates[t].status \in {"draft", "active", "archived"} /\ t <= created
<1>1. Stored(t) <=> templates[t].status # "missing"
  BY DEF PhInv, Stored, Missing
<1>2. Stored(t) => templates[t].status \in {"draft", "active", "archived"}
  <2>1. templates[t].status \in {"missing", "draft", "active", "archived"}
    BY DEF PhInv
  <2> QED BY <1>1, <2>1
<1>3. Stored(t) => t <= created
  <2>1. t > created => templates[t].status = "missing"
    BY DEF PhInv
  <2>2. created \in Int /\ t \in Int
    BY PhAssumption DEF PhInv, TemplateIds
  <2> QED BY <1>1, <2>1, <2>2
<1> QED BY <1>1, <1>2, <1>3

\* One template gets another content and its versions with it.
LEMMA PhWritten ==
    ASSUME PhInv, NEW t \in TemplateIds, NEW n \in 1..MaxVersions, NEW c \in Contents, NEW st \in {"draft", "active", "archived"},
           NEW q \in Seq(Contents), q # <<>>, Len(q) = n, q[n] = c, created' \in 0..MaxCreated, created' >= created, t <= created',
           templates' = [templates EXCEPT ![t] = [version |-> n, content |-> c, status |-> st]],
           versions' = [versions EXCEPT ![t] = q], UNCHANGED <<abTests, uses>>
    PROVE  PhInv'
<1>1. TemplateIds \subseteq Nat /\ created \in 0..MaxCreated /\ MaxCreated \in Nat
  BY PhAssumption DEF PhInv, TemplateIds
<1>2. PICK w : w = [version |-> n, content |-> c, status |-> st]
  OBVIOUS
<1>3. /\ w \in [version : 0..MaxVersions, content : Contents \cup {{}}, status : {"missing", "draft", "active", "archived"}]
      /\ w.version = n /\ w.content = c /\ w.status = st /\ st # "missing"
  BY <1>2, PhAssumption
<1>4. /\ templates' \in [TemplateIds -> [version : 0..MaxVersions, content : Contents \cup {{}}, status : {"missing", "draft", "active", "archived"}]]
      /\ templates'[t] = w /\ \A u \in TemplateIds \ {t} : templates'[u] = templates[u]
  BY <1>2, <1>3 DEF PhInv
<1>5. /\ versions' \in [TemplateIds -> Seq(Contents)]
      /\ versions'[t] = q /\ \A u \in TemplateIds \ {t} : versions'[u] = versions[u]
  BY DEF PhInv
<1>6. /\ uses' \in [TemplateIds -> [1..MaxVersions -> [total : Nat, good : Nat]]]
      /\ \A u \in TemplateIds : \A v \in 1..MaxVersions : uses'[u][v].good <= uses'[u][v].total
  BY DEF PhInv
<1>7. abTests' \subseteq [template : 1..created', a : 1..MaxVersions, b : 1..MaxVersions]
  <2>1. abTests \subseteq [template : 1..created, a : 1..MaxVersions, b : 1..MaxVersions]
    BY DEF PhInv
  <2>2. 1..created \subseteq 1..created'
    BY <1>1
  <2> QED BY <2>1, <2>2
<1>8. \A u \in TemplateIds : templates'[u].status = "missing" => templates'[u] = Missing /\ versions'[u] = <<>>
  BY <1>3, <1>4, <1>5 DEF PhInv
<1>9. \A u \in TemplateIds : templates'[u].status # "missing" =>
         Len(versions'[u]) = templates'[u].version /\ versions'[u] # <<>> /\ versions'[u][Len(versions'[u])] = templates'[u].content
  BY <1>3, <1>4, <1>5 DEF PhInv
<1>10. \A u \in TemplateIds : u > created' => templates'[u].status = "missing"
  BY <1>1, <1>4 DEF PhInv
<1> QED BY <1>4, <1>5, <1>6, <1>7, <1>8, <1>9, <1>10 DEF PhInv

LEMMA PhStep ==
    ASSUME PhInv, [PhNext]_phVars
    PROVE  PhInv' /\ \A t \in TemplateIds : \A v \in DOMAIN versions[t] :
                       versions'[t] = <<>> \/ (v \in DOMAIN versions'[t] /\ versions'[t][v] = versions[t][v])
<1> DEFINE Kept == \A t \in TemplateIds : \A v \in DOMAIN versions[t] :
                       versions'[t] = <<>> \/ (v \in DOMAIN versions'[t] /\ versions'[t][v] = versions[t][v])
<1>0. /\ versions \in [TemplateIds -> Seq(Contents)] /\ MaxVersions \in Nat \ {0} /\ MaxCreated \in Nat
      /\ templates \in [TemplateIds -> [version : 0..MaxVersions, content : Contents \cup {{}}, status : {"missing", "draft", "active", "archived"}]]
      /\ uses \in [TemplateIds -> [1..MaxVersions -> [total : Nat, good : Nat]]]
      /\ TemplateIds \subseteq Nat /\ created \in 0..MaxCreated
  BY PhAssumption DEF PhInv, TemplateIds
<1>1. CASE UNCHANGED phVars
  BY <1>1 DEF PhInv, phVars
<1>2. CASE CreateTemplate
  <2>1. PICK c \in Contents :
          /\ templates' = [templates EXCEPT ![created'] = [version |-> 1, content |-> c, status |-> "draft"]]
          /\ versions' = [versions EXCEPT ![created'] = <<c>>]
    BY <1>2 DEF CreateTemplate
  <2>2. created' = created + 1 /\ created < MaxCreated /\ UNCHANGED <<abTests, uses>>
    BY <1>2 DEF CreateTemplate
  <2>3. PICK t : t = created'
    OBVIOUS
  <2>4. t \in TemplateIds /\ t > created
    BY <1>0, <2>2, <2>3 DEF TemplateIds
  <2>5. versions[t] = <<>>
    BY <2>4 DEF PhInv
  <2>6. <<c>> \in Seq(Contents) /\ <<c>> # <<>> /\ Len(<<c>>) = 1 /\ <<c>>[1] = c
    OBVIOUS
  <2>7. PhInv'
    <3>1. PICK n, st, q : n = 1 /\ st = "draft" /\ q = <<c>>
      OBVIOUS
    <3>2. n \in 1..MaxVersions /\ st \in {"draft", "active", "archived"} /\ q \in Seq(Contents) /\ q # <<>> /\ Len(q) = n /\ q[n] = c
      BY <1>0, <2>6, <3>1
    <3>3. created' \in 0..MaxCreated /\ created' >= created /\ t <= created'
      BY <1>0, <2>2, <2>3
    <3>4. /\ templates' = [templates EXCEPT ![t] = [version |-> n, content |-> c, status |-> st]]
          /\ versions' = [versions EXCEPT ![t] = q]
      BY <2>1, <2>3, <3>1
    <3> QED BY <2>2, <2>4, <3>2, <3>3, <3>4, PhWritten
  <2> QED BY <1>0, <2>1, <2>3, <2>5, <2>7
<1>3. ASSUME NEW t \in TemplateIds, UpdateTemplate(t) PROVE PhInv' /\ Kept
  <2>1. PICK c \in Contents :
          /\ templates' = [templates EXCEPT ![t].content = c, ![t].version = @ + 1]
          /\ versions' = [versions EXCEPT ![t] = Append(@, c)]
    BY <1>3 DEF UpdateTemplate
  <2>2. Stored(t) /\ templates[t].version < MaxVersions /\ UNCHANGED <<abTests, uses, created>>
    BY <1>3 DEF UpdateTemplate
  <2>3. templates[t].status \in {"draft", "active", "archived"} /\ t <= created
    BY <2>2, PhStored
  <2>4. Len(versions[t]) = templates[t].version
    <3>1. templates[t].status # "missing"
      BY <2>3
    <3> QED BY <3>1 DEF PhInv
  <2>5. PICK n, st, q : n = templates[t].version + 1 /\ st = templates[t].status /\ q = Append(versions[t], c)
    OBVIOUS
  <2>6. n \in 1..MaxVersions /\ st \in {"draft", "active", "archived"}
    BY <1>0, <2>2, <2>3, <2>5
  <2>7. q \in Seq(Contents) /\ Len(q) = n /\ q[n] = c /\ q # <<>> /\ \A v \in DOMAIN versions[t] : v \in DOMAIN q /\ q[v] = versions[t][v]
    BY <1>0, <2>4, <2>5
  <2>8. templates' = [templates EXCEPT ![t] = [version |-> n, content |-> c, status |-> st]]
    <3>1. PICK r, w : r = templates[t] /\ w = [r EXCEPT !.content = c, !.version = r.version + 1]
      OBVIOUS
    <3>2. w = [version |-> n, content |-> c, status |-> st]
      BY <1>0, <2>5, <3>1
    <3>3. templates' = [templates EXCEPT ![t] = w]
      BY <1>0, <2>1, <3>1
    <3> QED BY <3>2, <3>3
  <2>9. versions' = [versions EXCEPT ![t] = q]
    BY <2>1, <2>5
  <2>10. PhInv'
    <3>1. created' \in 0..MaxCreated /\ created' >= created /\ t <= created'
      BY <1>0, <2>2, <2>3
    <3>2. UNCHANGED <<abTests, uses>>
      BY <2>2
    <3> QED BY <2>6, <2>7, <2>8, <2>9, <3>1, <3>2, PhWritten
  <2> QED BY <1>0, <2>7, <2>9, <2>10
<1>4. ASSUME NEW t \in TemplateIds, SetStatus(t) PROVE PhInv' /\ Kept
  <2>1. PICK s \in {"active", "archived"} : templates' = [templates EXCEPT ![t].status = s]
    BY <1>4 DEF SetStatus
  <2>2. Stored(t) /\ UNCHANGED <<versions, abTests, uses, created>>
    BY <1>4 DEF SetStatus
  <2>3. templates[t].status # "missing" /\ t <= created
    BY <2>2, PhStored
  <2>4. /\ Len(versions[t]) = templates[t].version /\ versions[t] # <<>>
        /\ versions[t][Len(versions[t])] = templates[t].content
    BY <2>3 DEF PhInv
  <2>5. PICK n, c : n = templates[t].version /\ c = templates[t].content
    OBVIOUS
  <2>6. n \in 1..MaxVersions /\ c \in Contents
    BY <1>0, <2>4, <2>5
  <2>7. templates' = [templates EXCEPT ![t] = [version |-> n, content |-> c, status |-> s]]
    <3>1. PICK r, w : r = templates[t] /\ w = [r EXCEPT !.status = s]
      OBVIOUS
    <3>2. w = [version |-> n, content |-> c, status |-> s]
      BY <1>0, <2>5, <3>1
    <3>3. templates' = [templates EXCEPT ![t] = w]
      BY <1>0, <2>1, <3>1
    <3> QED BY <3>2, <3>3
  <2>8. versions' = [versions EXCEPT ![t] = versions[t]]
    BY <1>0, <2>2
  <2>9. PICK q : q = versions[t]
    OBVIOUS
  <2>10. q \in Seq(Contents) /\ q # <<>> /\ Len(q) = n /\ q[n] = c
    BY <1>0, <2>4, <2>5, <2>9
  <2>11. PhInv'
    <3>1. created' \in 0..MaxCreated /\ created' >= created /\ t <= created'
      BY <1>0, <2>2, <2>3
    <3>2. UNCHANGED <<abTests, uses>> /\ versions' = [versions EXCEPT ![t] = q] /\ s \in {"draft", "active", "archived"}
      BY <2>2, <2>8, <2>9
    <3> QED BY <2>6, <2>7, <2>10, <3>1, <3>2, PhWritten
  <2> QED BY <1>0, <2>2, <2>11
<1>5. ASSUME NEW t \in TemplateIds, DeleteTemplate(t) PROVE PhInv' /\ Kept
  <2>1. /\ templates' = [templates EXCEPT ![t] = Missing]
        /\ versions' = [versions EXCEPT ![t] = <<>>]
        /\ uses' = [uses EXCEPT ![t] = [v \in 1..MaxVersions |-> [total |-> 0, good |-> 0]]]
        /\ UNCHANGED <<abTests, created>>
    BY <1>5 DEF DeleteTemplate
  <2>2. /\ templates'[t] = Missing /\ versions'[t] = <<>>
        /\ \A u \in TemplateIds \ {t} : templates'[u] = templates[u] /\ versions'[u] = versions[u]
    BY <1>0, <2>1
  <2>3. /\ Missing \in [version : 0..MaxVersions, content : Contents \cup {{}}, status : {"missing", "draft", "active", "archived"}]
        /\ Missing.status = "missing"
    BY <1>0 DEF Missing
  <2>4. /\ templates' \in [TemplateIds -> [version : 0..MaxVersions, content : Contents \cup {{}}, status : {"missing", "draft", "active", "archived"}]]
        /\ versions' \in [TemplateIds -> Seq(Contents)]
    BY <1>0, <2>1, <2>3
  <2>5. /\ uses' \in [TemplateIds -> [1..MaxVersions -> [total : Nat, good : Nat]]]
        /\ \A u \in TemplateIds : \A v \in 1..MaxVersions : uses'[u][v].good <= uses'[u][v].total
    <3>1. PICK z : z = [v \in 1..MaxVersions |-> [total |-> 0, good |-> 0]]
      OBVIOUS
    <3>2. z \in [1..MaxVersions -> [total : Nat, good : Nat]] /\ \A v \in 1..MaxVersions : z[v].good <= z[v].total
      BY <3>1
    <3>3. uses' = [uses EXCEPT ![t] = z]
      BY <2>1, <3>1
    <3> QED BY <1>0, <3>2, <3>3 DEF PhInv
  <2>6. /\ \A u \in TemplateIds : templates'[u].status = "missing" => templates'[u] = Missing /\ versions'[u] = <<>>
        /\ \A u \in TemplateIds : templates'[u].status # "missing" =>
             Len(versions'[u]) = templates'[u].version /\ versions'[u] # <<>> /\ versions'[u][Len(versions'[u])] = templates'[u].content
        /\ \A u \in TemplateIds : u > created => templates'[u].status = "missing"
    BY <2>2, <2>3 DEF PhInv
  <2>7. PhInv'
    BY <2>1, <2>4, <2>5, <2>6 DEF PhInv
  <2> QED BY <2>2, <2>7
<1>6. ASSUME NEW t \in TemplateIds, CreateAbTest(t) PROVE PhInv' /\ Kept
  <2>1. PICK a, b \in 1..MaxVersions : abTests' = abTests \union {[template |-> t, a |-> a, b |-> b]}
    BY <1>6 DEF CreateAbTest
  <2>2. Stored(t) /\ UNCHANGED <<templates, versions, uses, created>>
    BY <1>6 DEF CreateAbTest
  <2>3. t \in 1..created
    <3>1. t <= created
      BY <2>2, PhStored
    <3> QED BY <3>1, PhAssumption DEF TemplateIds, PhInv
  <2>4. abTests' \subseteq [template : 1..created', a : 1..MaxVersions, b : 1..MaxVersions]
    BY <2>1, <2>2, <2>3 DEF PhInv
  <2>5. PhInv'
    BY <2>2, <2>4 DEF PhInv
  <2> QED BY <1>0, <2>2, <2>5
<1>7. CASE UseVariant
  <2>1. PICK test \in abTests, good \in {0, 1} : \E v \in {test.a, test.b} :
          /\ uses' = [uses EXCEPT ![test.template][v] = [total |-> @.total + 1, good |-> @.good + good]]
          /\ UNCHANGED <<templates, versions, abTests, created>>
    BY <1>7 DEF UseVariant
  <2>2. PICK t, v : t = test.template /\ v \in {test.a, test.b} /\ uses' = [uses EXCEPT ![t][v] = [total |-> @.total + 1, good |-> @.good + good]]
    BY <2>1
  <2>3. t \in TemplateIds /\ v \in 1..MaxVersions
    <3>1. test \in [template : 1..created, a : 1..MaxVersions, b : 1..MaxVersions]
      BY DEF PhInv
    <3>2. test.template \in 1..created /\ test.a \in 1..MaxVersions /\ test.b \in 1..MaxVersions
      BY <3>1
    <3>3. 1..created \subseteq TemplateIds
      BY <1>0 DEF TemplateIds
    <3> QED BY <2>2, <3>2, <3>3
  <2>4. PICK w : w = [total |-> uses[t][v].total + 1, good |-> uses[t][v].good + good]
    OBVIOUS
  <2>5. w \in [total : Nat, good : Nat] /\ w.good <= w.total
    <3>1. uses[t][v] \in [total : Nat, good : Nat] /\ uses[t][v].good <= uses[t][v].total
      <4>1. uses[t] \in [1..MaxVersions -> [total : Nat, good : Nat]]
        BY <1>0, <2>3
      <4>2. uses[t][v].good <= uses[t][v].total
        BY <2>3 DEF PhInv
      <4> QED BY <2>3, <4>1, <4>2
    <3> QED BY <2>4, <3>1
  <2>6. uses' = [uses EXCEPT ![t] = [uses[t] EXCEPT ![v] = w]]
    BY <1>0, <2>2, <2>3, <2>4
  <2>7. PICK z : z = [uses[t] EXCEPT ![v] = w]
    OBVIOUS
  <2>8. z \in [1..MaxVersions -> [total : Nat, good : Nat]] /\ \A u \in 1..MaxVersions : z[u].good <= z[u].total
    BY <1>0, <2>3, <2>5, <2>7 DEF PhInv
  <2>9. /\ uses' \in [TemplateIds -> [1..MaxVersions -> [total : Nat, good : Nat]]]
        /\ \A u \in TemplateIds : \A x \in 1..MaxVersions : uses'[u][x].good <= uses'[u][x].total
    BY <1>0, <2>3, <2>6, <2>7, <2>8 DEF PhInv
  <2>10. UNCHANGED <<templates, versions, abTests, created>>
    BY <2>1
  <2>11. PhInv'
    BY <2>9, <2>10 DEF PhInv
  <2> QED BY <1>0, <2>10, <2>11
<1> QED BY <1>1, <1>2, <1>3, <1>4, <1>5, <1>6, <1>7 DEF PhNext

LEMMA PhSound == PhInv => CurrentIsLastVersion /\ PhTypeOK
<1> SUFFICES ASSUME PhInv PROVE CurrentIsLastVersion /\ PhTypeOK
  OBVIOUS
<1>1. ASSUME NEW t \in TemplateIds, NEW given \in Contents
      PROVE  /\ render(t, given) = render_version(t, templates[t].version, given)
             /\ ~Stored(t) => \A v \in 1..MaxVersions : render_version(t, v, given)[1] = "error"
  <2>1. versions[t] \in Seq(Contents)
    BY DEF PhInv
  <2>2. CASE templates[t].status = "missing"
    <3>1. ~Stored(t) /\ versions[t] = <<>>
      BY <2>2 DEF PhInv, Stored
    <3> QED BY <3>1 DEF render, render_version
  <2>3. CASE templates[t].status # "missing"
    <3>1. Stored(t)
      BY <2>3, PhStored
    <3>2. /\ Len(versions[t]) = templates[t].version /\ versions[t] # <<>>
          /\ versions[t][Len(versions[t])] = templates[t].content
      BY <2>3 DEF PhInv
    <3>3. templates[t].version \in DOMAIN versions[t] /\ versions[t][templates[t].version] = templates[t].content
      BY <2>1, <3>2
    <3> QED BY <3>1, <3>3 DEF render, render_version
  <2> QED BY <2>2, <2>3
<1>2. CurrentIsLastVersion
  BY <1>1 DEF CurrentIsLastVersion
<1>3. ASSUME NEW t \in TemplateIds
      PROVE  /\ templates[t].version \in 0..MaxVersions /\ Len(versions[t]) \in 0..MaxVersions
             /\ \A v \in 1..MaxVersions : uses[t][v].good \in 0..uses[t][v].total
  <2>1. templates[t].version \in 0..MaxVersions /\ versions[t] \in Seq(Contents)
    BY DEF PhInv
  <2>2. Len(versions[t]) \in 0..MaxVersions
    BY <2>1, PhAssumption DEF PhInv
  <2>3. ASSUME NEW v \in 1..MaxVersions PROVE uses[t][v].good \in 0..uses[t][v].total
    <3>1. uses[t][v] \in [total : Nat, good : Nat] /\ uses[t][v].good <= uses[t][v].total
      <4>1. uses \in [TemplateIds -> [1..MaxVersions -> [total : Nat, good : Nat]]] /\ uses[t][v].good <= uses[t][v].total
        BY DEF PhInv
      <4>2. uses[t] \in [1..MaxVersions -> [total : Nat, good : Nat]]
        BY <4>1
      <4> QED BY <4>1, <4>2
    <3> QED BY <3>1
  <2> QED BY <2>1, <2>2, <2>3
<1>4. \A test \in abTests : test.template \in 1..created
  BY DEF PhInv
<1>5. PhTypeOK
  BY <1>3, <1>4 DEF PhTypeOK, PhInv
<1> QED BY <1>2, <1>5

-----------------------------------------------------------------------------
(* The sessions of the playground.                                         *)

Voices   == {"user", "assistant"}
Phases   == {"idle", "awaiting", "answered", "failed"}
Calling  == [phase : Phases, session : PgSessions \cup {"none"}]
SessionRows == [status : {"none", "deleted", "active", "completed", "failed"}, messages : Seq(Voices), tokens : Nat]

\* How many messages of a session a voice has, and how many calls of a session are in a phase.
Said == [m \in Seq(Voices) |-> [v \in Voices |-> Cardinality({i \in DOMAIN m : m[i] = v})]]
Busy == [q \in [Senders -> Calling] |-> [s \in PgSessions |-> [p \in Phases |->
           Cardinality({c \in Senders : q[c].phase = p /\ q[c].session = s})]]]

PgInv ==
    /\ session \in [PgSessions -> SessionRows] /\ sending \in [Senders -> Calling]
    /\ \A c \in Senders : sending[c].phase # "idle" =>
         sending[c].session \in PgSessions /\ session[sending[c].session].status # "none"
    /\ \A s \in PgSessions :
         /\ session[s].status = "deleted" => session[s] = Deleted
         /\ session[s].status = "none" => session[s] = NotCreated
         /\ session[s].status # "deleted" =>
              Said[session[s].messages]["assistant"] + Busy[sending][s]["awaiting"] <= Said[session[s].messages]["user"]
         /\ session[s].tokens = Said[session[s].messages]["assistant"]
         /\ Len(session[s].messages) <= PgMaxMessages + Busy[sending][s]["answered"]

LEMMA SaidNone == <<>> \in Seq(Voices) /\ Said[<<>>]["user"] = 0 /\ Said[<<>>]["assistant"] = 0
<1>1. <<>> \in Seq(Voices) /\ \A v \in Voices : {i \in DOMAIN <<>> : <<>>[i] = v} = {}
  OBVIOUS
<1> QED BY <1>1, FS_EmptySet DEF Said, Voices

LEMMA SaidMore ==
    ASSUME NEW m \in Seq(Voices), NEW r \in Voices, NEW v \in Voices
    PROVE  /\ Said[m][v] \in Nat /\ Append(m, r) \in Seq(Voices)
           /\ Said[Append(m, r)][v] = Said[m][v] + IF r = v THEN 1 ELSE 0
<1>1. PICK z \in Nat : z = Len(m) /\ DOMAIN m = 1..z
  OBVIOUS
<1>2. PICK S : S = {i \in DOMAIN m : m[i] = v}
  OBVIOUS
<1>3. IsFiniteSet(1..z)
  BY FS_Interval
<1>4. IsFiniteSet(S) /\ Cardinality(S) \in Nat /\ z + 1 \notin S
  <2>1. S \subseteq 1..z
    BY <1>1, <1>2
  <2>2. IsFiniteSet(S)
    BY <1>3, <2>1, FS_Subset
  <2> QED BY <2>1, <2>2, FS_CardinalityType
<1>5. PICK T : T = {i \in DOMAIN Append(m, r) : Append(m, r)[i] = v}
  OBVIOUS
<1>6. T = IF r = v THEN S \cup {z + 1} ELSE S
  BY <1>1, <1>2, <1>5
<1>7. Cardinality(T) = Cardinality(S) + IF r = v THEN 1 ELSE 0
  <2>1. Cardinality(S \cup {z + 1}) = Cardinality(S) + 1
    BY <1>4, FS_AddElement
  <2> QED BY <1>4, <1>6, <2>1
<1>8. Append(m, r) \in Seq(Voices)
  OBVIOUS
<1> QED BY <1>2, <1>4, <1>5, <1>7, <1>8 DEF Said

\* The counts after the call c has become w: what it was before is counted no more.
Moved(q, c, w, k) ==
    /\ k \in [Senders -> Calling]
    /\ \A s \in PgSessions, p \in Phases :
         Busy[k][s][p] = Busy[q][s][p] - (IF q[c].phase = p /\ q[c].session = s THEN 1 ELSE 0)
                                       + IF w.phase = p /\ w.session = s THEN 1 ELSE 0

LEMMA CountsMove ==
    ASSUME NEW q \in [Senders -> Calling], NEW c \in Senders, NEW w \in Calling,
           NEW k, k = [q EXCEPT ![c] = w]
    PROVE  Moved(q, c, w, k)
<1>1. ASSUME NEW s \in PgSessions, NEW p \in Phases
      PROVE  Busy[k][s][p] = Busy[q][s][p] - (IF q[c].phase = p /\ q[c].session = s THEN 1 ELSE 0)
                                       + IF w.phase = p /\ w.session = s THEN 1 ELSE 0
  <2>2. k \in [Senders -> Calling] /\ k[c] = w /\ \A d \in Senders \ {c} : k[d] = q[d]
    OBVIOUS
  <2>3. PICK R : R = {d \in Senders \ {c} : q[d].phase = p /\ q[d].session = s}
    OBVIOUS
  <2>4. PICK S : S = {d \in Senders : q[d].phase = p /\ q[d].session = s}
    OBVIOUS
  <2>5. PICK T : T = {d \in Senders : k[d].phase = p /\ k[d].session = s}
    OBVIOUS
  <2>6. IsFiniteSet(R) /\ Cardinality(R) \in Nat /\ c \notin R
    <3>1. IsFiniteSet(R)
      BY <2>3, FS_Subset, PgAssumption
    <3> QED BY <2>3, <3>1, FS_CardinalityType
  <2>7. S = IF q[c].phase = p /\ q[c].session = s THEN R \cup {c} ELSE R
    BY <2>3, <2>4
  <2>8. T = IF w.phase = p /\ w.session = s THEN R \cup {c} ELSE R
    BY <2>2, <2>3, <2>5
  <2>12. Cardinality(R \cup {c}) = Cardinality(R) + 1
    BY <2>6, FS_AddElement
  <2>9. Cardinality(S) = Cardinality(R) + IF q[c].phase = p /\ q[c].session = s THEN 1 ELSE 0
    BY <2>6, <2>7, <2>12
  <2>10. Cardinality(T) = Cardinality(R) + IF w.phase = p /\ w.session = s THEN 1 ELSE 0
    BY <2>6, <2>8, <2>12
  <2>11. Busy[q][s][p] = Cardinality(S) /\ Busy[k][s][p] = Cardinality(T)
    BY <2>2, <2>4, <2>5 DEF Busy
  <2> QED BY <2>2, <2>6, <2>9, <2>10, <2>11
<1>2. k \in [Senders -> Calling]
  OBVIOUS
<1> QED BY <1>1, <1>2 DEF Moved

LEMMA PgInit0 == PgInit => PgInv
<1> SUFFICES ASSUME PgInit PROVE PgInv
  OBVIOUS
<1>1. NotCreated = [status |-> "none", messages |-> <<>>, tokens |-> 0] /\ NotSending \in Calling
  BY DEF NotCreated, Deleted, NotSending, Calling, Phases
<1>2. session \in [PgSessions -> SessionRows] /\ sending \in [Senders -> Calling]
  BY <1>1, SaidNone DEF PgInit, SessionRows
<1>3. ASSUME NEW s \in PgSessions, NEW p \in {"awaiting", "answered"} PROVE Busy[sending][s][p] = 0
  <2>1. {c \in Senders : sending[c].phase = p /\ sending[c].session = s} = {}
    BY DEF PgInit, NotSending
  <2> QED BY <1>2, <2>1, FS_EmptySet DEF Busy, Phases
<1> QED BY <1>1, <1>2, <1>3, SaidNone, PgAssumption DEF PgInit, PgInv, NotSending

\* What the counts are.
LEMMA CountsAre ==
    ASSUME PgInv, NEW s \in PgSessions
    PROVE  /\ \A v \in Voices : Roles(s, v) = Said[session[s].messages][v] /\ Said[session[s].messages][v] \in Nat
           /\ Awaiting(s) = Busy[sending][s]["awaiting"]
           /\ Busy[sending][s]["awaiting"] \in Nat /\ Busy[sending][s]["answered"] \in 0..Cardinality(Senders)
           /\ session[s] \in SessionRows /\ session[s].messages \in Seq(Voices)
<1>1. session[s] \in SessionRows /\ sending \in [Senders -> Calling]
  BY DEF PgInv
<1>2. session[s].messages \in Seq(Voices)
  BY <1>1 DEF SessionRows
<1>3. \A v \in Voices : Said[session[s].messages][v] \in Nat
  BY <1>2, SaidMore
<1>4. ASSUME NEW p \in Phases
      PROVE  /\ Busy[sending][s][p] = Cardinality({c \in Senders : sending[c].phase = p /\ sending[c].session = s})
             /\ Busy[sending][s][p] \in 0..Cardinality(Senders)
  <2>1. PICK S : S = {c \in Senders : sending[c].phase = p /\ sending[c].session = s}
    OBVIOUS
  <2>2. Busy[sending][s][p] = Cardinality(S)
    BY <1>1, <2>1 DEF Busy
  <2>3. IsFiniteSet(S) /\ Cardinality(S) <= Cardinality(Senders) /\ Cardinality(S) \in Nat /\ Cardinality(Senders) \in Nat
    <3>1. S \subseteq Senders
      BY <2>1
    <3>2. IsFiniteSet(S) /\ Cardinality(S) <= Cardinality(Senders)
      BY <3>1, FS_Subset, PgAssumption
    <3> QED BY <3>2, FS_CardinalityType, PgAssumption
  <2> QED BY <2>1, <2>2, <2>3
<1>5. "awaiting" \in Phases /\ "answered" \in Phases
  BY DEF Phases
<1>6. \A v \in Voices : Roles(s, v) = Said[session[s].messages][v]
  BY <1>2 DEF Roles, Said
<1>7. Awaiting(s) = Busy[sending][s]["awaiting"] /\ Busy[sending][s]["awaiting"] \in Nat
  <2>1. /\ Busy[sending][s]["awaiting"] = Cardinality({c \in Senders : sending[c].phase = "awaiting" /\ sending[c].session = s})
        /\ Busy[sending][s]["awaiting"] \in 0..Cardinality(Senders)
    BY <1>4, <1>5
  <2> QED BY <2>1 DEF Awaiting
<1>8. Busy[sending][s]["answered"] \in 0..Cardinality(Senders)
  BY <1>4, <1>5
<1> QED BY <1>1, <1>2, <1>3, <1>6, <1>7, <1>8

LEMMA PgSound == PgInv => AnswersHaveQuestions /\ PgTypeOK
<1> SUFFICES ASSUME PgInv PROVE AnswersHaveQuestions /\ PgTypeOK
  OBVIOUS
<1>1. ASSUME NEW s \in PgSessions
      PROVE  /\ Roles(s, "assistant") + Awaiting(s) <= Roles(s, "user") \/ session[s] = Deleted
             /\ session[s].tokens = Roles(s, "assistant")
             /\ session[s].status \in {"none", "deleted", "active", "completed", "failed"}
             /\ Len(session[s].messages) <= PgMaxMessages + Cardinality(Senders)
  <2>1. /\ Roles(s, "user") = Said[session[s].messages]["user"]
        /\ Roles(s, "assistant") = Said[session[s].messages]["assistant"]
        /\ Awaiting(s) = Busy[sending][s]["awaiting"]
        /\ Busy[sending][s]["answered"] \in 0..Cardinality(Senders)
        /\ session[s] \in SessionRows /\ session[s].messages \in Seq(Voices)
    BY CountsAre DEF Voices
  <2>2. /\ session[s].status = "deleted" => session[s] = Deleted
        /\ session[s].status # "deleted" =>
              Said[session[s].messages]["assistant"] + Busy[sending][s]["awaiting"] <= Said[session[s].messages]["user"]
        /\ session[s].tokens = Said[session[s].messages]["assistant"]
        /\ Len(session[s].messages) <= PgMaxMessages + Busy[sending][s]["answered"]
    BY DEF PgInv
  <2>3. Len(session[s].messages) \in Nat /\ Cardinality(Senders) \in Nat /\ PgMaxMessages \in Nat
    BY <2>1, FS_CardinalityType, PgAssumption
  <2> QED BY <2>1, <2>2, <2>3 DEF SessionRows
<1>2. AnswersHaveQuestions
  BY <1>1 DEF AnswersHaveQuestions
<1>3. \A c \in Senders : sending[c].phase \in Phases
  BY DEF PgInv, Calling
<1> QED BY <1>1, <1>2, <1>3 DEF PgTypeOK, Phases

\* A call of the session s has ended, and the calls are those of q.
ThenEnded(ph, q, s) ==
    /\ s \in PgSessions /\ session[s].status # "none" /\ q \in [Senders -> Calling]
    /\ Busy[q][s]["awaiting"] = Busy[sending][s]["awaiting"] - 1
    /\ Busy[q][s]["answered"] = Busy[sending][s]["answered"] + IF ph = "answered" THEN 1 ELSE 0
    /\ \A u \in PgSessions \ {s}, p \in {"awaiting", "answered"} : Busy[q][u][p] = Busy[sending][u][p]
    /\ \A d \in Senders : q[d].phase # "idle" => sending[d] = q[d] \/ q[d].session = s
                               \/ (sending[d].session = q[d].session /\ sending[d].phase # "idle")

\* A session changes, and one call with it.
LEMMA PgMoves ==
    ASSUME PgInv, NEW s \in PgSessions, NEW x \in SessionRows, NEW q \in [Senders -> Calling],
           session' = [session EXCEPT ![s] = x], sending' = q,
           session[s].status # "none" \/ q = sending, x.status # "none",
           \A c \in Senders : q[c].phase # "idle" => sending[c] = q[c] \/ q[c].session = s
                                                     \/ (sending[c].session = q[c].session /\ sending[c].phase # "idle"),
           x.status = "deleted" => x = Deleted,
           x.status # "deleted" => Said[x.messages]["assistant"] + Busy[q][s]["awaiting"] <= Said[x.messages]["user"],
           x.tokens = Said[x.messages]["assistant"],
           Len(x.messages) <= PgMaxMessages + Busy[q][s]["answered"],
           \A u \in PgSessions \ {s}, p \in {"awaiting", "answered"} : Busy[q][u][p] = Busy[sending][u][p]
    PROVE  PgInv'
<1>1. session' \in [PgSessions -> SessionRows] /\ session'[s] = x /\ \A u \in PgSessions \ {s} : session'[u] = session[u]
  BY DEF PgInv
<1>2. \A c \in Senders : q[c].phase # "idle" => q[c].session \in PgSessions /\ session'[q[c].session].status # "none"
  <2>1. ASSUME NEW c \in Senders, q[c].phase # "idle"
        PROVE  q[c].session \in PgSessions /\ session'[q[c].session].status # "none"
    <3>1. CASE q[c].session = s
      BY <1>1, <3>1
    <3>2. CASE q[c].session # s
      <4>1. sending[c].session = q[c].session /\ sending[c].phase # "idle"
        BY <2>1, <3>2
      <4>2. q[c].session \in PgSessions /\ session[q[c].session].status # "none"
        BY <4>1 DEF PgInv
      <4> QED BY <1>1, <3>2, <4>2
    <3> QED BY <3>1, <3>2
  <2> QED BY <2>1
<1>3. "awaiting" \in Phases /\ "answered" \in Phases
  BY DEF Phases
<1>4. ASSUME NEW u \in PgSessions
      PROVE  /\ session'[u].status = "deleted" => session'[u] = Deleted
             /\ session'[u].status = "none" => session'[u] = NotCreated
             /\ session'[u].status # "deleted" =>
                  Said[session'[u].messages]["assistant"] + Busy[q][u]["awaiting"] <= Said[session'[u].messages]["user"]
             /\ session'[u].tokens = Said[session'[u].messages]["assistant"]
             /\ Len(session'[u].messages) <= PgMaxMessages + Busy[q][u]["answered"]
  <2>1. CASE u = s
    BY <1>1, <2>1
  <2>2. CASE u # s
    <3>1. session'[u] = session[u] /\ Busy[q][u]["awaiting"] = Busy[sending][u]["awaiting"]
          /\ Busy[q][u]["answered"] = Busy[sending][u]["answered"]
      BY <1>1, <1>3, <2>2
    <3>2. /\ session[u].status = "deleted" => session[u] = Deleted
          /\ session[u].status = "none" => session[u] = NotCreated
          /\ session[u].status # "deleted" =>
               Said[session[u].messages]["assistant"] + Busy[sending][u]["awaiting"] <= Said[session[u].messages]["user"]
          /\ session[u].tokens = Said[session[u].messages]["assistant"]
          /\ Len(session[u].messages) <= PgMaxMessages + Busy[sending][u]["answered"]
      BY DEF PgInv
    <3> QED BY <3>1, <3>2
  <2> QED BY <2>1, <2>2
<1> QED BY <1>1, <1>2, <1>4 DEF PgInv

\* One step keeps the counts, and a session that has ended gets no question.
LEMMA PgStep ==
    ASSUME PgInv, [PgNext]_pgVars
    PROVE  PgInv' /\ \A s \in PgSessions : session[s].status \in {"completed", "failed"} =>
                        Said[session'[s].messages]["user"] <= Said[session[s].messages]["user"]
<1> DEFINE Closed == \A s \in PgSessions : session[s].status \in {"completed", "failed"} =>
                        Said[session'[s].messages]["user"] <= Said[session[s].messages]["user"]
<1>0. /\ session \in [PgSessions -> SessionRows] /\ sending \in [Senders -> Calling]
      /\ "awaiting" \in Phases /\ "answered" \in Phases /\ "failed" \in Phases
      /\ "user" \in Voices /\ "assistant" \in Voices /\ PgMaxMessages \in Nat
  BY PgAssumption DEF PgInv, Phases, Voices
<1>a. ASSUME NEW s \in PgSessions
      PROVE  /\ session[s] \in SessionRows /\ session[s].messages \in Seq(Voices)
             /\ Said[session[s].messages]["user"] \in Nat /\ Said[session[s].messages]["assistant"] \in Nat
             /\ Busy[sending][s]["awaiting"] \in Nat /\ Busy[sending][s]["answered"] \in Nat
             /\ session[s].status = "deleted" => session[s] = Deleted
             /\ session[s].status = "none" => session[s] = NotCreated
             /\ session[s].status # "deleted" =>
                  Said[session[s].messages]["assistant"] + Busy[sending][s]["awaiting"] <= Said[session[s].messages]["user"]
             /\ session[s].tokens = Said[session[s].messages]["assistant"]
             /\ Len(session[s].messages) <= PgMaxMessages + Busy[sending][s]["answered"]
  <2>1. /\ session[s] \in SessionRows /\ session[s].messages \in Seq(Voices)
        /\ Busy[sending][s]["awaiting"] \in Nat /\ Busy[sending][s]["answered"] \in 0..Cardinality(Senders)
        /\ \A v \in Voices : Said[session[s].messages][v] \in Nat
    BY CountsAre
  <2>2. Cardinality(Senders) \in Nat
    BY PgAssumption, FS_CardinalityType
  <2>3. /\ session[s].status = "deleted" => session[s] = Deleted
        /\ session[s].status = "none" => session[s] = NotCreated
        /\ session[s].status # "deleted" =>
             Said[session[s].messages]["assistant"] + Busy[sending][s]["awaiting"] <= Said[session[s].messages]["user"]
        /\ session[s].tokens = Said[session[s].messages]["assistant"]
        /\ Len(session[s].messages) <= PgMaxMessages + Busy[sending][s]["answered"]
    BY DEF PgInv
  <2> QED BY <1>0, <2>1, <2>2, <2>3
<1>1. CASE UNCHANGED pgVars
  <2>1. PgInv'
    BY <1>1 DEF PgInv, pgVars
  <2>2. Closed
    BY <1>1, <1>a DEF pgVars
  <2> QED BY <2>1, <2>2
\* A session is created, closed or deleted: no call moves.
<1>2. ASSUME NEW s \in PgSessions, NEW x \in SessionRows, UNCHANGED sending, session' = [session EXCEPT ![s] = x],
             x.status # "none", x.status = "deleted" => x = Deleted,
             (x.messages = session[s].messages /\ x.tokens = session[s].tokens) \/ (x.messages = <<>> /\ x.tokens = 0),
             x.status # "deleted" => Said[x.messages]["assistant"] + Busy[sending][s]["awaiting"] <= Said[x.messages]["user"]
      PROVE  PgInv' /\ Closed
  <2>1. PICK q : q = sending
    OBVIOUS
  <2>2. /\ q \in [Senders -> Calling] /\ sending' = q
        /\ \A c \in Senders : q[c].phase # "idle" => sending[c] = q[c] \/ q[c].session = s
                                 \/ (sending[c].session = q[c].session /\ sending[c].phase # "idle")
        /\ session[s].status # "none" \/ q = sending
        /\ \A u \in PgSessions \ {s}, p \in {"awaiting", "answered"} : Busy[q][u][p] = Busy[sending][u][p]
    BY <1>0, <1>2, <2>1
  <2>3. x.tokens = Said[x.messages]["assistant"] /\ Len(x.messages) <= PgMaxMessages + Busy[q][s]["answered"]
    <3>1. Len(<<>>) = 0
      OBVIOUS
    <3> QED BY <1>0, <1>2, <1>a, <2>1, <3>1, SaidNone
  <2>4. x.status # "deleted" => Said[x.messages]["assistant"] + Busy[q][s]["awaiting"] <= Said[x.messages]["user"]
    BY <1>2, <2>1
  <2>5. PgInv'
    BY <1>2, <2>2, <2>3, <2>4, PgMoves
  <2>6. \A u \in PgSessions : session'[u].messages = session[u].messages \/ session'[u].messages = <<>>
    BY <1>0, <1>2
  <2>7. Closed
    BY <1>a, <2>6, SaidNone
  <2> QED BY <2>5, <2>7
<1>3. ASSUME NEW s \in PgSessions, CreateSession(s) PROVE PgInv' /\ Closed
  <2>1. PICK x : x = [status |-> "active", messages |-> <<>>, tokens |-> 0]
    OBVIOUS
  <2>2. x \in SessionRows /\ x.status = "active" /\ x.messages = <<>> /\ x.tokens = 0
    BY <2>1, SaidNone DEF SessionRows
  <2>3. session[s] = NotCreated /\ session' = [session EXCEPT ![s] = x] /\ UNCHANGED sending
    BY <1>3, <2>1 DEF CreateSession
  <2>4. session[s].status = "none" /\ session[s].messages = <<>>
    BY <2>3 DEF NotCreated, Deleted
  <2>5. Said[x.messages]["assistant"] + Busy[sending][s]["awaiting"] <= Said[x.messages]["user"]
    BY <1>a, <2>2, <2>4
  <2> QED BY <1>2, <2>2, <2>3, <2>5
<1>4. ASSUME NEW s \in PgSessions, CloseSession(s) PROVE PgInv' /\ Closed
  <2>1. PICK x : x = [session[s] EXCEPT !.status = "completed"]
    OBVIOUS
  <2>2. x \in SessionRows /\ x.status = "completed" /\ x.messages = session[s].messages /\ x.tokens = session[s].tokens
    BY <1>a, <2>1 DEF SessionRows
  <2>3. session[s].status = "active" /\ session' = [session EXCEPT ![s] = x] /\ UNCHANGED sending
    BY <1>4, <2>1 DEF CloseSession
  <2>4. Said[x.messages]["assistant"] + Busy[sending][s]["awaiting"] <= Said[x.messages]["user"]
    BY <1>a, <2>2, <2>3
  <2> QED BY <1>2, <2>2, <2>3, <2>4
<1>5. ASSUME NEW s \in PgSessions, DeleteSession(s) PROVE PgInv' /\ Closed
  <2>1. PICK x : x = Deleted
    OBVIOUS
  <2>2. x \in SessionRows /\ x.status = "deleted" /\ x.messages = <<>> /\ x.tokens = 0
    BY <2>1, SaidNone DEF SessionRows, Deleted
  <2>3. session' = [session EXCEPT ![s] = x] /\ UNCHANGED sending
    BY <1>5, <2>1 DEF DeleteSession
  <2> QED BY <1>2, <2>1, <2>2, <2>3
<1>6. ASSUME NEW c \in Senders, NEW s \in PgSessions, SendMessage(c, s) PROVE PgInv' /\ Closed
  <2>1. PICK w : w = [phase |-> "awaiting", session |-> s]
    OBVIOUS
  <2>2. w \in Calling /\ w.phase = "awaiting" /\ w.session = s
    BY <2>1 DEF Calling, Phases
  <2>3. PICK q : q = [sending EXCEPT ![c] = w]
    OBVIOUS
  <2>4. PICK x : x = [session[s] EXCEPT !.messages = Append(session[s].messages, "user")]
    OBVIOUS
  <2>5. /\ sending[c].phase = "idle" /\ session[s].status = "active" /\ Len(session[s].messages) < PgMaxMessages
        /\ session' = [session EXCEPT ![s] = x] /\ sending' = q
    BY <1>6, <2>1, <2>3, <2>4 DEF SendMessage
  <2>6. Append(session[s].messages, "user") \in Seq(Voices) /\ Len(Append(session[s].messages, "user")) = Len(session[s].messages) + 1
    BY <1>0, <1>a
  <2>7. /\ x \in SessionRows /\ x.status = "active" /\ x.messages = Append(session[s].messages, "user")
        /\ x.tokens = session[s].tokens
    BY <1>a, <2>4, <2>5, <2>6 DEF SessionRows
  <2>8. /\ Said[x.messages]["user"] = Said[session[s].messages]["user"] + 1
        /\ Said[x.messages]["assistant"] = Said[session[s].messages]["assistant"]
    <3>1. PICK m : m = session[s].messages
      OBVIOUS
    <3>2. /\ Said[Append(m, "user")]["user"] = Said[m]["user"] + IF "user" = "user" THEN 1 ELSE 0
          /\ Said[Append(m, "user")]["assistant"] = Said[m]["assistant"] + IF "user" = "assistant" THEN 1 ELSE 0
      BY <1>0, <1>a, <3>1, SaidMore
    <3> QED BY <1>a, <2>7, <3>1, <3>2
  <2>9. ASSUME NEW u \in PgSessions, NEW p \in Phases
        PROVE  Busy[q][u][p] = Busy[sending][u][p] - (IF sending[c].phase = p /\ sending[c].session = u THEN 1 ELSE 0)
                               + IF w.phase = p /\ w.session = u THEN 1 ELSE 0
    <3>1. Moved(sending, c, w, q)
      BY <1>0, <2>2, <2>3, CountsMove
    <3> QED BY <3>1 DEF Moved
  <2>10. /\ Busy[q][s]["awaiting"] = Busy[sending][s]["awaiting"] + 1
         /\ Busy[q][s]["answered"] = Busy[sending][s]["answered"]
    BY <1>0, <1>a, <2>2, <2>5, <2>9
  <2>11. \A u \in PgSessions \ {s}, p \in {"awaiting", "answered"} : Busy[q][u][p] = Busy[sending][u][p]
    BY <1>0, <1>a, <2>2, <2>5, <2>9
  <2>12. \A d \in Senders : q[d].phase # "idle" => sending[d] = q[d] \/ q[d].session = s
                                 \/ (sending[d].session = q[d].session /\ sending[d].phase # "idle")
    BY <1>0, <2>2, <2>3
  <2>13. q \in [Senders -> Calling]
    BY <1>0, <2>2, <2>3
  <2>14. /\ Said[x.messages]["assistant"] + Busy[q][s]["awaiting"] <= Said[x.messages]["user"]
         /\ x.tokens = Said[x.messages]["assistant"]
         /\ Len(x.messages) <= PgMaxMessages + Busy[q][s]["answered"]
    <3>1. Len(session[s].messages) \in Nat
      BY <1>a
    <3>2. Said[x.messages]["assistant"] + Busy[q][s]["awaiting"] <= Said[x.messages]["user"]
      <4>1. Said[session[s].messages]["assistant"] + Busy[sending][s]["awaiting"] <= Said[session[s].messages]["user"]
        BY <1>a, <2>5
      <4> QED BY <1>a, <2>8, <2>10, <4>1
    <3>3. x.tokens = Said[x.messages]["assistant"]
      BY <1>a, <2>7, <2>8
    <3>4. Len(x.messages) <= PgMaxMessages + Busy[q][s]["answered"]
      BY <1>0, <1>a, <2>5, <2>6, <2>7, <2>10, <3>1
    <3> QED BY <3>2, <3>3, <3>4
  <2>15. PgInv'
    BY <2>5, <2>7, <2>11, <2>12, <2>13, <2>14, PgMoves
  <2>16. \A u \in PgSessions : u # s => session'[u] = session[u]
    BY <1>0, <2>5
  <2>17. Closed
    BY <1>a, <2>5, <2>16
  <2> QED BY <2>15, <2>17
\* What a call that ends does to the counts of its session; the session may be gone.
<1>7. ASSUME NEW c \in Senders, NEW ph \in {"answered", "failed"}, sending[c].phase = "awaiting",
             NEW q, NEW s, q = [sending EXCEPT ![c].phase = ph], s = sending[c].session
      PROVE  ThenEnded(ph, q, s)
  <2>1. PICK w : w = [phase |-> ph, session |-> sending[c].session]
    OBVIOUS
  <2>2. sending[c] \in Calling
    BY <1>0
  <2>3. w \in Calling /\ w.phase = ph /\ w.session = sending[c].session
    BY <2>1, <2>2 DEF Calling, Phases
  <2>4. q = [sending EXCEPT ![c] = w]
    <3>1. w = [sending[c] EXCEPT !.phase = ph]
      BY <2>1, <2>2 DEF Calling
    <3> QED BY <1>7, <3>1
  <2>6. s = sending[c].session
    BY <1>7
  <2>7. s \in PgSessions /\ session[s].status # "none"
    BY <1>7, <2>6 DEF PgInv
  <2>8. ASSUME NEW u \in PgSessions, NEW p \in Phases
        PROVE  Busy[q][u][p] = Busy[sending][u][p] - (IF sending[c].phase = p /\ sending[c].session = u THEN 1 ELSE 0)
                               + IF w.phase = p /\ w.session = u THEN 1 ELSE 0
    <3>1. Moved(sending, c, w, q)
      BY <1>0, <2>3, <2>4, CountsMove
    <3> QED BY <3>1 DEF Moved
  <2>9. Busy[q][s]["awaiting"] = Busy[sending][s]["awaiting"] - 1
    <3>1. Busy[q][s]["awaiting"] = Busy[sending][s]["awaiting"]
                     - (IF sending[c].phase = "awaiting" /\ sending[c].session = s THEN 1 ELSE 0)
                     + IF w.phase = "awaiting" /\ w.session = s THEN 1 ELSE 0
      BY <1>0, <2>7, <2>8
    <3>2. Busy[sending][s]["awaiting"] \in Nat
      BY <1>a, <2>7
    <3> QED BY <1>7, <2>3, <2>6, <3>1, <3>2
  <2>10. Busy[q][s]["answered"] = Busy[sending][s]["answered"] + IF ph = "answered" THEN 1 ELSE 0
    <3>1. Busy[q][s]["answered"] = Busy[sending][s]["answered"]
                     - (IF sending[c].phase = "answered" /\ sending[c].session = s THEN 1 ELSE 0)
                     + IF w.phase = "answered" /\ w.session = s THEN 1 ELSE 0
      BY <1>0, <2>7, <2>8
    <3>2. Busy[sending][s]["answered"] \in Nat
      BY <1>a, <2>7
    <3> QED BY <1>7, <2>3, <2>6, <3>1, <3>2
  <2>11. \A u \in PgSessions \ {s}, p \in {"awaiting", "answered"} : Busy[q][u][p] = Busy[sending][u][p]
    BY <1>0, <1>a, <2>3, <2>6, <2>8
  <2>12. \A d \in Senders : q[d].phase # "idle" => sending[d] = q[d] \/ q[d].session = s
                                        \/ (sending[d].session = q[d].session /\ sending[d].phase # "idle")
    BY <1>0, <2>3, <2>4, <2>6
  <2>13. q \in [Senders -> Calling]
    BY <1>0, <2>3, <2>4
  <2> QED BY <2>7, <2>9, <2>10, <2>11, <2>12, <2>13 DEF ThenEnded
<1>8. ASSUME NEW c \in Senders, Answered(c) PROVE PgInv' /\ Closed
  <2>1. sending[c].phase = "awaiting" /\ "answered" \in {"answered", "failed"}
    BY <1>8 DEF Answered
  <2>7. PICK q, s : q = [sending EXCEPT ![c].phase = "answered"] /\ s = sending[c].session
    OBVIOUS
  <2>2. /\ s \in PgSessions /\ session[s].status # "none" /\ q \in [Senders -> Calling]
        /\ Busy[q][s]["awaiting"] = Busy[sending][s]["awaiting"] - 1
        /\ Busy[q][s]["answered"] = Busy[sending][s]["answered"] + IF "answered" = "answered" THEN 1 ELSE 0
        /\ \A u \in PgSessions \ {s}, p \in {"awaiting", "answered"} : Busy[q][u][p] = Busy[sending][u][p]
        /\ \A d \in Senders : q[d].phase # "idle" => sending[d] = q[d] \/ q[d].session = s
                                   \/ (sending[d].session = q[d].session /\ sending[d].phase # "idle")
    <3>1. PICK ph \in {"answered", "failed"} : ph = "answered"
      BY <2>1
    <3>2. q = [sending EXCEPT ![c].phase = ph] /\ s = sending[c].session
      BY <2>7, <3>1
    <3>3. ThenEnded(ph, q, s)
      BY <1>7, <2>1, <3>2
    <3> QED BY <3>1, <3>3 DEF ThenEnded
  <2>3. PICK x : x = IF session[s] = Deleted THEN session[s]
                     ELSE [session[s] EXCEPT !.messages = Append(session[s].messages, "assistant"),
                                             !.tokens = session[s].tokens + 1]
    OBVIOUS
  <2>4. session' = [session EXCEPT ![s] = x] /\ sending' = q
    BY <1>0, <1>8, <2>2, <2>3, <2>7 DEF Answered
  <2>5. CASE session[s] = Deleted
    <3>1. x = Deleted /\ x.status = "deleted" /\ x.messages = <<>> /\ x.tokens = 0 /\ x \in SessionRows
      BY <1>a, <2>2, <2>3, <2>5 DEF Deleted
    <3>2. x.tokens = Said[x.messages]["assistant"] /\ Len(x.messages) <= PgMaxMessages + Busy[q][s]["answered"]
      <4>1. Len(<<>>) = 0
        OBVIOUS
      <4> QED BY <1>0, <1>a, <2>2, <3>1, <4>1, SaidNone
    <3>3. PgInv'
      BY <2>2, <2>4, <3>1, <3>2, PgMoves
    <3>4. \A u \in PgSessions : session'[u] = session[u]
      BY <1>0, <2>2, <2>3, <2>4, <2>5
    <3>5. Closed
      BY <1>a, <3>4
    <3> QED BY <3>3, <3>5
  <2>6. CASE session[s] # Deleted
    <3>1. session[s].status # "deleted"
      BY <1>a, <2>2, <2>6
    <3>2. PICK m : m = session[s].messages
      OBVIOUS
    <3>3. m \in Seq(Voices) /\ Append(m, "assistant") \in Seq(Voices) /\ Len(Append(m, "assistant")) = Len(m) + 1 /\ Len(m) \in Nat
      BY <1>0, <1>a, <2>2, <3>2
    <3>4. /\ x \in SessionRows /\ x.status = session[s].status /\ x.messages = Append(m, "assistant")
          /\ x.tokens = session[s].tokens + 1
      <4>1. x = [session[s] EXCEPT !.messages = Append(m, "assistant"), !.tokens = session[s].tokens + 1]
        BY <2>3, <2>6, <3>2
      <4>2. session[s] \in SessionRows
        BY <1>a, <2>2
      <4>3. PICK y : y = session[s]
        OBVIOUS
      <4>4. x = [status |-> y.status, messages |-> Append(m, "assistant"), tokens |-> y.tokens + 1]
        BY <4>1, <4>2, <4>3 DEF SessionRows
      <4> QED BY <3>3, <4>2, <4>3, <4>4 DEF SessionRows
    <3>5. /\ Said[Append(m, "assistant")]["user"] = Said[m]["user"]
          /\ Said[Append(m, "assistant")]["assistant"] = Said[m]["assistant"] + 1
      <4>1. /\ Said[Append(m, "assistant")]["user"] = Said[m]["user"] + IF "assistant" = "user" THEN 1 ELSE 0
            /\ Said[Append(m, "assistant")]["assistant"] = Said[m]["assistant"] + IF "assistant" = "assistant" THEN 1 ELSE 0
            /\ Said[m]["user"] \in Nat
        BY <1>0, <3>3, SaidMore
      <4> QED BY <4>1
    <3>6. Said[x.messages]["assistant"] + Busy[q][s]["awaiting"] <= Said[x.messages]["user"]
      <4>1. Said[m]["assistant"] + Busy[sending][s]["awaiting"] <= Said[m]["user"]
        BY <1>a, <2>2, <3>1, <3>2
      <4>2. Said[m]["assistant"] \in Nat /\ Said[m]["user"] \in Nat /\ Busy[sending][s]["awaiting"] \in Nat
        BY <1>a, <2>2, <3>2
      <4>3. Busy[q][s]["awaiting"] = Busy[sending][s]["awaiting"] - 1
        BY <2>2
      <4> QED BY <3>4, <3>5, <4>1, <4>2, <4>3
    <3>7. x.tokens = Said[x.messages]["assistant"]
      BY <1>a, <2>2, <3>2, <3>4, <3>5
    <3>8. Len(x.messages) <= PgMaxMessages + Busy[q][s]["answered"]
      BY <1>0, <1>a, <2>2, <3>2, <3>3, <3>4
    <3>9. PgInv'
      BY <2>2, <2>4, <3>1, <3>4, <3>6, <3>7, <3>8, PgMoves
    <3>10. \A u \in PgSessions : u # s => session'[u] = session[u]
      BY <1>0, <2>4
    <3>11. session'[s] = x
      BY <1>0, <2>2, <2>4
    <3>12. Closed
      <4>1. ASSUME NEW u \in PgSessions
            PROVE  Said[session'[u].messages]["user"] <= Said[session[u].messages]["user"]
        <5>1. CASE u # s
          BY <1>a, <3>10, <5>1
        <5>2. CASE u = s
          <6>1. Said[session'[s].messages]["user"] = Said[m]["user"]
            BY <3>4, <3>5, <3>11
          <6>2. Said[m]["user"] \in Nat /\ m = session[s].messages
            BY <1>a, <2>2, <3>2
          <6> QED BY <5>2, <6>1, <6>2
        <5> QED BY <5>1, <5>2
      <4> QED BY <4>1
    <3> QED BY <3>9, <3>12
  <2> QED BY <2>5, <2>6
<1>9. ASSUME NEW c \in Senders, InferenceFails(c) PROVE PgInv' /\ Closed
  <2>1. sending[c].phase = "awaiting" /\ "failed" \in {"answered", "failed"}
    BY <1>9 DEF InferenceFails
  <2>7. PICK q, s : q = [sending EXCEPT ![c].phase = "failed"] /\ s = sending[c].session
    OBVIOUS
  <2>2. /\ s \in PgSessions /\ session[s].status # "none" /\ q \in [Senders -> Calling]
        /\ Busy[q][s]["awaiting"] = Busy[sending][s]["awaiting"] - 1
        /\ Busy[q][s]["answered"] = Busy[sending][s]["answered"] + IF "failed" = "answered" THEN 1 ELSE 0
        /\ \A u \in PgSessions \ {s}, p \in {"awaiting", "answered"} : Busy[q][u][p] = Busy[sending][u][p]
        /\ \A d \in Senders : q[d].phase # "idle" => sending[d] = q[d] \/ q[d].session = s
                                   \/ (sending[d].session = q[d].session /\ sending[d].phase # "idle")
    <3>1. PICK ph \in {"answered", "failed"} : ph = "failed"
      BY <2>1
    <3>2. q = [sending EXCEPT ![c].phase = ph] /\ s = sending[c].session
      BY <2>7, <3>1
    <3>3. ThenEnded(ph, q, s)
      BY <1>7, <2>1, <3>2
    <3> QED BY <3>1, <3>3 DEF ThenEnded
  <2>3. PICK x : x = IF session[s] = Deleted THEN session[s] ELSE [session[s] EXCEPT !.status = "failed"]
    OBVIOUS
  <2>4. session' = [session EXCEPT ![s] = x] /\ sending' = q
    BY <1>0, <1>9, <2>2, <2>3, <2>7 DEF InferenceFails
  <2>5. /\ x \in SessionRows /\ x.messages = session[s].messages /\ x.tokens = session[s].tokens
        /\ x.status # "none"
        /\ x.status = "deleted" => x = Deleted
    BY <1>a, <2>2, <2>3 DEF SessionRows
  <2>6. x.status # "deleted" => Said[x.messages]["assistant"] + Busy[q][s]["awaiting"] <= Said[x.messages]["user"]
    <3>1. x.status # "deleted" => session[s].status # "deleted"
      BY <1>a, <2>2, <2>3
    <3> QED BY <1>a, <2>2, <2>5, <3>1
  <2>11. x.tokens = Said[x.messages]["assistant"] /\ Len(x.messages) <= PgMaxMessages + Busy[q][s]["answered"]
    BY <1>a, <2>2, <2>5
  <2>8. PgInv'
    BY <2>2, <2>4, <2>5, <2>6, <2>11, PgMoves
  <2>9. \A u \in PgSessions : session'[u].messages = session[u].messages
    BY <1>0, <2>2, <2>4, <2>5
  <2>10. Closed
    BY <1>a, <2>9
  <2> QED BY <2>8, <2>10
<1> QED BY <1>1, <1>3, <1>4, <1>5, <1>6, <1>8, <1>9 DEF PgNext

-----------------------------------------------------------------------------
(* The runs of a benchmark.                                                *)

Rows == [model : Range(ModelIds), sample : Nat, failed : BOOLEAN, score : Scores \cup {0}, cost : SampleCosts \cup {0}]

\* The place m, s of the two loops comes before the place p.
Passed(m, s, p) == m < p.model \/ (m = p.model /\ s < p.sample)

\* The places of a model in the run that have been passed for a sample.
PassedOf(n, s, p) == {k \in Named(n) : Passed(k, s, p)}

\* A model and a sample have a result for each place passed, and none besides; only
\* samples that came late may have been missed.
BeInv ==
    /\ samples \in FirstSamples..MaxSamples /\ status \in {"running", "completed", "failed"}
    /\ at \in [model : 1..(Len(ModelIds) + 1), sample : 1..samples]
    /\ status = "running" => at.model <= Len(ModelIds)
    /\ status = "completed" => at.model = Len(ModelIds) + 1
    /\ results \in Seq(Rows)
    /\ \A i \in DOMAIN results : results[i].sample \in 1..samples
    /\ \A n \in Range(ModelIds), s \in 1..samples :
         /\ Cardinality(Evaluations(n, s)) <= Cardinality(PassedOf(n, s, at))
         /\ s <= FirstSamples => Cardinality(Evaluations(n, s)) = Cardinality(PassedOf(n, s, at))

LEMMA BeFinite ==
    ASSUME NEW n, NEW s, NEW p, results \in Seq(Rows)
    PROVE  /\ IsFiniteSet(Evaluations(n, s)) /\ IsFiniteSet(Named(n)) /\ IsFiniteSet(PassedOf(n, s, p))
           /\ Cardinality(Evaluations(n, s)) \in Nat /\ Cardinality(PassedOf(n, s, p)) \in Nat
           /\ Cardinality(PassedOf(n, s, p)) <= Cardinality(Named(n)) /\ Cardinality(Named(n)) \in Nat
<1>1. IsFiniteSet(1..Len(results)) /\ IsFiniteSet(1..Len(ModelIds))
  <2>1. Len(results) \in Int /\ Len(ModelIds) \in Int
    BY BeAssumption
  <2> QED BY <2>1, FS_Interval, BeAssumption
<1>2. /\ Evaluations(n, s) \subseteq 1..Len(results) /\ Named(n) \subseteq 1..Len(ModelIds)
      /\ PassedOf(n, s, p) \subseteq Named(n)
  BY BeAssumption DEF Evaluations, Named, PassedOf
<1>3. IsFiniteSet(Evaluations(n, s)) /\ IsFiniteSet(Named(n))
  BY <1>1, <1>2, FS_Subset
<1>4. IsFiniteSet(PassedOf(n, s, p)) /\ Cardinality(PassedOf(n, s, p)) <= Cardinality(Named(n))
  BY <1>2, <1>3, FS_Subset
<1> QED BY <1>3, <1>4, FS_CardinalityType

LEMMA BeInit0 == BeInit => BeInv
<1> SUFFICES ASSUME BeInit PROVE BeInv
  OBVIOUS
<1>1. results = <<>> /\ at = [model |-> 1, sample |-> 1] /\ samples = FirstSamples /\ status = "running"
  BY DEF BeInit
<1>2. ASSUME NEW n \in Range(ModelIds), NEW s \in 1..samples
      PROVE  Cardinality(Evaluations(n, s)) = 0 /\ Cardinality(PassedOf(n, s, at)) = 0
  <2>1. Evaluations(n, s) = {} /\ PassedOf(n, s, at) = {}
    BY <1>1, BeAssumption DEF Evaluations, PassedOf, Passed, Named
  <2> QED BY <2>1, FS_EmptySet
<1> QED BY <1>1, <1>2, BeAssumption DEF BeInv

\* One inference more, at the place of the loops.
LEMMA BeEvaluated ==
    ASSUME BeInv, NEW failed \in BOOLEAN, NEW score \in Scores \cup {0}, NEW cost \in SampleCosts \cup {0},
           Evaluated(failed, score, cost)
    PROVE  BeInv'
<1>1. /\ status = "running" /\ samples' = samples /\ samples \in Nat /\ FirstSamples \in Nat /\ FirstSamples <= samples
      /\ samples <= MaxSamples /\ MaxSamples \in Nat /\ Len(ModelIds) \in Nat \ {0} /\ DOMAIN ModelIds = 1..Len(ModelIds)
  BY BeAssumption DEF BeInv, Evaluated
<1>2. PICK p, m, s : p = at /\ m = at.model /\ s = at.sample
  OBVIOUS
<1>3. m \in DOMAIN ModelIds /\ s \in 1..samples /\ p = [model |-> m, sample |-> s]
  BY <1>1, <1>2 DEF BeInv
<1>4. PICK q : q = IF s < samples THEN [model |-> m, sample |-> s + 1] ELSE [model |-> m + 1, sample |-> 1]
  OBVIOUS
<1>5. at' = q
  BY <1>2, <1>3, <1>4 DEF Evaluated, After, Advance
<1>6. /\ q \in [model : 1..(Len(ModelIds) + 1), sample : 1..samples]
      /\ q.model \in Nat /\ q.sample \in Nat
  BY <1>1, <1>3, <1>4
<1>7. status' = IF q.model > Len(ModelIds) THEN "completed" ELSE "running"
  BY <1>5 DEF Evaluated, Finished
<1>8. PICK r : r = [model |-> ModelIds[m], sample |-> s, failed |-> failed, score |-> score, cost |-> cost]
  OBVIOUS
<1>9. r \in Rows /\ r.model = ModelIds[m] /\ r.sample = s
  BY <1>1, <1>3, <1>8 DEF Rows, Range
<1>10. results' = Append(results, r) /\ results \in Seq(Rows)
  BY <1>2, <1>8 DEF Evaluated, BeInv
<1>11. PICK last : last = Len(results) + 1
  OBVIOUS
<1>12. /\ results' \in Seq(Rows) /\ DOMAIN results' = DOMAIN results \cup {last} /\ last \notin DOMAIN results
       /\ \A i \in DOMAIN results : results'[i] = results[i]
       /\ results'[last] = r
  BY <1>9, <1>10, <1>11
<1>13. \A i \in DOMAIN results' : results'[i].sample \in 1..samples
  BY <1>3, <1>9, <1>12 DEF BeInv
\* The place itself is what has been passed now.
<1>14. ASSUME NEW k \in Nat, NEW z \in 1..samples
       PROVE  Passed(k, z, q) <=> Passed(k, z, p) \/ (k = m /\ z = s)
  BY <1>1, <1>3, <1>4 DEF Passed
<1>15. \A k \in DOMAIN ModelIds : k \in Nat
  BY <1>1
<1>16. ASSUME NEW n \in Range(ModelIds), NEW z \in 1..samples
       PROVE  \E more \in 0..1 :
                /\ Cardinality(Evaluations(n, z)') = Cardinality(Evaluations(n, z)) + more
                /\ Cardinality(PassedOf(n, z, q)) = Cardinality(PassedOf(n, z, p)) + more
  <2>1. CASE n = r.model /\ z = s
    <3>1. Evaluations(n, z)' = Evaluations(n, z) \cup {last} /\ last \notin Evaluations(n, z)
      BY <1>9, <1>12, <2>1 DEF Evaluations
    <3>2. m \in Named(n) /\ ~Passed(m, z, p)
      BY <1>1, <1>3, <1>9, <2>1 DEF Named, Passed
    <3>3. PassedOf(n, z, q) = PassedOf(n, z, p) \cup {m} /\ m \notin PassedOf(n, z, p)
      <4>1. \A k \in Named(n) : Passed(k, z, q) <=> Passed(k, z, p) \/ k = m
        BY <1>14, <1>15, <2>1 DEF Named
      <4> QED BY <3>2, <4>1 DEF PassedOf
    <3>4. Cardinality(Evaluations(n, z) \cup {last}) = Cardinality(Evaluations(n, z)) + 1
      BY <1>10, <3>1, BeFinite, FS_AddElement
    <3>5. Cardinality(PassedOf(n, z, p) \cup {m}) = Cardinality(PassedOf(n, z, p)) + 1
      BY <1>10, <3>3, BeFinite, FS_AddElement
    <3> QED BY <3>1, <3>3, <3>4, <3>5
  <2>2. CASE ~(n = r.model /\ z = s)
    <3>1. Evaluations(n, z)' = Evaluations(n, z)
      BY <1>9, <1>12, <2>2 DEF Evaluations
    <3>2. PassedOf(n, z, q) = PassedOf(n, z, p)
      <4>1. \A k \in Named(n) : Passed(k, z, q) <=> Passed(k, z, p)
        BY <1>9, <1>14, <1>15, <2>2 DEF Named
      <4> QED BY <4>1 DEF PassedOf
    <3>3. /\ Cardinality(Evaluations(n, z)) \in Nat
          /\ Cardinality(PassedOf(n, z, p)) \in Nat
      BY <1>10, BeFinite
    <3> QED BY <3>1, <3>2, <3>3
  <2> QED BY <2>1, <2>2
<1>17. ASSUME NEW n \in Range(ModelIds), NEW z \in 1..samples
       PROVE  /\ Cardinality(Evaluations(n, z)') <= Cardinality(PassedOf(n, z, q))
              /\ z <= FirstSamples => Cardinality(Evaluations(n, z)') = Cardinality(PassedOf(n, z, q))
  <2>1. /\ Cardinality(Evaluations(n, z)) \in Nat
        /\ Cardinality(PassedOf(n, z, p)) \in Nat
    BY <1>10, BeFinite
  <2>2. /\ Cardinality(Evaluations(n, z)) <= Cardinality(PassedOf(n, z, p))
        /\ z <= FirstSamples => Cardinality(Evaluations(n, z)) = Cardinality(PassedOf(n, z, p))
    BY <1>2 DEF BeInv
  <2> QED BY <1>16, <2>1, <2>2
<1>18. samples' \in FirstSamples..MaxSamples /\ status' \in {"running", "completed", "failed"}
  BY <1>1, <1>7
<1>19. /\ status' = "running" => q.model <= Len(ModelIds)
       /\ status' = "completed" => q.model = Len(ModelIds) + 1
  BY <1>1, <1>6, <1>7
<1>20. /\ \A n \in Range(ModelIds), z \in 1..samples' :
            /\ Cardinality(Evaluations(n, z)') <= Cardinality(PassedOf(n, z, at)')
            /\ z <= FirstSamples => Cardinality(Evaluations(n, z)') = Cardinality(PassedOf(n, z, at)')
  BY <1>1, <1>5, <1>17 DEF PassedOf, Passed, Named
<1> QED BY <1>1, <1>5, <1>6, <1>12, <1>13, <1>18, <1>19, <1>20 DEF BeInv

\* A sample that comes late has no result yet.
LEMMA BeAdded ==
    ASSUME BeInv, AddSamples
    PROVE  BeInv'
<1>1. /\ samples < MaxSamples /\ samples' = samples + 1 /\ UNCHANGED <<status, at, results>>
      /\ samples \in FirstSamples..MaxSamples /\ FirstSamples \in Nat /\ MaxSamples \in Nat
      /\ results \in Seq(Rows)
  BY BeAssumption DEF AddSamples, BeInv
<1>2. at \in [model : 1..(Len(ModelIds) + 1), sample : 1..samples]
  BY DEF BeInv
<1>3. at' \in [model : 1..(Len(ModelIds) + 1), sample : 1..samples'] /\ samples' \in FirstSamples..MaxSamples
  BY <1>1, <1>2
<1>4. \A n, z : Evaluations(n, z)' = Evaluations(n, z) /\ PassedOf(n, z, at)' = PassedOf(n, z, at)
  BY <1>1 DEF Evaluations, PassedOf, Passed, Named
<1>5. \A i \in DOMAIN results : results[i].sample \in 1..samples /\ results[i].sample \in 1..samples'
  BY <1>1 DEF BeInv
<1>6. ASSUME NEW n \in Range(ModelIds), NEW z \in 1..samples'
      PROVE  /\ Cardinality(Evaluations(n, z)) <= Cardinality(PassedOf(n, z, at))
             /\ z <= FirstSamples => Cardinality(Evaluations(n, z)) = Cardinality(PassedOf(n, z, at))
  <2>1. CASE z \in 1..samples
    BY <2>1 DEF BeInv
  <2>2. CASE z = samples + 1
    <3>1. Evaluations(n, z) = {}
      BY <1>1, <1>5, <2>2 DEF Evaluations
    <3>2. Cardinality(Evaluations(n, z)) = 0
      BY <3>1, FS_EmptySet
    <3>3. Cardinality(PassedOf(n, z, at)) \in Nat
      BY <1>1, BeFinite
    <3> QED BY <1>1, <2>2, <3>2, <3>3
  <2> QED BY <1>1, <2>1, <2>2
<1> QED BY <1>1, <1>3, <1>4, <1>5, <1>6 DEF BeInv

LEMMA BeStep ==
    ASSUME BeInv, [BeNext]_beVars
    PROVE  BeInv'
<1>1. CASE UNCHANGED <<samples, status, at, results>>
  <2>1. \A n, z : Evaluations(n, z)' = Evaluations(n, z) /\ PassedOf(n, z, at)' = PassedOf(n, z, at)
    BY <1>1 DEF Evaluations, PassedOf, Passed, Named
  <2> QED BY <1>1, <2>1 DEF BeInv
<1>2. CASE EvaluateSample
  BY <1>2, BeEvaluated DEF EvaluateSample
<1>3. CASE SampleFails
  BY <1>3, BeEvaluated DEF SampleFails
<1>4. CASE RunFails
  <2>1. UNCHANGED <<samples, at, results>> /\ status' = "failed"
    BY <1>4 DEF RunFails
  <2>2. \A n, z : Evaluations(n, z)' = Evaluations(n, z) /\ PassedOf(n, z, at)' = PassedOf(n, z, at)
    BY <2>1 DEF Evaluations, PassedOf, Passed, Named
  <2> QED BY <2>1, <2>2 DEF BeInv
<1> QED BY <1>1, <1>2, <1>3, <1>4, BeAdded DEF BeNext, beVars

LEMMA BeSound == BeInv => RunCovers /\ BeTypeOK
<1> SUFFICES ASSUME BeInv PROVE RunCovers /\ BeTypeOK
  OBVIOUS
<1>1. /\ samples \in FirstSamples..MaxSamples /\ at \in [model : 1..(Len(ModelIds) + 1), sample : 1..samples]
      /\ results \in Seq(Rows) /\ FirstSamples \in Nat /\ MaxSamples \in Nat /\ DOMAIN ModelIds = 1..Len(ModelIds)
      /\ Len(ModelIds) \in Nat
  BY BeAssumption DEF BeInv
<1>2. ASSUME NEW n \in Range(ModelIds), NEW s \in 1..samples
      PROVE  /\ Cardinality(Evaluations(n, s)) <= Cardinality(Named(n))
             /\ status = "completed" /\ s <= FirstSamples => Cardinality(Evaluations(n, s)) = Cardinality(Named(n))
  <2>1. /\ Cardinality(Evaluations(n, s)) \in Nat /\ Cardinality(Named(n)) \in Nat
        /\ Cardinality(PassedOf(n, s, at)) \in Nat /\ Cardinality(PassedOf(n, s, at)) <= Cardinality(Named(n))
    BY <1>1, BeFinite
  <2>2. status = "completed" => PassedOf(n, s, at) = Named(n)
    <3>1. status = "completed" => \A k \in Named(n) : Passed(k, s, at)
      BY <1>1 DEF BeInv, Passed, Named
    <3> QED BY <3>1 DEF PassedOf
  <2>3. /\ Cardinality(Evaluations(n, s)) <= Cardinality(PassedOf(n, s, at))
        /\ s <= FirstSamples => Cardinality(Evaluations(n, s)) = Cardinality(PassedOf(n, s, at))
    BY DEF BeInv
  <2> QED BY <2>1, <2>2, <2>3
<1>3. RunCovers
  BY <1>2 DEF RunCovers
<1>4. at.model \in 1..(Len(ModelIds) + 1) /\ at.sample \in 1..MaxSamples
  BY <1>1
<1>5. \A i \in DOMAIN results : results[i].score \in Scores \union {0}
  <2>1. \A i \in DOMAIN results : results[i] \in Rows
    BY <1>1
  <2> QED BY <2>1 DEF Rows
<1>6. BeTypeOK
  BY <1>1, <1>4, <1>5 DEF BeInv, BeTypeOK
<1> QED BY <1>3, <1>6

-----------------------------------------------------------------------------
(* What is computed along a sequence.                                      *)

\* A nonempty set of natural numbers has a least element.
LEMMA LeastNumber ==
    ASSUME NEW T, T \subseteq Nat, T # {}
    PROVE  \E n \in T : \A k \in T : n <= k
<1>1. PICK n \in T : \A k \in T : ~ (<<k, n>> \in OpToRel(<, Nat))
  BY NatLessThanWellFounded, WFMin
<1>2. \A k \in T : ~ (k < n)
  BY <1>1 DEF OpToRel
<1> QED
  BY <1>2

\* What holds at 0 and from each number to the next holds up to L.
LEMMA ClimbTo ==
    ASSUME NEW L \in Nat, NEW S, 0 \in S, \A n \in 1..L : n - 1 \in S => n \in S
    PROVE  \A n \in 0..L : n \in S
<1> DEFINE Bad == {n \in 0..L : n \notin S}
<1> SUFFICES ASSUME Bad # {} PROVE FALSE
  OBVIOUS
<1>1. PICK n \in Bad : \A k \in Bad : n <= k
  <2>1. Bad \subseteq Nat
    OBVIOUS
  <2> HIDE DEF Bad
  <2> QED BY <2>1, LeastNumber
<1>2. n \in 1..L /\ n - 1 \in 0..L /\ n - 1 < n
  BY <1>1
<1>3. n - 1 \in S
  BY <1>1, <1>2
<1> QED BY <1>1, <1>2, <1>3

\* What holds of the empty sequence and of one with one more element holds of all.
LEMMA ByAppend ==
    ASSUME NEW T, NEW G, <<>> \in G, \A s \in Seq(T), e \in T : s \in G => Append(s, e) \in G
    PROVE  \A s \in Seq(T) : s \in G
<1> SUFFICES ASSUME NEW s \in Seq(T) PROVE s \in G
  OBVIOUS
<1>1. PICK L \in Nat : L = Len(s)
  BY LenProperties
<1>0. PICK front : front = [n \in 0..L |-> SubSeq(s, 1, n)]
  OBVIOUS
<1> DEFINE N == {n \in 0..L : front[n] \in G}
<1>2. 0 \in N
  <2>1. SubSeq(s, 1, 0) = <<>>
    BY SubSeqEmpty
  <2>2. front[0] = <<>>
    BY <1>0, <2>1
  <2>3. front[0] \in G
    BY <2>2, Zenon
  <2> QED BY <2>3
<1>3. ASSUME NEW n \in 1..L, n - 1 \in N PROVE n \in N
  <2>1. \A i \in 1..L : s[i] \in T
    BY <1>1, LenProperties
  <2>2. SubSeq(s, 1, n - 1) \in Seq(T) /\ s[n] \in T
    BY <2>1, SubSeqProperties
  <2>3. SubSeq(s, 1, n) = SubSeq(s, 1, n - 1) \o <<s[n]>>
    BY <1>1, SubSeqRecursiveSecond
  <2>4. SubSeq(s, 1, n) = Append(SubSeq(s, 1, n - 1), s[n])
    BY <2>2, <2>3, AppendIsConcat
  <2>5. SubSeq(s, 1, n - 1) \in G
    BY <1>0, <1>3
  <2>6. Append(SubSeq(s, 1, n - 1), s[n]) \in G
    BY <2>2, <2>5
  <2>0. front[n] = SubSeq(s, 1, n)
    BY <1>0
  <2>7. front[n] = Append(SubSeq(s, 1, n - 1), s[n])
    BY <2>0, <2>4, Zenon
  <2>8. front[n] \in G
    BY <2>6, <2>7, Zenon
  <2> QED BY <2>8
<1>4. L \in N
  <2> HIDE DEF N
  <2>1. \A n \in 0..L : n \in N
    BY <1>2, <1>3, ClimbTo
  <2> QED BY <2>1
<1>5. front[L] = s /\ front[L] \in G
  BY <1>0, <1>1, <1>4, SubSeqFull
<1> QED BY <1>5

\* A function that is computed step by step.
Computed(L, start, step) == CHOOSE f : f = [i \in 0..L |-> IF i = 0 THEN start ELSE step[i][f[i - 1]]]

LEMMA ComputedIs ==
    ASSUME NEW L \in Nat, NEW T, NEW start \in T, NEW step \in [1..L -> [T -> T]]
    PROVE  /\ Computed(L, start, step) \in [0..L -> T]
           /\ Computed(L, start, step)[0] = start
           /\ \A i \in 1..L : Computed(L, start, step)[i] = step[i][Computed(L, start, step)[i - 1]]
<1> DEFINE S == {m \in 0..L : \E f \in [0..m -> T] :
                    \A i \in 0..m : f[i] = IF i = 0 THEN start ELSE step[i][f[i - 1]]}
<1>1. 0 \in S
  <2>1. PICK f : f = [i \in 0..0 |-> start]
    OBVIOUS
  <2>2. f \in [0..0 -> T] /\ \A i \in 0..0 : f[i] = IF i = 0 THEN start ELSE step[i][f[i - 1]]
    BY <2>1
  <2> QED BY <2>2
<1>2. ASSUME NEW m \in 1..L, m - 1 \in S PROVE m \in S
  <2>1. PICK f \in [0..(m - 1) -> T] : \A i \in 0..(m - 1) : f[i] = IF i = 0 THEN start ELSE step[i][f[i - 1]]
    BY <1>2
  <2>2. PICK f2 : f2 = [i \in 0..m |-> IF i = m THEN step[m][f[m - 1]] ELSE f[i]]
    OBVIOUS
  <2>3. \A i \in 0..(m - 1) : f2[i] = f[i] /\ f[i] \in T
    BY <2>1, <2>2
  <2>4. f2[m] = step[m][f[m - 1]] /\ step[m][f[m - 1]] \in T /\ f2[m - 1] = f[m - 1]
    <3>1. m \in 0..m /\ m - 1 \in 0..(m - 1)
      OBVIOUS
    <3>2. f[m - 1] \in T /\ step[m] \in [T -> T]
      BY <2>1, <3>1
    <3> QED BY <2>2, <2>3, <3>1, <3>2
  <2>5. f2 \in [0..m -> T]
    <3>1. \A i \in 0..m : f2[i] \in T
      BY <2>3, <2>4
    <3> QED BY <2>2, <3>1
  <2>6. ASSUME NEW i \in 0..m PROVE f2[i] = IF i = 0 THEN start ELSE step[i][f2[i - 1]]
    <3>1. CASE i = m
      BY <2>4, <3>1
    <3>2. CASE i = 0
      BY <2>1, <2>3, <3>2
    <3>3. CASE i # m /\ i # 0
      <4>1. i \in 0..(m - 1) /\ i - 1 \in 0..(m - 1)
        BY <3>3
      <4> QED BY <2>1, <2>3, <3>3, <4>1
    <3> QED BY <3>1, <3>2, <3>3
  <2> QED BY <2>5, <2>6
<1>3. L \in S
  <2> HIDE DEF S
  <2>1. \A n \in 0..L : n \in S
    BY <1>1, <1>2, ClimbTo
  <2> QED BY <2>1
<1>4. PICK f \in [0..L -> T] : \A i \in 0..L : f[i] = IF i = 0 THEN start ELSE step[i][f[i - 1]]
  BY <1>3
<1>5. f = [i \in 0..L |-> IF i = 0 THEN start ELSE step[i][f[i - 1]]]
  BY <1>4
<1>6. PICK g1 : g1 = Computed(L, start, step)
  OBVIOUS
<1>7. g1 = [i \in 0..L |-> IF i = 0 THEN start ELSE step[i][g1[i - 1]]]
  BY <1>5, <1>6, Zenon DEF Computed
<1>8. g1[0] = start /\ \A i \in 1..L : g1[i] = step[i][g1[i - 1]]
  <2>1. \A i \in 0..L : g1[i] = IF i = 0 THEN start ELSE step[i][g1[i - 1]]
    BY <1>7
  <2> QED BY <2>1
<1> DEFINE N == {m \in 0..L : g1[m] \in T}
<1>9. 0 \in N
  BY <1>8
<1>10. ASSUME NEW m \in 1..L, m - 1 \in N PROVE m \in N
  BY <1>8, <1>10
<1>11. \A m \in 0..L : g1[m] \in T
  <2> HIDE DEF N
  <2>1. \A m \in 0..L : m \in N
    BY <1>9, <1>10, ClimbTo
  <2> QED BY <2>1 DEF N
<1>12. g1 \in [0..L -> T]
  <2>1. g1 = [i \in 0..L |-> g1[i]]
    BY <1>7
  <2> QED BY <1>11, <2>1
<1> QED BY <1>6, <1>8, <1>12

LEMMA ComputedNext ==
    ASSUME NEW L, L \in Nat, NEW T, NEW start, start \in T, NEW step, step \in [1..L -> [T -> T]], NEW i, i \in 1..L
    PROVE  Computed(L, start, step)[i] = step[i][Computed(L, start, step)[i - 1]]
  BY ComputedIs

-----------------------------------------------------------------------------
(* What a benchmark recommends.                                            *)

Totals == [score : Int, cost : Int, count : Nat]

Added(t, r, m) ==
    IF r.model # m THEN t
    ELSE [t EXCEPT !.score = @ + r.score, !.cost = @ + r.cost, !.count = @ + 1]

LEMMA AddedIs == ASSUME NEW t \in Totals, NEW r \in Rows, NEW m PROVE Added(t, r, m) \in Totals
<1>1. r.score \in Int /\ r.cost \in Int
  <2>1. r.score \in Scores \cup {0} /\ r.cost \in SampleCosts \cup {0}
    BY DEF Rows
  <2>2. Scores \subseteq Int /\ SampleCosts \subseteq Int
    BY BeAssumption
  <2>3. 0 \in Int
    OBVIOUS
  <2> QED BY <2>1, <2>2, <2>3, Zenon
<1>2. PICK u : u = [t EXCEPT !.score = @ + r.score, !.cost = @ + r.cost, !.count = @ + 1]
  OBVIOUS
<1>3. t.score \in Int /\ t.cost \in Int /\ t.count \in Nat /\ t = [score |-> t.score, cost |-> t.cost, count |-> t.count]
  BY DEF Totals
<1>4. u = [score |-> t.score + r.score, cost |-> t.cost + r.cost, count |-> t.count + 1]
  BY <1>2, <1>3
<1>5. u \in Totals
  BY <1>1, <1>3, <1>4 DEF Totals
<1> QED BY <1>2, <1>5 DEF Added

SumsUpto(m) == CHOOSE f : f = [i \in 0..Len(results) |->
    IF i = 0 THEN [score |-> 0, cost |-> 0, count |-> 0] ELSE Added(f[i - 1], results[i], m)]

LEMMA SummaryIs ==
    ASSUME results \in Seq(Rows), NEW m
    PROVE  summary(m).score \in Int /\ summary(m).cost \in Int /\ summary(m).count \in Nat \ {0}
<1>1. PICK L \in Nat : L = Len(results)
  BY LenProperties
<1>2. \A i \in 1..L : results[i] \in Rows
  BY <1>1, LenProperties
<1>3. PICK nil \in Totals : nil = [score |-> 0, cost |-> 0, count |-> 0]
  <2>1. [score |-> 0, cost |-> 0, count |-> 0] \in Totals
    BY DEF Totals
  <2> QED BY <2>1
<1>4. PICK step : step = [i \in 1..L |-> [t \in Totals |-> Added(t, results[i], m)]]
  OBVIOUS
<1>5. step \in [1..L -> [Totals -> Totals]]
  BY <1>2, <1>4, AddedIs
<1>6. PICK f : f = Computed(L, nil, step)
  OBVIOUS
<1>7. f \in [0..L -> Totals] /\ f[0] = nil /\ \A i \in 1..L : f[i] = step[i][f[i - 1]]
  <2>1. Computed(L, nil, step) \in [0..L -> Totals] /\ Computed(L, nil, step)[0] = nil
    BY <1>5, ComputedIs
  <2>2. \A i \in 1..L : Computed(L, nil, step)[i] = step[i][Computed(L, nil, step)[i - 1]]
    BY <1>5, ComputedIs
  <2> QED BY <1>6, <2>1, <2>2, Zenon
<1>8. \A i \in 1..L : f[i] = Added(f[i - 1], results[i], m)
  <2> SUFFICES ASSUME NEW i \in 1..L PROVE f[i] = Added(f[i - 1], results[i], m)
    OBVIOUS
  <2>1. i - 1 \in 0..L
    OBVIOUS
  <2>2. f[i - 1] \in Totals /\ f[i] = step[i][f[i - 1]]
    BY <1>7, <2>1
  <2> QED BY <1>4, <2>2
<1>9. f = [i \in 0..L |-> IF i = 0 THEN nil ELSE Added(f[i - 1], results[i], m)]
  <2>1. ASSUME NEW i \in 0..L PROVE f[i] = IF i = 0 THEN nil ELSE Added(f[i - 1], results[i], m)
    <3>1. CASE i = 0
      BY <1>7, <3>1
    <3>2. CASE i # 0
      <4>1. i \in 1..L
        BY <3>2
      <4> QED BY <1>8, <3>2, <4>1, Zenon
    <3> QED BY <3>1, <3>2
  <2>2. f = [i \in 0..L |-> f[i]]
    BY <1>7
  <2> QED BY <2>1, <2>2
<1>10. PICK h : h = SumsUpto(m)
  OBVIOUS
<1>11. h = [i \in 0..L |-> IF i = 0 THEN nil ELSE Added(h[i - 1], results[i], m)]
  BY <1>1, <1>3, <1>9, <1>10, Zenon DEF SumsUpto
<1>12. h[0] = nil /\ \A i \in 1..L : h[i] = Added(h[i - 1], results[i], m)
  <2>1. \A i \in 0..L : h[i] = IF i = 0 THEN nil ELSE Added(h[i - 1], results[i], m)
    BY <1>11
  <2> QED BY <2>1
<1> DEFINE N == {i \in 0..L : h[i] \in Totals}
<1>13. 0 \in N
  BY <1>3, <1>12
<1>14. ASSUME NEW i \in 1..L, i - 1 \in N PROVE i \in N
  BY <1>2, <1>12, <1>14, AddedIs
<1>15. h[L] \in Totals
  <2> HIDE DEF N
  <2>1. \A i \in 0..L : i \in N
    BY <1>13, <1>14, ClimbTo
  <2> QED BY <2>1 DEF N
<1>16. summary(m) = [h[L] EXCEPT !.count = larger(@, 1)]
  BY <1>1, <1>10, Zenon DEF summary, SumsUpto, Added
<1> QED BY <1>15, <1>16 DEF Totals, larger

\* Averages, compared by cross-multiplication.
LEMMA TimesKeeps == ASSUME NEW a \in Int, NEW b \in Int, NEW n \in Nat \ {0} PROVE (a < b) <=> (a * n < b * n)
<1>1. a < b => a * n < b * n
  <2>1. \A d \in Nat \ {0} : a * n + d * n > a * n
    OBVIOUS
  <2>2. ASSUME a < b PROVE a * n < b * n
    <3>1. PICK d \in Nat \ {0} : b = a + d
      <4>1. b - a \in Nat \ {0} /\ b = a + (b - a)
        BY <2>2
      <4> QED BY <4>1
    <3>2. b * n = a * n + d * n
      BY <3>1
    <3> QED BY <2>1, <3>1, <3>2
  <2> QED BY <2>2
<1>2. ~(a < b) => ~(a * n < b * n)
  <2>1. ASSUME ~(a < b) PROVE ~(a * n < b * n)
    <3>1. PICK d \in Nat : a = b + d
      <4>1. a - b \in Nat /\ a = b + (a - b)
        BY <2>1
      <4> QED BY <4>1
    <3>2. a * n = b * n + d * n
      BY <3>1
    <3>3. d * n \in Nat
      OBVIOUS
    <3> QED BY <3>2, <3>3
  <2> QED BY <2>1
<1> QED BY <1>1, <1>2

LEMMA LessTransitive ==
    ASSUME NEW x \in Int, NEW nx \in Nat \ {0}, NEW y \in Int, NEW ny \in Nat \ {0}, NEW z \in Int, NEW nz \in Nat \ {0},
           ~less(y, ny, x, nx), ~less(z, nz, y, ny)
    PROVE  /\ ~less(z, nz, x, nx)
           /\ less(x, nx, y, ny) \/ less(y, ny, z, nz) => less(x, nx, z, nz)
<1>1. PICK a \in Int, b \in Int, c \in Int, d \in Int, e \in Int, g \in Int :
        a = y * nx /\ b = x * ny /\ c = z * ny /\ d = y * nz /\ e = z * nx /\ g = x * nz
  OBVIOUS
<1>2. a >= b /\ c >= d
  BY <1>1 DEF less
<1>3. a * nz = d * nx /\ b * nz = g * ny /\ c * nx = e * ny
  BY <1>1
<1>4. a * nz >= b * nz /\ (b < a => b * nz < a * nz)
  BY <1>1, <1>2, TimesKeeps
<1>5. c * nx >= d * nx /\ (d < c => d * nx < c * nx)
  BY <1>1, <1>2, TimesKeeps
<1>6. e * ny \in Int /\ g * ny \in Int /\ d * nx \in Int
  BY <1>1
<1>7. e * ny >= g * ny /\ (b < a \/ d < c => g * ny < e * ny)
  BY <1>3, <1>4, <1>5, <1>6
<1>8. e >= g /\ (b < a \/ d < c => g < e)
  BY <1>1, <1>7, TimesKeeps
<1> QED BY <1>1, <1>8 DEF less

LEMMA LessTransitively ==
    ASSUME NEW x, NEW nx, NEW y, NEW ny, NEW z, NEW nz, x \in Int, y \in Int, z \in Int,
           nx \in Nat \ {0}, ny \in Nat \ {0}, nz \in Nat \ {0}, ~less(y, ny, x, nx), ~less(z, nz, y, ny)
    PROVE  /\ ~less(z, nz, x, nx)
           /\ less(x, nx, y, ny) => less(x, nx, z, nz)
           /\ less(y, ny, z, nz) => less(x, nx, z, nz)
  BY LessTransitive

LEMMA DominatesTransitive ==
    ASSUME results \in Seq(Rows), NEW m, NEW n, NEW o, dominates(m, n), dominates(n, o)
    PROVE  dominates(m, o)
<1>1. PICK a, b, c : a = summary(m) /\ b = summary(n) /\ c = summary(o)
  OBVIOUS
<1>2. /\ a.score \in Int /\ a.cost \in Int /\ a.count \in Nat \ {0}
      /\ b.score \in Int /\ b.cost \in Int /\ b.count \in Nat \ {0}
      /\ c.score \in Int /\ c.cost \in Int /\ c.count \in Nat \ {0}
  BY <1>1, SummaryIs
<1>3. /\ ~less(a.score, a.count, b.score, b.count) /\ ~less(b.cost, b.count, a.cost, a.count)
      /\ less(b.score, b.count, a.score, a.count) \/ less(a.cost, a.count, b.cost, b.count)
  BY <1>1 DEF dominates
<1>4. /\ ~less(b.score, b.count, c.score, c.count) /\ ~less(c.cost, c.count, b.cost, b.count)
      /\ less(c.score, c.count, b.score, b.count) \/ less(b.cost, b.count, c.cost, c.count)
  BY <1>1 DEF dominates
<1>5. /\ ~less(a.score, a.count, c.score, c.count)
      /\ less(c.score, c.count, b.score, b.count) \/ less(b.score, b.count, a.score, a.count)
           => less(c.score, c.count, a.score, a.count)
  BY <1>2, <1>3, <1>4, LessTransitive
<1>6. /\ ~less(c.cost, c.count, a.cost, a.count)
      /\ less(a.cost, a.count, b.cost, b.count) \/ less(b.cost, b.count, c.cost, c.count)
           => less(a.cost, a.count, c.cost, c.count)
  <2>1. /\ ~less(c.cost, c.count, b.cost, b.count) /\ ~less(b.cost, b.count, a.cost, a.count)
        /\ a.cost \in Int /\ b.cost \in Int /\ c.cost \in Int
        /\ a.count \in Nat \ {0} /\ b.count \in Nat \ {0} /\ c.count \in Nat \ {0}
    BY <1>2, <1>3, <1>4
  <2>2. /\ ~less(c.cost, c.count, a.cost, a.count)
        /\ less(a.cost, a.count, b.cost, b.count) => less(a.cost, a.count, c.cost, c.count)
        /\ less(b.cost, b.count, c.cost, c.count) => less(a.cost, a.count, c.cost, c.count)
    BY <2>1, LessTransitively
  <2> QED BY <2>2
<1> QED BY <1>1, <1>3, <1>4, <1>5, <1>6 DEF dominates

LEMMA NoneDominatesItself == ASSUME results \in Seq(Rows), NEW m PROVE ~dominates(m, m)
<1>1. PICK a : a = summary(m)
  OBVIOUS
<1>2. a.score \in Int /\ a.cost \in Int /\ a.count \in Nat
  BY <1>1, SummaryIs
<1>3. ~less(a.score, a.count, a.score, a.count) /\ ~less(a.cost, a.count, a.cost, a.count)
  BY <1>2 DEF less
<1> QED BY <1>1, <1>3 DEF dominates

\* Among those that dominate a model, one that the fewest dominate is on the frontier.
LEMMA FrontierIs == ASSUME BeInv PROVE FrontierDecides
<1> SUFFICES ASSUME NEW m \in Range(ModelIds) \ pareto_frontier
             PROVE  \E best \in pareto_frontier : dominates(best, m)
  BY DEF FrontierDecides
<1>1. results \in Seq(Rows)
  BY DEF BeInv
<1>2. PICK R : R = Range(ModelIds)
  OBVIOUS
<1>3. IsFiniteSet(R)
  <2>1. PICK f \in Surjection(1..Len(ModelIds), R) : TRUE
    <3>1. PICK K \in Nat : K = Len(ModelIds) /\ DOMAIN ModelIds = 1..K
      BY BeAssumption
    <3>2. R = {ModelIds[k] : k \in 1..K}
      BY <1>2, <3>1 DEF Range
    <3>3. PICK f : f = [k \in 1..K |-> ModelIds[k]]
      OBVIOUS
    <3>4. f \in [1..K -> R] /\ \A x \in R : \E k \in 1..K : f[k] = x
      BY <3>2, <3>3
    <3>5. f \in Surjection(1..K, R)
      BY <3>4 DEF Surjection
    <3> QED BY <3>1, <3>5
  <2>2. IsFiniteSet(1..Len(ModelIds))
    BY BeAssumption, FS_Interval
  <2> QED BY <2>1, <2>2, FS_Surjection
<1> DEFINE Above(x) == {y \in R : dominates(y, x)}
<1>4. \A x : IsFiniteSet(Above(x)) /\ Cardinality(Above(x)) \in Nat
  <2> SUFFICES ASSUME NEW x PROVE IsFiniteSet(Above(x)) /\ Cardinality(Above(x)) \in Nat
    OBVIOUS
  <2>1. Above(x) \subseteq R
    OBVIOUS
  <2> QED BY <1>3, <2>1, FS_Subset, FS_CardinalityType
<1>5. PICK sizes : sizes = {Cardinality(Above(x)) : x \in Above(m)}
  OBVIOUS
<1>6. sizes \subseteq Nat /\ sizes # {}
  <2>1. Above(m) # {}
    BY <1>2 DEF pareto_frontier
  <2> HIDE DEF Above
  <2> QED BY <1>4, <1>5, <2>1
<1>7. PICK least \in sizes : \A k \in sizes : least <= k
  BY <1>6, LeastNumber
<1>8. PICK x \in Above(m) : least = Cardinality(Above(x))
  BY <1>5, <1>7
<1>9. x \in R /\ dominates(x, m)
  BY <1>8
<1>10. ASSUME NEW y \in R, dominates(y, x) PROVE FALSE
  <2>1. y \in Above(m) /\ y \in Above(x) /\ y \notin Above(y)
    BY <1>1, <1>9, <1>10, DominatesTransitive, NoneDominatesItself
  <2>2. Above(y) \subseteq Above(x)
    BY <1>1, <1>10, DominatesTransitive
  <2> HIDE DEF Above
  <2>3. Cardinality(Above(y)) < Cardinality(Above(x))
    <3>1. Above(y) # Above(x)
      BY <2>1
    <3> QED BY <1>4, <2>2, <3>1, FS_Subset
  <2>4. Cardinality(Above(y)) \in sizes
    BY <1>5, <2>1
  <2> QED BY <1>4, <1>7, <1>8, <2>3, <2>4
<1>11. x \in pareto_frontier
  BY <1>2, <1>9, <1>10 DEF pareto_frontier
<1> QED BY <1>9, <1>11

-----------------------------------------------------------------------------
(* The metrics of texts: what two texts have in common.                    *)

LEMMA CommonNone == ASSUME NEW i \in Nat, NEW j \in Nat PROVE InCommon(i, j, 0)
<1>1. PICK f : f = [k \in 1..0 |-> 1]
  OBVIOUS
<1>2. f \in Placings(0, i) /\ f \in Placings(0, j)
  BY <1>1 DEF Placings
<1> QED BY <1>2 DEF InCommon

LEMMA CommonOfNothing ==
    ASSUME NEW i \in Nat, NEW j \in Nat, NEW n \in Nat, InCommon(i, j, n), i = 0 \/ j = 0
    PROVE  n = 0
<1> SUFFICES ASSUME n # 0 PROVE FALSE
  OBVIOUS
<1>1. PICK f \in Placings(n, i), g \in Placings(n, j) : TRUE
  BY DEF InCommon
<1>2. f[1] \in 1..i /\ g[1] \in 1..j
  BY <1>1 DEF Placings
<1> QED BY <1>2

LEMMA CommonFewer ==
    ASSUME NEW i \in Nat, NEW j \in Nat, NEW n \in Nat, InCommon(i, j, n), NEW m \in 0..n
    PROVE  InCommon(i, j, m)
<1>1. PICK f \in Placings(n, i), g \in Placings(n, j) : \A k \in 1..n : reference[f[k]] = candidate[g[k]]
  BY DEF InCommon
<1>2. PICK u, v : u = [k \in 1..m |-> f[k]] /\ v = [k \in 1..m |-> g[k]]
  OBVIOUS
<1>3. u \in Placings(m, i) /\ v \in Placings(m, j)
  BY <1>1, <1>2 DEF Placings
<1>4. \A k \in 1..m : reference[u[k]] = candidate[v[k]]
  BY <1>1, <1>2
<1> QED BY <1>3, <1>4 DEF InCommon

LEMMA CommonWider ==
    ASSUME NEW i \in Nat, NEW j \in Nat, NEW i2 \in Nat, NEW j2 \in Nat, i <= i2, j <= j2,
           NEW n \in Nat, InCommon(i, j, n)
    PROVE  InCommon(i2, j2, n)
<1>1. PICK f \in Placings(n, i), g \in Placings(n, j) : \A k \in 1..n : reference[f[k]] = candidate[g[k]]
  BY DEF InCommon
<1>2. f \in Placings(n, i2) /\ g \in Placings(n, j2)
  <2>1. 1..i \subseteq 1..i2 /\ 1..j \subseteq 1..j2
    OBVIOUS
  <2> QED BY <1>1, <2>1 DEF Placings
<1> QED BY <1>1, <1>2 DEF InCommon

\* Placings chosen among the first L, and the next one.
LEMMA OnePlaceMore ==
    ASSUME NEW L \in Nat, NEW n \in Nat, NEW f \in Placings(n, L)
    PROVE  [k \in 1..(n + 1) |-> IF k = n + 1 THEN L + 1 ELSE f[k]] \in Placings(n + 1, L + 1)
<1>1. PICK u : u = [k \in 1..(n + 1) |-> IF k = n + 1 THEN L + 1 ELSE f[k]]
  OBVIOUS
<1>2. \A k \in 1..n : u[k] = f[k] /\ f[k] \in 1..L
  BY <1>1 DEF Placings
<1>3. u[n + 1] = L + 1
  BY <1>1
<1>4. \A k \in 1..(n + 1) : k = n + 1 \/ k \in 1..n
  OBVIOUS
<1>5. u \in [1..(n + 1) -> 1..(L + 1)]
  <2>1. \A k \in 1..(n + 1) : u[k] \in 1..(L + 1)
    BY <1>2, <1>3, <1>4
  <2> QED BY <1>1, <2>1
<1>6. ASSUME NEW a \in 1..(n + 1), NEW b \in 1..(n + 1), a < b PROVE u[a] < u[b]
  <2>1. a \in 1..n
    BY <1>6
  <2>2. CASE b = n + 1
    BY <1>2, <1>3, <2>1, <2>2
  <2>3. CASE b \in 1..n
    BY <1>2, <1>6, <2>1, <2>3 DEF Placings
  <2> QED BY <1>4, <2>2, <2>3
<1> QED BY <1>1, <1>5, <1>6 DEF Placings

LEMMA CommonMore ==
    ASSUME NEW i \in Nat, NEW j \in Nat, NEW n \in Nat, InCommon(i, j, n), reference[i + 1] = candidate[j + 1]
    PROVE  InCommon(i + 1, j + 1, n + 1)
<1>1. PICK f \in Placings(n, i), g \in Placings(n, j) : \A k \in 1..n : reference[f[k]] = candidate[g[k]]
  BY DEF InCommon
<1>2. PICK u, v : /\ u = [k \in 1..(n + 1) |-> IF k = n + 1 THEN i + 1 ELSE f[k]]
                  /\ v = [k \in 1..(n + 1) |-> IF k = n + 1 THEN j + 1 ELSE g[k]]
  OBVIOUS
<1>3. u \in Placings(n + 1, i + 1) /\ v \in Placings(n + 1, j + 1)
  BY <1>1, <1>2, OnePlaceMore
<1>4. ASSUME NEW k \in 1..(n + 1) PROVE reference[u[k]] = candidate[v[k]]
  <2>1. CASE k = n + 1
    BY <1>2, <2>1
  <2>2. CASE k # n + 1
    BY <1>1, <1>2, <2>2
  <2> QED BY <2>1, <2>2
<1> QED BY <1>3, <1>4 DEF InCommon

\* Placings chosen among the first L + 1, without the last.
LEMMA OnePlaceLess ==
    ASSUME NEW L \in Nat, NEW n \in Nat, NEW f \in Placings(n + 1, L + 1)
    PROVE  [k \in 1..n |-> f[k]] \in Placings(n, L)
<1>1. \A k \in 1..n : k \in 1..(n + 1) /\ n + 1 \in 1..(n + 1) /\ k < n + 1
  OBVIOUS
<1>2. \A k \in 1..n : f[k] \in 1..(L + 1) /\ f[n + 1] \in 1..(L + 1) /\ f[k] < f[n + 1]
  BY <1>1 DEF Placings
<1>3. \A k \in 1..n : f[k] \in 1..L
  BY <1>2
<1> QED BY <1>1, <1>3 DEF Placings

LEMMA CommonLast ==
    ASSUME NEW i \in Nat, NEW j \in Nat, NEW n \in Nat, InCommon(i + 1, j + 1, n + 1)
    PROVE  InCommon(i, j, n)
<1>1. PICK f \in Placings(n + 1, i + 1), g \in Placings(n + 1, j + 1) :
        \A k \in 1..(n + 1) : reference[f[k]] = candidate[g[k]]
  BY DEF InCommon
<1>2. PICK u, v : u = [k \in 1..n |-> f[k]] /\ v = [k \in 1..n |-> g[k]]
  OBVIOUS
<1>3. u \in Placings(n, i) /\ v \in Placings(n, j)
  BY <1>1, <1>2, OnePlaceLess
<1>4. \A k \in 1..n : reference[u[k]] = candidate[v[k]]
  BY <1>1, <1>2
<1> QED BY <1>3, <1>4 DEF InCommon

\* Placings chosen among the first L + 1 are among the first L unless the last is L + 1.
LEMMA PlacesBelow ==
    ASSUME NEW L \in Nat, NEW n \in Nat \ {0}, NEW f \in Placings(n, L + 1), f[n] # L + 1
    PROVE  f \in Placings(n, L)
<1>1. f[n] \in 1..L
  BY DEF Placings
<1>2. ASSUME NEW k \in 1..n PROVE f[k] \in 1..L
  <2>1. CASE k = n
    BY <1>1, <2>1
  <2>2. CASE k < n
    <3>1. f[k] \in 1..(L + 1) /\ f[k] < f[n]
      BY <2>2 DEF Placings
    <3> QED BY <1>1, <3>1
  <2> QED BY <2>1, <2>2
<1> QED BY <1>2 DEF Placings

LEMMA CommonOther ==
    ASSUME NEW i \in Nat, NEW j \in Nat, NEW n \in Nat, InCommon(i + 1, j + 1, n), reference[i + 1] # candidate[j + 1]
    PROVE  InCommon(i, j + 1, n) \/ InCommon(i + 1, j, n)
<1>1. CASE n = 0
  BY <1>1, CommonNone
<1>2. CASE n # 0
  <2>1. PICK f \in Placings(n, i + 1), g \in Placings(n, j + 1) : \A k \in 1..n : reference[f[k]] = candidate[g[k]]
    BY DEF InCommon
  <2>2. n \in 1..n
    BY <1>2
  <2>3. f[n] # i + 1 \/ g[n] # j + 1
    BY <2>1, <2>2
  <2>4. CASE f[n] # i + 1
    BY <1>2, <2>1, <2>4, PlacesBelow DEF InCommon
  <2>5. CASE g[n] # j + 1
    BY <1>2, <2>1, <2>5, PlacesBelow DEF InCommon
  <2> QED BY <2>3, <2>4, <2>5
<1> QED BY <1>1, <1>2
\* One pass of the loop over the candidate.
RowAfter(before, token) == CHOOSE f : f = [j \in 0..Len(candidate) |->
    IF j = 0 THEN 0 ELSE IF token = candidate[j] THEN before[j - 1] + 1 ELSE larger(before[j], f[j - 1])]

LEMMA RowAfterIs ==
    ASSUME Len(candidate) \in Nat, NEW before \in [0..Len(candidate) -> Nat], NEW token
    PROVE  /\ next_row(before, token) \in [0..Len(candidate) -> Nat]
           /\ next_row(before, token)[0] = 0
           /\ \A j \in 1..Len(candidate) : next_row(before, token)[j] =
                IF token = candidate[j] THEN before[j - 1] + 1
                ELSE larger(before[j], next_row(before, token)[j - 1])
<1>15. PICK L \in Nat : L = Len(candidate)
  OBVIOUS
<1>0. \A j \in 1..L : before[j] \in Nat /\ before[j - 1] \in Nat
  <2> SUFFICES ASSUME NEW j \in 1..L PROVE before[j] \in Nat /\ before[j - 1] \in Nat
    OBVIOUS
  <2>1. j \in 0..L /\ j - 1 \in 0..L
    OBVIOUS
  <2> QED BY <1>15, <2>1
<1>1. PICK step : step = [j \in 1..L |-> [t \in Nat |->
            IF token = candidate[j] THEN before[j - 1] + 1 ELSE larger(before[j], t)]]
  OBVIOUS
<1>2. step \in [1..L -> [Nat -> Nat]]
  <2>1. ASSUME NEW j \in 1..L, NEW t \in Nat
        PROVE  (IF token = candidate[j] THEN before[j - 1] + 1 ELSE larger(before[j], t)) \in Nat
    BY <1>0 DEF larger
  <2> QED BY <1>1, <2>1
<1>14. PICK zero : zero = 0
  OBVIOUS
<1>3. PICK f : f = Computed(L, zero, step)
  OBVIOUS
<1>4. f \in [0..L -> Nat] /\ f[0] = 0 /\ \A j \in 1..L : f[j] = step[j][f[j - 1]]
  <2>1. PICK Q : Q = Nat
    OBVIOUS
  <2>2. zero \in Q /\ step \in [1..L -> [Q -> Q]]
    BY <1>2, <1>14, <2>1
  <2>3. f \in [0..L -> Q] /\ f[0] = zero /\ \A j \in 1..L : f[j] = step[j][f[j - 1]]
    BY <1>3, <2>2, ComputedIs
  <2> QED BY <1>14, <2>1, <2>3
<1>5. \A j \in 1..L : f[j] = IF token = candidate[j] THEN before[j - 1] + 1 ELSE larger(before[j], f[j - 1])
  <2> SUFFICES ASSUME NEW j \in 1..L
               PROVE  f[j] = IF token = candidate[j] THEN before[j - 1] + 1 ELSE larger(before[j], f[j - 1])
    OBVIOUS
  <2>1. j - 1 \in 0..L
    OBVIOUS
  <2>2. f[j - 1] \in Nat /\ f[j] = step[j][f[j - 1]]
    BY <1>4, <2>1
  <2> QED BY <1>1, <2>2
<1>6. f = [j \in 0..Len(candidate) |->
             IF j = 0 THEN 0 ELSE IF token = candidate[j] THEN before[j - 1] + 1 ELSE larger(before[j], f[j - 1])]
  <2>1. ASSUME NEW j \in 0..L
        PROVE  f[j] = IF j = 0 THEN 0
                      ELSE IF token = candidate[j] THEN before[j - 1] + 1 ELSE larger(before[j], f[j - 1])
    <3>1. CASE j = 0
      BY <1>4, <3>1
    <3>2. CASE j # 0
      <4>1. j \in 1..L
        BY <3>2
      <4> QED BY <1>5, <3>2, <4>1, Zenon
    <3> QED BY <3>1, <3>2
  <2>2. f = [j \in 0..L |-> f[j]]
    BY <1>4
  <2> QED BY <1>15, <2>1, <2>2
<1>7. PICK h : h = next_row(before, token)
  OBVIOUS
<1>8. h = [j \in 0..Len(candidate) |->
             IF j = 0 THEN 0 ELSE IF token = candidate[j] THEN before[j - 1] + 1 ELSE larger(before[j], h[j - 1])]
  <2>1. h = RowAfter(before, token)
    BY <1>7 DEF next_row, RowAfter
  <2> QED BY <1>6, <2>1, Zenon DEF RowAfter
<1>9. h[0] = 0 /\ \A j \in 1..L : h[j] =
        IF token = candidate[j] THEN before[j - 1] + 1 ELSE larger(before[j], h[j - 1])
  <2>1. \A j \in 0..L : h[j] =
          IF j = 0 THEN 0 ELSE IF token = candidate[j] THEN before[j - 1] + 1 ELSE larger(before[j], h[j - 1])
    BY <1>8, <1>15
  <2> QED BY <2>1
<1> DEFINE N == {j \in 0..L : h[j] \in Nat}
<1>10. 0 \in N
  BY <1>9
<1>11. ASSUME NEW j \in 1..L, j - 1 \in N PROVE j \in N
  <2>1. h[j] = before[j - 1] + 1 \/ h[j] = larger(before[j], h[j - 1])
    BY <1>9
  <2>2. h[j] \in Nat
    BY <1>0, <1>11, <2>1 DEF larger
  <2> QED BY <2>2
<1>12. \A j \in 0..L : h[j] \in Nat
  <2> HIDE DEF N
  <2>1. \A j \in 0..L : j \in N
    BY <1>10, <1>11, ClimbTo
  <2> QED BY <2>1 DEF N
<1>13. h \in [0..L -> Nat]
  <2>1. h = [j \in 0..L |-> h[j]]
    BY <1>8, <1>15
  <2> QED BY <1>12, <2>1
<1> QED BY <1>7, <1>9, <1>13, <1>15

\* What prefixes of i and j tokens have in common is told by p.
Told(i, j, p) == p \in 0..i /\ \A n \in Nat : InCommon(i, j, n) <=> n <= p

TmInv ==
    /\ reference \in Seq(Words) /\ candidate \in Seq(Words)
    /\ Len(reference) <= TextSize
    /\ row \in 0..Len(reference)
    /\ prev \in [0..Len(candidate) -> Nat]
    /\ \A j \in 0..Len(candidate) : Told(row, j, prev[j])

LEMMA TmInit0 == TmInit => TmInv
<1> SUFFICES ASSUME TmInit PROVE TmInv
  OBVIOUS
<1>1. \A t \in TokenLists : t \in Seq(Words) /\ Len(t) <= TextSize
  <2> SUFFICES ASSUME NEW n \in 1..TextSize, NEW t \in [1..n -> Words] PROVE t \in Seq(Words) /\ Len(t) <= TextSize
    BY DEF TokenLists
  <2>1. n \in Nat /\ n <= TextSize
    BY TmAssumption
  <2>2. t \in Seq(Words)
    BY <2>1
  <2>3. Len(t) = n
    BY <2>1, <2>2, LenProperties
  <2> QED BY <2>1, <2>2, <2>3
<1>2. /\ reference \in Seq(Words) /\ candidate \in Seq(Words) /\ Len(reference) <= TextSize
      /\ row = 0 /\ prev = [j \in 0..Len(candidate) |-> 0]
  BY <1>1 DEF TmInit
<1>3. Len(reference) \in Nat /\ Len(candidate) \in Nat
  BY <1>2, LenProperties
<1>4. ASSUME NEW j \in 0..Len(candidate) PROVE Told(0, j, 0)
  <2>1. j \in Nat
    BY <1>3
  <2>2. ASSUME NEW n \in Nat PROVE InCommon(0, j, n) <=> n <= 0
    BY <2>1, CommonNone, CommonOfNothing
  <2> QED BY <2>2 DEF Told
<1> QED BY <1>2, <1>3, <1>4 DEF TmInv

LEMMA TmRow ==
    ASSUME TmInv, NextRow
    PROVE  \A j \in 0..Len(candidate) : Told(row + 1, j, next_row(prev, reference[row + 1])[j])
<1>1. PICK L \in Nat : L = Len(candidate)
  BY LenProperties DEF TmInv
<1>2. row \in Nat /\ prev \in [0..L -> Nat]
  BY <1>1, LenProperties DEF TmInv
<1>3. PICK token : token = reference[row + 1]
  OBVIOUS
<1>4. PICK h \in [0..L -> Nat] :
        /\ h = next_row(prev, token) /\ h[0] = 0
        /\ \A j \in 1..L : h[j] = IF token = candidate[j] THEN prev[j - 1] + 1 ELSE larger(prev[j], h[j - 1])
  BY <1>1, <1>2, RowAfterIs
<1> DEFINE N == {j \in 0..L : Told(row + 1, j, h[j])}
<1>5. 0 \in N
  <2>1. row + 1 \in Nat
    BY <1>2
  <2>2. ASSUME NEW n \in Nat PROVE InCommon(row + 1, 0, n) <=> n <= 0
    BY <2>1, CommonNone, CommonOfNothing
  <2> QED BY <1>1, <1>4, <2>1, <2>2 DEF Told
<1>6. ASSUME NEW j \in 1..L, j - 1 \in N PROVE j \in N
  <2>1. PICK i \in Nat : i = j - 1
    OBVIOUS
  <2>2. j = i + 1 /\ i \in 0..L /\ j \in 0..L
    BY <2>1
  <2>3. Told(row, i, prev[i]) /\ Told(row, j, prev[j]) /\ Told(row + 1, i, h[i])
    BY <1>1, <1>6, <2>1, <2>2 DEF TmInv
  <2>4. prev[i] \in 0..row /\ prev[j] \in 0..row /\ h[i] \in 0..(row + 1)
    BY <2>3 DEF Told
  <2>5. h[j] = IF token = candidate[j] THEN prev[i] + 1 ELSE larger(prev[j], h[i])
    BY <1>4, <2>1
  <2>6. CASE token = candidate[j]
    <3>1. h[j] = prev[i] + 1
      BY <2>5, <2>6
    <3>2. ASSUME NEW n \in Nat PROVE InCommon(row + 1, j, n) <=> n <= h[j]
      <4>1. CASE n = 0
        <5>1. InCommon(row + 1, j, 0)
          BY <1>2, CommonNone
        <5> QED BY <2>4, <3>1, <4>1, <5>1
      <4>2. CASE n # 0
        <5>1. PICK m \in Nat : n = m + 1
          <6>1. n - 1 \in Nat /\ n = (n - 1) + 1
            BY <4>2
          <6> QED BY <6>1
        <5>2. InCommon(row, i, m) <=> m <= prev[i]
          BY <2>3 DEF Told
        <5>3. InCommon(row + 1, j, n) <=> InCommon(row, i, m)
          BY <1>2, <1>3, <2>2, <2>6, <5>1, CommonMore, CommonLast
        <5> QED BY <2>4, <3>1, <5>1, <5>2, <5>3
      <4> QED BY <4>1, <4>2
    <3>3. h[j] \in 0..(row + 1)
      BY <1>2, <2>4, <3>1
    <3> QED BY <2>2, <3>2, <3>3 DEF Told
  <2>7. CASE token # candidate[j]
    <3>1. h[j] = larger(prev[j], h[i])
      BY <2>5, <2>7
    <3>2. ASSUME NEW n \in Nat PROVE InCommon(row + 1, j, n) <=> n <= h[j]
      <4>1. (InCommon(row, j, n) <=> n <= prev[j]) /\ (InCommon(row + 1, i, n) <=> n <= h[i])
        BY <2>3 DEF Told
      <4>2. InCommon(row + 1, j, n) => InCommon(row, j, n) \/ InCommon(row + 1, i, n)
        BY <1>2, <1>3, <2>2, <2>7, CommonOther
      <4>3. InCommon(row, j, n) => InCommon(row + 1, j, n)
        BY <1>2, CommonWider
      <4>4. InCommon(row + 1, i, n) => InCommon(row + 1, j, n)
        BY <1>2, <2>2, CommonWider
      <4> QED BY <2>4, <3>1, <4>1, <4>2, <4>3, <4>4 DEF larger
    <3>3. h[j] \in 0..(row + 1)
      BY <1>2, <2>4, <3>1 DEF larger
    <3> QED BY <2>2, <3>2, <3>3 DEF Told
  <2> QED BY <2>6, <2>7
<1>7. \A j \in 0..L : j \in N
  <2> HIDE DEF N
  <2> QED BY <1>5, <1>6, ClimbTo
<1> QED BY <1>1, <1>3, <1>4, <1>7

LEMMA TmStep == TmInv /\ [NextRow]_tmVars => TmInv'
<1> SUFFICES ASSUME TmInv, [NextRow]_tmVars PROVE TmInv'
  OBVIOUS
<1>1. CASE UNCHANGED tmVars
  BY <1>1 DEF tmVars, TmInv, Told, InCommon
<1>2. CASE NextRow
  <2>1. PICK L \in Nat, M \in Nat : L = Len(candidate) /\ M = Len(reference) /\ row \in 0..M
    BY LenProperties DEF TmInv
  <2>2. /\ row' = row + 1 /\ row' \in 0..M
        /\ reference' = reference /\ candidate' = candidate
        /\ prev' = next_row(prev, reference[row + 1])
    BY <1>2, <2>1 DEF NextRow
  <2>3. prev' \in [0..L -> Nat]
    BY <2>1, <2>2, RowAfterIs DEF TmInv
  <2>4. \A j \in 0..L : Told(row + 1, j, prev'[j])
    BY <1>2, <2>1, <2>2, TmRow
  <2>5. \A j \in 0..L : Told(row, j, prev[j])' 
    BY <2>2, <2>4 DEF Told, InCommon
  <2> QED BY <2>1, <2>2, <2>3, <2>5 DEF TmInv
<1> QED BY <1>1, <1>2

LEMMA TmSound == TmInv => RowIsLongestCommon /\ TmTypeOK
<1> SUFFICES ASSUME TmInv PROVE RowIsLongestCommon /\ TmTypeOK
  OBVIOUS
<1>1. PICK L \in Nat, M \in Nat : L = Len(candidate) /\ M = Len(reference) /\ row \in 0..M /\ M <= TextSize
  BY LenProperties DEF TmInv
<1>2. \A j \in 0..L : Told(row, j, prev[j])
  BY <1>1 DEF TmInv
<1>3. RowIsLongestCommon
  BY <1>1, <1>2 DEF RowIsLongestCommon, Told
<1>4. DOMAIN prev = 0..L
  BY <1>1 DEF TmInv
<1>5. \A j \in 0..L : prev[j] \in 0..TextSize
  BY <1>1, <1>2, TmAssumption DEF Told
<1> QED BY <1>1, <1>3, <1>4, <1>5 DEF TmTypeOK

-----------------------------------------------------------------------------
(* The overlap of two texts.                                               *)

\* The occurrences, by number, that two lists of grams have of the first i of cs in common.
Shared(cs, rs, i) ==
    {p \in {cs[j] : j \in 1..i} \X Nat : p[2] \in 1..occurrences(cs, p[1]) /\ p[2] \in 1..occurrences(rs, p[1])}

\* The places in rs of the first i grams of cs.
PlacesOf(cs, rs, i) == {k \in DOMAIN rs : \E j \in 1..i : cs[j] = rs[k]}

LEMMA UpTo == ASSUME NEW n \in Nat PROVE IsFiniteSet(1..n) /\ Cardinality(1..n) = n
  BY FS_Interval

LEMMA OccurrencesIs ==
    ASSUME NEW cs, Len(cs) \in Nat, DOMAIN cs = 1..Len(cs), NEW g
    PROVE  /\ occurrences(cs, g) \in Nat
           /\ occurrences(cs, g) = 0 <=> ~\E j \in 1..Len(cs) : cs[j] = g
           /\ IsFiniteSet({j \in 1..Len(cs) : cs[j] = g})
<1>5. PICK C \in Nat : C = Len(cs)
  OBVIOUS
<1>1. PICK S : S = {j \in 1..C : cs[j] = g}
  OBVIOUS
<1>2. IsFiniteSet(S)
  <2>1. IsFiniteSet(1..C) /\ S \subseteq 1..C
    BY <1>1, FS_Interval
  <2> QED BY <2>1, FS_Subset
<1>3. Cardinality(S) \in Nat /\ (Cardinality(S) = 0 <=> S = {})
  BY <1>2, FS_CardinalityType, FS_EmptySet
<1>4. occurrences(cs, g) = Cardinality(S)
  BY <1>1, <1>5 DEF occurrences
<1> QED BY <1>1, <1>2, <1>3, <1>4, <1>5

LEMMA BothTogether ==
    ASSUME NEW S, IsFiniteSet(S), NEW T, IsFiniteSet(T), S \cap T = {}
    PROVE  IsFiniteSet(S \cup T) /\ Cardinality(S \cup T) = Cardinality(S) + Cardinality(T)
<1>1. Cardinality(S \cap T) = 0
  BY FS_EmptySet
<1>2. Cardinality(S) \in Nat /\ Cardinality(T) \in Nat
  BY FS_CardinalityType
<1>3. IsFiniteSet(S \cup T) /\ Cardinality(S \cup T) = Cardinality(S) + Cardinality(T) - Cardinality(S \cap T)
  BY FS_Union
<1> QED BY <1>1, <1>2, <1>3

LEMMA PairsOf ==
    ASSUME NEW g, NEW m \in Nat
    PROVE  IsFiniteSet({g} \X (1..m)) /\ Cardinality({g} \X (1..m)) = m
<1>1. IsFiniteSet(1..m) /\ Cardinality(1..m) = m
  BY FS_Interval
<1>2. IsFiniteSet({g}) /\ Cardinality({g}) = 1
  BY FS_Singleton
<1>3. IsFiniteSet({g} \X (1..m)) /\ Cardinality({g} \X (1..m)) = Cardinality({g}) * Cardinality(1..m)
  BY <1>1, <1>2, FS_Product
<1> QED BY <1>1, <1>2, <1>3

SumUpto(cs, rs) == CHOOSE f : f = [i \in 0..Len(cs) |->
    IF i = 0 THEN 0
    ELSE IF \E k \in 1..(i - 1) : cs[k] = cs[i] THEN f[i - 1]
    ELSE f[i - 1] + (IF occurrences(cs, cs[i]) < occurrences(rs, cs[i])
                     THEN occurrences(cs, cs[i]) ELSE occurrences(rs, cs[i]))]

Least(cs, rs, g) == IF occurrences(cs, g) < occurrences(rs, g) THEN occurrences(cs, g) ELSE occurrences(rs, g)

\* What the places up to i - 1 add up to, and with place i.
PlusPlace(cs, rs, i, t) == IF \E k \in 1..(i - 1) : cs[k] = cs[i] THEN t ELSE t + Least(cs, rs, cs[i])

LEMMA SumUptoIs ==
    ASSUME NEW cs, NEW rs, Len(cs) \in Nat, DOMAIN cs = 1..Len(cs), Len(rs) \in Nat, DOMAIN rs = 1..Len(rs)
    PROVE  /\ SumUpto(cs, rs) \in [0..Len(cs) -> Nat]
           /\ SumUpto(cs, rs)[0] = 0
           /\ \A i \in 1..Len(cs) : SumUpto(cs, rs)[i] = PlusPlace(cs, rs, i, SumUpto(cs, rs)[i - 1])
<1>1. PICK L \in Nat : L = Len(cs)
  OBVIOUS
<1>2. \A g : occurrences(cs, g) \in Nat /\ occurrences(rs, g) \in Nat
  BY OccurrencesIs
<1>3. \A i, t \in Nat : PlusPlace(cs, rs, i, t) \in Nat
  BY <1>2 DEF PlusPlace, Least
<1>4. PICK step : step = [i \in 1..L |-> [t \in Nat |-> PlusPlace(cs, rs, i, t)]]
  OBVIOUS
<1>5. step \in [1..L -> [Nat -> Nat]]
  <2>1. \A i \in 1..L : i \in Nat
    OBVIOUS
  <2> QED BY <1>3, <1>4, <2>1
<1>6. PICK zero : zero = 0
  OBVIOUS
<1>7. PICK f : f = Computed(L, zero, step)
  OBVIOUS
<1>8. f \in [0..L -> Nat] /\ f[0] = zero /\ \A i \in 1..L : f[i] = step[i][f[i - 1]]
  <2>1. PICK Q : Q = Nat
    OBVIOUS
  <2>2. zero \in Q /\ step \in [1..L -> [Q -> Q]]
    BY <1>5, <1>6, <2>1
  <2>3. Computed(L, zero, step) \in [0..L -> Q] /\ Computed(L, zero, step)[0] = zero
    BY <2>2, ComputedIs
  <2>4. \A i \in 1..L : Computed(L, zero, step)[i] = step[i][Computed(L, zero, step)[i - 1]]
    <3> SUFFICES ASSUME NEW i, i \in 1..L
                 PROVE  Computed(L, zero, step)[i] = step[i][Computed(L, zero, step)[i - 1]]
      OBVIOUS
    <3> QED BY <2>2, ComputedNext
  <2> QED BY <1>7, <2>1, <2>3, <2>4
<1>9. \A i \in 1..L : f[i] = PlusPlace(cs, rs, i, f[i - 1])
  <2> SUFFICES ASSUME NEW i \in 1..L PROVE f[i] = PlusPlace(cs, rs, i, f[i - 1])
    OBVIOUS
  <2>1. i - 1 \in 0..L
    OBVIOUS
  <2>2. f[i - 1] \in Nat /\ f[i] = step[i][f[i - 1]]
    BY <1>8, <2>1
  <2> QED BY <1>4, <2>2
<1>10. f = [i \in 0..L |-> IF i = 0 THEN zero ELSE PlusPlace(cs, rs, i, f[i - 1])]
  <2>1. ASSUME NEW i \in 0..L PROVE f[i] = IF i = 0 THEN zero ELSE PlusPlace(cs, rs, i, f[i - 1])
    <3>1. CASE i = 0
      BY <1>8, <3>1
    <3>2. CASE i # 0
      <4>1. i \in 1..L
        BY <3>2
      <4> QED BY <1>9, <3>2, <4>1, Zenon
    <3> QED BY <3>1, <3>2
  <2>2. f = [i \in 0..L |-> f[i]]
    BY <1>8
  <2> QED BY <2>1, <2>2
<1>11. PICK h : h = SumUpto(cs, rs)
  OBVIOUS
<1>12. h = [i \in 0..L |-> IF i = 0 THEN zero ELSE PlusPlace(cs, rs, i, h[i - 1])]
  BY <1>1, <1>6, <1>10, <1>11, Zenon DEF SumUpto, PlusPlace, Least
<1>13. h[0] = 0 /\ \A i \in 1..L : h[i] = PlusPlace(cs, rs, i, h[i - 1])
  <2>1. \A i \in 0..L : h[i] = IF i = 0 THEN zero ELSE PlusPlace(cs, rs, i, h[i - 1])
    BY <1>12
  <2> QED BY <1>6, <2>1
<1> DEFINE N == {i \in 0..L : h[i] \in Nat}
<1>14. 0 \in N
  BY <1>13
<1>15. ASSUME NEW i \in 1..L, i - 1 \in N PROVE i \in N
  <2>1. i \in Nat /\ h[i - 1] \in Nat /\ i \in 0..L
    BY <1>15
  <2>2. h[i] = PlusPlace(cs, rs, i, h[i - 1])
    BY <1>13
  <2>3. PlusPlace(cs, rs, i, h[i - 1]) \in Nat
    BY <1>3, <2>1
  <2> QED BY <2>1, <2>2, <2>3
<1>16. \A i \in 0..L : h[i] \in Nat
  <2> HIDE DEF N
  <2>1. \A i \in 0..L : i \in N
    BY <1>14, <1>15, ClimbTo
  <2> QED BY <2>1 DEF N
<1>17. h \in [0..L -> Nat]
  <2>1. h = [i \in 0..L |-> h[i]]
    BY <1>12
  <2> QED BY <1>16, <2>1
<1> QED BY <1>1, <1>11, <1>13, <1>17

\* The sum counts the occurrences that are shared, and no place of the reference twice.
LEMMA SumIsShared ==
    ASSUME NEW cs, NEW rs, Len(cs) \in Nat, DOMAIN cs = 1..Len(cs), Len(rs) \in Nat, DOMAIN rs = 1..Len(rs)
    PROVE  /\ SumUpto(cs, rs)[Len(cs)] = Cardinality(Shared(cs, rs, Len(cs)))
           /\ SumUpto(cs, rs)[Len(cs)] <= Len(rs)
<1>1. PICK L \in Nat, M \in Nat : L = Len(cs) /\ M = Len(rs) /\ DOMAIN cs = 1..L /\ DOMAIN rs = 1..M
  OBVIOUS
<1>2. PICK h : h = SumUpto(cs, rs)
  OBVIOUS
<1>3. /\ h \in [0..L -> Nat] /\ h[0] = 0
      /\ \A i \in 1..L : h[i] = PlusPlace(cs, rs, i, h[i - 1])
  BY <1>1, <1>2, SumUptoIs
<1>4. \A i : IsFiniteSet(PlacesOf(cs, rs, i)) /\ Cardinality(PlacesOf(cs, rs, i)) \in 0..M
  <2> SUFFICES ASSUME NEW i PROVE IsFiniteSet(PlacesOf(cs, rs, i)) /\ Cardinality(PlacesOf(cs, rs, i)) \in 0..M
    OBVIOUS
  <2>0. PlacesOf(cs, rs, i) \subseteq 1..M
    BY <1>1 DEF PlacesOf
  <2>1. PlacesOf(cs, rs, i) \subseteq 1..M /\ IsFiniteSet(1..M) /\ Cardinality(1..M) = M
    <3>1. IsFiniteSet(1..M) /\ Cardinality(1..M) = M
      BY UpTo, Zenon
    <3> QED BY <2>0, <3>1
  <2>2. IsFiniteSet(PlacesOf(cs, rs, i)) /\ Cardinality(PlacesOf(cs, rs, i)) <= M
    BY <2>1, FS_Subset
  <2>3. Cardinality(PlacesOf(cs, rs, i)) \in Nat
    BY <2>2, FS_CardinalityType
  <2> QED BY <2>2, <2>3
<1> DEFINE N == {i \in 0..L : /\ IsFiniteSet(Shared(cs, rs, i)) /\ h[i] = Cardinality(Shared(cs, rs, i))
                              /\ h[i] <= Cardinality(PlacesOf(cs, rs, i))}
<1>5. 0 \in N
  <2>1. Shared(cs, rs, 0) = {}
    BY DEF Shared
  <2>2. IsFiniteSet(Shared(cs, rs, 0)) /\ Cardinality(Shared(cs, rs, 0)) = 0
    BY <2>1, FS_EmptySet
  <2>3. Cardinality(PlacesOf(cs, rs, 0)) \in 0..M
    BY <1>4
  <2> QED BY <1>3, <2>2, <2>3
<1>6. ASSUME NEW i \in 1..L, i - 1 \in N PROVE i \in N
  <2>1. PICK p \in Nat : p = i - 1 /\ p \in 0..L
    OBVIOUS
  <2>2. /\ IsFiniteSet(Shared(cs, rs, p)) /\ h[p] = Cardinality(Shared(cs, rs, p)) /\ h[p] \in Nat
        /\ h[p] <= Cardinality(PlacesOf(cs, rs, p)) /\ h[i] = PlusPlace(cs, rs, i, h[p])
    BY <1>3, <1>6, <2>1
  <2>3. PICK g : g = cs[i]
    OBVIOUS
  <2>4. \A j \in 1..i : j = i \/ j \in 1..p
    BY <2>1
  <2>10. 1..p \subseteq 1..i
    BY <2>1
  <2>5. CASE \E k \in 1..p : cs[k] = g
    <3>1. {cs[j] : j \in 1..i} = {cs[j] : j \in 1..p}
      BY <2>3, <2>4, <2>5, <2>10
    <3>2. Shared(cs, rs, i) = Shared(cs, rs, p)
      BY <3>1 DEF Shared
    <3>3. PlacesOf(cs, rs, p) \subseteq PlacesOf(cs, rs, i)
      BY <2>10 DEF PlacesOf
    <3>4. Cardinality(PlacesOf(cs, rs, p)) <= Cardinality(PlacesOf(cs, rs, i))
      BY <1>4, <3>3, FS_Subset
    <3>5. h[i] = h[p]
      BY <2>1, <2>2, <2>3, <2>5 DEF PlusPlace
    <3> QED BY <1>4, <2>2, <3>2, <3>4, <3>5
  <2>6. CASE ~\E k \in 1..p : cs[k] = g
    <3>1. PICK m \in Nat : m = Least(cs, rs, g) /\ m <= occurrences(rs, g) /\ occurrences(rs, g) \in Nat
      <4>1. occurrences(cs, g) \in Nat /\ occurrences(rs, g) \in Nat
        BY <1>1, OccurrencesIs
      <4> QED BY <4>1 DEF Least
    <3>2. h[i] = h[p] + m
      BY <2>1, <2>2, <2>3, <2>6, <3>1 DEF PlusPlace
    <3>3. PICK new : new = {g} \X (1..m)
      OBVIOUS
    <3>4. IsFiniteSet(new) /\ Cardinality(new) = m
      BY <3>3, PairsOf
    <3>5. {cs[j] : j \in 1..i} = {cs[j] : j \in 1..p} \cup {g}
      BY <2>3, <2>4, <2>10
    <3>6. \A k \in Nat : k \in 1..m <=> k \in 1..occurrences(cs, g) /\ k \in 1..occurrences(rs, g)
      <4>1. occurrences(cs, g) \in Nat /\ occurrences(rs, g) \in Nat
        BY <1>1, OccurrencesIs
      <4> QED BY <3>1, <4>1 DEF Least
    <3>7. Shared(cs, rs, i) = Shared(cs, rs, p) \cup new
      <4>1. ASSUME NEW q PROVE q \in Shared(cs, rs, i) <=> q \in Shared(cs, rs, p) \cup new
        <5>1. CASE q \in {cs[j] : j \in 1..p} \X Nat
          <6>1. q[1] # g /\ q \notin new
            BY <2>6, <3>3, <5>1
          <6> QED BY <3>5, <5>1, <6>1 DEF Shared
        <5>2. CASE q \in {g} \X Nat
          <6>1. q[1] = g /\ q[2] \in Nat /\ q = <<g, q[2]>>
            BY <5>2
          <6>2. q \in new <=> q[2] \in 1..m
            BY <3>3, <6>1
          <6>3. q \notin Shared(cs, rs, p)
            BY <2>6, <6>1 DEF Shared
          <6>4. q \in Shared(cs, rs, i) <=> q[2] \in 1..occurrences(cs, g) /\ q[2] \in 1..occurrences(rs, g)
            BY <3>5, <5>2, <6>1 DEF Shared
          <6> QED BY <3>6, <6>1, <6>2, <6>3, <6>4
        <5>3. CASE q \notin {cs[j] : j \in 1..i} \X Nat
          <6>1. q \notin Shared(cs, rs, i) /\ q \notin Shared(cs, rs, p)
            BY <3>5, <5>3 DEF Shared
          <6>2. q \notin new
            BY <3>3, <3>5, <5>3
          <6> QED BY <6>1, <6>2
        <5> QED BY <3>5, <5>1, <5>2, <5>3
      <4> QED BY <4>1
    <3>8. Shared(cs, rs, p) \cap new = {}
      <4>1. \A q \in new : q[1] = g
        BY <3>3
      <4>2. \A q \in Shared(cs, rs, p) : q[1] # g
        BY <2>6 DEF Shared
      <4> QED BY <4>1, <4>2
    <3>9. /\ IsFiniteSet(Shared(cs, rs, i))
          /\ Cardinality(Shared(cs, rs, i)) = Cardinality(Shared(cs, rs, p)) + m
      <4>1. IsFiniteSet(Shared(cs, rs, p) \cup new)
        BY <2>2, <3>4, FS_Union
      <4>2. Cardinality(Shared(cs, rs, p) \cup new) = Cardinality(Shared(cs, rs, p)) + Cardinality(new)
        BY <2>2, <3>4, <3>8, BothTogether
      <4> QED BY <3>4, <3>7, <4>1, <4>2
    <3>10. PICK there : there = {k \in 1..M : rs[k] = g}
      OBVIOUS
    <3>11. IsFiniteSet(there) /\ Cardinality(there) = occurrences(rs, g)
      <4>1. IsFiniteSet({k \in 1..Len(rs) : rs[k] = g})
      BY OccurrencesIs, Zenon
    <4>2. occurrences(rs, g) = Cardinality({k \in 1..M : rs[k] = g})
      BY <1>1 DEF occurrences
    <4> QED BY <1>1, <3>10, <4>1, <4>2, Zenon
    <3>12. PlacesOf(cs, rs, i) = PlacesOf(cs, rs, p) \cup there /\ PlacesOf(cs, rs, p) \cap there = {}
      <4>1. \A k \in 1..M : (\E j \in 1..i : cs[j] = rs[k]) <=> (\E j \in 1..p : cs[j] = rs[k]) \/ rs[k] = g
        BY <2>3, <2>4, <2>10
      <4> QED BY <1>1, <2>6, <3>10, <4>1 DEF PlacesOf
    <3>13. Cardinality(PlacesOf(cs, rs, i)) = Cardinality(PlacesOf(cs, rs, p)) + Cardinality(there)
      BY <1>4, <3>11, <3>12, BothTogether
    <3>14. h[i] <= Cardinality(PlacesOf(cs, rs, i))
      BY <1>4, <2>2, <3>1, <3>2, <3>11, <3>13
    <3> QED BY <2>2, <3>2, <3>9, <3>14
  <2> QED BY <2>5, <2>6
<1>7. L \in N
  <2> HIDE DEF N
  <2>1. \A i \in 0..L : i \in N
    BY <1>5, <1>6, ClimbTo
  <2> QED BY <2>1
<1>8. L \in 0..L /\ h[L] \in Nat
  BY <1>3
<1> QED BY <1>1, <1>2, <1>4, <1>7, <1>8

LEMMA SharedBothWays ==
    ASSUME NEW cs, NEW rs, Len(cs) \in Nat, DOMAIN cs = 1..Len(cs), Len(rs) \in Nat, DOMAIN rs = 1..Len(rs)
    PROVE  Shared(cs, rs, Len(cs)) = Shared(rs, cs, Len(rs))
<1>0. PICK L \in Nat, M \in Nat : L = Len(cs) /\ M = Len(rs)
  OBVIOUS
<1>1. \A g : occurrences(cs, g) \in Nat /\ occurrences(rs, g) \in Nat
  BY OccurrencesIs
<1>2. ASSUME NEW g
      PROVE  /\ occurrences(cs, g) = 0 <=> ~\E j \in 1..L : cs[j] = g
             /\ occurrences(rs, g) = 0 <=> ~\E j \in 1..M : rs[j] = g
  <2>1. occurrences(cs, g) = 0 <=> ~\E j \in 1..Len(cs) : cs[j] = g
    BY OccurrencesIs, Zenon
  <2>2. occurrences(rs, g) = 0 <=> ~\E j \in 1..Len(rs) : rs[j] = g
    BY OccurrencesIs, Zenon
  <2> QED BY <1>0, <2>1, <2>2, Zenon
<1>3. \A g, k : k \in 1..occurrences(cs, g) /\ k \in 1..occurrences(rs, g) =>
                  g \in {cs[j] : j \in 1..L} /\ g \in {rs[j] : j \in 1..M}
  <2> SUFFICES ASSUME NEW g, NEW k, k \in 1..occurrences(cs, g), k \in 1..occurrences(rs, g)
               PROVE  g \in {cs[j] : j \in 1..L} /\ g \in {rs[j] : j \in 1..M}
    OBVIOUS
  <2>1. occurrences(cs, g) # 0 /\ occurrences(rs, g) # 0
    BY <1>1
  <2> QED BY <1>2, <2>1
<1>4. ASSUME NEW q PROVE q \in Shared(cs, rs, L) <=> q \in Shared(rs, cs, M)
  BY <1>3 DEF Shared
<1> QED BY <1>0, <1>4

LEMMA OverlapIs == TmInv => OverlapSymmetric
<1> SUFFICES ASSUME TmInv, NEW n \in 1..2
             PROVE  /\ clipped(reference, candidate, n) = clipped(candidate, reference, n)
                    /\ clipped(reference, candidate, n) <= Len(ngrams(reference, n))
  BY DEF OverlapSymmetric
<1>1. ASSUME NEW t \in Seq(Words)
      PROVE  Len(ngrams(t, n)) \in Nat /\ DOMAIN ngrams(t, n) = 1..Len(ngrams(t, n))
  <2>1. PICK K \in Nat : K = Len(t)
    BY LenProperties
  <2>2. PICK C \in Nat : 1..C = 1..(K - n + 1)
    <3>1. CASE K - n + 1 \in Nat
      BY <3>1
    <3>2. CASE K - n + 1 \notin Nat
      <4>1. 1..0 = 1..(K - n + 1)
        BY <3>2
      <4> QED BY <4>1
    <3> QED BY <3>1, <3>2
  <2>3. ngrams(t, n) = [i \in 1..C |-> SubSeq(t, i, i + n - 1)]
    BY <2>1, <2>2 DEF ngrams
  <2>4. PICK s : s = [i \in 1..C |-> SubSeq(t, i, i + n - 1)]
    OBVIOUS
  <2>5. s \in Seq({s[i] : i \in 1..C}) /\ DOMAIN s = 1..C
    <3>1. PICK E : E = {s[i] : i \in 1..C}
      OBVIOUS
    <3>2. s \in [1..C -> E]
      BY <2>4, <3>1
    <3>3. s \in Seq(E)
      BY <3>2
    <3> QED BY <3>1, <3>2, <3>3
  <2>6. Len(s) = C
    BY <2>5, LenProperties
  <2> QED BY <2>3, <2>4, <2>5, <2>6
<1>2. PICK rs, cs : rs = ngrams(reference, n) /\ cs = ngrams(candidate, n)
  OBVIOUS
<1>3. Len(rs) \in Nat /\ DOMAIN rs = 1..Len(rs) /\ Len(cs) \in Nat /\ DOMAIN cs = 1..Len(cs)
  BY <1>1, <1>2 DEF TmInv
<1>4. clipped(reference, candidate, n) = SumUpto(cs, rs)[Len(cs)]
  BY <1>2 DEF clipped, SumUpto
<1>5. clipped(candidate, reference, n) = SumUpto(rs, cs)[Len(rs)]
  BY <1>2 DEF clipped, SumUpto
<1>6. SumUpto(cs, rs)[Len(cs)] = Cardinality(Shared(cs, rs, Len(cs))) /\ SumUpto(cs, rs)[Len(cs)] <= Len(rs)
  BY <1>3, SumIsShared
<1>7. SumUpto(rs, cs)[Len(rs)] = Cardinality(Shared(rs, cs, Len(rs)))
  BY <1>3, SumIsShared
<1>8. Shared(cs, rs, Len(cs)) = Shared(rs, cs, Len(rs))
  BY <1>3, SharedBothWays
<1> QED BY <1>2, <1>4, <1>5, <1>6, <1>7, <1>8

-----------------------------------------------------------------------------
(* The components of MCTools beside one another.                           *)

ContentInv == ErrInv /\ SrInv /\ PhInv /\ PgInv /\ BeInv

LEMMA ContentStart == ToolsInit => ContentInv
  BY ErrInit0, SrInit0, PhInit0, PgInit0, BeInit0 DEF ToolsInit, ContentInv

\* One component moves, or none.
LEMMA ContentMoves ==
    ASSUME [ToolsNext]_bundleVars
    PROVE  /\ [ErrNext]_errorVars /\ [SrNext]_srVars /\ [BeNext]_beVars
           /\ [PhNext]_phVars /\ [PgNext]_pgVars
  BY DEF ToolsNext, bundleVars

LEMMA ContentStep == ContentInv /\ [ToolsNext]_bundleVars => ContentInv'
  BY ContentMoves, ErrStep, SrStep, PhStep, PgStep, BeStep DEF ContentInv

LEMMA ContentInvariant == ToolsSpec => []ContentInv
<1> QED BY ContentStart, ContentStep, PTL DEF ToolsSpec

\* The messages of a session after a step.
LEMMA CountsAfter ==
    ASSUME PgInv', NEW s \in PgSessions
    PROVE  Roles(s, "user")' = Said[session'[s].messages]["user"]
<1>1. session'[s] \in SessionRows
  BY DEF PgInv
<1>2. session'[s].messages \in Seq(Voices) /\ "user" \in Voices
  BY <1>1 DEF SessionRows, Voices
<1> QED BY <1>2 DEF Roles, Said

\* A fault reaches the router as the kind that decides about its retries: a caller's own
\* is not tried again nor held against the deployment, whatever the adapter makes of the
\* status and the body; and without one every model of the chain is tried as often as it
\* may be, up to the one whose deployments are found cooling down, whatever other requests
\* do to them, but for what Anthropic's adapter gives up and what an adapter cannot read.
THEOREM FaultsReachRouter == ToolsSpec => []FaultsPassedOn
<1>1. ContentInv => FaultsPassedOn
  BY ErrSound DEF ContentInv, FaultsPassedOn
<1> QED BY <1>1, ContentInvariant, PTL

\* Semantic routing sends a text where its rules say, what it says of its choice is true
\* of the text it was asked about although texts with the same beginning share an entry
\* of its cache, and what the cache holds above its limit are the classifier's answers,
\* one for each at most, whichever calls overlap.
THEOREM RoutingExplained == ToolsSpec => []RoutedAndExplained
<1>1. ContentInv => RoutedAndExplained
  BY SrSound DEF ContentInv, RoutedAndExplained
<1> QED BY <1>1, ContentInvariant, PTL

\* What is judged rests on what was recorded: a prompt's versions never change and its
\* current text is the last of them; an answer in a session follows its question, however
\* calls and deletions interleave, and no question is put to a session that has ended; and
\* a benchmark covers its samples, whatever fails and is added meanwhile.
THEOREM EvidenceKept == ToolsSpec => JudgedOnEvidence
<1>1. ContentInv => CurrentIsLastVersion /\ AnswersHaveQuestions /\ RunCovers
  BY PhSound, PgSound, BeSound DEF ContentInv
<1>2. ContentInv /\ [ToolsNext]_bundleVars =>
        [\A t \in TemplateIds : \A v \in DOMAIN versions[t] :
           versions'[t] = <<>> \/ (v \in DOMAIN versions'[t] /\ versions'[t][v] = versions[t][v])]_phVars
  BY ContentMoves, PhStep DEF ContentInv
<1>3. ContentInv /\ ContentInv' /\ [ToolsNext]_bundleVars =>
        [\A s \in PgSessions :
           session[s].status \in {"completed", "failed"} => Roles(s, "user")' <= Roles(s, "user")]_pgVars
  <2> SUFFICES ASSUME PgInv, PgInv', [PgNext]_pgVars, NEW s \in PgSessions, session[s].status \in {"completed", "failed"}
               PROVE  Roles(s, "user")' <= Roles(s, "user")
    BY ContentMoves DEF ContentInv
  <2>1. Said[session'[s].messages]["user"] <= Said[session[s].messages]["user"]
    BY PgStep
  <2>2. "user" \in Voices
    BY DEF Voices
  <2>3. Roles(s, "user") = Said[session[s].messages]["user"]
    BY <2>2, CountsAre
  <2>4. Roles(s, "user")' = Said[session'[s].messages]["user"]
    BY <2>2, CountsAfter
  <2> QED BY <2>1, <2>3, <2>4
<1> QED BY <1>1, <1>2, <1>3, ContentInvariant, PTL
     DEF JudgedOnEvidence, VersionsImmutable, EndedTakesNoQuestions, ToolsSpec
=============================================================================
