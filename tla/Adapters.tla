------------------------------ MODULE Adapters ------------------------------
(* What becomes of a request and of its answer on the way to a provider and *)
(* back: what errors become, the request transforms, and the adapters.      *)
EXTENDS Integers, Sequences, SequencesExt

(***************************************************************************)
(* From a provider's answer to the client's: what the adapters of          *)
(* providers/ raise for it (_check_response and the handlers of httpx's    *)
(* errors), whether RetryPolicy tries again and execute_with_fallbacks     *)
(* goes on, what the deployment is blamed for, and the status that         *)
(* proxy/error_handlers.py gives the client.                               *)
(*                                                                         *)
(* An error is its class and the HTTP status it carries.  httpx is         *)
(* external: the body of a streamed answer that nobody has read cannot be  *)
(* looked at (ResponseNotRead, which is no httpx.HTTPError).  The body of   *)
(* a refusal is what the adapters read of it: an "object" whose "error" is  *)
(* one too or missing, or no JSON at all; one whose "error" is a "string"   *)
(* or a list; or an "array".                                               *)
(***************************************************************************)

CONSTANTS Chains,    \* adapters of a model and its fallbacks, in order
          Answers,   \* what a provider can answer, see Http and Broken
          MaxRetries, \* of the RetryPolicy
          AllowedFails \* of the CooldownManager

\* The adapters of a chain, and the answers they may get.
AdapterNames == {"openai", "compat", "cohere", "ollama", "gemini", "bedrock", "anthropic"}
Outcomes  == [what : {"http", "timeout", "network", "protocol"}, status : Nat, type : STRING,
              body : {"object", "string", "array"}]

\* An error of Bedrock's has the status that AWS gives its type: no throttling with the
\* status of a missing signature, nor the other way round.
ASSUME AdapterAssumption ==
    /\ MaxRetries \in Nat /\ AllowedFails \in Nat \ {0}
    /\ Chains \subseteq Seq(AdapterNames) \ {<<>>}
    /\ Answers \subseteq Outcomes
    /\ \A a \in Answers :
         /\ a.type = "TooManyRequestsException" => a.status # 401
         /\ a.type = "UnrecognizedClientException" => a.status \in 400..499 /\ a.status # 429

VARIABLES chain,    \* of the request
          stream,   \* it asked for a stream
          model,    \* place in the chain
          attempt,  \* of that model, from 0
          fails,    \* failures in a row of its deployments; it cools down at AllowedFails
          tried,    \* answers so far: model, answer, blamed
          replied   \* the client's, 0 before

errorVars == <<chain, stream, model, attempt, fails, tried, replied>>

Refusal(s, body) == [what |-> "http", status |-> s, type |-> "", body |-> body]
Http(s)          == Refusal(s, "object")
Typed(s, type)   == [Http(s) EXCEPT !.type = type]                \* Bedrock's __type
Broken(what)     == [Http(0) EXCEPT !.what = what]                \* no answer: timeout, ...

NoError         == [class |-> "none", status |-> 200]
Authentication  == [class |-> "authentication", status |-> 401]
RateLimit       == [class |-> "rate_limit", status |-> 429]
Unavailable     == [class |-> "unavailable", status |-> 503]
ProviderError(s) == [class |-> "provider", status |-> s]
Unhandled(what) == [class |-> what, status |-> 500]

-----------------------------------------------------------------------------
by_status(a) ==
    CASE a.status < 400  -> NoError
      [] a.status = 401  -> Authentication
      [] a.status = 429  -> RateLimit
      [] a.status >= 500 -> Unavailable
      [] OTHER           -> ProviderError(a.status)

\* The adapters that read a refusal for its message: what is no object has no get(), and
\* nobody catches the AttributeError.
Unreadable(p, a) ==
    /\ a.what = "http" /\ a.status >= 400
    /\ a.body = "array" \/ (a.body = "string" /\ p \notin {"ollama", "bedrock"})

read(p, a, e) == IF Unreadable(p, a) THEN Unhandled("attribute") ELSE e

openai_check(a) == read("openai", a, by_status(a))

\* A plausible bug: the error does not carry the status.
compat_check_unnamed(a) ==
    read("compat", a, IF by_status(a).class = "provider" THEN ProviderError(500) ELSE by_status(a))

compat_check(a) == read("compat", a, by_status(a))

\* A string for an error, without a message beside it.
cohere_check(a) == read("cohere", a, by_status(a))
ollama_check(a) == read("ollama", a, by_status(a))

gemini_check(a) == read("gemini", a, IF a.status = 403 THEN Authentication ELSE by_status(a))

bedrock_check(a) ==
    read("bedrock", a,
         CASE a.type = "UnrecognizedClientException" -> Authentication
           [] a.type = "TooManyRequestsException" /\ a.status # 401 -> RateLimit
           [] OTHER -> by_status(a))

\* The ProviderError of Anthropic has the status of its class, 500.
anthropic_check(a) ==
    read("anthropic", a, IF by_status(a).class = "provider" THEN ProviderError(500) ELSE by_status(a))

\* A call for a whole answer: what the request raises, e being what the check of an
\* answer raises; an httpx.HTTPError becomes a ProviderError.
called(a, e) == IF a.what = "http" THEN e ELSE ProviderError(500)

openai_post(a)       == called(a, openai_check(a))
compat_post(a)       == called(a, compat_check(a))
cohere_completion(a) == called(a, cohere_check(a))
ollama_completion(a) == called(a, ollama_check(a))
gemini_completion(a) == called(a, gemini_check(a))
converse(a)          == called(a, bedrock_check(a))

\* Anthropic lets the httpx.HTTPError through.
anthropic_completion(a) == IF a.what = "http" THEN anthropic_check(a) ELSE Unhandled(a.what)

raised(p, a) ==
    CASE p = "openai"    -> openai_post(a)
      [] p = "compat"    -> compat_post(a)
      [] p = "cohere"    -> cohere_completion(a)
      [] p = "ollama"    -> ollama_completion(a)
      [] p = "gemini"    -> gemini_completion(a)
      [] p = "bedrock"   -> converse(a)
      [] p = "anthropic" -> anthropic_completion(a)

\* A stream looks at the body of a refusal before it is read.
raised_by_stream(p, a) ==
    IF a.what = "http" /\ a.status >= 400 THEN Unhandled("unread") ELSE raised(p, a)

-----------------------------------------------------------------------------
\* A plausible bug: an error without a status is not tried again.
RetryableStatusCodes_no500 == {429, 502, 503, 504}

RetryableStatusCodes == {429, 500, 502, 503, 504}

should_retry(e) ==
    \/ e.class \in {"rate_limit", "unavailable", "timeout", "network"}
    \/ e.class = "provider" /\ e.status \in RetryableStatusCodes

leaves_chain(e) == e.class = "authentication"

\* The deployments of a model share one count, to which other requests add as well.
ErrInit ==
    /\ chain \in Chains /\ stream \in BOOLEAN
    /\ model = 1 /\ attempt = 0 /\ tried = <<>> /\ replied = 0
    /\ fails \in 0..AllowedFails

\* record_failure(): with_retry's attempts blame the deployment for what is tried again, a
\* stream for every error.
blames(e) == IF stream THEN e # NoError ELSE should_retry(e)

Seen(a, e) == tried' = Append(tried, [model |-> model, answer |-> a, blamed |-> blames(e)])

counted(e) == IF e = NoError THEN 0 ELSE IF blames(e) THEN fails + 1 ELSE fails

\* _select_deployment() finds a deployment that is not cooling down.
selects == fails < AllowedFails

Sends(e) == e # NoError /\ ~stream /\ should_retry(e) /\ attempt < MaxRetries

\* The same model once more.
Retry(a) ==
    LET e == raised(chain[model], a)
    IN  /\ replied = 0 /\ selects /\ Sends(e)
        /\ attempt' = attempt + 1
        /\ Seen(a, e) /\ fails' = counted(e)
        /\ UNCHANGED <<chain, stream, model, replied>>

\* The next model of the chain; a stream has no fallbacks.
Fallback(a) ==
    LET e == raised(chain[model], a)
    IN  /\ replied = 0 /\ selects /\ ~stream /\ e # NoError /\ ~Sends(e)
        /\ ~leaves_chain(e) /\ model < Len(chain)
        /\ model' = model + 1 /\ attempt' = 0
        /\ Seen(a, e) /\ fails' \in 0..AllowedFails
        /\ UNCHANGED <<chain, stream, replied>>

\* The answer, or the error, is the client's.  A stream has begun with 200 before its
\* provider is asked, and is cut off by an error.
Reply(a) ==
    LET e == IF stream THEN raised_by_stream(chain[model], a) ELSE raised(chain[model], a)
    IN  /\ replied = 0 /\ selects
        /\ \/ stream \/ e = NoError
           \/ ~Sends(e) /\ (leaves_chain(e) \/ model = Len(chain))
        /\ replied' = IF stream THEN 200 ELSE e.status
        /\ Seen(a, e) /\ fails' = counted(e)
        /\ UNCHANGED <<chain, stream, model, attempt>>

\* Every deployment of the model is cooling down, be it from the attempts of this request:
\* ModelNotFoundError is not tried again and ends the chain.
NotFound ==
    /\ replied = 0 /\ ~selects
    /\ replied' = IF stream THEN 200 ELSE 404
    /\ UNCHANGED <<chain, stream, model, attempt, fails, tried>>

\* Another request fails, or succeeds, at the model, or its cooldown is over.
Elsewhere ==
    /\ replied = 0
    /\ fails' \in {0, fails + 1} \cap 0..AllowedFails
    /\ UNCHANGED <<chain, stream, model, attempt, tried, replied>>

ErrNext ==
    \/ \E a \in Answers : Retry(a) \/ Fallback(a) \/ Reply(a)
    \/ NotFound
    \/ Elsewhere

ErrSpec == ErrInit /\ [][ErrNext]_errorVars

-----------------------------------------------------------------------------
ErrTypeOK ==
    /\ chain \in Chains /\ stream \in BOOLEAN
    /\ model \in DOMAIN chain /\ attempt \in 0..MaxRetries
    /\ fails \in 0..AllowedFails
    /\ \A i \in DOMAIN tried : tried[i].answer \in Answers

\* A fault of the request's: sending it again cannot help, and it is not the deployment's.
AtFault(p, a) ==
    /\ a.what = "http" /\ a.status \in 400..499 /\ a.status # 429
    /\ ~(p = "bedrock" /\ a.type = "TooManyRequestsException")

Passing(p, a) ==
    ~AtFault(p, a) /\ ~(a.what = "http" /\ a.status < 400) /\ ~Unreadable(p, a)

\* An adapter tells the caller's faults from the provider's: a request that was refused as
\* wrong is not tried to the same model again, and the deployment's circuit breaker does
\* not count it, whatever came before (providers/openai_compat.py:186).  Anthropic's
\* adapter fails both (providers/anthropic/provider.py:275).
FaultsTold ==
    \A i \in DOMAIN tried :
        LET p == chain[tried[i].model]
        IN  ~stream /\ p # "anthropic" /\ AtFault(p, tried[i].answer) =>
              /\ ~tried[i].blamed
              /\ \A j \in DOMAIN tried : tried[j].model = tried[i].model => j <= i

\* No adapter gives up early: when a request for a whole answer fails without any
\* provider finding fault with it, every model of the chain was asked, each as often as
\* the policy allows (router/retry.py:69), but for the one that was cooling down when the
\* chain ended and those after it.  Anthropic's adapter gives up when the connection is
\* cut, and an adapter that cannot read a refusal gives up too.
AllTried ==
    LET reached == IF replied = 404 THEN 1..(model - 1) ELSE DOMAIN chain
    IN  (~stream /\ replied >= 400
         /\ \A i \in DOMAIN tried : Passing(chain[tried[i].model], tried[i].answer))
        => \A m \in reached :
             (\E i \in DOMAIN tried : tried[i].model = m /\ chain[m] = "anthropic"
                                     /\ tried[i].answer.what = "protocol")
             \/ Cardinality({i \in DOMAIN tried : tried[i].model = m}) = MaxRetries + 1

\* "Raise the appropriate RouterBot exception for HTTP error codes"
\* (providers/openai_compat.py:187).  Does not hold: see Unreadable.  The client is told of
\* a failure of RouterBot's own, a 503 is not tried again, and after a 401 the chain goes on.
ErrorsTranslated ==
    \A i \in DOMAIN tried :
        LET a == tried[i].answer
        IN  a.what = "http" /\ a.status >= 400 =>
              raised(chain[tried[i].model], a).class \in
                {"authentication", "rate_limit", "unavailable", "provider"}

-----------------------------------------------------------------------------
(* The transform pipeline of core/transform runs its hooks in the order of  *)
(* registration (prompt injector, then enricher), each of them changes the  *)
(* message list in place, and a hook that fails leaves what it has done so  *)
(* far.  A message is [role, from, n]: from is the hook that put it there,  *)
(* or "client".  The scope filters of templates and sources are applied     *)
(* before: a configuration lists those that match.                          *)

CONSTANTS
  Requests,       \* message lists as sequences of roles
  Templates,      \* sequences of positions, by descending priority
  Sources         \* sequences of positions of the enrichment sources

Turns     == [role : {"user", "assistant", "tool"}, from : {"client"}, n : Nat]
Preambles == [role : {"system"}, from : {"client", "injector", "enricher"}, n : Nat]

ASSUME TransformAssumption ==
  /\ Requests \subseteq Seq({"system", "user", "assistant", "tool"})
  /\ Templates \subseteq Seq({"prepend", "append", "replace"})
  /\ Sources \subseteq Seq({"prepend", "append"})

VARIABLES request, messages, todo, broken

tpVars == <<request, messages, todo, broken>>

(* What of a sequence is in a set, in order.                               *)
Only(s, S) ==
  LET upto[i \in 0..Len(s)] ==
        IF i = 0 THEN <<>> ELSE IF s[i] \in S THEN Append(upto[i - 1], s[i]) ELSE upto[i - 1]
  IN  upto[Len(s)]

AsSent(roles) == [i \in DOMAIN roles |-> [role |-> roles[i], from |-> "client", n |-> i]]

Steps(hook, positions) == [i \in DOMAIN positions |-> [hook |-> hook, position |-> positions[i]]]

TpInit ==
  /\ \E roles \in Requests : request = AsSent(roles)
  /\ messages = request
  /\ \E ts \in Templates, ss \in Sources : todo = Steps("injector", ts) \o Steps("enricher", ss)
  /\ broken = {}

System(step) == [role |-> "system", from |-> step.hook, n |-> Len(todo)]

last_system_index_end(ms) == Len(ms)
last_system_index(ms) == Max({0} \cup {i \in DOMAIN ms : ms[i].role = "system"})

WithoutSystem_last(ms) == IF ms = <<>> THEN ms ELSE <<Last(ms)>>
WithoutSystem(ms) == Only(ms, Turns)

(* An empty list is left alone by the injector, not by the enricher.       *)
inject(ms, step) ==
  IF ms = <<>> THEN ms
  ELSE CASE step.position = "prepend" -> <<System(step)>> \o ms
         [] step.position = "append"  -> InsertAt(ms, last_system_index(ms) + 1, System(step))
         [] step.position = "replace" -> <<System(step)>> \o WithoutSystem(ms)

enrich(ms, step) ==
  IF step.position = "prepend" THEN <<System(step)>> \o ms ELSE Append(ms, System(step))

ApplyStep ==
  /\ todo # <<>>
  /\ LET step == Head(todo)
     IN  messages' = IF step.hook \in broken THEN messages
                     ELSE IF step.hook = "injector" THEN inject(messages, step) ELSE enrich(messages, step)
  /\ todo' = Tail(todo)
  /\ UNCHANGED <<request, broken>>

(* An exception ends the hook's own steps; the pipeline goes on.           *)
HookFails ==
  /\ todo # <<>> /\ Head(todo).hook \notin broken
  /\ broken' = broken \union {Head(todo).hook}
  /\ UNCHANGED <<request, messages, todo>>

TpSpec == TpInit /\ [][ApplyStep \/ HookFails]_tpVars

TpTypeOK ==
  /\ request \in Seq(Turns \cup Preambles) /\ messages \in Seq(Turns \cup Preambles)
  /\ broken \subseteq {"injector", "enricher"}

(* The conversation is never touched: what is not a system message arrives  *)
(* complete and in order, whichever templates replace, append or fail       *)
(* half-way (prompt_injector.py:71-96, enricher.py:65-84).                  *)
ConversationKept == Only(request, Turns) = Only(messages, Turns)

(* System messages stay in front of the conversation, as they were sent,    *)
(* unless an enrichment source appends: a template never lands between two  *)
(* turns (prompt_injector.py:80-83).                                        *)
SystemFirst ==
  LET leading(ms) == \A i, j \in DOMAIN ms : i < j /\ ms[j].role = "system" => ms[i].role = "system"
  IN  leading(request) /\ (\A i \in DOMAIN messages : messages[i].from # "enricher" ) => leading(messages)

-----------------------------------------------------------------------------
(***************************************************************************)
(* What the provider adapters make of a conversation and of its answer: the *)
(* translation of the messages to the provider's format, the translation   *)
(* of a whole answer, and the translation of a stream, event by event, that *)
(* must add up to the same answer (providers/{anthropic,bedrock,gemini,     *)
(* ollama,cohere}/transform.py and the generators of their provider.py).   *)
(* An answer is a sequence of blocks; the text or the arguments of a block *)
(* arrive in fragments, and Gemini may pack those of a text into one chunk, *)
(* as its parts.  The events themselves are the providers' (external) and   *)
(* the client joins the chunks as OpenAI's protocol has it (external).      *)
(***************************************************************************)

CONSTANTS
  Conversations,  \* sequences of Chats
  Replies         \* answers: [blocks : sequences of Blocks, stop]

Chats  == [role : {"system", "user", "assistant", "tool"}, text : STRING,
           calls : Seq([id : STRING, name : STRING]), answers : STRING]
Blocks == [kind : {"text", "tool"}, name : STRING, fragments : Seq(STRING), packed : BOOLEAN]

(* Only the assistant calls, as OpenAI's protocol has it.                  *)
ASSUME ConversationAssumption ==
  /\ Conversations \subseteq Seq({c \in Chats : c.role # "assistant" => c.calls = <<>>})
  /\ Replies \subseteq [blocks : Seq(Blocks), stop : STRING]

VARIABLES
  adapter,      \* the provider
  conversation, \* what the client asked
  reply,        \* the provider's answer
  events,       \* the events of the stream not translated yet
  decoder,      \* the adapter's state of the stream: open tool calls, finish
  streamed      \* what the client has put together

psVars == <<adapter, conversation, reply, events, decoder, streamed>>

Adapters == {"anthropic", "bedrock", "gemini", "ollama", "cohere"}
Silent == "none"                        \* no finish reason
NoChunk == [text |-> <<>>, calls |-> <<>>, finish |-> Silent]
EmptyDecoder == [tools |-> {}, finish |-> Silent, next |-> 0]

-----------------------------------------------------------------------------
(* The request.  Parts are <<"text", t>>, <<"call", id, name>> and          *)
(* <<"result", reference>>; system messages travel apart.                  *)
text_parts(m) == IF m.text = "" THEN <<>> ELSE <<<<"text", m.text>>>>

call_parts(m) == [i \in DOMAIN m.calls |-> <<"call", m.calls[i].id, m.calls[i].name>>]

(* Anthropic keeps an empty content, Bedrock sends an empty text, Gemini   *)
(* drops the message.                                                      *)
anthropic_message(m) ==
  CASE m.role = "tool" -> [role |-> "user", parts |-> <<<<"result", m.answers>>>>]
    [] m.role = "assistant" /\ m.calls # <<>> ->
         [role |-> "assistant", parts |-> text_parts(m) \o call_parts(m)]
    [] OTHER -> [role |-> IF m.role = "user" THEN "user" ELSE "assistant",
                 parts |-> <<<<"text", m.text>>>>]

build_content_blocks(m) ==
  LET blocks == text_parts(m) \o call_parts(m)
  IN  IF blocks = <<>> THEN <<<<"text", "">>>> ELSE blocks

converse_message(m) ==
  IF m.role = "tool" THEN [role |-> "user", parts |-> <<<<"result", m.answers>>>>]
  ELSE [role |-> IF m.role = "user" THEN "user" ELSE "assistant",
        parts |-> build_content_blocks(m)]

gemini_content(m) ==
  IF m.role = "tool" THEN [role |-> "user", parts |-> <<<<"result", m.answers>>>>]
  ELSE [role |-> IF m.role = "assistant" THEN "assistant" ELSE "user",
        parts |-> text_parts(m) \o call_parts(m)]

(* Ollama is sent the texts, whoever spoke: neither the calls nor what they *)
(* answer.  Cohere is sent the messages as they are.                       *)
ollama_message(m) == [role |-> m.role, parts |-> <<<<"text", m.text>>>>]

openai_message(m) == [role |-> m.role, parts |-> gemini_content(m).parts]

Spoken_without_tools(ms) == Only(ms, {m \in Chats : m.role \notin {"system", "tool"}})

Spoken(ms) == Only(ms, {m \in Chats : m.role # "system"})

(* The conversation that the provider is sent.                             *)
sent(p, ms) ==
  LET spoken   == Spoken(ms)
      contents == [i \in DOMAIN spoken |-> gemini_content(spoken[i])]
  IN  CASE p = "anthropic" -> [i \in DOMAIN spoken |-> anthropic_message(spoken[i])]
        [] p = "bedrock" -> [i \in DOMAIN spoken |-> converse_message(spoken[i])]
        [] p = "ollama" -> [i \in DOMAIN ms |-> ollama_message(ms[i])]
        [] p = "cohere" -> [i \in DOMAIN ms |-> openai_message(ms[i])]
        [] OTHER -> Only(contents, {c \in Range(contents) : c.parts # <<>>})

-----------------------------------------------------------------------------
(* The whole answer: all the text, all the calls.                          *)
OfKind(blocks, kind) == Only(blocks, {b \in Blocks : b.kind = kind})

anthropic_response(r) ==
  [text  |-> FlattenSeq([i \in DOMAIN OfKind(r.blocks, "text") |->
                           OfKind(r.blocks, "text")[i].fragments]),
   calls |-> [i \in DOMAIN OfKind(r.blocks, "tool") |->
                [name |-> OfKind(r.blocks, "tool")[i].name,
                 args |-> OfKind(r.blocks, "tool")[i].fragments]],
   finish |-> r.stop]

converse_response(r) == anthropic_response(r)

(* Gemini and Ollama report a call as an ordinary stop, Cohere may.  Gemini *)
(* and Cohere set it right when there are calls.                           *)
said_stop(reason) == IF reason = "tool_calls" THEN "stop" ELSE reason

gemini_response(r) ==
  LET a == anthropic_response(r)
  IN  [a EXCEPT !.finish = IF a.calls # <<>> /\ said_stop(@) = "stop" THEN "tool_calls"
                           ELSE said_stop(@)]

ollama_response(r) == [anthropic_response(r) EXCEPT !.finish = said_stop(@)]

cohere_response(r) ==
  LET a == anthropic_response(r)
  IN  [a EXCEPT !.finish = IF a.calls # <<>> THEN "tool_calls" ELSE @]

response_to_openai(p, r) ==
  CASE p = "anthropic" -> anthropic_response(r)
    [] p = "bedrock"   -> converse_response(r)
    [] p = "gemini"    -> gemini_response(r)
    [] p = "ollama"    -> ollama_response(r)
    [] OTHER           -> cohere_response(r)

(* What the providers send for it.                                         *)
BlockEvents(b, i) ==
  <<[type |-> "block_start", kind |-> b.kind, index |-> i, name |-> b.name]>> \o
  [k \in DOMAIN b.fragments |->
     [type |-> "delta", kind |-> b.kind, index |-> i, fragment |-> b.fragments[k]]]

WholeCall(b) == <<[type |-> "call", name |-> b.name, args |-> b.fragments]>>
TextDeltas(b) == [k \in DOMAIN b.fragments |-> [type |-> "text", parts |-> <<b.fragments[k]>>]]
OneChunk(b) == <<[type |-> "text", parts |-> b.fragments]>>

EventsOf(p, b, i) ==
  IF p \in {"anthropic", "bedrock"} THEN BlockEvents(b, i)
  ELSE IF b.kind = "tool" THEN WholeCall(b)
  ELSE IF p = "gemini" /\ b.packed /\ b.fragments # <<>> THEN OneChunk(b) ELSE TextDeltas(b)

wire(p, r) ==
  FlattenSeq([i \in DOMAIN r.blocks |-> EventsOf(p, r.blocks[i], i)])
  \o <<[type |-> "stop", reason |-> r.stop]>>

-----------------------------------------------------------------------------
(* The streams.  Each translator gives the chunk for an event, with emit   *)
(* FALSE when there is none, and the adapter's state after it.             *)
Nothing_emitted(d) == [emit |-> FALSE, chunk |-> NoChunk, decoder |-> d]
Emitted(c, d) == [emit |-> TRUE, chunk |-> c, decoder |-> d]

(* Anthropic and Bedrock: a call is named when its block starts and        *)
(* repeated with every fragment of its arguments; the finish reason is     *)
(* kept for the chunks that follow, and none follows.                      *)
ToolChunk_accumulated(d, e, tool) ==
  Emitted([NoChunk EXCEPT !.calls = <<[index |-> e.index, name |-> tool.name,
                                       args |-> Append(tool.args, e.fragment)]>>,
                          !.finish = d.finish],
          [d EXCEPT !.tools = (@ \ {tool}) \cup {[tool EXCEPT !.args = Append(@, e.fragment)]}])

ToolChunk(d, e, tool) ==
  Emitted([NoChunk EXCEPT !.calls = <<[index |-> e.index, name |-> tool.name,
                                       args |-> <<e.fragment>>]>>, !.finish = d.finish],
          [d EXCEPT !.tools = (@ \ {tool}) \cup {[tool EXCEPT !.args = Append(@, e.fragment)]}])

blockwise_event(d, e) ==
  CASE e.type = "block_start" /\ e.kind = "tool" ->
         Nothing_emitted([d EXCEPT !.tools =
           @ \cup {[index |-> e.index, name |-> e.name, args |-> <<>>]}])
    [] e.type = "delta" /\ e.kind = "text" ->
         Emitted([NoChunk EXCEPT !.text = <<e.fragment>>, !.finish = d.finish], d)
    [] e.type = "delta" /\ e.kind = "tool" ->
         ToolChunk(d, e, CHOOSE t \in d.tools : t.index = e.index)
    [] e.type = "stop" -> Nothing_emitted([d EXCEPT !.finish = e.reason])
    [] OTHER -> Nothing_emitted(d)

(* Gemini: calls come whole and are numbered in the order they come; the   *)
(* finish reason is "tool_calls" only in a chunk that has a call.  Of the   *)
(* texts in one chunk each takes the place of the one before.              *)
gemini_event(d, e) ==
  CASE e.type = "text" -> Emitted([NoChunk EXCEPT !.text = <<Last(e.parts)>>], d)
    [] e.type = "call" ->
         Emitted([NoChunk EXCEPT !.calls = <<[index |-> d.next, name |-> e.name, args |-> e.args]>>],
                 [d EXCEPT !.next = @ + 1])
    [] OTHER -> Emitted([NoChunk EXCEPT !.finish = said_stop(e.reason)], d)

(* Ollama: a line for every fragment, calls are left out.                  *)
ollama_event(d, e) ==
  CASE e.type = "text" -> Emitted([NoChunk EXCEPT !.text = e.parts], d)
    [] e.type = "call" -> Emitted(NoChunk, d)
    [] OTHER -> Emitted([NoChunk EXCEPT !.finish = said_stop(e.reason)], d)

(* Cohere: calls are left out, and so are the chunks for them.             *)
cohere_event(d, e) ==
  CASE e.type = "text" -> Emitted([NoChunk EXCEPT !.text = e.parts], d)
    [] e.type = "call" -> Nothing_emitted(d)
    [] OTHER -> Emitted([NoChunk EXCEPT !.finish = e.reason], d)

translate(p, d, e) ==
  CASE p \in {"anthropic", "bedrock"} -> blockwise_event(d, e)
    [] p = "gemini" -> gemini_event(d, e)
    [] p = "ollama" -> ollama_event(d, e)
    [] OTHER -> cohere_event(d, e)

(* A client appends the text, and the arguments to the call of their index. *)
JoinCall(calls, c) ==
  IF \E i \in DOMAIN calls : calls[i].index = c.index
  THEN [i \in DOMAIN calls |-> IF calls[i].index = c.index
                               THEN [calls[i] EXCEPT !.args = @ \o c.args] ELSE calls[i]]
  ELSE Append(calls, c)

Joined(s, c) ==
  [text |-> s.text \o c.text,
   calls |-> IF c.calls = <<>> THEN s.calls ELSE JoinCall(s.calls, c.calls[1]),
   finish |-> IF c.finish = Silent THEN s.finish ELSE c.finish]

PsInit ==
  /\ adapter \in Adapters /\ conversation \in Conversations /\ reply \in Replies
  /\ events = wire(adapter, reply)
  /\ decoder = EmptyDecoder
  /\ streamed = NoChunk

NextEvent ==
  /\ events # <<>>
  /\ events' = Tail(events)
  /\ LET step == translate(adapter, decoder, Head(events))
     IN  /\ decoder' = step.decoder
         /\ streamed' = IF step.emit THEN Joined(streamed, step.chunk) ELSE streamed
  /\ UNCHANGED <<adapter, conversation, reply>>

PsNext == NextEvent

PsSpec == PsInit /\ [][PsNext]_psVars

-----------------------------------------------------------------------------
PsTypeOK ==
  /\ adapter \in Adapters /\ decoder.next \in Nat
  /\ \A t \in decoder.tools : t.index \in DOMAIN reply.blocks
  /\ DOMAIN streamed = {"text", "calls", "finish"}

(* Streamed text is the text of the whole answer: nothing lost, doubled or  *)
(* moved, unless Gemini packs texts into one chunk.  Calls that carry       *)
(* arguments come with exactly those arguments, in order, from the adapters *)
(* that stream calls at all.  The end of a stream without calls, when it is *)
(* told, is that of the whole answer.                                       *)
StreamAddsUp ==
  events = <<>> =>
    LET whole == response_to_openai(adapter, reply)
        told  == [i \in DOMAIN streamed.calls |->
                    [name |-> streamed.calls[i].name, args |-> streamed.calls[i].args]]
    IN  /\ (adapter = "gemini" => \A i \in DOMAIN reply.blocks : ~reply.blocks[i].packed) =>
             streamed.text = whole.text
        /\ whole.calls = <<>> => streamed.finish \in {Silent, whole.finish}
        /\ adapter \in {"anthropic", "bedrock", "gemini"} =>
             told = Only(whole.calls, {c \in Range(whole.calls) : adapter = "gemini" \/ c.args # <<>>})

(* A chunk of a stream is the provider's "to an OpenAI-format chunk"        *)
(* (gemini/transform.py:307), whatever parts it has.  Does not hold: a part *)
(* of text overwrites the one before it in the same chunk (330-332), where  *)
(* the whole answer joins them (247, 261).                                  *)
StreamedWhole == events = <<>> => streamed.text = response_to_openai(adapter, reply).text

(* Every call and every result of the conversation reaches the provider,   *)
(* in the client's order, and a result comes after the call it answers.     *)
(* Ollama is sent none of either (ollama/provider.py:109-117).              *)
ToolTrafficKept ==
  LET out == FlattenSeq([i \in DOMAIN sent(adapter, conversation) |->
                           sent(adapter, conversation)[i].parts])
      In(m) == IF m.role = "tool" THEN <<<<"result", m.answers>>>> ELSE call_parts(m)
      asked == FlattenSeq([i \in DOMAIN conversation |-> In(conversation[i])])
  IN  adapter # "ollama" =>
        Only(out, {part \in Range(out) : part[1] # "text"}) = asked

(* The client of a stream learns why the answer ended ("finish_reason" of   *)
(* the last chunk).  Does not hold: the event that carries the reason is    *)
(* translated to no chunk (anthropic/transform.py:333-344).                *)
FinishReported == events = <<>> => streamed.finish # Silent
=============================================================================
