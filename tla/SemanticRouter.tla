---------------------------- MODULE SemanticRouter ----------------------------
(***************************************************************************)
(* Semantic routing (core/semantic/classifier.py): a request's model is     *)
(* chosen by a pattern, an A/B test or the intent of its text.  What the    *)
(* keywords do not tell, the classifier model is asked, through this very   *)
(* proxy: the question is a request like any other, and routed again.       *)
(* A text is what it is based on and how many questions it is wrapped in.   *)
(***************************************************************************)
EXTENDS Integers, Sequences, SequencesExt, FiniteSets

CONSTANTS
  Settings,     \* configurations, see SrInit
  SrInputs,     \* client requests: [text, model, session]
  KeyOf,        \* text -> what its first 500 characters stand for
  IntentOf,     \* text -> the intent its keywords tell, or "none"
  PatternOf,    \* text -> the model a pattern rule routes it to, or "none"
  MaxCacheSize, \* MAX_CACHE_SIZE
  MaxCalls      \* bound on the requests

Sessions  == {i.session : i \in SrInputs}
Bases     == {i.text.base : i \in SrInputs}
Texts     == [base : Bases, wraps : Nat]

\* What may be asked for is text, a test has two variants, and the cache has room.
ASSUME SrAssumption ==
    /\ MaxCacheSize \in Nat \ {0} /\ MaxCalls \in Nat
    /\ \A i \in SrInputs : i.text \in Texts
    /\ \A s \in Settings : s.test = <<>> \/ DOMAIN s.test = {1, 2}

VARIABLES
  setting,  \* rules: intent -> model; default, classifier: model or "none";
            \* test: the models of an A/B test; caches: cache_classifications
  bucket,   \* session -> the place in the test its hash falls on
  srCache,  \* _cache, oldest first: [key, intent]
  srCalls,  \* requests in order of arrival: [text, model, session, asker, state, to, intent]
  learnt    \* requests whose answer of the classifier was cached

srVars == <<setting, bucket, srCache, srCalls, learnt>>

Client    == 0
NoSession == "none"

SrInit ==
  /\ setting \in Settings
  /\ bucket \in [Sessions -> {1, 2}]
  /\ srCache = <<>> /\ srCalls = <<>> /\ learnt = {}

Plain(base)  == [base |-> base, wraps |-> 0]
prompt(text) == [text EXCEPT !.wraps = @ + 1]
Question(text) == text.wraps > 0

_make_cache_key(text) == <<KeyOf[text.base], text.wraps>>

(* The intents the question lists; without rules, all the built-in ones.    *)
available_intents ==
  IF DOMAIN setting.rules = {} THEN {"math", "translation"} ELSE DOMAIN setting.rules

(* The keywords read the list of intents in a question as well, and one of  *)
(* the intents is a keyword of its own.                                    *)
keywords(text) ==
  IF ~Question(text) THEN IntentOf[text.base]
  ELSE IF "translation" \in available_intents THEN "translation" ELSE "none"

cached(text) == {e \in Range(srCache) : setting.caches /\ e.key = _make_cache_key(text)}

known(text) ==
  IF cached(text) # {} THEN (CHOOSE e \in cached(text) : TRUE).intent ELSE keywords(text)

Entry(text, intent) == [key |-> _make_cache_key(text), intent |-> intent]

(* A plausible bug: the oldest entry is not dropped.                        *)
remember_all(text) ==
  IF ~setting.caches \/ cached(text) # {} \/ keywords(text) = "none" THEN srCache
  ELSE Append(srCache, Entry(text, keywords(text)))

(* classify_local() makes room before it stores.                            *)
remember(text) ==
  IF ~setting.caches \/ cached(text) # {} \/ keywords(text) = "none" THEN srCache
  ELSE Append(IF Len(srCache) >= MaxCacheSize THEN Tail(srCache) ELSE srCache,
              Entry(text, keywords(text)))

(* _match_pattern(): no rule of the model is written for questions.         *)
_match_pattern(text) == IF Question(text) THEN "none" ELSE PatternOf[text.base]

(* The variants a request for a model of the test may get; without a        *)
(* session, either.                                                        *)
_resolve_ab_test(model, session) ==
  IF model \notin Range(setting.test) THEN {model}
  ELSE IF session = NoSession THEN Range(setting.test) ELSE {setting.test[bucket[session]]}

by_intent(intent, model) ==
  CASE intent \in DOMAIN setting.rules -> setting.rules[intent]
    [] intent \notin DOMAIN setting.rules /\ setting.default # "none" -> setting.default
    [] OTHER -> model

Call(i, asker, state, to, intent) ==
  [text |-> i.text, model |-> i.model, session |-> i.session, asker |-> asker,
   state |-> state, to |-> to, intent |-> intent]

(* A plausible bug: the test is asked before the patterns.                  *)
route_test_first(i, asker) ==
  \E variant \in _resolve_ab_test(i.model, i.session) :
    LET intent  == known(i.text)
        settled == _match_pattern(i.text) # "none" \/ variant # i.model
    IN  /\ srCache' = IF settled THEN srCache ELSE remember(i.text)
        /\ srCalls' = Append(srCalls,
             CASE variant # i.model -> Call(i, asker, "routed", variant, "none")
               [] variant = i.model /\ settled ->
                    Call(i, asker, "routed", _match_pattern(i.text), "none")
               [] ~settled /\ intent # "none" ->
                    Call(i, asker, "routed", by_intent(intent, i.model), intent)
               [] OTHER -> IF setting.classifier = "none"
                  THEN Call(i, asker, "routed", by_intent("general", i.model), "general")
                  ELSE Call(i, asker, "asking", "none", "none"))

(* route() of an arriving request, up to the question to the classifier.    *)
route(i, asker) ==
  \E variant \in _resolve_ab_test(i.model, i.session) :
    LET pattern == _match_pattern(i.text)
        intent  == known(i.text)
        settled == pattern # "none" \/ variant # i.model
    IN  /\ srCache' = IF settled THEN srCache ELSE remember(i.text)
        /\ srCalls' = Append(srCalls,
             CASE pattern # "none" -> Call(i, asker, "routed", pattern, "none")
               [] pattern = "none" /\ settled -> Call(i, asker, "routed", variant, "none")
               [] ~settled /\ intent # "none" ->
                    Call(i, asker, "routed", by_intent(intent, i.model), intent)
               [] OTHER -> IF setting.classifier = "none"
                  THEN Call(i, asker, "routed", by_intent("general", i.model), "general")
                  ELSE Call(i, asker, "asking", "none", "none"))

Asking(c) == c \in DOMAIN srCalls /\ srCalls[c].state = "asking"

Receive(i) ==
  /\ Len(srCalls) < MaxCalls
  /\ route(i, Client)
  /\ UNCHANGED <<setting, bucket, learnt>>

(* _classify_with_llm(): the question arrives at the proxy, with no key.    *)
Loopback(c) ==
  /\ Asking(c) /\ Len(srCalls) < MaxCalls
  /\ \A d \in DOMAIN srCalls : srCalls[d].asker # c
  /\ route([text |-> prompt(srCalls[c].text), model |-> setting.classifier,
            session |-> NoSession], c)
  /\ UNCHANGED <<setting, bucket, learnt>>

Routed(calls, c, intent) ==
  [calls EXCEPT ![c].state = "routed", ![c].intent = intent,
                ![c].to = by_intent(intent, calls[c].model)]

(* A plausible bug: an answer is stored under the question's text.           *)
learn_question(d, intent) ==
  SelectSeq(srCache, LAMBDA e : e.key # _make_cache_key(srCalls[d].text))
    \o <<Entry(srCalls[d].text, intent)>>

(* The answer is stored under the text that was asked about, without making *)
(* room; an entry that exists keeps its place.                             *)
learn(d, intent) ==
  LET text == srCalls[srCalls[d].asker].text
  IN  IF cached(text) = {} THEN Append(srCache, Entry(text, intent))
      ELSE [k \in DOMAIN srCache |->
              IF srCache[k].key = _make_cache_key(text) THEN Entry(text, intent) ELSE srCache[k]]

(* The question is answered by the model it was routed to.                  *)
QuestionAnswered(d, said) ==
  /\ srCalls[d].state = "routed" /\ srCalls[d].asker # Client
  /\ LET c     == srCalls[d].asker
         calls == [srCalls EXCEPT ![d].state = "answered"]
     IN  IF ~Asking(c) THEN srCalls' = calls /\ UNCHANGED <<srCache, learnt>>
         ELSE IF said \in available_intents
         THEN /\ srCalls' = Routed(calls, c, said)
              /\ srCache' = IF setting.caches THEN learn(d, said) ELSE srCache
              /\ learnt' = IF setting.caches THEN learnt \cup {c} ELSE learnt
         ELSE srCalls' = Routed(calls, c, "general") /\ UNCHANGED <<srCache, learnt>>
  /\ UNCHANGED <<setting, bucket>>

(* A plausible bug: the exception ends the request.                         *)
AskFails_raises(c) ==
  /\ Asking(c)
  /\ srCalls' = [srCalls EXCEPT ![c].state = "failed"]
  /\ UNCHANGED <<setting, bucket, srCache, learnt>>

(* classification_timeout, or an error: nobody tells the question.          *)
AskFails(c) ==
  /\ Asking(c)
  /\ srCalls' = Routed(srCalls, c, "general")
  /\ UNCHANGED <<setting, bucket, srCache, learnt>>

SrNext ==
  \/ \E i \in SrInputs : Receive(i)
  \/ \E c \in DOMAIN srCalls :
       \/ Loopback(c) \/ AskFails(c)
       \/ \E said \in available_intents \cup {"chatter"} : QuestionAnswered(c, said)

(* httpx's timeout ends every question.                                     *)
SrSpec == SrInit /\ [][SrNext]_srVars /\ \A c \in 1..MaxCalls : WF_srVars(AskFails(c))

-----------------------------------------------------------------------------
SrTypeOK ==
  /\ setting \in Settings
  /\ \A c \in DOMAIN srCalls :
       srCalls[c].state \in {"asking", "routed", "answered"} /\ srCalls[c].asker < c
  /\ Cardinality({e.key : e \in Range(srCache)}) = Len(srCache)

Decided(c) == c \in DOMAIN srCalls /\ srCalls[c].state \in {"routed", "answered"}

(* Every request is routed in the end, whether or not the classifier        *)
(* answers, and however many questions about questions it has caused        *)
(* (classifier.py:152).                                                    *)
CallsRouted == \A c \in 1..MaxCalls : Asking(c) ~> Decided(c)

(* The order of the rules (classifier.py:218): a pattern wins over the test *)
(* and the test over the intent; a caller with a session who asks for a     *)
(* model under test gets it or its variant, as his hash says, unless a      *)
(* pattern matches or the variant is what he asked for.                    *)
RoutedJustly ==
  \A c \in DOMAIN srCalls : Decided(c) =>
    LET r == srCalls[c]
    IN  /\ _match_pattern(r.text) # "none" => r.to = _match_pattern(r.text)
        /\ (_match_pattern(r.text) = "none" /\ r.model \in Range(setting.test)
            /\ r.session # NoSession) =>
             r.to = setting.test[bucket[r.session]] \/ setting.test[bucket[r.session]] = r.model
        /\ r.intent # "none" => r.to = by_intent(r.intent, r.model)

(* An intent in the cache comes from the keywords of a text with the same   *)
(* beginning, or from the classifier's answer about such a text             *)
(* (classifier.py:200): what is learnt about one text, through whatever     *)
(* questions about questions, is not believed of another.                   *)
IntentsExplained ==
  \A k \in DOMAIN srCache :
    LET e == srCache[k]
    IN  e.key \in {_make_cache_key(srCalls[c].text) : c \in learnt}
        \/ \E c \in DOMAIN srCalls :
             _make_cache_key(srCalls[c].text) = e.key /\ keywords(srCalls[c].text) = e.intent

(* MAX_CACHE_SIZE "bounds the classification cache - without a limit, a     *)
(* long-running process classifying diverse prompts leaks memory            *)
(* indefinitely" (classifier.py:85-86).  Does not hold: the answers of the  *)
(* classifier are stored without a look at the limit (199-201), and what    *)
(* keywords store later drops one entry for each, so it stays outgrown.     *)
CacheBounded == Len(srCache) <= MaxCacheSize

(* The keywords keep to the limit: what the cache holds above it, the       *)
(* classifier has taught, an entry for each of its answers at most.         *)
OnlyAnswersOutgrow == Len(srCache) - MaxCacheSize <= Cardinality(learnt)
=============================================================================
