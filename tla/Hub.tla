--------------------------------- MODULE Hub ---------------------------------
(* The hub: prompts with versions, and the playground.                      *)
EXTENDS Integers, Sequences, FiniteSets, SequencesExt

(***************************************************************************)
(* The prompt manager of hub/prompt_manager.py: templates with versions,    *)
(* A/B tests between two versions and usage analytics, four dictionaries    *)
(* that refer to one another by id.  Ids are fresh, so the creation of a    *)
(* template uses the next id.  Contents are the names of the variables they *)
(* mention.                                                                 *)
(***************************************************************************)

CONSTANTS Contents, MaxTemplates, MaxVersions, MaxCreated, MaxTests, MaxUses

ASSUME PhAssumption == MaxVersions \in Nat \ {0} /\ MaxCreated \in Nat

VARIABLES templates, versions, abTests, uses, created

phVars == <<templates, versions, abTests, uses, created>>

TemplateIds == 1..MaxCreated
Missing == [version |-> 0, content |-> {}, status |-> "missing"]

PhInit ==
  /\ templates = [t \in TemplateIds |-> Missing]
  /\ versions = [t \in TemplateIds |-> <<>>]
  /\ abTests = {}
  /\ uses = [t \in TemplateIds |-> [v \in 1..MaxVersions |-> [total |-> 0, good |-> 0]]]
  /\ created = 0

Stored(t) == templates[t] # Missing

CreateTemplate ==
  /\ created < MaxCreated
  /\ Cardinality({t \in TemplateIds : Stored(t)}) < MaxTemplates
  /\ created' = created + 1
  /\ \E c \in Contents :
       /\ templates' = [templates EXCEPT ![created'] = [version |-> 1, content |-> c, status |-> "draft"]]
       /\ versions' = [versions EXCEPT ![created'] = <<c>>]
  /\ UNCHANGED <<abTests, uses>>

UpdateTemplate_inplace(t) ==
  /\ Stored(t) /\ templates[t].version < MaxVersions
  /\ \E c \in Contents :
       /\ templates' = [templates EXCEPT ![t].content = c, ![t].version = @ + 1]
       /\ versions' = [versions EXCEPT ![t] = Append([i \in DOMAIN @ |-> c], c)]
  /\ UNCHANGED <<abTests, uses, created>>

UpdateTemplate(t) ==
  /\ Stored(t) /\ templates[t].version < MaxVersions
  /\ \E c \in Contents :
       /\ templates' = [templates EXCEPT ![t].content = c, ![t].version = @ + 1]
       /\ versions' = [versions EXCEPT ![t] = Append(@, c)]
  /\ UNCHANGED <<abTests, uses, created>>

SetStatus(t) ==
  /\ Stored(t)
  /\ \E s \in {"active", "archived"} : templates' = [templates EXCEPT ![t].status = s]
  /\ UNCHANGED <<versions, abTests, uses, created>>

(* The versions and the analytics go; the A/B tests of the template stay.  *)
DeleteTemplate_versions(t) ==
  /\ Stored(t)
  /\ templates' = [templates EXCEPT ![t] = Missing]
  /\ uses' = [uses EXCEPT ![t] = [v \in 1..MaxVersions |-> [total |-> 0, good |-> 0]]]
  /\ UNCHANGED <<versions, abTests, created>>

DeleteTemplate(t) ==
  /\ Stored(t)
  /\ templates' = [templates EXCEPT ![t] = Missing]
  /\ versions' = [versions EXCEPT ![t] = <<>>]
  /\ uses' = [uses EXCEPT ![t] = [v \in 1..MaxVersions |-> [total |-> 0, good |-> 0]]]
  /\ UNCHANGED <<abTests, created>>

(* Neither version has to exist.                                           *)
CreateAbTest(t) ==
  /\ Stored(t) /\ Cardinality(abTests) < MaxTests
  /\ \E a, b \in 1..MaxVersions : abTests' = abTests \union {[template |-> t, a |-> a, b |-> b]}
  /\ UNCHANGED <<templates, versions, uses, created>>

(* Rendering substitutes the variables of the version, or of the current   *)
(* content when no version is given; "error" where the version or the      *)
(* template is missing.  Given is the set of variables with a value.       *)
Render(content, given) == IF content \subseteq given THEN <<"text", content>> ELSE <<"error", {}>>

render(t, given) == IF Stored(t) THEN Render(templates[t].content, given) ELSE <<"error", {}>>
render_version(t, v, given) ==
  IF v \in DOMAIN versions[t] THEN Render(versions[t][v], given) ELSE <<"error", {}>>

(* pick_ab_variant and the usage the caller records for the version: an    *)
(* analytics entry is created when there is none, even for a template that *)
(* has been deleted.                                                       *)
UseVariant ==
  \E test \in abTests, good \in {0, 1} : \E v \in {test.a, test.b} :
    /\ uses[test.template][v].total < MaxUses
    /\ uses' = [uses EXCEPT ![test.template][v] = [total |-> @.total + 1, good |-> @.good + good]]
    /\ UNCHANGED <<templates, versions, abTests, created>>

PhNext ==
  \/ CreateTemplate \/ UseVariant
  \/ \E t \in TemplateIds : UpdateTemplate(t) \/ SetStatus(t) \/ DeleteTemplate(t) \/ CreateAbTest(t)

PhSpec == PhInit /\ [][PhNext]_phVars

PhTypeOK ==
  /\ created \in 0..MaxCreated
  /\ \A t \in TemplateIds :
       /\ templates[t].version \in 0..MaxVersions /\ Len(versions[t]) \in 0..MaxVersions
       /\ \A v \in 1..MaxVersions : uses[t][v].good \in 0..uses[t][v].total
  /\ \A test \in abTests : test.template \in 1..created

(* The current content and the last version are the same thing: rendering a *)
(* template without a version and with its current one gives one result, and *)
(* a deleted template renders no version (prompt_manager.py:107-157, 241-252).               *)
CurrentIsLastVersion ==
  \A t \in TemplateIds, given \in Contents :
    /\ render(t, given) = render_version(t, templates[t].version, given)
    /\ ~Stored(t) => \A v \in 1..MaxVersions : render_version(t, v, given)[1] = "error"

(* A version is never rewritten: what an A/B test or a caller has rendered  *)
(* from version v renders alike for as long as the template exists.         *)
VersionsImmutable ==
  [][\A t \in TemplateIds : \A v \in DOMAIN versions[t] :
       versions'[t] = <<>> \/ (v \in DOMAIN versions'[t] /\ versions'[t][v] = versions[t][v])]_phVars

-----------------------------------------------------------------------------
(***************************************************************************)
(* The playground of hub/playground.py.  A message is appended to its       *)
(* session before the inference is awaited and the answer after it, so two  *)
(* messages of one session, its closing and its deletion interleave.        *)
(***************************************************************************)

CONSTANTS
  Senders,      \* the calls of send_message
  PgSessions, PgMaxMessages

ASSUME PgAssumption == IsFiniteSet(Senders) /\ PgMaxMessages \in Nat

VARIABLES
  session,      \* session -> [status, messages, tokens], or Deleted
  sending       \* what each call is doing

pgVars == <<session, sending>>

Deleted == [status |-> "deleted", messages |-> <<>>, tokens |-> 0]
NotCreated == [Deleted EXCEPT !.status = "none"]
NotSending == [phase |-> "idle", session |-> "none"]

PgInit ==
  /\ session = [s \in PgSessions |-> NotCreated]
  /\ sending = [c \in Senders |-> NotSending]

(* Session ids are fresh: an id is created once.                           *)
CreateSession(s) ==
  /\ session[s] = NotCreated
  /\ session' = [session EXCEPT ![s] = [status |-> "active", messages |-> <<>>, tokens |-> 0]]
  /\ UNCHANGED sending

SendMessage_anystatus(c, s) ==
  /\ sending[c].phase = "idle" /\ session[s] # Deleted
  /\ Len(session[s].messages) < PgMaxMessages
  /\ session' = [session EXCEPT ![s].messages = Append(@, "user")]
  /\ sending' = [sending EXCEPT ![c] = [phase |-> "awaiting", session |-> s]]

SendMessage(c, s) ==
  /\ sending[c].phase = "idle" /\ session[s].status = "active"
  /\ Len(session[s].messages) < PgMaxMessages
  /\ session' = [session EXCEPT ![s].messages = Append(@, "user")]
  /\ sending' = [sending EXCEPT ![c] = [phase |-> "awaiting", session |-> s]]

(* The call keeps the session object it has looked up: an answer for a     *)
(* session that was deleted meanwhile is lost with the object.             *)
Answered_twice(c) ==
  /\ sending[c].phase = "awaiting"
  /\ LET s == sending[c].session
     IN  session' = IF session[s] = Deleted THEN session
                    ELSE [session EXCEPT ![s].messages = Append(@, "assistant"), ![s].tokens = @ + 1]
  /\ UNCHANGED sending

Answered(c) ==
  /\ sending[c].phase = "awaiting"
  /\ LET s == sending[c].session
     IN  session' = IF session[s] = Deleted THEN session
                    ELSE [session EXCEPT ![s].messages = Append(@, "assistant"), ![s].tokens = @ + 1]
  /\ sending' = [sending EXCEPT ![c].phase = "answered"]

(* A failure marks the session failed, also one that was closed meanwhile; *)
(* the user's message stays.                                               *)
InferenceFails(c) ==
  /\ sending[c].phase = "awaiting"
  /\ LET s == sending[c].session
     IN  session' = IF session[s] = Deleted THEN session ELSE [session EXCEPT ![s].status = "failed"]
  /\ sending' = [sending EXCEPT ![c].phase = "failed"]

CloseSession(s) ==
  /\ session[s].status = "active"
  /\ session' = [session EXCEPT ![s].status = "completed"]
  /\ UNCHANGED sending

DeleteSession(s) ==
  /\ session[s] \notin {Deleted, NotCreated}
  /\ session' = [session EXCEPT ![s] = Deleted]
  /\ UNCHANGED sending

PgNext ==
  \/ \E s \in PgSessions :
       CreateSession(s) \/ CloseSession(s) \/ DeleteSession(s) \/ \E c \in Senders : SendMessage(c, s)
  \/ \E c \in Senders : Answered(c) \/ InferenceFails(c)

PgSpec == PgInit /\ [][PgNext]_pgVars

Roles(s, role) == Cardinality({i \in DOMAIN session[s].messages : session[s].messages[i] = role})
Awaiting(s) == Cardinality({c \in Senders : sending[c].phase = "awaiting" /\ sending[c].session = s})

PgTypeOK ==
  /\ \A s \in PgSessions :
       /\ session[s].status \in {"none", "deleted", "active", "completed", "failed"}
       /\ Len(session[s].messages) <= PgMaxMessages + Cardinality(Senders)
  /\ \A c \in Senders : sending[c].phase \in {"idle", "awaiting", "answered", "failed"}

(* However the calls overlap, a session's answers never outnumber its       *)
(* questions, the unanswered questions are the calls in flight and those    *)
(* that failed, and the tokens are those of the answers it shows            *)
(* (playground.py:87-115).                                                  *)
AnswersHaveQuestions ==
  \A s \in PgSessions :
    /\ Roles(s, "assistant") + Awaiting(s) <= Roles(s, "user") \/ session[s] = Deleted
    /\ session[s].tokens = Roles(s, "assistant")

(* A session that has ended takes no more questions; the answers still      *)
(* awaited when it ended may come (playground.py:82).                       *)
EndedTakesNoQuestions ==
  [][\A s \in PgSessions :
       session[s].status \in {"completed", "failed"} => Roles(s, "user")' <= Roles(s, "user")]_pgVars
=============================================================================
