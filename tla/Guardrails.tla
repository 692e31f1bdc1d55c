------------------------------ MODULE Guardrails ------------------------------
(***************************************************************************)
(* The guardrail pipeline of proxy/guardrails/: what run_request_guardrails*)
(* and run_response_guardrails() of manager.py return for the guardrails   *)
(* that create_app() registers.                                            *)
(*                                                                         *)
(* A text is the set of what detectors can find in it.  A message has a    *)
(* role, a text, and says whether its content is plain: content in parts   *)
(* is no str, and every guardrail passes over it.                          *)
(***************************************************************************)
EXTENDS Integers, Sequences, FiniteSets, SequencesExt

CONSTANTS Pii, Secrets, Keywords, Categories, \* what each kind of guardrail looks for
          BlockedUsers                        \* of a BlockedUsersGuardrail

Taints == Pii \cup Secrets \cup Keywords \cup Categories

\* A guardrail: its kind ("pii", "secret", "keyword", "moderation" or "users"), mode,
\* priority, and whether it is enabled, looks at responses (check_response_content) and
\* works (a broken one, or one whose backend does not answer, raises); for moderation, the
\* categories whose threshold is above the score that the backend flags them with.
Guards == [kind : {"pii", "secret", "keyword", "moderation", "users"},
           mode : {"block", "redact", "hash", "flag"}, priority : Int, enabled : BOOLEAN,
           responses : BOOLEAN, works : BOOLEAN, tolerates : SUBSET Categories]

ALLOW == [action |-> "allow"]
BLOCK == [action |-> "block"]
MODIFY(content) == [action |-> "modify", content |-> content]

\* register() appends and sorts by priority; the sort is stable.
register(guardrails, g) ==
    LET before == SelectSeq(guardrails, LAMBDA h : h.priority <= g.priority)
        after  == SelectSeq(guardrails, LAMBDA h : h.priority > g.priority)
    IN  before \o <<g>> \o after

unregister(guardrails, kind) == SelectSeq(guardrails, LAMBDA h : h.kind # kind)

plain(messages) == {i \in DOMAIN messages : messages[i].plain}

\* Both detectors: block, or take out (redact, hash) what was found in every message.
check_and_clean(g, patterns, messages) ==
    LET hit == {i \in plain(messages) : patterns \cap messages[i].text # {}}
    IN  IF hit = {} THEN ALLOW
        ELSE IF g.mode = "block" THEN BLOCK
        ELSE MODIFY([i \in DOMAIN messages |->
                 IF i \in hit THEN [messages[i] EXCEPT !.text = @ \ patterns] ELSE messages[i]])

clean(g, patterns, content) ==
    IF patterns \cap content = {} THEN ALLOW
    ELSE IF g.mode = "block" THEN BLOCK ELSE MODIFY(content \ patterns)

pii_check_request(g, messages)    == check_and_clean(g, Pii, messages)
pii_check_response(g, content)    == clean(g, Pii, content)
secret_check_request(g, messages) == check_and_clean(g, Secrets, messages)
secret_check_response(g, content) == clean(g, Secrets, content)

\* BannedKeywordsGuardrail blocks whatever its mode.
keyword_check_request(messages) ==
    IF \E i \in plain(messages) : Keywords \cap messages[i].text # {} THEN BLOCK ELSE ALLOW

keyword_check_response(content) == IF Keywords \cap content # {} THEN BLOCK ELSE ALLOW

\* ContentModerationGuardrail: what the backend flags, less what the thresholds of the
\* guardrail let pass; it blocks in mode "block" and only notes in mode "flag".
backend_flags(content) == Categories \cap content

apply_thresholds(g, flags) == flags \ g.tolerates

build_result(g, flags) == IF flags # {} /\ g.mode = "block" THEN BLOCK ELSE ALLOW

moderation_check_request(g, messages) ==
    LET combined == UNION {messages[i].text : i \in plain(messages)}
    IN  build_result(g, apply_thresholds(g, backend_flags(combined)))

moderation_check_response(g, content) ==
    build_result(g, apply_thresholds(g, backend_flags(content)))

\* BlockedUsersGuardrail.
check_user(user) == IF user \in BlockedUsers THEN BLOCK ELSE ALLOW

\* check_request(); an exception counts as ALLOW.
check_request(g, messages, user) ==
    IF ~g.works THEN ALLOW
    ELSE CASE g.kind = "pii"        -> pii_check_request(g, messages)
           [] g.kind = "secret"     -> secret_check_request(g, messages)
           [] g.kind = "keyword"    -> keyword_check_request(messages)
           [] g.kind = "moderation" -> moderation_check_request(g, messages)
           [] g.kind = "users"      -> check_user(user)

\* check_response(), where the guardrail looks at responses at all; the guardrail of
\* users never does.
check_response(g, content) ==
    IF ~g.works \/ ~g.responses \/ g.kind = "users" THEN ALLOW
    ELSE CASE g.kind = "pii"        -> pii_check_response(g, content)
           [] g.kind = "secret"     -> secret_check_response(g, content)
           [] g.kind = "keyword"    -> keyword_check_response(content)
           [] g.kind = "moderation" -> moderation_check_response(g, content)

\* One turn of the loop of both pipelines, v being what the guardrail says: the first
\* BLOCK ends it, what a MODIFY returns is what the next guardrail sees.
turn(r, g, v) ==
    IF ~g.enabled \/ r.action = "block" THEN r
    ELSE CASE v.action = "allow"  -> r
           [] v.action = "block"  -> [r EXCEPT !.action = "block"]
           [] v.action = "modify" -> [action |-> "modify", content |-> v.content]

run_request_guardrails(guardrails, messages, user) ==
    LET upto[i \in 0..Len(guardrails)] ==
          IF i = 0 THEN [action |-> "allow", content |-> messages]
          ELSE turn(upto[i - 1], guardrails[i], check_request(guardrails[i], upto[i - 1].content, user))
    IN  upto[Len(guardrails)]

run_response_guardrails(guardrails, content) ==
    LET upto[i \in 0..Len(guardrails)] ==
          IF i = 0 THEN [action |-> "allow", content |-> content]
          ELSE turn(upto[i - 1], guardrails[i], check_response(guardrails[i], upto[i - 1].content))
    IN  upto[Len(guardrails)]

-----------------------------------------------------------------------------
\* What a guardrail that works keeps out of requests, and out of responses.
keeps_out(g) ==
    CASE g.kind = "pii"        -> Pii
      [] g.kind = "secret"     -> Secrets
      [] g.kind = "keyword"    -> Keywords
      [] g.kind = "moderation" -> IF g.mode = "block" THEN Categories \ g.tolerates ELSE {}
      [] g.kind = "users"      -> {}

forbidden_in_requests(guardrails) ==
    UNION {keeps_out(guardrails[i]) : i \in {j \in DOMAIN guardrails : guardrails[j].enabled /\ guardrails[j].works}}
forbidden_in_responses(guardrails) ==
    UNION {keeps_out(guardrails[i]) :
             i \in {j \in DOMAIN guardrails : /\ guardrails[j].enabled /\ guardrails[j].works
                                              /\ guardrails[j].responses}}

-----------------------------------------------------------------------------
(***************************************************************************)
(* What redact() and hash_pii() of the detectors in secret_detection.py    *)
(* and pii_detection.py do to one text: here the sequence of its           *)
(* positions, a character of a replacement being 0.  What the patterns     *)
(* match is external: any list of matches, by pattern and then by          *)
(* position, as scan() collects them.                                      *)
(***************************************************************************)
CONSTANTS TextLength,     \* length of the text
          Replacements,   \* lengths replacements may have
          MatchLists      \* the lists of matches scan() may return

ASSUME RedactionAssumption ==
    /\ TextLength \in Nat /\ Replacements \subseteq Nat
    /\ MatchLists \subseteq Seq([start : 1..TextLength, end : 2..(TextLength + 1), with : Replacements])
    /\ \A matches \in MatchLists : \A i \in DOMAIN matches : matches[i].start < matches[i].end

VARIABLES scanned,    \* the matches of the text at hand
          result      \* what redact() returns for it, <<>> before it is called

rdvars == <<scanned, result>>

text == [i \in 1..TextLength |-> i]
Placeholder(n) == [i \in 1..n |-> 0]

\* result[:start] + placeholder + result[end:], with slices that stop at the end.
replaced(t, match) ==
    LET Upto(i) == IF i < Len(t) THEN i ELSE Len(t)
    IN  SubSeq(t, 1, Upto(match.start - 1)) \o Placeholder(match.with)
            \o SubSeq(t, match.end, Len(t))

\* Those that come before a match: those that start later and the equal ones before it.
sooner(matches, i) ==
    {j \in DOMAIN matches : \/ matches[j].start > matches[i].start
                            \/ matches[j].start = matches[i].start /\ j < i}
place(matches, i) == 1 + Cardinality(sooner(matches, i))

\* Variant: as they were found, so that later offsets no longer fit.
later_first_unsorted(matches) == matches

\* sorted(matches, key = start, reverse = True); a stable sort.
later_first(matches) ==
    [k \in DOMAIN matches |-> matches[CHOOSE i \in DOMAIN matches : place(matches, i) = k]]

redact(matches) ==
    LET ordered == later_first(matches)
        upto[k \in 0..Len(ordered)] == IF k = 0 THEN text ELSE replaced(upto[k - 1], ordered[k])
    IN  upto[Len(ordered)]

RdInit == scanned \in MatchLists /\ result = <<>>

Redact ==
    /\ result = <<>>
    /\ result' = redact(scanned)
    /\ UNCHANGED scanned

RdSpec == RdInit /\ [][Redact]_rdvars

-----------------------------------------------------------------------------
matched == UNION {scanned[i].start..(scanned[i].end - 1) : i \in DOMAIN scanned}
disjoint == \A i, j \in DOMAIN scanned : i # j =>
    scanned[i].end <= scanned[j].start \/ scanned[j].end <= scanned[i].start
\* What is left of the text is what was not matched, in its order.
RedactedExactly ==
    /\ {result[i] : i \in DOMAIN result} \ {0} = (1..TextLength) \ matched
    /\ \A i, j \in DOMAIN result :
         i < j /\ result[i] # 0 /\ result[j] # 0 => result[i] < result[j]

RdTypeOK == scanned \in MatchLists /\ result \in Seq(0..TextLength)

\* Where no two patterns match the same characters, what was matched is gone and the rest
\* of the text is as it was.
DisjointRedacted == result # <<>> /\ disjoint => RedactedExactly

\* "Scan text and replace all secrets with placeholder" (secret_detection.py:241): the
\* same for any matches.  Does not hold when two patterns match overlapping characters.
AllRedacted == result # <<>> => RedactedExactly
=============================================================================
