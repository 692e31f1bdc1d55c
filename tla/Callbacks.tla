----------------------------- MODULE Callbacks -----------------------------
(***************************************************************************)
(* The callbacks of a request (observability/callbacks.py), the metrics of *)
(* the Prometheus callback, the spans of the OpenTelemetry callback, and    *)
(* the dispatcher that obeys a team's logging settings                      *)
(* (observability/team_logging.py; API only: the application dispatches     *)
(* with the plain one, and of all the events only the end of a request).   *)
(* Callbacks are registered by name at start-up; an event is told to each  *)
(* of them in a task of its own, and the request waits for all the tasks.   *)
(***************************************************************************)
EXTENDS Integers, Sequences, FiniteSets

CONSTANTS
  HookLists,     \* lists of callbacks to register: sequences of [name, id]
  CbRequests,    \* requests
  TeamSettings,  \* [mode, names]: "plain" is the dispatcher without teams; a
                 \* team's mode is "all", "disabled" or "named"
  EventSets      \* the events that are dispatched: of "start", "end", "error"

(* Each callback of a list is an instance of its own.                      *)
ASSUME CbAssumption ==
  /\ \A list \in HookLists :
       /\ list \in Seq({list[i] : i \in DOMAIN list})
       /\ \A i, j \in DOMAIN list : list[i].id = list[j].id => i = j
  /\ \A events \in EventSets : events \subseteq {"start", "end", "error"}
  /\ IsFiniteSet(CbRequests)

VARIABLES
  cbToRegister,  \* callbacks not registered yet
  callbacks,     \* the registered callbacks: [name, id], names distinct
  teamSetting,   \* what the team of the requests has set
  announced,     \* the events that are dispatched
  handling,      \* request -> its stage
  tasks,         \* request -> the tasks of its current event: <<position, id>>
  heard,         \* request -> id -> how many events of the request it was told
  metrics,       \* the gauge of active requests, and the counters
  spans,         \* OpenTelemetry: the open root spans, and the ended spans
  traced         \* Langfuse: request -> the events sent for it, in order

cbVars == <<cbToRegister, callbacks, teamSetting, announced, handling, tasks,
            heard, metrics, spans, traced>>

Events == {"start", "end", "error"}
CallbackIds == UNION {{list[i].id : i \in DOMAIN list} : list \in HookLists}

CbInit ==
  /\ cbToRegister \in HookLists /\ callbacks = <<>>
  /\ teamSetting \in TeamSettings
  /\ announced \in EventSets
  /\ handling = [r \in CbRequests |-> "none"]
  /\ tasks = [r \in CbRequests |-> {}]
  /\ heard = [r \in CbRequests |-> [id \in CallbackIds |-> 0]]
  /\ metrics = [active |-> 0, success |-> 0, error |-> 0]
  /\ spans = [open |-> {}, ended |-> {}]
  /\ traced = [r \in CbRequests |-> <<>>]

(* A name that is taken is taken over: two hooks of one class are one.     *)
with(list, cb) ==
  IF \E i \in DOMAIN list : list[i].name = cb.name
  THEN [i \in DOMAIN list |-> IF list[i].name = cb.name THEN cb ELSE list[i]]
  ELSE Append(list, cb)

RegisterCallback ==
  /\ cbToRegister # <<>>
  /\ cbToRegister' = Tail(cbToRegister)
  /\ callbacks' = with(callbacks, Head(cbToRegister))
  /\ UNCHANGED <<teamSetting, announced, handling, tasks, heard, metrics, spans, traced>>

Positions(list) == {<<i, list[i].id>> : i \in DOMAIN list}

named(names) ==
  UNION {{<<k, cb[2]>> : cb \in {c \in Positions(callbacks) : callbacks[c[1]].name = names[k]}}
           : k \in DOMAIN names}

(* Who is told an event: nobody when it is not dispatched or the team has   *)
(* disabled logging, the callbacks the team names, or everyone.            *)
recipients(event) ==
  CASE event \notin announced \/ teamSetting.mode = "disabled" -> {}
    [] teamSetting.mode = "named" -> named(teamSetting.names)
    [] OTHER -> Positions(callbacks)

Announce(r, event, stage) ==
  /\ handling' = [handling EXCEPT ![r] = stage]
  /\ tasks' = [tasks EXCEPT ![r] = recipients(event)]
  /\ UNCHANGED <<cbToRegister, callbacks, teamSetting, announced, heard, metrics, spans, traced>>

StartRequest(r) == cbToRegister = <<>> /\ handling[r] = "none" /\ Announce(r, "start", "running")

FinishRequest(r) ==
  /\ handling[r] = "running" /\ tasks[r] = {}
  /\ \/ Announce(r, "end", "ending")
     \/ Announce(r, "error", "failing")

Recorders == {"prometheus", "opentelemetry", "langfuse"}

EventOf(stage) ==
  CASE stage = "running" -> "start" [] stage = "ending" -> "end" [] stage = "failing" -> "error"

(* A plausible bug: a failed request stays in progress.                    *)
prometheus_record_stays(m, event) ==
  CASE event = "start" -> [m EXCEPT !.active = @ + 1]
    [] event = "end"   -> [m EXCEPT !.active = @ - 1, !.success = @ + 1]
    [] event = "error" -> [m EXCEPT !.error = @ + 1]

(* The gauge goes up at the start of a request and down at its end.        *)
prometheus_record(m, event) ==
  CASE event = "start" -> [m EXCEPT !.active = @ + 1]
    [] event = "end"   -> [m EXCEPT !.active = @ - 1, !.success = @ + 1]
    [] event = "error" -> [m EXCEPT !.active = @ - 1, !.error = @ + 1]

(* The root span is open from the start to the end of a request; the end    *)
(* adds a span for the generation under it.                                *)
otel_record(sp, r, event) ==
  IF event = "start" THEN [sp EXCEPT !.open = @ \cup {r}]
  ELSE [open  |-> sp.open \ {r},
        ended |-> sp.ended
          \cup {[of |-> r, kind |-> "generation", parent |-> r \in sp.open, status |-> event]}
          \cup {[of |-> x, kind |-> "root", parent |-> FALSE, status |-> event] :
                  x \in sp.open \cap {r}}]

(* Langfuse: the trace at the start; the generation, and the trace again,   *)
(* at the end.                                                             *)
langfuse_record(event) ==
  IF event = "start" THEN <<"trace-create">>
  ELSE <<IF event = "end" THEN "generation DEFAULT" ELSE "generation ERROR", "trace-create">>

(* What the callback does with the event of its request.                   *)
Record(r, id) ==
  LET event == EventOf(handling[r])
  IN  /\ metrics' = IF id = "prometheus" THEN prometheus_record(metrics, event) ELSE metrics
      /\ spans' = IF id = "opentelemetry" THEN otel_record(spans, r, event) ELSE spans
      /\ traced' = IF id = "langfuse"
                   THEN [traced EXCEPT ![r] = @ \o langfuse_record(event)] ELSE traced

(* A handler that raises is logged and ends its own task only.             *)
SafeCall(r, task) ==
  /\ task \in tasks[r]
  /\ tasks' = [tasks EXCEPT ![r] = @ \ {task}]
  /\ heard' = [heard EXCEPT ![r][task[2]] = @ + 1]
  /\ Record(r, task[2])
  /\ UNCHANGED <<cbToRegister, callbacks, teamSetting, announced, handling>>

(* A plausible bug: the exception of one callback ends the others.         *)
SafeCallFails_raises(r, task) ==
  /\ task \in tasks[r] /\ task[2] \notin Recorders
  /\ tasks' = [tasks EXCEPT ![r] = {}]
  /\ heard' = [heard EXCEPT ![r][task[2]] = @ + 1]
  /\ UNCHANGED <<cbToRegister, callbacks, teamSetting, announced, handling, metrics, spans, traced>>

SafeCallFails(r, task) ==
  /\ task \in tasks[r] /\ task[2] \notin Recorders
  /\ tasks' = [tasks EXCEPT ![r] = @ \ {task}]
  /\ heard' = [heard EXCEPT ![r][task[2]] = @ + 1]
  /\ UNCHANGED <<cbToRegister, callbacks, teamSetting, announced, handling, metrics, spans, traced>>

AnswerRequest(r) ==
  /\ handling[r] \in {"ending", "failing"} /\ tasks[r] = {}
  /\ handling' = [handling EXCEPT ![r] = "answered"]
  /\ UNCHANGED <<cbToRegister, callbacks, teamSetting, announced, tasks, heard, metrics, spans, traced>>

SetTeamConfig(s) ==
  /\ teamSetting.mode # "plain" /\ s.mode \notin {"plain", teamSetting.mode}
  /\ teamSetting' = s
  /\ UNCHANGED <<cbToRegister, callbacks, announced, handling, tasks, heard, metrics, spans, traced>>

CbNext ==
  \/ RegisterCallback
  \/ \E s \in TeamSettings : SetTeamConfig(s)
  \/ \E r \in CbRequests :
       \/ StartRequest(r) \/ FinishRequest(r) \/ AnswerRequest(r)
       \/ \E task \in tasks[r] : SafeCall(r, task) \/ SafeCallFails(r, task)

CbSpec == CbInit /\ [][CbNext]_cbVars

-----------------------------------------------------------------------------
CbTypeOK ==
  /\ announced \subseteq Events
  /\ handling \in [CbRequests -> {"none", "running", "ending", "failing", "answered"}]
  /\ \A r \in CbRequests : \A task \in tasks[r] :
       \E i \in DOMAIN callbacks : callbacks[i].id = task[2]
  /\ heard \in [CbRequests -> [CallbackIds -> Nat]]
  /\ metrics.active \in Int /\ spans.open \subseteq CbRequests

PlainDispatch == teamSetting.mode = "plain"

(* When a request is answered, every registered callback was told each of  *)
(* its events exactly once, whichever callbacks failed; no callback that   *)
(* lost its name to another was told anything.                             *)
EveryoneHearsOnce ==
  \A r \in CbRequests : PlainDispatch /\ handling[r] = "answered" =>
    \A id \in CallbackIds :
      IF id \in {callbacks[i].id : i \in DOMAIN callbacks}
      THEN \/ heard[r][id] = Cardinality(announced \ {"error"})
           \/ heard[r][id] = Cardinality(announced \ {"end"})
      ELSE heard[r][id] = 0

Told(r) == tasks[r] = {}

AllDispatched == announced = Events /\ PlainDispatch /\ \A r \in CbRequests : Told(r)

In(stages) == {r \in CbRequests : handling[r] \in stages}

Ended(r) == {s \in spans.ended : s.of = r}

(* Where every event is dispatched to everyone, the metrics and the traces  *)
(* agree with what became of the requests (prometheus.py:102,              *)
(* opentelemetry.py:128, langfuse.py:313): the gauge counts exactly the     *)
(* requests in progress; a request that has ended left two spans, the       *)
(* generation under the root, with the status the metrics counted; and its  *)
(* generation is in Langfuse between its two versions of the trace.        *)
GaugeFollowsEvents ==
  AllDispatched =>
    \A i \in DOMAIN callbacks :
      /\ callbacks[i].id = "prometheus" => metrics.active = Cardinality(In({"running"}))
      /\ callbacks[i].id = "opentelemetry" =>
           /\ spans.open = In({"running"})
           /\ \A r \in In({"ending", "failing", "answered"}) :
                /\ {s.kind : s \in Ended(r)} = {"root", "generation"}
                /\ Cardinality({s.status : s \in Ended(r)}) = 1
                /\ \A s \in Ended(r) : s.parent <=> s.kind = "generation"
           /\ (\E j \in DOMAIN callbacks : callbacks[j].id = "prometheus") =>
                metrics.error = Cardinality({s \in spans.ended :
                                               s.kind = "root" /\ s.status = "error"})
      /\ callbacks[i].id = "langfuse" =>
           \A r \in In({"ending", "failing", "answered"}) :
             /\ Len(traced[r]) = 3 /\ traced[r][1] = traced[r][3]
             /\ traced[r][2] \in {"generation DEFAULT", "generation ERROR"}

(* routerbot_active_requests is the number of "Currently in-progress        *)
(* requests" (prometheus.py:95).  Does not hold: the application dispatches  *)
(* the end of a request only (app.py:572).                                 *)
GaugeCountsActive ==
  (\A r \in CbRequests : Told(r)) =>
    metrics.active <= Cardinality({r \in CbRequests : handling[r] = "running"}) /\ metrics.active >= 0
=============================================================================
