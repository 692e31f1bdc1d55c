---------------------------- MODULE Configuration ----------------------------
(* The configuration: the watcher of its file, and what holds it.           *)
EXTENDS Integers, Sequences

(* The ConfigWatcher of proxy/config_reload.py: a task that polls the hash of *)
(* the configuration file, and reload_now() beside it. Another process edits  *)
(* the file at any time, also between a hash and a read of one reload.        *)

CONSTANTS LastVersion, \* bound: the file goes through the versions 0..LastVersion
          Invalid,     \* versions that load_config() rejects
          Unreadable,  \* versions for which the file cannot be read
          Refused      \* versions for which on_reload() raises

ASSUME CwAssumption == LastVersion \in Nat

VARIABLES cw_file,    \* the version in the file
          cw_hash,    \* _last_hash: the version it is the hash of, -1 for the empty string
          cw_applied, \* the version on_reload() took last
          cw_watch,   \* where the watch loop is, and the versions it holds
          cw_manual,  \* the same of reload_now()
          cw_raced    \* an edit came between reload_now()'s load and its hash, or
            \* the two reloads overlapped

cwvars == <<cw_file, cw_hash, cw_applied, cw_watch, cw_manual, cw_raced>>

_file_hash(v) == IF v \in Unreadable THEN -1 ELSE v

loads(v) == v \notin Invalid \cup Unreadable

At(at, hash, config) == [at |-> at, hash |-> hash, config |-> config]

Asleep == At("sleep", -1, -1)

(* The application starts with the file it has loaded; start() hashes it.     *)
CwInit ==
    /\ cw_file = 0 /\ cw_hash = _file_hash(0) /\ cw_applied = 0
    /\ cw_watch = Asleep /\ cw_manual = Asleep /\ cw_raced = FALSE

Edit ==
    /\ cw_file < LastVersion
    /\ cw_file' = cw_file + 1
    /\ cw_raced' = (cw_raced \/ cw_manual.at = "loaded")
    /\ UNCHANGED <<cw_hash, cw_applied, cw_watch, cw_manual>>

(* _watch_loop after its sleep: an unreadable or unchanged file is left be.    *)
Poll ==
    /\ cw_watch.at = "sleep" /\ cw_manual.at # "loaded"
    /\ LET hash == _file_hash(cw_file)
       IN cw_watch' = IF hash \in {-1, cw_hash} THEN Asleep ELSE At("hashed", hash, -1)
    /\ UNCHANGED <<cw_file, cw_hash, cw_applied, cw_manual, cw_raced>>

(* A plausible bug: the file is hashed again after it has been loaded, and    *)
(* that hash is kept although the load failed.                                *)
Load_rejected ==
    /\ cw_watch.at = "hashed"
    /\ cw_hash' = _file_hash(cw_file)
    /\ cw_watch' = IF loads(cw_watch.hash) THEN At("applying", -1, cw_watch.hash) ELSE Asleep
    /\ cw_raced' = (cw_raced \/ cw_manual.at = "applying")
    /\ UNCHANGED <<cw_file, cw_applied, cw_manual>>

(* _reload: a file that does not load is reported, and tried again at the     *)
(* next poll. Otherwise the hash is kept before on_reload() is awaited.       *)
Load ==
    /\ cw_watch.at = "hashed"
    /\ IF loads(cw_file)
       THEN cw_hash' = cw_watch.hash /\ cw_watch' = At("applying", -1, cw_file)
       ELSE cw_watch' = Asleep /\ UNCHANGED cw_hash
    /\ cw_raced' = (cw_raced \/ cw_manual.at = "applying")
    /\ UNCHANGED <<cw_file, cw_applied, cw_manual>>

(* on_reload() ends; the watch loop reports its exception and goes on.        *)
Apply ==
    /\ cw_watch.at = "applying"
    /\ cw_applied' = IF cw_watch.config \in Refused THEN cw_applied ELSE cw_watch.config
    /\ cw_watch' = Asleep
    /\ UNCHANGED <<cw_file, cw_hash, cw_manual, cw_raced>>

(* reload_now() loads and then hashes; no other task runs in between, but the *)
(* file may change. A file that does not load raises to the caller.           *)
ManualLoad ==
    /\ cw_manual.at = "sleep" /\ cw_watch.at # "hashed"
    /\ loads(cw_file)
    /\ cw_manual' = At("loaded", -1, cw_file)
    /\ cw_raced' = (cw_raced \/ cw_watch.at = "applying")
    /\ UNCHANGED <<cw_file, cw_hash, cw_applied, cw_watch>>

ManualHash ==
    /\ cw_manual.at = "loaded"
    /\ cw_hash' = _file_hash(cw_file)
    /\ cw_manual' = At("applying", -1, cw_manual.config)
    /\ UNCHANGED <<cw_file, cw_applied, cw_watch, cw_raced>>

ManualApply ==
    /\ cw_manual.at = "applying"
    /\ cw_applied' = IF cw_manual.config \in Refused THEN cw_applied ELSE cw_manual.config
    /\ cw_manual' = Asleep
    /\ UNCHANGED <<cw_file, cw_hash, cw_watch, cw_raced>>

CwNext == Edit \/ Poll \/ Load \/ Apply \/ ManualLoad \/ ManualHash \/ ManualApply

(* The loop is a task of the event loop: its sleeps end, and so do the awaits *)
(* of on_reload(); nobody has to edit the file or call reload_now().          *)
CwFairness == WF_cwvars(Poll) /\ WF_cwvars(Load) /\ WF_cwvars(Apply)
              /\ WF_cwvars(ManualHash) /\ WF_cwvars(ManualApply)

CwSpec == CwInit /\ [][CwNext]_cwvars /\ CwFairness

-----------------------------------------------------------------------------
Versions == 0 .. LastVersion

CwTypeOK ==
    /\ cw_file \in Versions /\ cw_applied \in Versions
    /\ cw_hash \in Versions \cup {-1}
    /\ \A t \in {cw_watch, cw_manual} :
          /\ t.at \in {"sleep", "hashed", "loaded", "applying"}
          /\ t.hash \in Versions \cup {-1} /\ t.config \in Versions \cup {-1}

good(v) == loads(v) /\ v \notin Refused

(* A good version that stays in the file is applied in the end, whenever it   *)
(* was written and whatever bad versions came before it, also with            *)
(* reload_now() in use, as long as no race with it happens                    *)
(* (config_reload.py:120).                                                    *)
EditApplied ==
    \A v \in Versions : good(v) =>
        (cw_file = v /\ ~cw_raced) ~> (cw_applied = v \/ cw_file # v \/ cw_raced)

(* When neither reload is at work and the watcher sees no change in a good    *)
(* file, the file is what is applied, unless an edit came between             *)
(* reload_now()'s load and its hash, or the two reloads overlapped            *)
(* (config_reload.py:163).                                                    *)
HashIsApplied ==
    (cw_watch = Asleep /\ cw_manual = Asleep /\ ~cw_raced /\ cw_hash = cw_file /\ good(cw_file))
        => cw_applied = cw_file

-----------------------------------------------------------------------------
(***************************************************************************)
(* The configuration as the program holds it: the YAML file, the live      *)
(* objects made from it (core/config.py), the router built at start-up and *)
(* by a reload, and the routes that change one or the other                *)
(* (proxy/routes/config.py, proxy/routes/model_management.py).             *)
(*                                                                         *)
(* A configuration is its model names and, for each setting, a value.      *)
(* Loading is one stretch; an update awaits the file between its steps,    *)
(* and the file is empty for a moment while it is written.                 *)
(***************************************************************************)

CONSTANTS CsModels,    \* model names
          Fields,      \* settings that /config/update may change
          Updates,     \* requests for /config/update: the field each changes is \in Fields
          FieldOf,     \* function of Updates
          Edits,       \* what the file may be edited to
          MaxLoads     \* bound: configurations loaded

ASSUME CsAssumption == FieldOf \in [Updates -> Fields]

VARIABLES file,      \* content of the YAML file
          configs,   \* the RouterBotConfigs loaded; the last is state.config
          routed,    \* state.router: the configuration it was built from, its models
          update,    \* per update: where it is, and what it read
          loaded,    \* the models of the file at start-up
          edited     \* somebody else has edited the file

csvars == <<file, configs, routed, update, loaded, edited>>

Contents == [models : SUBSET CsModels, set : SUBSET Fields]
Empty == [models |-> {}, set |-> {}]
BadFile == [models |-> {"?"}, set |-> {}]

ASSUME EditsAssumption == Edits \subseteq Contents \cup {BadFile}

Current == Len(configs)
build_router(n, config) == [from |-> n, models |-> config.models]

CsInit ==
    /\ file = [models |-> CsModels, set |-> {}]
    /\ configs = <<file>>
    /\ routed = build_router(1, file)
    /\ update = [u \in Updates |-> [at |-> "new", raw |-> Empty]]
    /\ loaded = file.models /\ edited = FALSE

-----------------------------------------------------------------------------
\* The file is edited from outside, perhaps to something that does not load.
EditFile(content) ==
    /\ file' = content
    /\ edited' = TRUE
    /\ UNCHANGED <<configs, routed, update, loaded>>

\* Variant: the router stays as it was built at start-up.
Reload_config(n) ==
    /\ file # BadFile /\ n = Current + 1
    /\ configs' = Append(configs, file)
    /\ UNCHANGED <<file, routed, update, loaded, edited>>

\* POST /config/reload: the new configuration and a router built from it replace the old
\* ones.  A file that does not load leaves everything as it is; an empty one loads.
Reload(n) ==
    /\ file # BadFile /\ n = Current + 1
    /\ configs' = Append(configs, file)
    /\ routed' = build_router(n, file)
    /\ UNCHANGED <<file, update, loaded, edited>>

\* POST /config/update changes the live configuration first ...
UpdateLive(u) ==
    /\ update[u].at = "new"
    /\ configs' = [configs EXCEPT ![Current].set = @ \cup {FieldOf[u]}]
    /\ update' = [update EXCEPT ![u].at = "read"]
    /\ UNCHANGED <<file, routed, loaded, edited>>

\* ... then reads the file, if it can ...
UpdateRead(u) ==
    /\ update[u].at = "read"
    /\ update' = [update EXCEPT ![u] =
           IF file = BadFile THEN [at |-> "failed", raw |-> Empty]
           ELSE [at |-> "truncate", raw |-> file]]
    /\ UNCHANGED <<file, configs, routed, loaded, edited>>

\* ... and writes it: write_text() empties it first.
UpdateTruncate(u) ==
    /\ update[u].at = "truncate"
    /\ file' = Empty
    /\ update' = [update EXCEPT ![u].at = "write"]
    /\ UNCHANGED <<configs, routed, loaded, edited>>

\* Variant: what the file held is not written back.
UpdateWrite_only(u) ==
    /\ update[u].at = "write"
    /\ file' = [Empty EXCEPT !.set = {FieldOf[u]}]
    /\ update' = [update EXCEPT ![u].at = "done"]
    /\ UNCHANGED <<configs, routed, loaded, edited>>

UpdateWrite(u) ==
    /\ update[u].at = "write"
    /\ file' = [update[u].raw EXCEPT !.set = @ \cup {FieldOf[u]}]
    /\ update' = [update EXCEPT ![u].at = "done"]
    /\ UNCHANGED <<configs, routed, loaded, edited>>

\* POST /model/new and /model/delete change the live configuration only.
AddModel(m) ==
    /\ m \notin configs[Current].models
    /\ configs' = [configs EXCEPT ![Current].models = @ \cup {m}]
    /\ UNCHANGED <<file, routed, update, loaded, edited>>

DeleteModel(m) ==
    /\ m \in configs[Current].models
    /\ configs' = [configs EXCEPT ![Current].models = @ \ {m}]
    /\ UNCHANGED <<file, routed, update, loaded, edited>>

CsNext ==
    \/ \E content \in Edits : EditFile(content)
    \/ \E n \in 2..MaxLoads : Reload(n)
    \/ \E u \in Updates :
         UpdateLive(u) \/ UpdateRead(u) \/ UpdateTruncate(u) \/ UpdateWrite(u)
    \/ \E m \in CsModels : AddModel(m) \/ DeleteModel(m)

CsSpec == CsInit /\ [][CsNext]_csvars

-----------------------------------------------------------------------------
\* What the handlers of batches and jobs resolve models in: the configuration of start-up.
batch_config == configs[1]

CsTypeOK ==
    /\ file \in Contents \cup {BadFile}
    /\ \A n \in DOMAIN configs : configs[n] \in Contents
    /\ routed.models \subseteq CsModels /\ routed.from \in DOMAIN configs

\* The router in use was built from the configuration in use: a reload, whatever updates
\* it overlaps, replaces both or neither.
RouterFromConfig == routed.from = Current

\* As long as nobody else edits the file, a setting that was persisted is lost only to an
\* update that had read the file before.
LostOnlyToOverlap == \A u \in Updates :
    (update[u].at = "done" /\ ~edited /\ \A w \in Updates : update[w].at # "write")
        => \/ FieldOf[u] \in file.set
           \/ \E w \in Updates \ {u} : update[w].at = "done" /\ FieldOf[u] \notin update[w].raw.set

\* "Read existing YAML to preserve structure" (routes/config.py:269): once the updates are
\* over, the file still has its models.  Does not hold: an update that reads the file while
\* another one writes it finds it empty.
FilePreserved ==
    (~edited /\ \A u \in Updates : update[u].at \in {"new", "done", "failed"})
        => file.models = loaded

\* "The model is immediately available for routing" (routes/model_management.py:197).
\* Does not hold: the router's registry is not told.
AddedModelRoutable == configs[Current].models \subseteq routed.models
=============================================================================
