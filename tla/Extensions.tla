------------------------------ MODULE Extensions -----------------------------
(***************************************************************************)
(* What a deployment hooks into the gateway: the plugins of core/plugins.   *)
(*                                                                          *)
(* The plugin manager imports the entry points and the declared plugins and *)
(* registers them by name, then sets up every one that was imported, and a  *)
(* shutdown tears down the active ones.  Setups and teardowns are awaited   *)
(* one after the other.  Two plugins may have the same name (an entry point *)
(* and a declaration, or two that keep the default name): the later takes   *)
(* the name over in the registry.                                           *)
(***************************************************************************)
EXTENDS Integers, Sequences, FiniteSets, SequencesExt

-----------------------------------------------------------------------------
(* The plugin manager.                                                     *)

CONSTANTS
  PluginNames,
  PluginLists    \* the plugins that are found, as sequences of [name, usable]

\* A gateway without plugins has nothing to set up or tear down.
ASSUME PluginAssumption ==
  PluginLists \subseteq Seq([name : PluginNames, usable : BOOLEAN]) \ {<<>>}

VARIABLES
  found,         \* the list; a plugin's hook and info are known by their place
  pluginOf,      \* the registry: name -> place, 0 when the name is unused
  infoStatus, pluginPhase, turn,
  setups,        \* how each hook's setups have ended
  teardowns      \* how often each hook was torn down

pmVars == <<found, pluginOf, infoStatus, pluginPhase, turn, setups, teardowns>>

Hooks == DOMAIN found

PmInit ==
  /\ found \in PluginLists
  /\ pluginOf = [n \in PluginNames |-> 0]
  /\ infoStatus = [h \in Hooks |-> "discovered"]
  /\ pluginPhase = "importing" /\ turn = 1
  /\ setups = [h \in Hooks |-> <<>>] /\ teardowns = [h \in Hooks |-> 0]

(* The loop goes on with the next place, or the next phase begins.         *)
Proceed(next) ==
  IF turn < Len(found) THEN turn' = turn + 1 /\ UNCHANGED pluginPhase
  ELSE turn' = 1 /\ pluginPhase' = next

(* Disabled plugins and those that cannot be imported are skipped.         *)
ImportPlugin ==
  /\ pluginPhase = "importing"
  /\ IF found[turn].usable
     THEN /\ pluginOf' = [pluginOf EXCEPT ![found[turn].name] = turn]
          /\ infoStatus' = [infoStatus EXCEPT ![turn] = "loaded"]
     ELSE UNCHANGED <<pluginOf, infoStatus>>
  /\ Proceed("setup")
  /\ UNCHANGED <<found, setups, teardowns>>

(* The hook is looked up by the info's name, so it is the registered one   *)
(* that is set up, and the info of this place that gets the outcome.       *)
SetUp ==
  /\ pluginPhase = "setup"
  /\ IF infoStatus[turn] = "loaded"
     THEN \E outcome \in {"active", "error"} :
            /\ setups' = [setups EXCEPT ![pluginOf[found[turn].name]] = Append(@, outcome)]
            /\ infoStatus' = [infoStatus EXCEPT ![turn] = outcome]
     ELSE UNCHANGED <<setups, infoStatus>>
  /\ Proceed("serving")
  /\ UNCHANGED <<found, pluginOf, teardowns>>

StopPlugins ==
  /\ pluginPhase = "serving" /\ pluginPhase' = "stopping"
  /\ UNCHANGED <<found, pluginOf, infoStatus, turn, setups, teardowns>>

registered(h) == pluginOf[found[h].name] = h

(* Only infos of the registry are listed, and only the active ones.        *)
to_tear_down_all(h) == registered(h)
to_tear_down(h) == registered(h) /\ infoStatus[h] = "active"

(* A teardown that raises is logged like one that ends.                    *)
TearDown ==
  /\ pluginPhase = "stopping"
  /\ teardowns' = [teardowns EXCEPT ![turn] = @ + IF to_tear_down(turn) THEN 1 ELSE 0]
  /\ Proceed("stopped")
  /\ UNCHANGED <<found, pluginOf, infoStatus, setups>>

PmNext == ImportPlugin \/ SetUp \/ StopPlugins \/ TearDown

PmSpec == PmInit /\ [][PmNext]_pmVars

PmTypeOK ==
  /\ \A n \in PluginNames : pluginOf[n] \in Hooks \union {0}
  /\ \A h \in Hooks :
       /\ infoStatus[h] \in {"discovered", "loaded", "active", "error"}
       /\ teardowns[h] \in 0..1
  /\ turn \in Hooks

(* A hook is torn down at most once and only when its last setup succeeded, *)
(* whichever names collide and whichever setups fail (manager.py:95-119).   *)
TornDownWereSetUp ==
  \A h \in Hooks :
    teardowns[h] > 0 => setups[h] # <<>> /\ Last(setups[h]) = "active"

(* "Initialise resources (called once after loading)" (hooks.py:45).  Does  *)
(* not hold: the hook of a name that two plugins have is set up for both.   *)
SetUpOnce == \A h \in Hooks : Len(setups[h]) <= 1

=============================================================================
