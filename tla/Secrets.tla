------------------------------- MODULE Secrets -------------------------------
(* How a configuration is loaded (core/config.py): the file, the overrides   *)
(* of the environment, the references to secrets, which the resolver and     *)
(* its cache of core/secrets/base.py look up one after another, the          *)
(* references to the environment, and last the variables that the file       *)
(* itself sets.  The secret managers are external: a secret may be rotated   *)
(* between two look-ups.                                                     *)
EXTENDS Integers, Sequences, Functions

CONSTANTS Fields,      \* the fields of the configuration, in the order of the file
          Files,       \* what the file may say: [fields, sets], see Literal
          Environs,    \* environments of the process: variable -> value
          Overrides,   \* variable with the prefix ROUTERBOT_ -> the field it overrides
          Paths,       \* the secrets
          Ttls,        \* ttl_seconds of the cache, 0 for none
          LdMaxTime, LdMaxVersion

ASSUME LdAssumption ==
    /\ Fields \in Seq(Range(Fields))
    /\ \A f \in Files : /\ DOMAIN f.fields = Range(Fields)
                        /\ \A x \in Range(f.fields) : x.kind = "secret" => x.name \in Paths
    /\ Ttls \subseteq Nat /\ LdMaxTime \in Nat

VARIABLES ldFile, ldEnviron, ldTtl, ldNow,
          superseded,  \* secret -> the times its versions were replaced
          secretCache, \* SecretCache._store: secret -> [version, expires]
          loading,     \* the load in progress: its data and the fields resolved
          loaded       \* the configuration in force: field -> value

ldvars == <<ldFile, ldEnviron, ldTtl, ldNow, superseded, secretCache, loading, loaded>>

Literal(x)           == [kind |-> "literal", name |-> x, key |-> "none"]
SecretRef(path, key) == [kind |-> "secret", name |-> path, key |-> key]
EnvRef(var)          == [kind |-> "env", name |-> var, key |-> "none"]

NoLoad   == [data |-> <<>>, got |-> <<>>]
NoConfig == <<>>

LdInit ==
    /\ ldFile \in Files /\ ldEnviron \in Environs /\ ldTtl \in Ttls
    /\ ldNow = 0 /\ superseded = [p \in Paths |-> <<>>]
    /\ secretCache = <<>> /\ loading = NoLoad /\ loaded = NoConfig

Running == loading.data # <<>>
Left    == Running /\ Len(loading.got) < Len(Fields)
NextRef == loading.data[Fields[Len(loading.got) + 1]]

(* The version a secret has now.                                             *)
current(path) == Len(superseded[path]) + 1

_apply_env_overrides(data) ==
    [f \in DOMAIN data |->
       IF \E v \in DOMAIN ldEnviron : v \in DOMAIN Overrides /\ Overrides[v] = f
       THEN Literal(ldEnviron[CHOOSE v \in DOMAIN ldEnviron :
                                v \in DOMAIN Overrides /\ Overrides[v] = f])
       ELSE data[f]]

(* load_config(): the file, with the overrides.                              *)
StartLoad ==
    /\ ~Running
    /\ loading' = [data |-> _apply_env_overrides(ldFile.fields), got |-> <<>>]
    /\ UNCHANGED <<ldFile, ldEnviron, ldTtl, ldNow, superseded, secretCache, loaded>>

fresh(path) == path \in DOMAIN secretCache /\ ldNow <= secretCache[path].expires

(* A plausible bug: a hit puts off the end of the entry.                     *)
stored_renewed(path, version) ==
    IF ldTtl = 0 THEN secretCache
    ELSE [p \in DOMAIN secretCache \cup {path} |->
            IF p = path THEN [version |-> version, expires |-> ldNow + ldTtl]
            ELSE secretCache[p]]

(* SecretCache: an entry that has ended is dropped when it is looked up, and *)
(* only what was fetched is put.                                             *)
stored(path, version) ==
    IF ldTtl = 0 \/ fresh(path) THEN secretCache
    ELSE [p \in DOMAIN secretCache \cup {path} |->
            IF p = path THEN [version |-> version, expires |-> ldNow + ldTtl]
            ELSE secretCache[p]]

(* A plausible bug: each key of a secret is fetched for itself.              *)
version_of_fetched(path) == current(path)

version_of(path) == IF fresh(path) THEN secretCache[path].version ELSE current(path)

(* SecretResolver.resolve() of the next field.                               *)
ResolveField ==
    /\ Left
    /\ LET ref == NextRef
           version == IF ref.kind = "secret" THEN version_of(ref.name) ELSE 0
       IN /\ loading' = [loading EXCEPT !.got =
                           Append(@, [ref |-> ref, version |-> version, at |-> ldNow])]
          /\ secretCache' = IF ref.kind = "secret" THEN stored(ref.name, version)
                            ELSE secretCache
    /\ UNCHANGED <<ldFile, ldEnviron, ldTtl, ldNow, superseded, loaded>>

(* SecretResolutionError: the secret cannot be fetched, or it has no such    *)
(* key. The load ends, and what was fetched stays cached.                    *)
SecretFails ==
    /\ Left /\ NextRef.kind = "secret"
    /\ \/ ~fresh(NextRef.name) /\ UNCHANGED secretCache
       \/ /\ NextRef.key # "none"
          /\ secretCache' = stored(NextRef.name, version_of(NextRef.name))
    /\ loading' = NoLoad
    /\ UNCHANGED <<ldFile, ldEnviron, ldTtl, ldNow, superseded, loaded>>

EnvRefs == {loading.got[i].ref.name : i \in {j \in DOMAIN loading.got :
                                              loading.got[j].ref.kind = "env"}}

(* _resolve_env_refs() and the variables that the file sets.                 *)
FinishLoad ==
    /\ Running /\ ~Left /\ EnvRefs \subseteq DOMAIN ldEnviron
    /\ loaded' = [i \in DOMAIN Fields |->
                    IF loading.got[i].ref.kind = "env"
                    THEN [loading.got[i] EXCEPT !.ref = Literal(ldEnviron[@.name])]
                    ELSE loading.got[i]]
    /\ ldEnviron' = [v \in DOMAIN ldFile.sets \cup DOMAIN ldEnviron |->
                       IF v \in DOMAIN ldFile.sets THEN ldFile.sets[v] ELSE ldEnviron[v]]
    /\ loading' = NoLoad
    /\ UNCHANGED <<ldFile, ldTtl, ldNow, superseded, secretCache>>

(* "Environment variable ... referenced in config is not set".               *)
EnvFails ==
    /\ Running /\ ~Left /\ ~(EnvRefs \subseteq DOMAIN ldEnviron)
    /\ loading' = NoLoad
    /\ UNCHANGED <<ldFile, ldEnviron, ldTtl, ldNow, superseded, secretCache, loaded>>

(* Outside, at any time but while nothing is looked at: the file is edited   *)
(* between loads,                                                            *)
EditFile(f) ==
    /\ ~Running /\ ldFile # f
    /\ ldFile' = f
    /\ UNCHANGED <<ldEnviron, ldTtl, ldNow, superseded, secretCache, loading, loaded>>

(* a secret is rotated,                                                      *)
Rotate(path) ==
    /\ current(path) < LdMaxVersion
    /\ superseded' = [superseded EXCEPT ![path] = Append(@, ldNow)]
    /\ UNCHANGED <<ldFile, ldEnviron, ldTtl, ldNow, secretCache, loading, loaded>>

(* time passes.                                                              *)
LdTick ==
    /\ ldNow < LdMaxTime
    /\ ldNow' = ldNow + 1
    /\ UNCHANGED <<ldFile, ldEnviron, ldTtl, superseded, secretCache, loading, loaded>>

LdNext ==
    \/ StartLoad \/ ResolveField \/ SecretFails \/ FinishLoad \/ EnvFails \/ LdTick
    \/ \E f \in Files : EditFile(f)
    \/ \E p \in Paths : Rotate(p)

LdSpec == LdInit /\ [][LdNext]_ldvars

-----------------------------------------------------------------------------
LdTypeOK ==
    /\ ldFile \in Files /\ ldTtl \in Ttls /\ ldNow \in 0 .. LdMaxTime
    /\ DOMAIN secretCache \subseteq Paths /\ (ldTtl = 0 => secretCache = <<>>)
    /\ Len(loading.got) <= Len(Fields)

Values == Range(loading.got) \cup Range(loaded)

(* A secret that is loaded was replaced, if at all, no longer ago than the   *)
(* time-to-live, however often the cache has served it (secrets/base.py:97). *)
SecretsFresh ==
    \A x \in Values : x.ref.kind = "secret" =>
        \/ x.version = current(x.ref.name)
        \/ superseded[x.ref.name][x.version] >= x.at - ldTtl

(* The keys of one secret belong together: a load takes them from different  *)
(* versions only when its cache is off or time passed between them           *)
(* (secrets/base.py:176).  It can: nothing holds the entry for the load.     *)
TornOnlyByTime ==
    \A values \in {loading.got, loaded} :
        \A i, j \in DOMAIN values :
            LET x == values[i]
                y == values[j]
            IN  (x.ref.kind = "secret" /\ y.ref.kind = "secret" /\ x.ref.name = y.ref.name
                 /\ x.version # y.version) => ldTtl = 0 \/ x.at # y.at
=============================================================================
