------------------------------ MODULE Cooldown ------------------------------
(***************************************************************************)
(* The CooldownManager of router/cooldown.py as operators on its state.    *)
(*                                                                         *)
(* The manager keeps two dictionaries, _failures and _cooldown_until, that *)
(* are both keyed by the same identifier.  Here they are one function from *)
(* identifiers to records: "fails" is _failures.get(id, 0) and "until" is  *)
(* _cooldown_until.get(id), with NotCooling for a missing entry.  Every    *)
(* method runs under one lock and never awaits, so each is one operator    *)
(* that takes the manager's state and returns the new one.                 *)
(***************************************************************************)
EXTENDS Integers

CONSTANTS AllowedFails,      \* failures that put an identifier into cooldown
          CooldownSeconds    \* how long the cooldown lasts

\* config_models.py: allowed_fails has ge=1 and cooldown_time has ge=0.
ASSUME CooldownAssumption ==
    /\ AllowedFails \in Nat \ {0}
    /\ CooldownSeconds \in Nat

NotCooling == -1

\* An identifier in neither dictionary.
Healthy == [fails |-> 0, until |-> NotCooling]

CooldownState == [fails : Nat, until : Nat \cup {NotCooling}]

\* Variants with a bug, to show what the properties detect.  Here: a success
\* pays for one failure; only one of the two entries expires.
record_success_decrement(c, id) == [c EXCEPT ![id].fails = @ - 1]

expire_until(c, id, now) ==
    IF c[id].until # NotCooling /\ now >= c[id].until
    THEN [c EXCEPT ![id].until = NotCooling]
    ELSE c

-----------------------------------------------------------------------------
record_success(c, id) == [c EXCEPT ![id] = Healthy]

\* Each failure at or past the threshold starts the cooldown afresh.
record_failure(c, id, now) ==
    LET n == c[id].fails + 1
    IN  [c EXCEPT ![id] = [fails |-> n,
                           until |-> IF n >= AllowedFails
                                     THEN now + CooldownSeconds
                                     ELSE c[id].until]]

is_in_cooldown(c, id, now) ==
    c[id].until # NotCooling /\ now < c[id].until

\* The side effect of is_in_cooldown(): an expired entry is dropped.
expire(c, id, now) ==
    IF c[id].until # NotCooling /\ now >= c[id].until
    THEN [c EXCEPT ![id] = Healthy]
    ELSE c
=============================================================================
