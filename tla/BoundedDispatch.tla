--------------------------- MODULE BoundedDispatch ---------------------------
(***************************************************************************)
(* What the router promises its callers, without deployments, cooldowns,   *)
(* retries or fallbacks: a request is accepted with a finite credit of     *)
(* further provider calls, every further call uses some of the credit,     *)
(* and the request is answered once and for all.  A request that is        *)
(* refused before any call is refused as not found.                        *)
(***************************************************************************)
EXTENDS Integers

CONSTANTS Clients, Answers, Refusal

VARIABLES stage,    \* "idle", "open" or "closed"
          credit,   \* provider calls the request may still make
          made,     \* provider calls the request has made
          answer    \* what a closed request was answered with

dvars == <<stage, credit, made, answer>>

DInit ==
    /\ stage = [c \in Clients |-> "idle"]
    /\ credit = [c \in Clients |-> 0]
    /\ made = [c \in Clients |-> 0]
    /\ answer = [c \in Clients |-> "none"]

\* Only the credit of c changes, to a natural number.
SetCredit(c) ==
    /\ credit'[c] \in Nat
    /\ credit' = [credit EXCEPT ![c] = credit'[c]]

Accept(c) ==
    /\ stage[c] = "idle"
    /\ stage' = [stage EXCEPT ![c] = "open"]
    /\ SetCredit(c)
    /\ made' = [made EXCEPT ![c] = 1]
    /\ UNCHANGED answer

Refuse(c) ==
    /\ stage[c] = "idle"
    /\ stage' = [stage EXCEPT ![c] = "closed"]
    /\ answer' = [answer EXCEPT ![c] = Refusal]
    /\ made' = [made EXCEPT ![c] = 0]
    /\ UNCHANGED credit

CallAgain(c) ==
    /\ stage[c] = "open"
    /\ SetCredit(c)
    /\ credit'[c] < credit[c]
    /\ made' = [made EXCEPT ![c] = @ + 1]
    /\ UNCHANGED <<stage, answer>>

Close(c, a) ==
    /\ stage[c] = "open"
    /\ stage' = [stage EXCEPT ![c] = "closed"]
    /\ answer' = [answer EXCEPT ![c] = a]
    /\ credit' = [credit EXCEPT ![c] = 0]
    /\ UNCHANGED made

DNext == \E c \in Clients :
    \/ Refuse(c) \/ Accept(c) \/ CallAgain(c)
    \/ \E a \in Answers : Close(c, a)

DSpec == DInit /\ [][DNext]_dvars
=============================================================================
