----------------------------- MODULE NewestToken -----------------------------
(***************************************************************************)
(* What the preparation of a user with external access promises, without   *)
(* sessions, refreshes, locks or failures: a register of the newest token. *)
(* A request is answered at one moment, with a token that is not older     *)
(* than the register and does not contradict it, and the register then     *)
(* holds that token's roles.                                               *)
(***************************************************************************)
EXTENDS Naturals, Sequences

CONSTANTS
    Actors,         \* who is answered, once each
    Clients,        \* whom tokens are issued to
    Roles           \* what a token says of the user

VARIABLES
    issued,         \* the tokens so far: issue time, roles, holder
    current,        \* the token whose roles are in force, or 0
    outcome         \* actor: the token it was served with, or 0

vars == <<issued, current, outcome>>

LastIat == IF issued = <<>> THEN 0 ELSE issued[Len(issued)].iat

\* The provider issues a token, in this second or in a later one.
Publish ==
    /\ \E iat \in {LastIat, LastIat + 1}, role \in Roles, c \in Clients :
          issued' = Append(issued, [iat |-> iat, role |-> role, to |-> c])
    /\ UNCHANGED <<current, outcome>>

Newer(t) == current = 0 \/ issued[t].iat > issued[current].iat

\* Another token of the same second, or the same token again.
Agrees(t) ==
    /\ current # 0
    /\ issued[t].iat = issued[current].iat
    /\ issued[t].role = issued[current].role

Answer(a, t) ==
    /\ outcome[a] = 0
    /\ \/ Newer(t) /\ current' = t
       \/ Agrees(t) /\ UNCHANGED current
    /\ outcome' = [outcome EXCEPT ![a] = t]
    /\ UNCHANGED issued

Init ==
    /\ issued = <<>>
    /\ current = 0
    /\ outcome = [a \in Actors |-> 0]

Next ==
    \/ Publish
    \/ \E a \in Actors, t \in DOMAIN issued : Answer(a, t)

Spec == Init /\ [][Next]_vars
=============================================================================
