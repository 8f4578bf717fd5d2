------------------------------ MODULE CreditAccount ------------------------------
(***************************************************************************)
(* What the signature-credit ledger promises its callers: an account whose *)
(* operations are atomic, each computed from the balance the previous one  *)
(* left, and none of which overdraws it.                                   *)
(***************************************************************************)
EXTENDS Integers

VARIABLES available, reserved

accountVars == <<available, reserved>>

Init == available = 0 /\ reserved = 0

(* Some credits come in. *)
Deposit == available' > available /\ UNCHANGED reserved

(* Some available credits, never more than there are, become reserved. *)
Reserve ==
    /\ available' < available
    /\ available' >= 0
    /\ reserved' = reserved + (available - available')

Consume ==
    /\ reserved >= 1
    /\ reserved' = reserved - 1
    /\ UNCHANGED available

Release ==
    /\ reserved >= 1
    /\ reserved' = reserved - 1
    /\ available' = available + 1

Next ==
    \/ Deposit
    \/ Reserve
    \/ Consume
    \/ Release

Spec == Init /\ [][Next]_accountVars
=================================================================================
