---------------------------- MODULE MCClientActivation ----------------------------
(* Two instances in one run.  The agency: two cases, which may share a       *)
(* client, with a spouse on the second.  The family: a third case, muted,    *)
(* whose two persons may have one address.                                   *)
EXTENDS ClientActivation

CONSTANTS ana, bob, wife, eve, leo, c1, c2, family, x, y, h1, h2

CaseOfAll == [p \in Persons |-> CASE p = ana -> c1 [] p \in {eve, leo} -> family [] OTHER -> c2]
MayUseAll == [p \in Persons |-> CASE p \in {ana, eve} -> {x, y} [] p = bob -> {x} [] OTHER -> {y}]

(* One session and two invitations for the agency; two sessions and three    *)
(* invitations for the family: a creation, and any two of rotations,         *)
(* corrections and a second person, which interleave in every way that the   *)
(* theorem allows (ActivationDoorStaysOpen), until its case is deleted.  The *)
(* instances share no case, so that their states add up instead of           *)
(* multiplying.                                                              *)
OneInstance ==
    IF case'[family] = "none" THEN job'[h2] = Idle /\ Len(inv') <= 2
    ELSE /\ case[family] # "deleted" /\ \A c \in Cases \ {family} : case'[c] = "none"
         /\ Undisturbed' /\ OwnAddress'

BothNext == Next /\ OneInstance
BothSpec == Init /\ [][BothNext]_vars /\ Fairness
=================================================================================
