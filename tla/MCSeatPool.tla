-------------------------------- MODULE MCSeatPool --------------------------------
(* An agency of a founder, two colleagues and one provider. *)
EXTENDS SeatPool, TLC

CONSTANTS ana, ben, cleo, dan

Symmetry == Permutations(Slots) \cup Permutations(Members \ {Founder})
=================================================================================
