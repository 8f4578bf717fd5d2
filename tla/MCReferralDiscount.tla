-------------------------- MODULE MCReferralDiscount --------------------------
(* Three godchildren; a credit outlives several short cycles and one long one. *)
EXTENDS ReferralDiscount
=================================================================================
