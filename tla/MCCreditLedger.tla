----------------------------- MODULE MCCreditLedger -----------------------------
(* The ledger with two or three concurrent transactions. *)
EXTENDS CreditLedger, TLC

Symmetry == Permutations(Txs) \cup Permutations(Requests) \cup Permutations(Purchases)
=================================================================================
