-------------------------- MODULE MCSignatureRequests --------------------------
(* Small instances of the signature requests: one handler at a time, or two  *)
(* that interleave.                                                          *)
EXTENDS SignatureRequests, TLC

(* Persons are interchangeable only when all are there from the start. *)
Symmetry == Permutations(Handlers) \cup Permutations(Requests)
FullSymmetry == Symmetry \cup Permutations(Persons)
=================================================================================
