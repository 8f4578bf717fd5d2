--------------------------- MODULE PrerequisiteGraph ---------------------------
(***************************************************************************)
(* What it means for the prerequisites of a journey template to have no    *)
(* cycle: the definition that CycleSearch is measured against and that     *)
(* StepEngine's SetPrerequisites gets from it.                             *)
(***************************************************************************)

CONSTANT Steps  \* steps of the template, present and future

(* g[s] is what must be DONE before s.  However a non-empty set of steps   *)
(* is chosen, one of them waits for none of the others.                    *)
Acyclic(g) ==
    \A S \in (SUBSET Steps) \ {{}} : \E s \in S : g[s] \cap S = {}
=================================================================================
