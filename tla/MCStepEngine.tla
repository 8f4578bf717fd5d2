------------------------------ MODULE MCStepEngine ------------------------------
(* The instances of the step engine: journeys of one or two steps and two    *)
(* documents, the identity paper and the visa form.  The search for a cycle  *)
(* is checked beside it, on every template of four steps.                    *)
EXTENDS StepEngine, TLC

CONSTANTS
    a, b, id, visa, ana, bob,
    SearchedSteps  \* the steps of the template that is searched

VARIABLES graph, color, path, pending, starts, verdict

searchVars == <<graph, color, path, pending, starts, verdict>>

Search == INSTANCE CycleSearch WITH Steps <- SearchedSteps

NoOrder  == [s \in Steps |-> {}]
AThenB   == [s \in Steps |-> IF s = b THEN {a} ELSE {}]

PaperOf   == [d \in Definitions |-> IF d = visa THEN b ELSE a]
BothOnA   == [d \in Definitions |-> a]

(* The two share nothing.  The search comes first, whole; the case begins    *)
(* after that of one template, the one without edges, so that the instances  *)
(* add up instead of multiplying.                                            *)
SearchIsOver == verdict = "acyclic" /\ \A s \in SearchedSteps : graph[s] = {}

SearchThenCase ==
    \/ Search!SearchNext /\ UNCHANGED vars
    \/ SearchIsOver /\ Next /\ UNCHANGED searchVars

BothInit == Init /\ Search!SearchInit
BothSpec == BothInit /\ [][SearchThenCase]_<<vars, searchVars>>

(* The verdict of _has_cycle is right both ways, in every order of its loops *)
(* (CycleSearch).                                                            *)
VerdictIsRight == Search!VerdictIsRight

Symmetry == Permutations(Handlers) \cup Permutations(SearchedSteps)
=================================================================================
