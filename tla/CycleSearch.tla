------------------------------ MODULE CycleSearch ------------------------------
(***************************************************************************)
(* _has_cycle (src/journeys/journeys_manager.py), the search that          *)
(* set_prerequisites runs over the full graph of a template before it      *)
(* stores new edges: an iterative depth-first search in three colours.     *)
(*                                                                         *)
(* The code's one stack mixes (step, True), a step being explored, and     *)
(* (step, False), a dependency to take up.  Here "path" is the sequence of *)
(* the former and pending[s] the dependencies that lie above s, up to the  *)
(* next step being explored.  Python takes starts and dependencies in the  *)
(* order of a dict and of a set, which nothing fixes: any order, here.     *)
(***************************************************************************)
EXTENDS Integers, Sequences, PrerequisiteGraph

VARIABLES
    graph,    \* the prerequisites of each step, the proposed ones included
    color,    \* white: not seen; gray: being explored; black: explored
    path,     \* the steps being explored, each one a dependency of the last
    pending,  \* the dependencies of each that were white when it was reached
    starts,   \* the steps the outer loop has not come to
    verdict   \* what the search returns

searchVars == <<graph, color, path, pending, starts, verdict>>

Colors == {"white", "gray", "black"}
Deepest == path[Len(path)]

(* set_prerequisites has refused a step that waits for itself.             *)
SearchInit ==
    /\ graph \in [Steps -> SUBSET Steps]
    /\ \A s \in Steps : s \notin graph[s]
    /\ color = [s \in Steps |-> "white"]
    /\ path = <<>>
    /\ pending = [s \in Steps |-> {}]
    /\ starts = Steps
    /\ verdict = "none"

Painted(s, c) == [color EXCEPT ![s] = c]

(* A step is reached, with "rest" of the stack below it: back on the path  *)
(* means a cycle, otherwise its white dependencies are stacked.            *)
\* Mutant: a dependency that is being explored is passed over.
Reach_NoGrayTest(s, rest) ==
    /\ color' = Painted(s, "gray")
    /\ path' = Append(path, s)
    /\ pending' = [rest EXCEPT ![s] = {d \in graph[s] : Painted(s, "gray")[d] = "white"}]
    /\ UNCHANGED verdict

Reach(s, rest) ==
    LET now == Painted(s, "gray") IN
    /\ color' = now
    /\ \/ /\ \E d \in graph[s] : now[d] = "gray"
          /\ verdict' = "cycle"
          /\ UNCHANGED <<path, pending>>
       \/ /\ \A d \in graph[s] : now[d] # "gray"
          /\ path' = Append(path, s)
          /\ pending' = [rest EXCEPT ![s] = {d \in graph[s] : now[d] = "white"}]
          /\ UNCHANGED verdict

(* The outer loop: a start that is not white is passed over.               *)
TakeStart(s) ==
    /\ verdict = "none" /\ path = <<>>
    /\ s \in starts
    /\ starts' = starts \ {s}
    /\ \/ color[s] = "white" /\ Reach(s, pending)
       \/ color[s] # "white" /\ UNCHANGED <<color, path, pending, verdict>>
    /\ UNCHANGED graph

(* The pop of a dependency.  Only a gray one is passed over: one that      *)
(* turned black meanwhile is gone through again.                           *)
TakeDependency(d) ==
    /\ verdict = "none" /\ path # <<>>
    /\ d \in pending[Deepest]
    /\ LET rest == [pending EXCEPT ![Deepest] = @ \ {d}] IN
       \/ color[d] # "gray" /\ Reach(d, rest)
       \/ color[d] = "gray" /\ pending' = rest /\ UNCHANGED <<color, path, verdict>>
    /\ UNCHANGED <<graph, starts>>

(* The pop of a step whose dependencies have all been taken up.            *)
Leave ==
    /\ verdict = "none" /\ path # <<>>
    /\ pending[Deepest] = {}
    /\ color' = Painted(Deepest, "black")
    /\ path' = SubSeq(path, 1, Len(path) - 1)
    /\ UNCHANGED <<graph, pending, starts, verdict>>

ReturnFalse ==
    /\ verdict = "none" /\ path = <<>> /\ starts = {}
    /\ verdict' = "acyclic"
    /\ UNCHANGED <<graph, color, path, pending, starts>>

SearchNext ==
    \/ \E s \in Steps : TakeStart(s) \/ TakeDependency(s)
    \/ Leave
    \/ ReturnFalse

SearchSpec == SearchInit /\ [][SearchNext]_searchVars

-----------------------------------------------------------------------------
(* Properties.                                                             *)

(* The search is right both ways: it refuses every graph with a cycle and  *)
(* no other, whatever the order in which steps and dependencies come, and  *)
(* although it goes through some steps more than once.                     *)
VerdictIsRight ==
    /\ verdict = "acyclic" => Acyclic(graph)
    /\ verdict = "cycle" => ~Acyclic(graph)
=================================================================================
