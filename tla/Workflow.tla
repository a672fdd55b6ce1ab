------------------------------- MODULE Workflow -------------------------------
(***************************************************************************)
(* datastore/workflow/workflow.py: a graph of tasks, built call by call,   *)
(* verified once and computed task by task.                                *)
(*                                                                         *)
(* The executor builds one from a TaskList and computes it                 *)
(* (executor/app/main.py:236); the methods may also be chained by hand, so *)
(* calls come in any order here and a computed workflow may be extended    *)
(* and computed again.  A data cube is abstracted to its history: the      *)
(* sequence of the tasks whose operators made it; None is <<>>.            *)
(*                                                                         *)
(* networkx is external: topological_sort yields the nodes in some order   *)
(* that puts every node after its predecessors, and nothing here relies on *)
(* which of these orders it is.                                            *)
(***************************************************************************)
EXTENDS Naturals, Sequences, FiniteSets

CONSTANTS
    Ids,       \* task ids the callers use
    Kinds,     \* which kinds of task they add
    MaxUse     \* bound: dependencies of one task

(* "subset" reads a product and ignores its argument; "operator" stands    *)
(* for resample, average and to_regular, which assert that they are given  *)
(* a cube; "function" is what add_task takes, any function of a cube or    *)
(* None.  A workflow has finitely many tasks, since it is built by         *)
(* finitely many calls.                                                    *)
ASSUME KindsAssumption == Kinds \subseteq {"subset", "operator", "function"}
ASSUME IdsAssumption == IsFiniteSet(Ids)

VARIABLES
    nodes,       \* graph.nodes: added, or only mentioned as a dependency
    kind,        \* the task of a node; "undefined" without TASK_ATTRIBUTE
    edges,       \* graph.edges: <<dependency, task>>
    isVerified,
    computing,   \* is compute() in its loop
    visited,     \* tasks of this compute() that have returned, in order
    inputs,      \* history: what each task was given last
    result,      \* the local variable of compute()
    outcome      \* how the last call of compute() or verify() ended

graphVars == <<nodes, kind, edges>>
runVars == <<computing, visited, inputs, result>>
vars == <<graphVars, isVerified, runVars, outcome>>

Outcomes == {"none", "verified", "result", "cycle", "undefinedTask",
             "KeyError", "kubeIsNone", "taskError"}

Init ==
    /\ nodes = {}
    /\ kind = [i \in Ids |-> "undefined"]
    /\ edges = {}
    /\ isVerified = FALSE
    /\ computing = FALSE
    /\ visited = <<>>
    /\ inputs = [i \in Ids |-> <<>>]
    /\ result = <<>>
    /\ outcome = "none"

present == {i \in Ids : kind[i] # "undefined"}     \* present_nodes_ids
Visited == {visited[k] : k \in 1..Len(visited)}
Uses(i) == {u \in nodes : <<u, i>> \in edges}

(* nx.is_directed_acyclic_graph: whatever part of the graph one looks at,  *)
(* some node of it depends on nothing inside it.                           *)
Acyclic ==
    \A part \in SUBSET nodes \ {{}} :
        \E i \in part : Uses(i) \cap part = {}

------------------------------------------------------------------------------
(* Building.                                                               *)

\* Mutant: is_verified is not reset.
AddComputationalNodeKeepsVerified(i, k, use) ==
    /\ i \notin present
    /\ nodes' = nodes \cup {i} \cup use
    /\ kind' = [kind EXCEPT ![i] = k]
    /\ edges' = edges \cup (use \X {i})
    /\ UNCHANGED isVerified

\* Mutant: the dependencies do not become nodes.
AddComputationalNodeAlone(i, k, use) ==
    /\ i \notin present
    /\ nodes' = nodes \cup {i}
    /\ kind' = [kind EXCEPT ![i] = k]
    /\ edges' = edges \cup (use \X {i})
    /\ isVerified' = FALSE

(* _add_computational_node.  A second task under one id fails the          *)
(* assertion before anything changes.  A dependency nobody has added yet   *)
(* becomes a node without a task.                                          *)
AddComputationalNode(i, k, use) ==
    /\ i \notin present
    /\ nodes' = nodes \cup {i} \cup use
    /\ kind' = [kind EXCEPT ![i] = k]
    /\ edges' = edges \cup (use \X {i})
    /\ isVerified' = FALSE

(* subset, resample, average, to_regular, add_task; from_tasklist calls    *)
(* them in the order of the list, and hands a subset's "use" to nobody.    *)
Add(i, k, use) ==
    /\ ~computing
    /\ k \in Kinds
    /\ k = "subset" => use = {}
    /\ Cardinality(use) <= MaxUse
    /\ AddComputationalNode(i, k, use)
    /\ UNCHANGED <<runVars, outcome>>

------------------------------------------------------------------------------
(* Verification.                                                           *)

\* Mutant: only the heads of the edges are looked up.
VerifyPassesHeadsOnly ==
    \/ isVerified
    \/ Acyclic /\ \A e \in edges : e[2] \in present

(* A verified workflow is not looked at again; otherwise it must have no   *)
(* cycle and a task at both ends of every edge.                            *)
VerifyPasses ==
    \/ isVerified
    \/ Acyclic /\ \A e \in edges : e[1] \in present /\ e[2] \in present

VerifyError == IF Acyclic THEN "undefinedTask" ELSE "cycle"

Verify ==
    /\ ~computing
    /\ isVerified' = VerifyPasses
    /\ outcome' = IF VerifyPasses THEN "verified" ELSE VerifyError
    /\ UNCHANGED <<graphVars, runVars>>

------------------------------------------------------------------------------
(* Computation.                                                            *)

(* compute() up to its loop.                                               *)
Compute ==
    /\ ~computing
    /\ isVerified' = VerifyPasses
    /\ IF VerifyPasses
       THEN /\ computing' = TRUE
            /\ visited' = <<>>
            /\ inputs' = [i \in Ids |-> <<>>]
            /\ result' = <<>>
            /\ outcome' = "none"
       ELSE /\ outcome' = VerifyError
            /\ UNCHANGED runVars
    /\ UNCHANGED graphVars

\* Mutant: the nodes are taken as they were added, without sorting them.
IsNextUnsorted(i) == i \in nodes \ Visited

(* traverse: topological_sort yields i next.                               *)
IsNext(i) ==
    /\ i \in nodes \ Visited
    /\ Uses(i) \subseteq Visited

Stop(how) ==
    /\ computing' = FALSE
    /\ outcome' = how
    /\ UNCHANGED <<visited, inputs, result>>

\* Mutant: every task is computed from None.
TaskReturnsFromNone(i) ==
    /\ inputs' = [inputs EXCEPT ![i] = <<>>]
    /\ result' = <<i>>
    /\ visited' = Append(visited, i)
    /\ UNCHANGED <<computing, outcome>>

(* result = task.compute(result): whatever the task depends on, it is      *)
(* given what the task before it in the order returned.                    *)
TaskReturns(i) ==
    /\ inputs' = [inputs EXCEPT ![i] = result]
    /\ result' = IF kind[i] = "subset" THEN <<i>> ELSE Append(result, i)
    /\ visited' = Append(visited, i)
    /\ UNCHANGED <<computing, outcome>>

(* One turn of the loop: a node without a task is a KeyError of the        *)
(* traversal, an operator without a cube fails its assertion, any task may *)
(* raise an error of its own.                                              *)
ComputeTask(i) ==
    /\ computing
    /\ IsNext(i)
    /\ \/ /\ i \notin present
          /\ Stop("KeyError")
       \/ /\ kind[i] = "operator"
          /\ result = <<>>
          /\ Stop("kubeIsNone")
       \/ /\ i \in present
          /\ Stop("taskError")
       \/ /\ kind[i] \in {"subset", "function"} \/ result # <<>>
          /\ i \in present
          /\ TaskReturns(i)
    /\ UNCHANGED <<graphVars, isVerified>>

(* The loop is over and compute() returns the last result.                 *)
Return ==
    /\ computing
    /\ Visited = nodes
    /\ Stop("result")
    /\ UNCHANGED <<graphVars, isVerified>>

Next ==
    \/ \E i \in Ids, k \in Kinds, use \in SUBSET Ids : Add(i, k, use)
    \/ Verify
    \/ Compute
    \/ \E i \in Ids : ComputeTask(i)
    \/ Return

Spec == Init /\ [][Next]_vars

------------------------------------------------------------------------------
(* Types; an edge never has an end that is not a node, which the traversal *)
(* would not come to.                                                      *)
TypeOK ==
    /\ nodes \subseteq Ids
    /\ kind \in [Ids -> Kinds \cup {"undefined"}]
    /\ edges \subseteq nodes \X nodes
    /\ isVerified \in BOOLEAN
    /\ computing \in BOOLEAN
    /\ visited \in Seq(Ids)
    /\ inputs \in [Ids -> Seq(Ids)]
    /\ result \in Seq(Ids)
    /\ outcome \in Outcomes

(* The is_verified flag is never stale: while it is set, the graph has no  *)
(* cycle and a task at every node, however calls of verify, compute and    *)
(* the building methods follow each other.                                 *)
VerifiedIsValid ==
    isVerified => Acyclic /\ nodes \subseteq present

(* compute() always has a next task until all are done, and never meets a  *)
(* node without one: the sort neither stops early nor raises, and the      *)
(* lookup of TASK_ATTRIBUTE does not fail.                                 *)
TraversalGoesThrough ==
    /\ computing /\ Visited # nodes => \E i \in nodes : IsNext(i)
    /\ outcome # "KeyError"

(* A task returns once per compute(), after everything it uses.            *)
EachTaskOnceInOrder ==
    \A k \in 1..Len(visited) :
        /\ \A l \in 1..Len(visited) : visited[k] = visited[l] => k = l
        /\ \A u \in Uses(visited[k]) : \E l \in 1..(k - 1) : visited[l] = u

(* The assertions of resample, average and to_regular fail only in a       *)
(* workflow that has such an operator without any dependency.              *)
NoneNeedsRootOperator ==
    outcome = "kubeIsNone" =>
        \E i \in nodes : kind[i] = "operator" /\ Uses(i) = {}

(* What task i returned in this compute().                                 *)
OutputOf(i) == IF kind[i] = "subset" THEN <<i>> ELSE Append(inputs[i], i)

(* One subset, and every other task uses exactly one task that no other    *)
(* task uses.                                                              *)
IsChain ==
    /\ \A i \in nodes : Cardinality(Uses(i)) = IF kind[i] = "subset" THEN 0 ELSE 1
    /\ \A i, j \in nodes : Uses(i) \cap Uses(j) # {} => i = j
    /\ Cardinality({i \in nodes : kind[i] = "subset"}) = 1

(* A chain of tasks is computed as written, in whatever order its tasks    *)
(* were added: each task is given what the one it uses returned.           *)
ChainIsComputed ==
    IsChain => \A i \in Visited, u \in nodes :
                   u \in Uses(i) => inputs[i] = OutputOf(u)

===============================================================================
