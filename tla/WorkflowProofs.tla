---------------------------- MODULE WorkflowProofs ----------------------------
(***************************************************************************)
(* What holds of every workflow, however many tasks it has and in whatever *)
(* order it is built, verified and computed.                               *)
(***************************************************************************)
EXTENDS Workflow, SequenceTheorems, FiniteSetTheorems, TLAPS

(* Edges join nodes, and a node without a task is there only because a     *)
(* task uses it.                                                           *)
GraphInv ==
    /\ nodes \subseteq Ids
    /\ kind \in [Ids -> Kinds \cup {"undefined"}]
    /\ edges \subseteq nodes \X nodes
    /\ \A i \in nodes \ present : \E e \in edges : e[1] = i

(* compute() runs over a verified graph, and holds a cube from its first   *)
(* task on.                                                                *)
RunInv ==
    /\ isVerified \in BOOLEAN
    /\ computing \in BOOLEAN
    /\ visited \in Seq(Ids)
    /\ inputs \in [Ids -> Seq(Ids)]
    /\ result \in Seq(Ids)
    /\ outcome \in Outcomes
    /\ computing => isVerified
    /\ computing /\ Visited # {} => result # <<>>
    /\ Visited \ nodes = {}
    /\ outcome # "KeyError"

Inv == GraphInv /\ VerifiedIsValid /\ RunInv /\ NoneNeedsRootOperator

------------------------------------------------------------------------------
(* Visited is the range of visited: one more task, one more element.       *)
LEMMA VisitedAppend ==
    ASSUME NEW i \in Ids, visited \in Seq(Ids), visited' = Append(visited, i)
    PROVE  Visited' = Visited \cup {i}
  BY DEF Visited

LEMMA VisitedEmpty ==
    ASSUME visited' = <<>>
    PROVE  Visited' = {}
  BY DEF Visited

(* The two places that set is_verified check what the flag promises.       *)
LEMMA VerifyPassesIsSound ==
    ASSUME GraphInv, VerifiedIsValid, VerifyPasses
    PROVE  Acyclic /\ nodes \subseteq present
  BY DEF VerifyPasses, VerifiedIsValid, GraphInv

(* While the graph stays as it is, so does what was said of it.            *)
LEMMA GraphUnchanged ==
    ASSUME UNCHANGED graphVars
    PROVE  /\ Acyclic' = Acyclic
           /\ present' = present
           /\ \A i : Uses(i)' = Uses(i)
           /\ GraphInv => GraphInv'
  BY DEF graphVars, Acyclic, present, Uses, GraphInv

(* The end of compute() keeps its locals as they are.                      *)
LEMMA StopRunInv ==
    ASSUME RunInv, NEW how \in Outcomes \ {"KeyError"}, Stop(how),
           UNCHANGED <<graphVars, isVerified>>
    PROVE  RunInv'
<1>1. Visited' = Visited
  BY DEF Stop, Visited
<1>2. nodes' = nodes
  BY DEF graphVars
<1>3. QED
  BY <1>1, <1>2 DEF RunInv, Stop

------------------------------------------------------------------------------
LEMMA InitInv == Init => Inv
<1> SUFFICES ASSUME Init PROVE Inv
  OBVIOUS
<1>1. GraphInv /\ VerifiedIsValid
  BY DEF Init, GraphInv, VerifiedIsValid
<1>2. Visited = {}
  BY DEF Init, Visited
<1>3. outcome \in Outcomes /\ result \in Seq(Ids) /\ visited \in Seq(Ids)
  BY DEF Init, Outcomes
<1>4. RunInv /\ NoneNeedsRootOperator
  BY <1>2, <1>3 DEF Init, RunInv, NoneNeedsRootOperator
<1>5. QED
  BY <1>1, <1>4 DEF Inv

LEMMA AddInv ==
    ASSUME Inv, NEW i \in Ids, NEW k \in Kinds, NEW use \in SUBSET Ids,
           Add(i, k, use)
    PROVE  Inv'
<1> USE DEF Inv
<1>1. /\ i \notin present
      /\ nodes' = nodes \cup {i} \cup use
      /\ kind' = [kind EXCEPT ![i] = k]
      /\ edges' = edges \cup (use \X {i})
      /\ isVerified' = FALSE
      /\ ~computing
      /\ UNCHANGED <<runVars, outcome>>
  BY DEF Add, AddComputationalNode
<1>2. k # "undefined"
  BY KindsAssumption
<1>3. present' = present \cup {i}
  BY <1>1, <1>2 DEF present, GraphInv
<1>4. GraphInv'
  <2>1. nodes' \subseteq Ids /\ kind' \in [Ids -> Kinds \cup {"undefined"}]
    BY <1>1 DEF GraphInv
  <2>2. edges' \subseteq nodes' \X nodes'
    BY <1>1 DEF GraphInv
  <2>3. ASSUME NEW j \in nodes' \ present'
        PROVE  \E e \in edges' : e[1] = j
    <3>1. CASE j \in nodes
      BY <1>1, <1>3, <2>3, <3>1 DEF GraphInv
    <3>2. CASE j \in use
      <4>1. <<j, i>> \in edges'
        BY <1>1, <3>2
      <4>2. QED
        BY <4>1
    <3>3. QED
      BY <1>1, <1>3, <2>3, <3>1, <3>2
  <2>4. QED
    BY <2>1, <2>2, <2>3 DEF GraphInv
<1>5. VerifiedIsValid'
  BY <1>1 DEF VerifiedIsValid
<1>6. RunInv'
  BY <1>1 DEF RunInv, runVars, Visited
<1>7. NoneNeedsRootOperator'
  <2> SUFFICES ASSUME outcome' = "kubeIsNone"
               PROVE  \E j \in nodes' : kind'[j] = "operator" /\ Uses(j)' = {}
    BY DEF NoneNeedsRootOperator
  <2>1. PICK j \in nodes : kind[j] = "operator" /\ Uses(j) = {}
    BY <1>1 DEF NoneNeedsRootOperator
  <2>2. j \in present /\ j # i
    BY <1>1, <2>1 DEF present, GraphInv
  <2>3. kind'[j] = "operator"
    BY <1>1, <2>1, <2>2 DEF GraphInv
  <2>4. Uses(j)' = {}
    BY <1>1, <2>1, <2>2 DEF Uses, GraphInv
  <2>5. QED
    BY <1>1, <2>1, <2>3, <2>4
<1>8. QED
  BY <1>4, <1>5, <1>6, <1>7

LEMMA VerifyInv == Inv /\ Verify => Inv'
<1> SUFFICES ASSUME Inv, Verify PROVE Inv'
  OBVIOUS
<1>1. /\ UNCHANGED graphVars /\ UNCHANGED runVars /\ ~computing
      /\ isVerified' = VerifyPasses
      /\ outcome' \in {"verified", "cycle", "undefinedTask"}
  BY DEF Verify, VerifyError
<1>2. VerifiedIsValid'
  BY <1>1, VerifyPassesIsSound, GraphUnchanged
     DEF Inv, VerifiedIsValid, graphVars
<1>3. RunInv'
  <2>1. isVerified' \in BOOLEAN /\ outcome' \in Outcomes
    BY <1>1 DEF VerifyPasses, Outcomes
  <2>2. QED
    BY <1>1, <2>1 DEF Inv, RunInv, runVars, graphVars, Visited
<1>4. QED
  BY <1>1, <1>2, <1>3, GraphUnchanged DEF Inv, NoneNeedsRootOperator

LEMMA ComputeInv == Inv /\ Compute => Inv'
<1> SUFFICES ASSUME Inv, Compute PROVE Inv'
  OBVIOUS
<1>1. /\ UNCHANGED graphVars
      /\ isVerified' = VerifyPasses
      /\ outcome' \in {"none", "cycle", "undefinedTask"}
  BY DEF Compute, VerifyError
<1>2. VerifiedIsValid'
  BY <1>1, VerifyPassesIsSound, GraphUnchanged
     DEF Inv, VerifiedIsValid, graphVars
<1>3. RunInv'
  <2>1. CASE VerifyPasses
    <3>1. /\ visited' = <<>> /\ result' = <<>> /\ outcome' = "none"
          /\ inputs' = [i \in Ids |-> <<>>]
      BY <2>1 DEF Compute
    <3>2. visited' \in Seq(Ids) /\ result' \in Seq(Ids)
          /\ inputs' \in [Ids -> Seq(Ids)]
      BY <3>1
    <3>3. Visited' = {}
      BY <3>1, VisitedEmpty
    <3>4. isVerified'
      BY <1>1, <2>1
    <3>5. isVerified' \in BOOLEAN /\ computing' \in BOOLEAN
      BY <1>1, <2>1 DEF Compute, VerifyPasses
    <3>6. outcome' \in Outcomes
      BY <3>1 DEF Outcomes
    <3>7. QED
      BY <3>1, <3>2, <3>3, <3>4, <3>5, <3>6 DEF RunInv
  <2>2. CASE ~VerifyPasses
    <3>1. UNCHANGED runVars /\ ~isVerified' /\ ~computing
      BY <1>1, <2>2 DEF Compute
    <3>2. isVerified' \in BOOLEAN /\ outcome' \in Outcomes
      BY <1>1, <2>2 DEF Outcomes, VerifyPasses
    <3>3. QED
      BY <1>1, <3>1, <3>2 DEF Inv, RunInv, runVars, graphVars, Visited
  <2>3. QED
    BY <2>1, <2>2
<1>4. QED
  BY <1>1, <1>2, <1>3, GraphUnchanged DEF Inv, NoneNeedsRootOperator

LEMMA ComputeTaskInv ==
    ASSUME Inv, NEW i \in Ids, ComputeTask(i)
    PROVE  Inv'
<1>1. /\ computing /\ isVerified
      /\ IsNext(i)
      /\ UNCHANGED <<graphVars, isVerified>>
  BY DEF ComputeTask, Inv, RunInv
<1>2. i \in present
  BY <1>1 DEF Inv, VerifiedIsValid, IsNext
<1>3. VerifiedIsValid' /\ GraphInv'
  BY <1>1, GraphUnchanged DEF Inv, VerifiedIsValid, graphVars
<1>4. CASE kind[i] = "operator" /\ result = <<>> /\ Stop("kubeIsNone")
  <2>1. Visited = {}
    BY <1>1, <1>4 DEF Inv, RunInv
  <2>2. i \in nodes /\ Uses(i) = {}
    BY <1>1, <2>1 DEF IsNext
  <2>3. NoneNeedsRootOperator'
    BY <1>1, <1>4, <2>2, GraphUnchanged DEF NoneNeedsRootOperator, graphVars
  <2>4. RunInv'
    BY <1>1, <1>4, StopRunInv DEF Inv, Outcomes
  <2>5. QED
    BY <1>3, <2>3, <2>4 DEF Inv
<1>5. CASE Stop("taskError")
  <2>1. RunInv'
    BY <1>1, <1>5, StopRunInv DEF Inv, Outcomes
  <2>2. NoneNeedsRootOperator'
    BY <1>5 DEF Stop, NoneNeedsRootOperator
  <2>3. QED
    BY <1>3, <2>1, <2>2 DEF Inv
<1>6. CASE TaskReturns(i)
  <2>1. result' \in Seq(Ids) /\ result' # <<>>
    <3>1. result \in Seq(Ids)
      BY DEF Inv, RunInv
    <3>2. <<i>> \in Seq(Ids) /\ <<i>> # <<>>
      OBVIOUS
    <3>3. Append(result, i) \in Seq(Ids) /\ Append(result, i) # <<>>
      BY <3>1, AppendProperties
    <3>4. QED
      BY <1>6, <3>2, <3>3 DEF TaskReturns
  <2>2. visited' \in Seq(Ids) /\ inputs' \in [Ids -> Seq(Ids)]
    BY <1>6 DEF TaskReturns, Inv, RunInv
  <2>3. (Visited \ nodes)' = {}
    BY <1>1, <1>6, VisitedAppend
       DEF TaskReturns, IsNext, Inv, RunInv, graphVars
  <2>4. RunInv'
    BY <1>1, <1>6, <2>1, <2>2, <2>3 DEF TaskReturns, Inv, RunInv
  <2>5. NoneNeedsRootOperator'
    BY <1>1, <1>6, GraphUnchanged
       DEF TaskReturns, Inv, NoneNeedsRootOperator, graphVars
  <2>6. QED
    BY <1>3, <2>4, <2>5 DEF Inv
<1>7. QED
  BY <1>2, <1>4, <1>5, <1>6 DEF ComputeTask

LEMMA ReturnInv == Inv /\ Return => Inv'
<1> SUFFICES ASSUME Inv, Return PROVE Inv'
  OBVIOUS
<1>1. UNCHANGED <<graphVars, isVerified>> /\ Stop("result")
  BY DEF Return
<1>2. RunInv'
  BY <1>1, StopRunInv DEF Inv, Outcomes
<1>3. VerifiedIsValid' /\ GraphInv'
  BY <1>1, GraphUnchanged DEF Inv, VerifiedIsValid, graphVars
<1>4. NoneNeedsRootOperator'
  BY <1>1 DEF Stop, NoneNeedsRootOperator
<1>5. QED
  BY <1>2, <1>3, <1>4 DEF Inv

LEMMA InvInductive == Inv /\ [Next]_vars => Inv'
<1>1. ASSUME Inv, UNCHANGED vars PROVE Inv'
  <2>1. UNCHANGED graphVars /\ UNCHANGED runVars /\ UNCHANGED <<isVerified, outcome>>
    BY <1>1 DEF vars
  <2>2. QED
    BY <1>1, <2>1, GraphUnchanged
       DEF Inv, VerifiedIsValid, RunInv, runVars, Visited, NoneNeedsRootOperator,
           graphVars
<1>2. QED
  BY <1>1, AddInv, VerifyInv, ComputeInv, ComputeTaskInv, ReturnInv DEF Next

LEMMA InvAlways == Spec => []Inv
  BY InitInv, InvInductive, PTL DEF Spec

------------------------------------------------------------------------------
(* The graph, the flag, the locals of compute() and its outcome keep their *)
(* types, and an edge always joins two nodes.                              *)
THEOREM TypeCorrect == Spec => []TypeOK
<1>1. Inv => TypeOK
  BY DEF Inv, GraphInv, RunInv, TypeOK
<1>2. QED
  BY <1>1, InvAlways, PTL

(* The is_verified flag is never stale, for any number of tasks and any    *)
(* sequence of calls.                                                      *)
THEOREM VerifiedIsValidAlways == Spec => []VerifiedIsValid
<1>1. Inv => VerifiedIsValid
  BY DEF Inv
<1>2. QED
  BY <1>1, InvAlways, PTL

(* compute() reaches the end of the graph: as long as tasks remain, one of *)
(* them has all it uses, and it is never a node without a task.            *)
THEOREM TraversalAlwaysGoesThrough == Spec => []TraversalGoesThrough
<1>1. Inv => TraversalGoesThrough
  <2> SUFFICES ASSUME Inv, computing, Visited # nodes
               PROVE  \E i \in nodes : IsNext(i)
    BY DEF Inv, RunInv, TraversalGoesThrough
  <2>1. PICK i \in nodes \ Visited : Uses(i) \cap (nodes \ Visited) = {}
    BY DEF Inv, RunInv, VerifiedIsValid, Acyclic
  <2>2. Uses(i) \subseteq Visited
    BY <2>1 DEF Uses
  <2>3. QED
    BY <2>1, <2>2 DEF IsNext
<1>2. QED
  BY <1>1, InvAlways, PTL

(* An operator is handed None only when the workflow has an operator that  *)
(* depends on nothing: from the second task on there is always a cube.     *)
THEOREM NoneNeedsRootOperatorAlways == Spec => []NoneNeedsRootOperator
<1>1. Inv => NoneNeedsRootOperator
  BY DEF Inv
<1>2. QED
  BY <1>1, InvAlways, PTL

------------------------------------------------------------------------------
(* What compute() has done so far.                                         *)

(* Every task that has returned is one of the graph's tasks, so the calls  *)
(* that add to the graph later give it no new dependency.                  *)
OrderInv == Visited \subseteq present /\ EachTaskOnceInOrder

(* Each task was given what the one before it has returned, and the local  *)
(* variable holds what the last one has.                                   *)
Handed ==
    /\ \A k \in 1..Len(visited) :
          inputs[visited[k]] = IF k = 1 THEN <<>> ELSE OutputOf(visited[k - 1])
    /\ result = IF visited = <<>> THEN <<>> ELSE OutputOf(visited[Len(visited)])

(* The tasks that have returned form a chain; unlike IsChain this does not *)
(* depend on what has been added since.                                    *)
VisitedIsChain ==
    /\ \A i \in Visited : Cardinality(Uses(i)) = IF kind[i] = "subset" THEN 0 ELSE 1
    /\ \A i, j \in Visited : Uses(i) \cap Uses(j) # {} => i = j
    /\ \A i, j \in Visited : kind[i] = "subset" /\ kind[j] = "subset" => i = j

(* The tasks of a chain have returned in the order of the chain.           *)
ChainOrder ==
    VisitedIsChain =>
        \A k \in 2..Len(visited) : Uses(visited[k]) = {visited[k - 1]}

DoneInv == OrderInv /\ Handed /\ ChainOrder

(* While neither the locals of compute() nor what they were computed from  *)
(* change, so does nothing of what was done.                               *)
LEMMA DoneUnchanged ==
    ASSUME Inv, DoneInv, Visited \subseteq present',
           UNCHANGED <<visited, inputs, result>>,
           \A i \in Visited : Uses(i)' = Uses(i) /\ kind'[i] = kind[i]
    PROVE  DoneInv'
<1> DEFINE n == Len(visited)
<1>1. Visited' = Visited /\ visited' = visited /\ n' = n
  BY DEF Visited
<1>2. \A k \in 1..n : visited[k] \in Visited
  BY DEF Visited
<1>3. visited \in Seq(Ids) /\ n \in Nat
  BY DEF Inv, RunInv
<1>4. OrderInv'
  <2>1. \A k \in 1..n : Uses(visited[k])' = Uses(visited[k])
    BY <1>1, <1>2
  <2>2. ASSUME NEW k \in 1..n
        PROVE  \A l \in 1..n : visited[k] = visited[l] => k = l
    BY DEF DoneInv, OrderInv, EachTaskOnceInOrder
  <2>3. EachTaskOnceInOrder'
    <3> SUFFICES ASSUME NEW k \in 1..n
                 PROVE  /\ \A l \in 1..n : visited'[k] = visited'[l] => k = l
                        /\ \A u \in Uses(visited[k])' :
                              \E l \in 1..(k - 1) : visited'[l] = u
      BY <1>1 DEF EachTaskOnceInOrder
    <3>1. visited' = visited
      BY <1>1
    <3>2. \A l \in 1..n : visited[k] = visited[l] => k = l
      BY <2>2
    <3>3. \A u \in Uses(visited[k]) : \E l \in 1..(k - 1) : visited[l] = u
      BY DEF DoneInv, OrderInv, EachTaskOnceInOrder
    <3>4. Uses(visited[k])' = Uses(visited[k])
      BY <2>1
    <3>5. QED
      BY <3>1, <3>2, <3>3, <3>4
  <2>4. QED
    BY <1>1, <2>3 DEF OrderInv
<1>5. \A i \in Visited : OutputOf(i)' = OutputOf(i)
  BY DEF OutputOf
<1>6. Handed'
  <2>1. \A k \in 1..n : k # 1 => visited[k - 1] \in Visited
    BY <1>2, <1>3
  <2>2. visited # <<>> => visited[n] \in Visited
    BY <1>2, <1>3
  <2>3. \A k \in 1..n :
           inputs'[visited[k]] = IF k = 1 THEN <<>> ELSE OutputOf(visited[k - 1])'
    BY <1>5, <2>1 DEF DoneInv, Handed
  <2>4. result' = IF visited = <<>> THEN <<>> ELSE OutputOf(visited[n])'
    BY <1>5, <2>2 DEF DoneInv, Handed
  <2>5. QED
    BY <1>1, <2>3, <2>4 DEF Handed
<1>7. ChainOrder'
  <2>1. VisitedIsChain' = VisitedIsChain
    BY <1>1 DEF VisitedIsChain
  <2>2. \A k \in 2..n : Uses(visited[k])' = Uses(visited[k])
    BY <1>2, <1>3
  <2>3. QED
    BY <1>1, <2>1, <2>2 DEF DoneInv, ChainOrder
<1>8. QED
  BY <1>4, <1>6, <1>7 DEF DoneInv

LEMMA AddDone ==
    ASSUME Inv, DoneInv, NEW i \in Ids, NEW k \in Kinds, NEW use \in SUBSET Ids,
           Add(i, k, use)
    PROVE  DoneInv'
<1>1. /\ i \notin present
      /\ nodes' = nodes \cup {i} \cup use
      /\ kind' = [kind EXCEPT ![i] = k]
      /\ edges' = edges \cup (use \X {i})
      /\ UNCHANGED <<visited, inputs, result>>
  BY DEF Add, AddComputationalNode, runVars
<1>2. Visited \subseteq present'
  BY <1>1, KindsAssumption DEF DoneInv, OrderInv, present, Inv, GraphInv
<1>3. \A j \in Visited : j # i
  BY <1>1 DEF DoneInv, OrderInv
<1>4. \A j \in Visited : Uses(j)' = Uses(j) /\ kind'[j] = kind[j]
  BY <1>1, <1>3 DEF Uses, Inv, GraphInv
<1>5. QED
  BY <1>1, <1>2, <1>4, DoneUnchanged

LEMMA GraphKeptDone ==
    ASSUME Inv, DoneInv, UNCHANGED graphVars, UNCHANGED <<visited, inputs, result>>
    PROVE  DoneInv'
<1>1. Visited \subseteq present'
  BY GraphUnchanged DEF DoneInv, OrderInv
<1>2. \A i \in Visited : Uses(i)' = Uses(i) /\ kind'[i] = kind[i]
  BY GraphUnchanged DEF graphVars
<1>3. QED
  BY <1>1, <1>2, DoneUnchanged

LEMMA NothingDone ==
    ASSUME visited' = <<>>, result' = <<>>
    PROVE  DoneInv'
<1>1. Visited' = {} /\ Len(visited') = 0
  BY VisitedEmpty
<1>2. OrderInv'
  BY <1>1 DEF OrderInv, EachTaskOnceInOrder
<1>3. Handed' /\ ChainOrder'
  BY <1>1 DEF Handed, ChainOrder
<1>4. QED
  BY <1>2, <1>3 DEF DoneInv

(* A turn of the loop: the order of the visits ...                         *)
LEMMA ReturnsInOrder ==
    ASSUME Inv, DoneInv, NEW i \in Ids, IsNext(i), TaskReturns(i), i \in present,
           UNCHANGED graphVars
    PROVE  OrderInv'
<1> DEFINE n == Len(visited)
<1>1. /\ visited \in Seq(Ids) /\ n \in Nat
      /\ visited' = Append(visited, i) /\ Len(visited') = n + 1
      /\ visited'[n + 1] = i
      /\ \A k \in 1..n : visited'[k] = visited[k]
  BY DEF TaskReturns, Inv, RunInv
<1>2. \A k \in 1..n : visited[k] \in Visited
  BY DEF Visited
<1>3. Visited' = Visited \cup {i} /\ i \notin Visited
  BY <1>1, VisitedAppend DEF IsNext
<1>4. (Visited \subseteq present)'
  BY <1>3, GraphUnchanged DEF DoneInv, OrderInv
<1>5. ASSUME NEW k \in 1..(n + 1)
      PROVE  /\ \A l \in 1..(n + 1) : visited'[k] = visited'[l] => k = l
             /\ \A u \in Uses(visited[k])' : \E l \in 1..(k - 1) : visited'[l] = u
  <2>1. CASE k \in 1..n
    <3>1. \A l \in 1..n : visited'[k] = visited'[l] => k = l
      BY <1>1, <2>1 DEF DoneInv, OrderInv, EachTaskOnceInOrder
    <3>2. visited'[k] # visited'[n + 1]
      BY <1>1, <1>2, <1>3, <2>1
    <3>3. \A u \in Uses(visited[k]) : \E l \in 1..(k - 1) : visited[l] = u
      BY <2>1 DEF DoneInv, OrderInv, EachTaskOnceInOrder
    <3>4. Uses(visited[k])' = Uses(visited[k])
      BY <1>1, <2>1 DEF Uses, graphVars
    <3>5. \A l \in 1..(k - 1) : visited'[l] = visited[l]
      BY <1>1, <2>1
    <3>6. \A l \in 1..(n + 1) : l \in 1..n \/ l = n + 1
      BY <1>1
    <3>7. \A u \in Uses(visited[k])' : \E l \in 1..(k - 1) : visited'[l] = u
      BY <3>3, <3>4, <3>5
    <3>8. QED
      BY <3>1, <3>2, <3>6, <3>7
  <2>2. CASE k = n + 1
    <3>1. \A l \in 1..(n + 1) : visited'[k] = visited'[l] => k = l
      BY <1>1, <1>2, <1>3, <2>2
    <3>2. Uses(visited[k])' \subseteq Visited
      BY <1>1, <2>2 DEF IsNext, Uses, graphVars
    <3>3. \A u \in Visited : \E l \in 1..n : visited[l] = u
      BY DEF Visited
    <3>4. k - 1 = n
      BY <1>1, <2>2
    <3>5. QED
      BY <1>1, <3>1, <3>2, <3>3, <3>4
  <2>3. k \in 1..n \/ k = n + 1
    BY <1>1
  <2>4. QED
    BY <2>1, <2>2, <2>3
<1>6. QED
  BY <1>1, <1>4, <1>5 DEF OrderInv, EachTaskOnceInOrder

(* ... what the tasks are given ...                                        *)
LEMMA ReturnsHanded ==
    ASSUME Inv, DoneInv, NEW i \in Ids, IsNext(i), TaskReturns(i),
           UNCHANGED graphVars
    PROVE  Handed'
<1> DEFINE n == Len(visited)
<1>1. /\ visited \in Seq(Ids) /\ n \in Nat
      /\ visited' = Append(visited, i) /\ Len(visited') = n + 1
      /\ visited'[n + 1] = i
      /\ \A k \in 1..n : visited'[k] = visited[k]
  BY DEF TaskReturns, Inv, RunInv
<1>2. \A k \in 1..n : visited[k] \in Visited /\ visited[k] \in Ids
  BY <1>1 DEF Visited
<1>3. i \notin Visited
  BY DEF IsNext
<1>4. inputs' = [inputs EXCEPT ![i] = result] /\ inputs'[i] = result
  BY DEF TaskReturns, Inv, RunInv
<1>5. \A j \in Visited : inputs'[j] = inputs[j] /\ OutputOf(j)' = OutputOf(j)
  BY <1>3, <1>4 DEF Inv, RunInv, OutputOf, graphVars
<1>6. \A k \in 1..n : OutputOf(visited[k])' = OutputOf(visited[k])
  BY <1>1, <1>2, <1>5 DEF OutputOf, graphVars
<1>7. result' = OutputOf(i)'
  BY <1>4 DEF TaskReturns, OutputOf, graphVars
<1>8. ASSUME NEW k \in 1..(n + 1)
      PROVE  inputs'[visited'[k]] =
                IF k = 1 THEN <<>> ELSE OutputOf(visited[k - 1])'
  <2>1. CASE k \in 1..n
    <3>1. inputs'[visited'[k]] = IF k = 1 THEN <<>> ELSE OutputOf(visited[k - 1])
      BY <1>1, <1>2, <1>5, <2>1 DEF DoneInv, Handed
    <3>2. k # 1 => k - 1 \in 1..n
      BY <1>1, <2>1
    <3>3. inputs'[visited'[k]] = inputs[visited[k]]
      BY <1>1, <1>2, <1>5, <2>1
    <3>4. QED
      BY <1>6, <3>1, <3>2, <3>3, <1>1, <1>2, <1>5, <2>1
  <2>2. CASE k = n + 1
    <3>1. inputs'[visited'[k]] = result
      BY <1>1, <1>4, <2>2
    <3>2. CASE n = 0
      BY <1>1, <2>2, <3>1, <3>2 DEF DoneInv, Handed
    <3>3. CASE n # 0
      <4>1. k # 1 /\ k - 1 = n /\ n \in 1..n /\ visited # <<>>
        BY <1>1, <2>2, <3>3
      <4>2. result = OutputOf(visited[n])
        BY <4>1 DEF DoneInv, Handed
      <4>3. OutputOf(visited[k - 1])' = OutputOf(visited[k - 1])
        BY <1>6, <4>1
      <4>4. QED
        BY <3>1, <4>1, <4>2, <4>3
    <3>4. QED
      BY <3>2, <3>3
  <2>3. QED
    BY <1>1, <2>1, <2>2
<1>9. visited' # <<>>
  BY <1>1
<1>10. QED
  BY <1>1, <1>7, <1>8, <1>9 DEF Handed

(* ... and the order of a chain: the task that follows can only use the    *)
(* last one, since every other has its successor already.                  *)
LEMMA ReturnsInChainOrder ==
    ASSUME Inv, DoneInv, NEW i \in Ids, IsNext(i), TaskReturns(i),
           IsFiniteSet(Visited), UNCHANGED graphVars
    PROVE  ChainOrder'
<1> DEFINE n == Len(visited)
<1>1. /\ visited \in Seq(Ids) /\ n \in Nat
      /\ visited' = Append(visited, i) /\ Len(visited') = n + 1
      /\ visited'[n + 1] = i
      /\ \A k \in 1..n : visited'[k] = visited[k]
  BY DEF TaskReturns, Inv, RunInv
<1>2. \A k \in 1..n : visited[k] \in Visited
  BY DEF Visited
<1>3. Visited' = Visited \cup {i} /\ i \notin Visited
  BY <1>1, VisitedAppend DEF IsNext
<1>4. \A j : Uses(j)' = Uses(j)
  BY GraphUnchanged
<1>5. kind' = kind
  BY DEF graphVars
<1> SUFFICES ASSUME VisitedIsChain', NEW k \in 2..(n + 1)
             PROVE  Uses(visited[k])' = {visited'[k - 1]}
  BY <1>1 DEF ChainOrder
<1>6. \A m \in 1..(n + 1) : Uses(visited[m])' = Uses(visited'[m])
  BY DEF Uses, graphVars
<1>7. /\ \A j \in Visited \cup {i} :
            Cardinality(Uses(j)) = IF kind[j] = "subset" THEN 0 ELSE 1
      /\ \A j, l \in Visited \cup {i} : Uses(j) \cap Uses(l) # {} => j = l
      /\ \A j, l \in Visited \cup {i} :
            kind[j] = "subset" /\ kind[l] = "subset" => j = l
  BY <1>3, <1>4, <1>5 DEF VisitedIsChain
<1>8. \A m \in 2..n : Uses(visited[m]) = {visited[m - 1]}
  BY <1>7 DEF VisitedIsChain, DoneInv, ChainOrder
<1>9. CASE k \in 2..n
  <2>1. k \in 1..n /\ k - 1 \in 1..n
    BY <1>1, <1>9
  <2>2. QED
    <3>1. visited'[k] = visited[k] /\ visited'[k - 1] = visited[k - 1]
      BY <1>1, <2>1
    <3>2. k \in 1..(n + 1)
      BY <1>1, <2>1
    <3>3. QED
      BY <1>6, <1>8, <1>9, <3>1, <3>2
<1>10. CASE k = n + 1
  <2>1. n \in 1..n /\ 1 \in 1..n /\ k - 1 = n
    BY <1>1, <1>10
  <2>2. Uses(visited[1]) = {}
    <3>1. \A u \in Uses(visited[1]) : \E l \in 1..(1 - 1) : visited[l] = u
      BY <2>1 DEF DoneInv, OrderInv, EachTaskOnceInOrder
    <3>2. QED
      BY <3>1
  <2>3. kind[visited[1]] = "subset"
    <3>1. Cardinality(Uses(visited[1])) = 0
      BY <2>2, FS_EmptySet
    <3>2. visited[1] \in Visited
      BY <1>2, <2>1
    <3>3. QED
      BY <1>7, <3>1, <3>2
  <2>4. Cardinality(Uses(i)) = 1
    BY <1>2, <1>3, <1>7, <2>1, <2>3
  <2>5. IsFiniteSet(Uses(i)) /\ Uses(i) \subseteq Visited
    BY FS_Subset DEF IsNext
  <2>6. PICK u : Uses(i) = {u}
    BY <2>4, <2>5, FS_Singleton
  <2>7. PICK l \in 1..n : visited[l] = u
    BY <2>5, <2>6 DEF Visited
  <2>8. ASSUME l # n PROVE FALSE
    <3>1. l + 1 \in 2..n /\ l + 1 \in 1..n /\ (l + 1) - 1 = l
      BY <1>1, <2>8
    <3>2. Uses(visited[l + 1]) = {u}
      BY <1>8, <2>7, <3>1
    <3>3. visited[l + 1] \in Visited
      BY <1>2, <3>1
    <3>4. visited[l + 1] = i
      BY <1>7, <2>6, <3>2, <3>3
    <3>5. QED
      BY <1>3, <3>3, <3>4
  <2>9. Uses(visited[k])' = {visited[n]}
    BY <1>1, <1>6, <1>10, <2>6, <2>7, <2>8
  <2>10. QED
    BY <1>1, <2>1, <2>9
<1>11. QED
  BY <1>1, <1>9, <1>10

LEMMA ComputeTaskDone ==
    ASSUME Inv, DoneInv, IsFiniteSet(Visited), NEW i \in Ids, ComputeTask(i)
    PROVE  DoneInv'
<1>1. UNCHANGED graphVars /\ IsNext(i)
  BY DEF ComputeTask
<1>2. ASSUME NEW how, Stop(how) PROVE DoneInv'
  BY <1>1, <1>2, GraphKeptDone DEF Stop
<1>3. CASE i \in present /\ TaskReturns(i)
  BY <1>1, <1>3, ReturnsInOrder, ReturnsHanded, ReturnsInChainOrder DEF DoneInv
<1>4. QED
  BY <1>2, <1>3 DEF ComputeTask

LEMMA DoneInductive ==
    ASSUME Inv, DoneInv, [Next]_vars
    PROVE  DoneInv'
<1>1. IsFiniteSet(Visited)
  BY IdsAssumption, FS_Subset DEF Inv, GraphInv, RunInv
<1>2. ASSUME Verify \/ Return \/ UNCHANGED vars PROVE DoneInv'
  <2>1. UNCHANGED graphVars /\ UNCHANGED <<visited, inputs, result>>
    BY <1>2 DEF Verify, Return, Stop, vars, runVars
  <2>2. QED
    BY <2>1, GraphKeptDone
<1>3. ASSUME Compute PROVE DoneInv'
  <2>1. CASE VerifyPasses
    BY <1>3, <2>1, NothingDone DEF Compute
  <2>2. CASE ~VerifyPasses
    <3>1. UNCHANGED graphVars /\ UNCHANGED <<visited, inputs, result>>
      BY <1>3, <2>2 DEF Compute, runVars
    <3>2. QED
      BY <3>1, GraphKeptDone
  <2>3. QED
    BY <2>1, <2>2
<1>4. QED
  BY <1>1, <1>2, <1>3, AddDone, ComputeTaskDone DEF Next

LEMMA InitDone == Init => DoneInv
<1> SUFFICES ASSUME Init PROVE DoneInv
  OBVIOUS
<1>1. Visited = {} /\ Len(visited) = 0
  BY DEF Init, Visited
<1>2. OrderInv
  BY <1>1 DEF OrderInv, EachTaskOnceInOrder
<1>3. Handed /\ ChainOrder
  BY <1>1 DEF Init, Handed, ChainOrder
<1>4. QED
  BY <1>2, <1>3 DEF DoneInv

LEMMA DoneAlways == Spec => [](Inv /\ DoneInv)
<1>1. Init => DoneInv
  BY InitDone
<1>2. Inv /\ DoneInv /\ [Next]_vars => DoneInv'
  BY DoneInductive
<1>3. QED
  BY <1>1, <1>2, InvAlways, PTL DEF Spec

(* Every task returns once per compute(), after all it uses, however many  *)
(* tasks there are and whatever was added to the graph since.              *)
THEOREM EachTaskOnceInOrderAlways == Spec => []EachTaskOnceInOrder
<1>1. DoneInv => EachTaskOnceInOrder
  BY DEF DoneInv, OrderInv
<1>2. QED
  BY <1>1, DoneAlways, PTL

(* A chain of tasks of any length is computed as it is written: each task  *)
(* is given what the task it uses has returned, although compute() hands   *)
(* over the result of whatever task came before.                           *)
THEOREM ChainIsAlwaysComputed == Spec => []ChainIsComputed
<1>1. ASSUME Inv, DoneInv PROVE ChainIsComputed
  <2> SUFFICES ASSUME IsChain, NEW i \in Visited, NEW u \in nodes, u \in Uses(i)
               PROVE  inputs[i] = OutputOf(u)
    BY DEF ChainIsComputed
  <2>1. Visited \subseteq nodes /\ visited \in Seq(Ids) /\ Len(visited) \in Nat
    BY <1>1 DEF Inv, RunInv
  <2>2. \A j, l \in nodes : kind[j] = "subset" /\ kind[l] = "subset" => j = l
    <3> DEFINE subsets == {j \in nodes : kind[j] = "subset"}
    <3>1. IsFiniteSet(subsets) /\ Cardinality(subsets) = 1
      BY <1>1, IdsAssumption, FS_Subset DEF Inv, GraphInv, IsChain
    <3>2. PICK x : subsets = {x}
      BY <3>1, FS_Singleton
    <3>3. QED
      BY <3>2
  <2>3. VisitedIsChain
    BY <2>1, <2>2 DEF IsChain, VisitedIsChain
  <2>4. PICK k \in 1..Len(visited) : visited[k] = i
    BY DEF Visited
  <2>5. PICK l \in 1..(k - 1) : visited[l] = u
    BY <1>1, <2>4 DEF DoneInv, OrderInv, EachTaskOnceInOrder
  <2>6. k \in 2..Len(visited) /\ k # 1
    BY <2>1, <2>4, <2>5
  <2>7. visited[k - 1] = u
    BY <1>1, <2>3, <2>4, <2>6 DEF DoneInv, ChainOrder
  <2>8. QED
    BY <1>1, <2>4, <2>6, <2>7 DEF DoneInv, Handed
<1>2. QED
  BY <1>1, DoneAlways, PTL

===============================================================================
