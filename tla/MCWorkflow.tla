------------------------------ MODULE MCWorkflow ------------------------------
(* Instances of Workflow for TLC.                                          *)
EXTENDS Workflow, TLC

(* No action or property names a task id.                                  *)
IdSymmetry == Permutations(Ids)

(* "node2, precedint2 = next(task_iter)", "assert len(precedint2) == 1",   *)
(* "assert precedint2[0].operator.name == "subset"" (test_workflow.py,     *)
(* lines 16-18): the traversal hands a task out with the tasks it uses.    *)
(* compute() hands it the result of the task before it in the order, which *)
(* need not be one it uses.                                                *)
PrecedentsArePassed ==
    \A i \in Visited, u \in nodes :
        Uses(i) = {u} => inputs[i] = OutputOf(u)

===============================================================================
