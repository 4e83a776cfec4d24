----------------------------- MODULE MCExecutor -----------------------------
(* Instances for TLC.  The plans are the ones callers build: a step names  *)
(* steps with smaller ids (PlanScope::next_step_id counts up), so the      *)
(* cases Planner::build rejects are left to MCOptimizer and one dangling   *)
(* dependency here.                                                        *)
EXTENDS Executor

StepOf(id, kinds, depLists) == {<<id, [kind |-> k, deps |-> d]>> : k \in kinds, d \in depLists}

(* Roots, chains, joins with both input orders, a dangling dependency, and *)
(* two roots with a dependent each, which merge if the roots do.           *)
Plans ==
    StepOf(1, {"read"}, {<<>>}) \cup
    StepOf(2, {"read", "unary"}, {<<>>, <<1>>, <<5>>}) \cup
    StepOf(3, {"read", "unary"}, {<<1>>, <<2>>, <<1, 2>>, <<2, 1>>}) \cup
    StepOf(4, {"read"}, {<<3>>, <<2, 3>>, <<2>>})

None == {}
Nul == {"NULL"}
Inh == {"INHIBITED"}

(* Values, a null in one item or in both, inhibited, fewer items than the  *)
(* batch.                                                                  *)
AllFlagLists == {<<None, None>>, <<Nul, None>>, <<Nul, Nul>>, <<Inh, Inh>>, <<Nul>>}
=============================================================================
