--------------------------- MODULE MCPlanContext ---------------------------
(* Instance for TLC: plans of up to three steps in which two may merge,    *)
(* and two concurrent readers.                                             *)
EXTENDS PlanContext

StepOf(id, kinds, depLists) == {<<id, [kind |-> k, deps |-> d]>> : k \in kinds, d \in depLists}

Plans ==
    StepOf(1, {"read"}, {<<>>}) \cup
    StepOf(2, {"read", "unary"}, {<<>>}) \cup
    StepOf(3, {"read"}, {<<1>>, <<2>>})

OneFlagList == {<<{}>>}
=============================================================================
