----------------------------- MODULE Optimizer -----------------------------
(***************************************************************************)
(* From registered steps to an execution order: Planner::register and      *)
(* Planner::build, then optimize() = topological sort, deduplication,      *)
(* second topological sort, hoisting of unary steps                        *)
(* (crates/magna-core/src/planner.rs, optimizer.rs).                       *)
(*                                                                         *)
(* The passes are sequential loops.  One iteration of a loop is one step   *)
(* of this specification, in the order phase dictates, so that the         *)
(* invariants of the loops can be stated and proved by induction.          *)
(***************************************************************************)
EXTENDS StepPlan

VARIABLES
    phase,      \* where the code is
    error,      \* the FwGraphError the request got, or "none"
    steps,      \* Planner.steps: what was registered
    plan,       \* ExecutionPlan.steps: what is still in the plan
    graph,      \* ExecutionPlan.graph: its edges
    pos,        \* the order the last topological_sort returned
    done,       \* the steps the running loop has been through
    seen,       \* deduplicate: fingerprint -> canonical step
    remap,      \* deduplicate: removed step -> canonical step
    placed,     \* hoist_unary_steps: the hoisted steps
    rank        \* OptimizedPlan.execution_order, as positions

optVars == <<phase, error, steps, plan, graph, pos, done, seen, remap, placed, rank>>

Phases == {"planning", "built", "dedup", "resort", "hoist", "optimized",
           "run", "done", "failed", "panicked"}

Errors == {"none", "StepNotFound", "PlanCycle", "MissingInput", "JoinError"}

Fingerprints == Kinds \X DepLists

(* A HashMap with keys in S and values in T. *)
IsMap(map, S, T) == DOMAIN map \subseteq S /\ map \in [DOMAIN map -> T]

(* The HashMaps and lists above hold step ids, steps and positions.        *)
OptTypeOK ==
    /\ phase \in Phases
    /\ error \in Errors
    /\ IsMap(steps, StepIds, Step)
    /\ IsMap(plan, StepIds, Step)
    /\ graph \subseteq StepIds \X StepIds
    /\ IsMap(pos, StepIds, Nat)
    /\ done \subseteq StepIds
    /\ IsMap(seen, Fingerprints, StepIds)
    /\ IsMap(remap, StepIds, StepIds)
    /\ placed \subseteq StepIds
    /\ IsMap(rank, StepIds, Nat)

Empty == [x \in {} |-> x]

OptInit ==
    /\ phase = "planning"
    /\ error = "none"
    /\ steps = Empty
    /\ plan = Empty
    /\ graph = {}
    /\ pos = Empty
    /\ done = {}
    /\ seen = Empty
    /\ remap = Empty
    /\ placed = {}
    /\ rank = Empty

Fail(e) == phase' = "failed" /\ error' = e

-----------------------------------------------------------------------------
(* Planner *)

(* register(step).  The code does not look at the step: its dependencies   *)
(* may name steps that are registered later, or never.                     *)
Register(id, step) ==
    /\ phase = "planning"
    /\ id \notin DOMAIN steps
    /\ steps' = Put(steps, id, step)
    /\ UNCHANGED <<phase, error, plan, graph, pos, done, seen, remap, placed, rank>>

(* build(): nodes, then edges, then the cycle check. *)
Build ==
    /\ phase = "planning"
    /\ LET missing == \E s \in DOMAIN steps : ~(DepSet(steps[s]) \subseteq DOMAIN steps)
           edges == Edges(steps)
       IN  \/ /\ missing
              /\ Fail("StepNotFound")
              /\ UNCHANGED <<plan, graph>>
           \/ /\ ~missing /\ ~Acyclic(DOMAIN steps, edges)
              /\ Fail("PlanCycle")
              /\ UNCHANGED <<plan, graph>>
           \/ /\ ~missing /\ Acyclic(DOMAIN steps, edges)
              /\ phase' = "built"
              /\ plan' = steps
              /\ graph' = edges
              /\ UNCHANGED error
    /\ UNCHANGED <<steps, pos, done, seen, remap, placed, rank>>

-----------------------------------------------------------------------------
(* Optimizer *)

(* topological_sort(): panics on a cycle ("validated by Planner"). *)
TopologicalSort(from, to) ==
    /\ phase = from
    /\ \/ /\ ~Acyclic(DOMAIN plan, graph)
          /\ phase' = "panicked"
          /\ UNCHANGED <<pos, done>>
       \/ /\ Acyclic(DOMAIN plan, graph)
          /\ pos' \in TopoOrders(DOMAIN plan, graph)
          /\ done' = {}
          /\ phase' = to
    /\ UNCHANGED <<error, steps, plan, graph, seen, remap, placed, rank>>

(* A bug in which the newest duplicate, told apart by its kind alone, becomes *)
(* canonical.                                                                 *)
DedupStepNewestWins ==
    /\ phase = "dedup"
    /\ \E s \in DOMAIN plan \ done :
        /\ IsNext(s, DOMAIN plan \ done, pos)
        /\ LET fp == <<plan[s].kind, <<>> >>
           IN  /\ remap' = IF fp \in DOMAIN seen THEN Put(remap, seen[fp], s) ELSE remap
               /\ seen' = Put(seen, fp, s)
        /\ done' = done \cup {s}
    /\ UNCHANGED <<phase, error, steps, plan, graph, pos, placed, rank>>

(* A bug: the fingerprint taken of the list as registered, so that steps   *)
(* whose inputs were merged do not meet.                                   *)
DedupStepUnmapped ==
    /\ phase = "dedup"
    /\ \E s \in DOMAIN plan \ done :
        /\ IsNext(s, DOMAIN plan \ done, pos)
        /\ LET fp == FingerprintUnmapped(remap, plan[s])
           IN  \/ /\ fp \in DOMAIN seen
                  /\ remap' = Put(remap, s, seen[fp])
                  /\ UNCHANGED seen
               \/ /\ fp \notin DOMAIN seen
                  /\ seen' = Put(seen, fp, s)
                  /\ UNCHANGED remap
        /\ done' = done \cup {s}
    /\ UNCHANGED <<phase, error, steps, plan, graph, pos, placed, rank>>

(* One iteration of the loop in deduplicate(): the first step with a       *)
(* fingerprint is canonical, later ones are remapped to it.                *)
DedupStep ==
    /\ phase = "dedup"
    /\ \E s \in DOMAIN plan \ done :
        /\ IsNext(s, DOMAIN plan \ done, pos)
        /\ LET fp == Fingerprint(remap, plan[s])
           IN  \/ /\ fp \in DOMAIN seen
                  /\ remap' = Put(remap, s, seen[fp])
                  /\ UNCHANGED seen
               \/ /\ fp \notin DOMAIN seen
                  /\ seen' = Put(seen, fp, s)
                  /\ UNCHANGED remap
        /\ done' = done \cup {s}
    /\ UNCHANGED <<phase, error, steps, plan, graph, pos, placed, rank>>

(* The end of deduplicate(): remove_step for every duplicate (which drops  *)
(* its edges), then rebuild_edges_after_remap, which skips a dependency    *)
(* whose canonical step is not in the plan.                                *)
RemoveDuplicates ==
    /\ phase = "dedup"
    /\ done = DOMAIN plan
    /\ plan' = Without(plan, DOMAIN remap)
    /\ graph' = IF DOMAIN remap = {} THEN graph
                ELSE {<<Resolve(remap, e[1]), e[2]>> : e \in
                        {f \in Edges(plan') : Resolve(remap, f[1]) \in DOMAIN plan'}}
    /\ phase' = "resort"
    /\ UNCHANGED <<error, steps, pos, done, seen, remap, placed, rank>>

(* The pass as it was once written: every unary step goes to the front. *)
HoistStepUnchecked ==
    /\ phase = "hoist"
    /\ \E s \in DOMAIN plan \ done :
        /\ IsNext(s, DOMAIN plan \ done, pos)
        /\ placed' = IF IsUnary(plan[s]) THEN placed \cup {s} ELSE placed
        /\ done' = done \cup {s}
    /\ UNCHANGED <<phase, error, steps, plan, graph, pos, seen, remap, rank>>

(* One iteration of hoist_unary_steps(). *)
HoistStep ==
    /\ phase = "hoist"
    /\ \E s \in DOMAIN plan \ done :
        /\ IsNext(s, DOMAIN plan \ done, pos)
        /\ placed' = IF IsUnary(plan[s]) /\ Predecessors(graph, s) \subseteq placed
                     THEN placed \cup {s} ELSE placed
        /\ done' = done \cup {s}
    /\ UNCHANGED <<phase, error, steps, plan, graph, pos, seen, remap, rank>>

(* hoisted.extend(deferred): the hoisted steps, then the others, each in   *)
(* the order they had.                                                     *)
Concatenate ==
    /\ phase = "hoist"
    /\ done = DOMAIN plan
    /\ rank' = [s \in DOMAIN plan |->
                   IF s \in placed THEN pos[s] ELSE Cardinality(DOMAIN plan) + pos[s]]
    /\ done' = {}
    /\ phase' = "optimized"
    /\ UNCHANGED <<error, steps, plan, graph, pos, seen, remap, placed>>

Optimize ==
    \/ TopologicalSort("built", "dedup")
    \/ DedupStep
    \/ RemoveDuplicates
    \/ TopologicalSort("resort", "hoist")
    \/ HoistStep
    \/ Concatenate

OptNext ==
    \/ \E r \in Registrable : Register(r[1], r[2])
    \/ Build
    \/ Optimize

OptSpec == OptInit /\ [][OptNext]_optVars

-----------------------------------------------------------------------------
(* Properties *)

(* topological_sort() never meets a cycle: deduplication, which redirects  *)
(* edges to canonical steps, keeps the graph that Planner::build validated *)
(* acyclic (the expect() in optimizer.rs cannot fire).                     *)
NoPanic == phase # "panicked"

AfterDedup ==
    \/ phase \in {"resort", "hoist", "optimized", "run", "done"}
    \/ phase = "failed" /\ error = "JoinError"

(* OptimizedPlan.remap: "values are always canonical (never themselves     *)
(* remapped)"; the removed steps are its keys, and every target is a step  *)
(* that stays in the plan and does the same work on the same inputs.       *)
RemapCanonical ==
    AfterDedup =>
        /\ DOMAIN plan = DOMAIN steps \ DOMAIN remap
        /\ \A s \in DOMAIN remap :
              /\ remap[s] \in DOMAIN plan
              /\ Fingerprint(remap, steps[s]) = Fingerprint(remap, steps[remap[s]])

(* Deduplication is complete: no two steps left in the plan have the same  *)
(* kind and the same inputs, even when the inputs became the same only     *)
(* because deduplication merged them.                                      *)
NoDuplicateWork ==
    AfterDedup => \A s, t \in DOMAIN plan :
        Fingerprint(remap, plan[s]) = Fingerprint(remap, plan[t]) => s = t

Ordered == phase \in {"optimized", "run", "done"}

(* execution_order: "Steps earlier in this list have no unresolved         *)
(* dependencies when it is their turn", after hoisting too, and with each  *)
(* dependency resolved through the remap as the executor does.             *)
DepsBefore ==
    Ordered => \A s \in DOMAIN plan : \A d \in DepSet(plan[s]) :
        /\ Resolve(remap, d) \in DOMAIN plan
        /\ rank[Resolve(remap, d)] < rank[s]

-----------------------------------------------------------------------------
(* The inductive invariant behind them, pass by pass *)

(* Nothing is merged or hoisted before the pass that does it. *)
NotYetMerged ==
    phase \in {"planning", "built"} => DOMAIN remap = {} /\ DOMAIN seen = {}

NotYetHoisted == phase \in {"planning", "built", "dedup", "resort"} => placed = {}

(* What Planner::build validated. *)
BuildValidated ==
    phase \in {"built", "dedup"} =>
        /\ plan = steps
        /\ graph = Edges(steps)
        /\ Acyclic(DOMAIN plan, graph)

DepsClosed ==
    phase \in {"built", "dedup"} \/ AfterDedup =>
        \A s \in DOMAIN steps : DepSet(steps[s]) \subseteq DOMAIN steps

(* pos is a topological order, and the loop has been through a prefix. *)
Walk ==
    phase \in {"dedup", "hoist"} =>
        /\ pos \in TopoOrders(DOMAIN plan, graph)
        /\ done \subseteq DOMAIN plan
        /\ \A s \in done, t \in DOMAIN plan \ done : pos[s] < pos[t]

(* A merged step leads to an unmerged one with the same fingerprint, ... *)
MergedIsCanonical ==
    phase = "dedup" \/ AfterDedup =>
        \A r \in DOMAIN remap :
            /\ r \in DOMAIN steps
            /\ remap[r] \in DOMAIN steps \ DOMAIN remap
            /\ Fingerprint(remap, steps[r]) = Fingerprint(remap, steps[remap[r]])

(* ... which the loop met earlier, ... *)
MergedIsEarlier ==
    phase = "dedup" =>
        \A r \in DOMAIN remap : r \in done /\ remap[r] \in done /\ pos[remap[r]] < pos[r]

(* ... and seen is exactly the table of the unmerged steps met so far. *)
SeenIsTable ==
    phase = "dedup" =>
        /\ \A s \in done \ DOMAIN remap :
              /\ Fingerprint(remap, steps[s]) \in DOMAIN seen
              /\ seen[Fingerprint(remap, steps[s])] = s
        /\ \A fp \in DOMAIN seen :
              /\ seen[fp] \in done \ DOMAIN remap
              /\ Fingerprint(remap, steps[seen[fp]]) = fp

(* The reduced plan and its rebuilt edges. *)
PlanReduced ==
    AfterDedup =>
        /\ plan = Without(steps, DOMAIN remap)
        /\ graph \subseteq (DOMAIN plan) \X (DOMAIN plan)
        /\ \A s \in DOMAIN plan : \A d \in DepSet(plan[s]) : <<Resolve(remap, d), s>> \in graph

ReducedAcyclic == phase = "resort" => Acyclic(DOMAIN plan, graph)

(* A hoisted step's dependencies are hoisted. *)
HoistedClosed ==
    phase = "hoist" => \A e \in graph : e[2] \in placed => e[1] \in placed

OrderValid ==
    Ordered =>
        /\ DOMAIN rank = DOMAIN plan
        /\ \A e \in graph : rank[e[1]] < rank[e[2]]

(* The conjunction that every step of the optimizer preserves.  The        *)
(* properties above follow from it.                                        *)
OptInv ==
    /\ OptTypeOK
    /\ NoPanic
    /\ NotYetMerged
    /\ NotYetHoisted
    /\ BuildValidated
    /\ DepsClosed
    /\ Walk
    /\ MergedIsCanonical
    /\ MergedIsEarlier
    /\ SeenIsTable
    /\ PlanReduced
    /\ NoDuplicateWork
    /\ ReducedAcyclic
    /\ HoistedClosed
    /\ OrderValid
=============================================================================
