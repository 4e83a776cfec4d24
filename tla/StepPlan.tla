------------------------------ MODULE StepPlan ------------------------------
(***************************************************************************)
(* The plan data that magna-core's planner, optimizer and executor share:  *)
(* steps, their dependency lists and fingerprints, the dependency graph    *)
(* and its topological orders (crates/magna-core/src/step.rs,              *)
(* fingerprint.rs, planner.rs).                                            *)
(*                                                                         *)
(* A step is its dependency list and its kind.  The kind stands for the    *)
(* pair (type_id, config_hash) of StepFingerprint: all that a step's       *)
(* behaviour may depend on besides its inputs.                             *)
(***************************************************************************)
EXTENDS Naturals, Sequences, FiniteSets

CONSTANTS
    MaxSteps,       \* bound: step ids are 1..MaxSteps (u32 in the code)
    MaxDeps,        \* bound: length of a dependency list
    Kinds,          \* the (type_id, config_hash) pairs in use
    UnaryKinds,     \* the kinds whose is_unary() is true
    Registrable,    \* bound: the <<id, step>> pairs a caller may register
    BatchSize       \* ExecutionPlan.batch_size (PLAN_BATCH_SIZE is 64)

ASSUME MaxStepsAssumption == MaxSteps \in Nat
ASSUME MaxDepsAssumption == MaxDeps \in Nat
ASSUME BatchSizeAssumption == BatchSize \in Nat \ {0}
ASSUME UnaryAssumption == UnaryKinds \subseteq Kinds
\* The values of skipped and failed steps are told apart from computed ones.
ASSUME MarksAssumption == "null" \notin Kinds /\ "error" \notin Kinds

(* StepId: the ids PlanScope::next_step_id hands out, unique in a plan. *)
StepIds == 1..MaxSteps

(* dependencies(): an ordered list, because StepInputs is positional. *)
DepLists == UNION {[1..n -> StepIds] : n \in 0..MaxDeps}

Step == [kind : Kinds, deps : DepLists]

ASSUME RegistrableAssumption == Registrable \subseteq StepIds \X Step

(* A HashMap is a function whose domain is the set of its keys. *)
Put(map, key, value) ==
    [k \in DOMAIN map \cup {key} |-> IF k = key THEN value ELSE map[k]]

Without(map, keys) == [k \in DOMAIN map \ keys |-> map[k]]

(* HashMap::get(id).copied().unwrap_or(id) on the dedup remap. *)
Resolve(remap, id) == IF id \in DOMAIN remap THEN remap[id] ELSE id

ResolveAll(remap, deps) == [i \in DOMAIN deps |-> Resolve(remap, deps[i])]

DepSet(step) == {step.deps[i] : i \in DOMAIN step.deps}

(* A bug: the list as the step owns it, before any remapping. *)
FingerprintUnmapped(remap, step) == <<step.kind, step.deps>>

(* A bug: the dependencies left out. *)
FingerprintNoDeps(remap, step) == <<step.kind, <<>> >>

(* StepFingerprint: kind and dependency list, the latter remapped. *)
Fingerprint(remap, step) == <<step.kind, ResolveAll(remap, step.deps)>>

IsUnary(step) == step.kind \in UnaryKinds

(* An edge <<d, s>> means that s depends on d. *)
Edges(steps) == UNION {{<<d, s>> : d \in DepSet(steps[s])} : s \in DOMAIN steps}

Predecessors(graph, s) == {e[1] : e \in {f \in graph : f[2] = s}}

(* petgraph::algo::toposort succeeds exactly on the graphs with no cycle;  *)
(* a graph has no cycle iff its nodes can be ranked along its edges.       *)
Acyclic(nodes, graph) ==
    \E rank \in [nodes -> StepIds] : \A e \in graph : rank[e[1]] < rank[e[2]]

(* What toposort may return: any order that places every node after its    *)
(* predecessors.  An order is written as the position it gives each node.  *)
TopoOrders(nodes, graph) ==
    {pos \in [nodes -> 1..Cardinality(nodes)] :
        /\ \A a, b \in nodes : pos[a] = pos[b] => a = b
        /\ \A e \in graph : pos[e[1]] < pos[e[2]]}

(* s is the element of todo that a walk in the given order reaches next. *)
IsNext(s, todo, order) == \A t \in todo : order[s] <= order[t]

-----------------------------------------------------------------------------
(* Outputs (magna-types StepFlags, magna-core StepOutput).  A value is the *)
(* term it was computed from, <<kind, arguments>>, so that a wrong or a    *)
(* misplaced input shows in the result.                                    *)

Batch == 1..BatchSize

Flags == SUBSET {"NULL", "ERROR", "INHIBITED"}

StepOutput(value, flags) == [value |-> value, flags |-> flags]

(* The value of a skipped step, and of a failed one. *)
Null == <<"null", <<>> >>
Error == <<"error", <<>> >>

(* What a step computes from its positional inputs. *)
Apply(kind, inputs) == <<kind, [k \in DOMAIN inputs |-> inputs[k].value]>>
=============================================================================
