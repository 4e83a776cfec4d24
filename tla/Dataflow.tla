------------------------------ MODULE Dataflow ------------------------------
(***************************************************************************)
(* What running a plan promises to those who registered its steps, with no *)
(* word on optimization, ordering or tasks (the contract in the comments   *)
(* of crates/magna-core/src/step.rs and executor.rs, as the code keeps     *)
(* it).  Steps get results as their dependencies get theirs; one output    *)
(* may be the result of several steps if each of them could have produced  *)
(* it; a result is final.                                                  *)
(***************************************************************************)
EXTENDS StepPlan

VARIABLES
    registered,     \* the steps, as their owners registered them
    result,         \* step -> its output
    status          \* "open", "running", "done" or "failed"

flowVars == <<registered, result, status>>

FlowInit ==
    /\ DOMAIN registered = {}
    /\ DOMAIN result = {}
    /\ status = "open"

(* One more step; the others stay as they are. *)
Add ==
    /\ status = "open"
    /\ \E id \in DOMAIN registered' \ DOMAIN registered :
        registered' = Put(registered, id, registered'[id])
    /\ UNCHANGED <<result, status>>

WellFormed ==
    /\ \A s \in DOMAIN registered : DepSet(registered[s]) \subseteq DOMAIN registered
    /\ Acyclic(DOMAIN registered, Edges(registered))

(* A plan is accepted exactly if it can be evaluated. *)
Start ==
    /\ status = "open"
    /\ status' = IF WellFormed THEN "running" ELSE "failed"
    /\ UNCHANGED <<registered, result>>

(* Item i cannot be computed: an input has a null or an error for it. *)
Blocked(inputs, i) ==
    \E k \in DOMAIN inputs :
        /\ i <= Len(inputs[k].flags)
        /\ inputs[k].flags[i] \cap {"NULL", "ERROR"} # {}

(* out is a possible result of the step on these inputs: a step with no    *)
(* item left to compute is not run, any other may fail or compute.         *)
Permitted(kind, inputs, out) ==
    LET blocked == \A i \in Batch : Blocked(inputs, i)
    IN  \/ /\ blocked
           /\ out.value = Null
           /\ \A i \in Batch : out.flags[i] # {}
        \/ /\ ~blocked
           /\ out = StepOutput(Error, [i \in Batch |-> {"ERROR"}])
        \/ /\ ~blocked
           /\ out.value = Apply(kind, inputs)

Publish ==
    /\ status = "running"
    /\ DOMAIN result \subseteq DOMAIN result'
    /\ DOMAIN result' \subseteq DOMAIN registered
    /\ \A s \in DOMAIN result : result'[s] = result[s]
    /\ \A s \in DOMAIN result' \ DOMAIN result :
        LET deps == registered[s].deps
        IN  /\ DepSet(registered[s]) \subseteq DOMAIN result
            /\ Permitted(registered[s].kind, [k \in DOMAIN deps |-> result[deps[k]]], result'[s])
    /\ UNCHANGED <<registered, status>>

Finish ==
    /\ status = "running"
    /\ DOMAIN result = DOMAIN registered
    /\ status' = "done"
    /\ UNCHANGED <<registered, result>>

(* A step panicked. *)
Abort ==
    /\ status = "running"
    /\ status' = "failed"
    /\ UNCHANGED <<registered, result>>

FlowNext == Add \/ Start \/ Publish \/ Finish \/ Abort

FlowSpec == FlowInit /\ [][FlowNext]_flowVars
=============================================================================
