---------------------------- MODULE PlanContext ----------------------------
(***************************************************************************)
(* PlanContext: the single-use bridge between those who register steps and *)
(* those who read results (crates/magna-build/src/plan_resolver.rs).       *)
(*                                                                         *)
(* execute() runs the whole of Executor and then fills two OnceLocks, the  *)
(* remap first.  get_result() may run on any thread at any time: it reads  *)
(* the two locks one after the other.                                      *)
(***************************************************************************)
EXTENDS Executor

CONSTANT Readers    \* threads that call get_result

(* An Option, or a OnceLock: the empty sequence until it is set. *)
Unset == <<>>
Some(x) == <<x>>
IsSet(cell) == cell # Unset

VARIABLES
    remapCell,      \* PlanContext.remap
    resultsCell,    \* PlanContext.results
    reader          \* Readers -> the call of get_result it is in, or came from

ctxVars == <<remapCell, resultsCell, reader>>

Idle == [pc |-> "idle", id |-> 0, executed |-> FALSE, canonical |-> 0, got |-> Unset]

CtxInit ==
    /\ ExecInit
    /\ remapCell = Unset
    /\ resultsCell = Unset
    /\ reader = [r \in Readers |-> Idle]

(* The planner leaves its Option when execute() starts (Build): from then  *)
(* on register_step and a second execute() return an error and change      *)
(* nothing.  A failed or panicked execution leaves both locks empty.       *)

StoreRemap ==
    /\ phase = "done" /\ ~IsSet(remapCell)
    /\ remapCell' = Some(remap)
    /\ UNCHANGED <<vars, resultsCell, reader>>

(* A bug: the results are made visible first. *)
StoreResultsFirst ==
    /\ phase = "done" /\ ~IsSet(resultsCell)
    /\ resultsCell' = Some(outputs)
    /\ UNCHANGED <<vars, remapCell, reader>>

StoreResults ==
    /\ phase = "done" /\ IsSet(remapCell) /\ ~IsSet(resultsCell)
    /\ resultsCell' = Some(outputs)
    /\ UNCHANGED <<vars, remapCell, reader>>

(* get_result(id), first half: forward the id through the remap, if there  *)
(* is one.  executed notes what is_executed() would have said.             *)
ReadRemap(r, id) ==
    /\ reader[r].pc # "mid"
    /\ reader' = [reader EXCEPT ![r] =
          [pc |-> "mid", id |-> id, executed |-> IsSet(resultsCell),
           canonical |-> IF IsSet(remapCell) THEN Resolve(remapCell[1], id) ELSE id,
           got |-> Unset]]
    /\ UNCHANGED <<vars, remapCell, resultsCell>>

(* get_result(id), second half: look the canonical id up in the results. *)
ReadResults(r) ==
    /\ reader[r].pc = "mid"
    /\ reader' = [reader EXCEPT
          ![r].pc = "end",
          ![r].got = IF IsSet(resultsCell) /\ reader[r].canonical \in DOMAIN resultsCell[1]
                     THEN Some(resultsCell[1][reader[r].canonical]) ELSE Unset]
    /\ UNCHANGED <<vars, remapCell, resultsCell>>

CtxNext ==
    \/ ExecNext /\ UNCHANGED ctxVars
    \/ StoreRemap
    \/ StoreResults
    \/ \E r \in Readers, id \in StepIds : ReadRemap(r, id)
    \/ \E r \in Readers : ReadResults(r)

CtxSpec == CtxInit /\ [][CtxNext]_<<vars, ctxVars>>

-----------------------------------------------------------------------------
(* Properties *)

(* Once is_executed() has been true, get_result answers for every step     *)
(* anyone registered, deduplicated away or not, with the output of the     *)
(* step that absorbed it.                                                  *)
ReadAfterExecute ==
    \A r \in Readers :
        reader[r].pc = "end" /\ reader[r].executed /\ reader[r].id \in DOMAIN steps =>
            reader[r].got = Some(outputs[Resolve(remap, reader[r].id)])

(* A call that races with the end of execute() may come back empty-handed, *)
(* but never with another step's output.                                   *)
ReadIsOwnOutput ==
    \A r \in Readers :
        IsSet(reader[r].got) =>
            /\ reader[r].id \in DOMAIN steps
            /\ LET step == steps[reader[r].id]
                   deps == ResolveAll(remap, step.deps)
               IN  reader[r].got[1].value \in {Null, Error, Apply(step.kind, Inputs(deps))}

-----------------------------------------------------------------------------
(* The inductive invariant behind them *)

(* The locks are set after the execution, in their order, to what it left. *)
CellsFilled ==
    /\ IsSet(remapCell) => phase = "done" /\ remapCell = Some(remap)
    /\ IsSet(resultsCell) => IsSet(remapCell) /\ resultsCell = Some(outputs)

(* A call that saw no remap goes on with the id it was given; one that     *)
(* started after the execution did see it.                                 *)
Forwarded(x) ==
    /\ \/ x.canonical = x.id
       \/ IsSet(remapCell) /\ x.canonical = Resolve(remap, x.id)
    /\ x.executed => IsSet(resultsCell) /\ x.canonical = Resolve(remap, x.id)

(* An answer is the output of the step that absorbed the one asked for. *)
Answered(x) ==
    IsSet(x.got) =>
        /\ IsSet(resultsCell) /\ x.id \in DOMAIN steps
        /\ x.got = Some(outputs[Resolve(remap, x.id)])

Call(x) == [pc |-> x.pc, id |-> x.id, executed |-> x.executed, canonical |-> x.canonical, got |-> x.got]

CtxInv ==
    /\ ExecInv
    /\ CellsFilled
    /\ DOMAIN reader = Readers
    /\ \A r \in Readers :
          reader[r] = Call(reader[r]) /\ Forwarded(reader[r]) /\ Answered(reader[r])
    /\ ReadAfterExecute
=============================================================================
