------------------------------ MODULE Executor ------------------------------
(***************************************************************************)
(* Executor::execute on an optimized plan: compute_tiers, then tier by     *)
(* tier a loop that skips or spawns the tier's steps and a loop that       *)
(* awaits their tokio tasks (crates/magna-core/src/executor.rs).           *)
(*                                                                         *)
(* Spawned tasks run concurrently with the loops and with each other.      *)
(* A step's code is outside the executor: a task may finish with any       *)
(* outcome of the constant FlagLists, with an error, or by panicking.  A   *)
(* value is written as the term it was computed from, <<kind, arguments>>, *)
(* so that a wrong, missing or misplaced input shows in the result.        *)
(***************************************************************************)
EXTENDS Optimizer

CONSTANT
    FlagLists       \* bound: the flag lists a step may return

ASSUME FlagListsAssumption == FlagLists \subseteq Seq(Flags)

VARIABLES
    tier,           \* compute_tiers: step -> tier
    current,        \* the tier the outer loop is in
    task,           \* spawned step -> its task
    outputs         \* step -> StepOutput

execVars == <<tier, current, task, outputs>>

vars == <<optVars, execVars>>

(* A spawned execute(): its StepInputs and what has come of it. *)
Task(status, flags, inputs) == [status |-> status, flags |-> flags, inputs |-> inputs]

(* What ExecutableStep::execute may come back with; a panic is caught by   *)
(* tokio and turns up as the JoinError of the task's handle.               *)
Outcomes ==
    [status : {"ok"}, flags : FlagLists] \cup [status : {"err", "panic"}, flags : {<<>>}]

ExecTypeOK ==
    /\ OptTypeOK
    /\ IsMap(tier, StepIds, Nat)
    /\ current \in Nat
    /\ DOMAIN task \subseteq StepIds
    /\ \A s \in DOMAIN task :
          /\ task[s].status \in {"running", "ok", "err", "panic"}
          /\ task[s].flags \in Seq(Flags)
    /\ DOMAIN outputs \subseteq StepIds
    /\ \A s \in DOMAIN outputs : outputs[s].flags \in Seq(Flags)

ExecInit ==
    /\ OptInit
    /\ tier = Empty
    /\ current = 0
    /\ task = Empty
    /\ outputs = Empty

-----------------------------------------------------------------------------
(* compute_tiers *)

(* One iteration of the loop that numbers the tiers: one more than the     *)
(* largest tier among the predecessors that have one, 0 if none has.       *)
TierStep ==
    /\ phase = "optimized"
    /\ \E s \in DOMAIN rank \ done, t \in 0..MaxSteps :
        LET below == {tier[d] : d \in Predecessors(graph, s) \cap DOMAIN tier}
        IN  /\ IsNext(s, DOMAIN rank \ done, rank)
            /\ \A u \in below : u < t
            /\ t = 0 \/ (t - 1) \in below
            /\ tier' = Put(tier, s, t)
            /\ done' = done \cup {s}
    /\ UNCHANGED <<phase, error, steps, plan, graph, pos, seen, remap, placed, rank,
                   current, task, outputs>>

StartTiers ==
    /\ phase = "optimized"
    /\ done = DOMAIN rank
    /\ done' = {}
    /\ phase' = IF DOMAIN rank = {} THEN "done" ELSE "run"
    /\ UNCHANGED <<error, steps, plan, graph, pos, seen, remap, placed, rank, execVars>>

-----------------------------------------------------------------------------
(* The dispatch loop of a tier *)

TierSteps == {s \in DOMAIN tier : tier[s] = current}

(* A bug: the ids as the step was built with them. *)
DepIdsUnmapped(s) == plan[s].deps

(* dep_ids: the step's own list, resolved through the dedup remap. *)
DepIds(s) == ResolveAll(remap, plan[s].deps)

(* result_flags[i] in check_propagating_flags: NULL and ERROR accumulate   *)
(* over the dependencies that have an output with an item i.               *)
ResultFlags(deps) ==
    [i \in Batch |->
        {f \in {"NULL", "ERROR"} :
            \E k \in DOMAIN deps :
                /\ deps[k] \in DOMAIN outputs
                /\ i <= Len(outputs[deps[k]].flags)
                /\ f \in outputs[deps[k]].flags[i]}]

(* check_propagating_flags returns Some: every item is flagged. *)
ShouldSkip(deps) == \A i \in Batch : ResultFlags(deps)[i] # {}

Inputs(deps) == [k \in DOMAIN deps |-> outputs[deps[k]]]

(* One iteration of the loop over the tier: skip the step, reject it for   *)
(* an output that is not there, or spawn it with its positional inputs.    *)
Dispatch ==
    /\ phase = "run"
    /\ \E s \in TierSteps \ done :
        /\ IsNext(s, TierSteps \ done, rank)
        /\ LET deps == DepIds(s)
               missing == \E k \in DOMAIN deps : deps[k] \notin DOMAIN outputs
           IN  \/ /\ ShouldSkip(deps)
                  /\ outputs' = Put(outputs, s, StepOutput(Null, ResultFlags(deps)))
                  /\ UNCHANGED <<phase, error, task>>
               \/ /\ ~ShouldSkip(deps) /\ missing
                  /\ Fail("MissingInput")
                  /\ UNCHANGED <<task, outputs>>
               \/ /\ ~ShouldSkip(deps) /\ ~missing
                  /\ task' = Put(task, s, Task("running", <<>>, Inputs(deps)))
                  /\ UNCHANGED <<phase, error, outputs>>
        /\ done' = done \cup {s}
    /\ UNCHANGED <<steps, plan, graph, pos, seen, remap, placed, rank, tier, current>>

(* The spawned task: execute() returns, or panics.  Nothing stops a task   *)
(* whose request has already failed: dropping a JoinHandle detaches it.    *)
TaskFinish(s, outcome) ==
    /\ s \in DOMAIN task
    /\ task[s].status = "running"
    /\ task' = Put(task, s, Task(outcome.status, outcome.flags, task[s].inputs))
    /\ UNCHANGED <<optVars, tier, current, outputs>>

-----------------------------------------------------------------------------
(* The await loop of a tier *)

(* broadcast_unary: a single item is repeated for the whole batch. *)
BroadcastUnary(flags) == IF Len(flags) = 1 THEN [i \in Batch |-> flags[1]] ELSE flags

(* A bug: the error stands for one item. *)
ErrorOutputSingle == StepOutput(Error, <<{"ERROR"}>>)

(* error_output_batch: the error stands for every item. *)
ErrorOutputBatch == StepOutput(Error, [i \in Batch |-> {"ERROR"}])

Collected(s) ==
    IF task[s].status = "err" THEN ErrorOutputBatch
    ELSE StepOutput(Apply(plan[s].kind, task[s].inputs),
                    IF IsUnary(plan[s]) THEN BroadcastUnary(task[s].flags)
                                        ELSE task[s].flags)

(* One iteration of "for handle in handles".  A panicked task ends the     *)
(* request; the handles behind it are dropped.                             *)
Await ==
    /\ phase = "run"
    /\ TierSteps \subseteq done
    /\ \E s \in TierSteps \ DOMAIN outputs :
        /\ IsNext(s, TierSteps \ DOMAIN outputs, rank)
        /\ task[s].status # "running"
        /\ \/ /\ task[s].status = "panic"
              /\ Fail("JoinError")
              /\ UNCHANGED outputs
           \/ /\ task[s].status # "panic"
              /\ outputs' = Put(outputs, s, Collected(s))
              /\ UNCHANGED <<phase, error>>
    /\ UNCHANGED <<steps, plan, graph, pos, done, seen, remap, placed, rank, tier, current, task>>

(* A bug: the join waits for a task of every step, skipped ones included. *)
NextTierJoinsSkipped ==
    /\ phase = "run"
    /\ TierSteps \subseteq DOMAIN outputs \cap DOMAIN task
    /\ \/ /\ \E s \in DOMAIN tier : tier[s] > current
          /\ current' = current + 1
          /\ UNCHANGED phase
       \/ /\ \A s \in DOMAIN tier : tier[s] <= current
          /\ phase' = "done"
          /\ UNCHANGED current
    /\ UNCHANGED <<error, steps, plan, graph, pos, done, seen, remap, placed, rank,
                   tier, task, outputs>>

(* The outer loop: the next tier, or Ok(outputs) after the last. *)
NextTier ==
    /\ phase = "run"
    /\ TierSteps \subseteq DOMAIN outputs
    /\ \/ /\ \E s \in DOMAIN tier : tier[s] > current
          /\ current' = current + 1
          /\ UNCHANGED phase
       \/ /\ \A s \in DOMAIN tier : tier[s] <= current
          /\ phase' = "done"
          /\ UNCHANGED current
    /\ UNCHANGED <<error, steps, plan, graph, pos, done, seen, remap, placed, rank,
                   tier, task, outputs>>

Sequential == TierStep \/ StartTiers \/ Dispatch \/ Await \/ NextTier

ExecNext ==
    \/ OptNext /\ UNCHANGED execVars
    \/ Sequential
    \/ \E s \in StepIds, outcome \in Outcomes : TaskFinish(s, outcome)

ExecSpec == ExecInit /\ [][ExecNext]_vars

(* The request's own code runs until it returns, and the tokio runtime     *)
(* polls every task to its end.  That a step's execute() returns at all is *)
(* an assumption on the step: the executor puts no timeout on it.          *)
FairExecSpec ==
    /\ ExecSpec
    /\ WF_vars(Build /\ UNCHANGED execVars)
    /\ WF_vars(Optimize /\ UNCHANGED execVars)
    /\ WF_vars(Sequential)
    /\ \A s \in StepIds : WF_vars(\E outcome \in Outcomes : TaskFinish(s, outcome))

-----------------------------------------------------------------------------
(* Properties *)

(* The hard error of the dispatch loop ("depends on step ..., which        *)
(* produced no output") is unreachable: whatever was registered, merged    *)
(* and hoisted, a step's tier comes after its resolved dependencies'.      *)
NoMissingInput == error # "MissingInput"

(* Deduplication is invisible in the results: the output a registered step *)
(* is read from is the one its own kind computes from the outputs its own  *)
(* dependencies are read from, position by position, unless it failed or   *)
(* was skipped.                                                            *)
ResultsConsistent ==
    \A s \in DOMAIN steps :
        LET out == outputs[Resolve(remap, s)]
            deps == ResolveAll(remap, steps[s].deps)
        IN  Resolve(remap, s) \in DOMAIN outputs =>
                /\ \A k \in DOMAIN deps : deps[k] \in DOMAIN outputs
                /\ out.value \in {Null, Error, Apply(steps[s].kind, Inputs(deps))}

(* A failed step takes its dependents with it: a step that depends on one  *)
(* that failed, or that was itself skipped because of a failure, is never  *)
(* run, and its output carries the ERROR flag for every item to its own    *)
(* dependents.                                                             *)
ErrorContained ==
    \A s \in DOMAIN outputs : \A k \in DOMAIN DepIds(s) :
        LET dep == outputs[DepIds(s)[k]]
        IN  dep.value = Error \/ (dep.value = Null /\ \A i \in Batch : "ERROR" \in dep.flags[i]) =>
                /\ s \notin DOMAIN task
                /\ \A i \in Batch : "ERROR" \in outputs[s].flags[i]

(* Ok(outputs) is returned only when nothing of the plan is in flight, and *)
(* it answers for every step that was registered.                          *)
CompleteWhenDone ==
    phase = "done" =>
        /\ \A s \in DOMAIN steps : Resolve(remap, s) \in DOMAIN outputs
        /\ \A s \in DOMAIN task : task[s].status # "running"

(* Executor::execute returns, with the outputs or with an error. *)
Termination == <>(phase \in {"done", "failed"})

-----------------------------------------------------------------------------
(* The inductive invariant behind them *)

Running ==
    \/ phase \in {"run", "done"}
    \/ phase = "failed" /\ error = "JoinError"

(* Before the first tier is dispatched there are no tasks and no outputs. *)
NothingRunYet ==
    /\ ~Running => DOMAIN task = {} /\ DOMAIN outputs = {} /\ current = 0
    /\ phase \in {"planning", "built", "dedup", "resort", "hoist"} => DOMAIN tier = {}

(* compute_tiers: along every edge of the graph the tier increases. *)
TiersIncrease ==
    Ordered =>
        /\ DOMAIN tier = IF phase = "optimized" THEN done ELSE DOMAIN plan
        /\ \A e \in graph : e[2] \in DOMAIN tier =>
              e[1] \in DOMAIN tier /\ tier[e[1]] < tier[e[2]]

(* Earlier tiers are complete. *)
TiersComplete ==
    /\ phase = "run" => \A s \in DOMAIN tier : tier[s] < current => s \in DOMAIN outputs
    /\ phase = "done" => DOMAIN plan \subseteq DOMAIN outputs

(* A step the dispatch loop went through was spawned or skipped, not both: *)
(* what has a task and an output was awaited.                              *)
Dispatched ==
    /\ phase \in {"run", "done"} => done = DOMAIN task \cup DOMAIN outputs
    /\ Running => DOMAIN task \cup DOMAIN outputs \subseteq DOMAIN plan
    /\ \A s \in DOMAIN task \cap DOMAIN outputs : task[s].status # "running"

HasInputs(s) == \A k \in DOMAIN DepIds(s) : DepIds(s)[k] \in DOMAIN outputs

(* A task runs on the outputs its step's dependencies still have. *)
TasksHaveInputs ==
    \A s \in DOMAIN task : HasInputs(s) /\ task[s].inputs = Inputs(DepIds(s))

(* So does the output that was collected from it. *)
OutputsComputed ==
    \A s \in DOMAIN outputs :
        /\ HasInputs(s)
        /\ outputs[s].value \in {Null, Error, Apply(plan[s].kind, Inputs(DepIds(s)))}

(* The conjunction that every step of the executor preserves. *)
ExecInv ==
    /\ OptInv
    /\ ExecTypeOK
    /\ NoMissingInput
    /\ NothingRunYet
    /\ TiersIncrease
    /\ TiersComplete
    /\ Dispatched
    /\ TasksHaveInputs
    /\ OutputsComputed

(* What became of a step can be read off its output: a step is spawned     *)
(* only if some item of it can be computed, the output of a spawned step   *)
(* is what was collected from its task, and any other output is that of a  *)
(* skipped step.                                                           *)
OutcomesKept ==
    /\ \A s \in DOMAIN task : ~ShouldSkip(DepIds(s))
    /\ \A s \in DOMAIN outputs :
          \/ /\ s \in DOMAIN task
             /\ task[s].status \in {"ok", "err"}
             /\ outputs[s] = Collected(s)
          \/ /\ s \notin DOMAIN task
             /\ ShouldSkip(DepIds(s))
             /\ outputs[s] = StepOutput(Null, ResultFlags(DepIds(s)))

(* The inductive invariant behind ErrorContained and the refinement.  *)
RunInv == ExecInv /\ OutcomesKept

-----------------------------------------------------------------------------
(* The abstract specification this one implements. *)

(* The result of a step is the output of the step that absorbed it. *)
ResultsBar ==
    [s \in {t \in DOMAIN steps : Resolve(remap, t) \in DOMAIN outputs} |->
        outputs[Resolve(remap, s)]]

StatusBar ==
    IF phase = "planning" THEN "open"
    ELSE IF phase = "done" THEN "done"
    ELSE IF phase = "panicked" \/ error = "MissingInput" THEN "broken"
    ELSE IF phase = "failed" THEN "failed"
    ELSE "running"

Abstract ==
    INSTANCE Dataflow WITH registered <- steps, result <- ResultsBar, status <- StatusBar

(* The optimized, tiered, concurrent execution is a dataflow evaluation of *)
(* the plan as it was registered.                                          *)
ImplementsDataflow == Abstract!FlowSpec
=============================================================================
