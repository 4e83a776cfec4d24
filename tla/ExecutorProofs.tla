--------------------------- MODULE ExecutorProofs ---------------------------
(***************************************************************************)
(* Proofs about the executor and the plan context that reads its results,  *)
(* for every plan, batch size and outcome of the steps.                    *)
(*                                                                         *)
(* Executor: ExecInv is inductive, and NoMissingInput, CompleteWhenDone    *)
(* and ResultsConsistent follow from it. RunInv adds that an outcome, once *)
(* published, is kept; from it follow ErrorContained and that the executor *)
(* implements Dataflow.                                                    *)
(*                                                                         *)
(* PlanContext: whenever get_result runs, before, while or after execute() *)
(* fills the two locks, it answers with the output of the step that was    *)
(* asked for, or with nothing; and with nothing only as long as            *)
(* is_executed() would have said no.                                       *)
(***************************************************************************)
EXTENDS PlanContext, OptimizerProofs

Early == {"planning", "built", "dedup", "resort", "hoist"}

(* The planner and the optimizer run before the executor. *)
LEMMA OptNextPhase ==
    ASSUME OptNext
    PROVE  /\ phase \in Early
           /\ phase' \in Early \cup {"optimized", "failed", "panicked"}
           /\ phase' = "optimized" => done' = {}
           /\ phase' = "failed" => error' \in {"StepNotFound", "PlanCycle"}
           /\ error' \in {error, "StepNotFound", "PlanCycle"}
<1>1. CASE \E r \in Registrable : Register(r[1], r[2])
  BY <1>1 DEF Register, Early
<1>2. CASE Build
  BY <1>2 DEF Build, Fail, Early
<1>3. CASE TopologicalSort("built", "dedup")
  BY <1>3 DEF TopologicalSort, Early
<1>4. CASE DedupStep
  BY <1>4 DEF DedupStep, Early
<1>5. CASE RemoveDuplicates
  BY <1>5 DEF RemoveDuplicates, Early
<1>6. CASE TopologicalSort("resort", "hoist")
  BY <1>6 DEF TopologicalSort, Early
<1>7. CASE HoistStep
  BY <1>7 DEF HoistStep, Early
<1>8. CASE Concatenate
  BY <1>8 DEF Concatenate, Early
<1> QED
  BY <1>1, <1>2, <1>3, <1>4, <1>5, <1>6, <1>7, <1>8 DEF OptNext, Optimize

(* The executor only moves phase, done and error of the optimizer's state. *)
LEMMA OptFrame ==
    ASSUME OptInv, Ordered,
           UNCHANGED <<steps, plan, graph, pos, seen, remap, placed, rank>>,
           done' \subseteq StepIds, phase' \in {"optimized", "run", "done", "failed"},
           error' \in Errors
    PROVE  OptInv'
<1> USE DEF OptInv
<1>1. AfterDedup /\ phase \notin {"dedup", "hoist", "resort"}
  BY DEF Ordered, AfterDedup
<1>2. OptTypeOK'
  BY DEF OptTypeOK, Phases
<1>3. NoPanic' /\ NotYetMerged' /\ NotYetHoisted' /\ BuildValidated' /\ DepsClosed'
  BY <1>1 DEF NoPanic, NotYetMerged, NotYetHoisted, BuildValidated, DepsClosed
<1>4. Walk' /\ MergedIsCanonical' /\ MergedIsEarlier' /\ SeenIsTable'
  BY <1>1 DEF Walk, MergedIsCanonical, MergedIsEarlier, SeenIsTable
<1>5. PlanReduced' /\ NoDuplicateWork'
  BY <1>1 DEF PlanReduced, NoDuplicateWork
<1>6. ReducedAcyclic' /\ HoistedClosed' /\ OrderValid'
  BY <1>1 DEF ReducedAcyclic, HoistedClosed, OrderValid
<1> QED  BY <1>2, <1>3, <1>4, <1>5, <1>6

-----------------------------------------------------------------------------
(* Outputs are written once, so what was read from them stays. *)

LEMMA InputsStable ==
    ASSUME NEW s \in StepIds, HasInputs(s), plan' = plan, remap' = remap,
           DOMAIN outputs \subseteq DOMAIN outputs',
           \A d \in DOMAIN outputs : outputs'[d] = outputs[d]
    PROVE  HasInputs(s)' /\ Inputs(DepIds(s))' = Inputs(DepIds(s)) /\ DepIds(s)' = DepIds(s)
<1>1. DepIds(s)' = DepIds(s)
  BY DEF DepIds
<1>2. \A k \in DOMAIN DepIds(s) :
        DepIds(s)[k] \in DOMAIN outputs' /\ outputs'[DepIds(s)[k]] = outputs[DepIds(s)[k]]
  BY DEF HasInputs
<1>3. HasInputs(s)'
  BY <1>1, <1>2 DEF HasInputs
<1>4. Inputs(DepIds(s))' = Inputs(DepIds(s))
  BY <1>1, <1>2 DEF Inputs
<1> QED  BY <1>1, <1>3, <1>4

(* The dependencies of a step of the current tier have outputs. *)
LEMMA TierHasInputs ==
    ASSUME ExecInv, phase = "run", NEW s \in TierSteps
    PROVE  HasInputs(s)
<1> USE DEF ExecInv
<1>1. /\ s \in DOMAIN plan /\ s \in DOMAIN tier /\ tier[s] = current
      /\ IsMap(plan, StepIds, Step)
      /\ IsMap(remap, StepIds, StepIds)
  BY DEF TierSteps, TiersIncrease, Ordered, OptInv, OptTypeOK
<1>2. plan[s] \in Step /\ plan[s].deps \in DepLists
  BY <1>1 DEF IsMap, Step
<1> SUFFICES ASSUME NEW k \in DOMAIN DepIds(s) PROVE DepIds(s)[k] \in DOMAIN outputs
  BY DEF HasInputs
<1>3. k \in DOMAIN plan[s].deps /\ DepIds(s)[k] = Resolve(remap, plan[s].deps[k])
  BY <1>1, <1>2, ResolveAllType DEF DepIds
<1>4. plan[s].deps[k] \in DepSet(plan[s])
  BY <1>3 DEF DepSet
<1>5. <<DepIds(s)[k], s>> \in graph
  BY <1>1, <1>3, <1>4 DEF OptInv, PlanReduced, AfterDedup
<1>6. \A e \in graph : e[2] \in DOMAIN tier => e[1] \in DOMAIN tier /\ tier[e[1]] < tier[e[2]]
  BY DEF TiersIncrease, Ordered
<1>7. DepIds(s)[k] \in DOMAIN tier /\ tier[DepIds(s)[k]] < current
  BY <1>1, <1>5, <1>6
<1> QED  BY <1>7 DEF TiersComplete
-----------------------------------------------------------------------------
(* The actions *)

LEMMA ExecInitInv == ExecInit => ExecInv
<1> SUFFICES ASSUME ExecInit PROVE ExecInv
  OBVIOUS
<1>1. OptInv
  BY InitInv DEF ExecInit
<1>2. ExecTypeOK
  BY <1>1, EmptyMap DEF ExecTypeOK, ExecInit, OptInv
<1>3. phase = "planning" /\ error = "none"
  BY DEF ExecInit, OptInit
<1>4. NoMissingInput /\ NothingRunYet /\ TiersIncrease /\ TiersComplete
  BY <1>3, EmptyMap DEF NoMissingInput, NothingRunYet, TiersIncrease, TiersComplete, Ordered, ExecInit
<1>5. Dispatched /\ TasksHaveInputs /\ OutputsComputed
  BY <1>3, EmptyMap DEF Dispatched, TasksHaveInputs, OutputsComputed, Running, ExecInit
<1> QED  BY <1>1, <1>2, <1>4, <1>5 DEF ExecInv

(* Planning and optimizing. *)
LEMMA PlanningInv ==
    ASSUME ExecInv, OptNext, UNCHANGED execVars
    PROVE  ExecInv'
<1> USE DEF ExecInv
<1>1. OptInv'
  BY OptNextInv
<1>2. /\ phase \in Early
      /\ phase' \in Early \cup {"optimized", "failed", "panicked"}
      /\ phase' = "optimized" => done' = {}
      /\ phase' = "failed" => error' \in {"StepNotFound", "PlanCycle"}
      /\ error' \in {error, "StepNotFound", "PlanCycle"}
  BY OptNextPhase
<1>3. ~Running /\ ~Running'
  BY <1>2 DEF Running, Early
<1>4. /\ tier' = tier /\ task' = task /\ outputs' = outputs /\ current' = current
      /\ DOMAIN tier = {} /\ DOMAIN task = {} /\ DOMAIN outputs = {} /\ current = 0
  BY <1>2, <1>3 DEF execVars, NothingRunYet, Early
<1>5. ExecTypeOK'
  BY <1>1, <1>4 DEF ExecTypeOK, OptInv
<1>6. NoMissingInput' /\ NothingRunYet'
  BY <1>2, <1>4 DEF NoMissingInput, NothingRunYet
<1>7. TiersIncrease' /\ TiersComplete'
  BY <1>2, <1>4 DEF TiersIncrease, TiersComplete, Ordered, Early
<1>8. Dispatched' /\ TasksHaveInputs' /\ OutputsComputed'
  BY <1>2, <1>3, <1>4 DEF Dispatched, TasksHaveInputs, OutputsComputed, Early
<1> QED  BY <1>1, <1>5, <1>6, <1>7, <1>8

(* One iteration of compute_tiers: the predecessors come first in rank, so *)
(* they have their tiers, and the new one is larger than all of them.      *)
LEMMA TierStepInv ==
    ASSUME ExecInv, TierStep
    PROVE  ExecInv'
<1> USE DEF ExecInv
<1>1. PICK s \in DOMAIN rank \ done, t \in 0..MaxSteps :
        /\ IsNext(s, DOMAIN rank \ done, rank)
        /\ \A u \in {tier[d] : d \in Predecessors(graph, s) \cap DOMAIN tier} : u < t
        /\ tier' = Put(tier, s, t)
        /\ done' = done \cup {s}
  BY DEF TierStep
<1>2. /\ phase = "optimized" /\ phase' = phase /\ error' = error
      /\ UNCHANGED <<steps, plan, graph, pos, seen, remap, placed, rank, current, task, outputs>>
  BY DEF TierStep
<1>3. Ordered /\ Ordered' /\ ~Running /\ ~Running'
  BY <1>2 DEF Ordered, Running
<1>4. /\ DOMAIN rank = DOMAIN plan /\ \A e \in graph : rank[e[1]] < rank[e[2]]
      /\ graph \subseteq (DOMAIN plan) \X (DOMAIN plan)
      /\ \A x \in DOMAIN plan : rank[x] \in Nat
      /\ DOMAIN plan \subseteq StepIds
      /\ done \subseteq StepIds
  BY <1>2, <1>3 DEF OptInv, OrderValid, PlanReduced, AfterDedup, OptTypeOK, IsMap
<1>5. OptInv'
  BY <1>1, <1>2, <1>3, <1>4, OptFrame DEF OptInv, OptTypeOK
<1>6. /\ DOMAIN tier = done /\ s \notin DOMAIN tier
      /\ \A e \in graph : e[2] \in DOMAIN tier => e[1] \in DOMAIN tier /\ tier[e[1]] < tier[e[2]]
  BY <1>1, <1>2, <1>3 DEF TiersIncrease
<1>7. /\ DOMAIN tier' = DOMAIN tier \cup {s} /\ tier'[s] = t
      /\ \A x \in DOMAIN tier : tier'[x] = tier[x]
      /\ IsMap(tier', StepIds, Nat)
  BY <1>1, <1>4, <1>6, MaxStepsAssumption DEF Put, IsMap, ExecTypeOK
<1>8. ExecTypeOK'
  BY <1>2, <1>5, <1>7 DEF ExecTypeOK, OptInv
<1>9. \A e \in graph : e[2] = s => e[1] \in DOMAIN tier /\ tier[e[1]] < t
  <2> SUFFICES ASSUME NEW e \in graph, e[2] = s PROVE e[1] \in DOMAIN tier /\ tier[e[1]] < t
    OBVIOUS
  <2>1. e[1] \in DOMAIN plan /\ rank[e[1]] < rank[s] /\ rank[e[1]] \in Nat /\ rank[s] \in Nat
    BY <1>4
  <2>2. e[1] \in done
    BY <1>1, <1>4, <2>1 DEF IsNext
  <2>3. e[1] \in Predecessors(graph, s)
    BY DEF Predecessors
  <2> QED  BY <1>1, <1>6, <2>2, <2>3
<1>10. TiersIncrease'
  <2>1. ASSUME NEW e \in graph, e[2] \in DOMAIN tier'
        PROVE  e[1] \in DOMAIN tier' /\ tier'[e[1]] < tier'[e[2]]
    BY <1>6, <1>7, <1>9, <2>1
  <2> QED  BY <1>1, <1>2, <1>6, <1>7, <2>1 DEF TiersIncrease
<1>11. NoMissingInput' /\ NothingRunYet' /\ TiersComplete'
  BY <1>2, <1>3 DEF NoMissingInput, NothingRunYet, TiersComplete
<1>12. Dispatched' /\ TasksHaveInputs' /\ OutputsComputed'
  BY <1>2, <1>3 DEF NothingRunYet, Dispatched, TasksHaveInputs, OutputsComputed
<1> QED  BY <1>5, <1>8, <1>10, <1>11, <1>12

LEMMA StartTiersInv ==
    ASSUME ExecInv, StartTiers
    PROVE  ExecInv'
<1> USE DEF ExecInv
<1>1. /\ phase = "optimized" /\ done = DOMAIN rank /\ done' = {}
      /\ phase' = IF DOMAIN rank = {} THEN "done" ELSE "run"
      /\ UNCHANGED <<error, steps, plan, graph, pos, seen, remap, placed, rank>>
      /\ tier' = tier /\ current' = current /\ task' = task /\ outputs' = outputs
  BY DEF StartTiers, execVars
<1>2. Ordered /\ Ordered' /\ ~Running
  BY <1>1 DEF Ordered, Running
<1>3. OptInv'
  BY <1>1, <1>2, OptFrame DEF OptInv, OptTypeOK
<1>4. ExecTypeOK'
  BY <1>1, <1>3 DEF ExecTypeOK, OptInv
<1>5. DOMAIN rank = DOMAIN plan /\ DOMAIN tier = DOMAIN plan /\ DOMAIN task = {} /\ DOMAIN outputs = {}
  BY <1>1, <1>2 DEF OptInv, OrderValid, TiersIncrease, NothingRunYet
<1>6. TiersIncrease'
  BY <1>1, <1>2, <1>5 DEF TiersIncrease
<1>7. TiersComplete'
  <2>1. phase' = "run" => \A s \in DOMAIN tier : ~(tier[s] < current)
    <3>1. current = 0
      BY <1>2 DEF NothingRunYet
    <3>2. \A s \in DOMAIN tier : tier[s] \in Nat
      BY DEF ExecTypeOK, IsMap
    <3> QED  BY <3>1, <3>2
  <2> QED  BY <1>1, <1>5, <2>1 DEF TiersComplete
<1>8. NoMissingInput' /\ NothingRunYet'
  BY <1>1, <1>5 DEF NoMissingInput, NothingRunYet, Running
<1>9. Dispatched' /\ TasksHaveInputs' /\ OutputsComputed'
  BY <1>1, <1>5 DEF Dispatched, TasksHaveInputs, OutputsComputed
<1> QED  BY <1>3, <1>4, <1>6, <1>7, <1>8, <1>9

(* One iteration of the dispatch loop: no input is missing, and a step is  *)
(* skipped or spawned once.                                                *)
LEMMA DispatchInv ==
    ASSUME ExecInv, Dispatch
    PROVE  ExecInv'
<1> USE DEF ExecInv
<1>1. PICK s \in TierSteps \ done :
        /\ done' = done \cup {s}
        /\ \/ /\ ShouldSkip(DepIds(s))
              /\ outputs' = Put(outputs, s, StepOutput(Null, ResultFlags(DepIds(s))))
              /\ UNCHANGED <<phase, error, task>>
           \/ /\ \E k \in DOMAIN DepIds(s) : DepIds(s)[k] \notin DOMAIN outputs
              /\ Fail("MissingInput")
              /\ UNCHANGED <<task, outputs>>
           \/ /\ task' = Put(task, s, Task("running", <<>>, Inputs(DepIds(s))))
              /\ UNCHANGED <<phase, error, outputs>>
  BY DEF Dispatch
<1>2. /\ phase = "run"
      /\ UNCHANGED <<steps, plan, graph, pos, seen, remap, placed, rank, tier, current>>
  BY DEF Dispatch
<1>3. HasInputs(s)
  BY <1>1, <1>2, TierHasInputs
<1>4. phase' = phase /\ error' = error
  BY <1>1, <1>3 DEF HasInputs
<1>5. Ordered /\ Ordered' /\ Running /\ Running'
  BY <1>2, <1>4 DEF Ordered, Running
<1>6. /\ DOMAIN tier = DOMAIN plan /\ s \in DOMAIN plan /\ DOMAIN plan \subseteq StepIds
      /\ s \in StepIds
  BY <1>1, <1>2, <1>5 DEF TiersIncrease, TierSteps, OptInv, OptTypeOK, IsMap
<1>7. OptInv'
  BY <1>1, <1>2, <1>4, <1>5, <1>6, OptFrame DEF OptInv, OptTypeOK
<1>8. /\ done = DOMAIN task \cup DOMAIN outputs
      /\ s \notin DOMAIN task /\ s \notin DOMAIN outputs
      /\ DOMAIN task \cup DOMAIN outputs \subseteq DOMAIN plan
      /\ \A x \in DOMAIN task \cap DOMAIN outputs : task[x].status # "running"
  BY <1>1, <1>2, <1>5 DEF Dispatched
<1>9. NoMissingInput' /\ NothingRunYet' /\ TiersIncrease'
  BY <1>2, <1>4, <1>5 DEF NoMissingInput, NothingRunYet, TiersIncrease
<1>10. CASE /\ outputs' = Put(outputs, s, StepOutput(Null, ResultFlags(DepIds(s))))
            /\ task' = task
  <2>1. /\ DOMAIN outputs' = DOMAIN outputs \cup {s}
        /\ outputs'[s] = StepOutput(Null, ResultFlags(DepIds(s)))
        /\ \A d \in DOMAIN outputs : outputs'[d] = outputs[d]
    BY <1>8, <1>10 DEF Put
  <2>2. outputs'[s].value = Null /\ outputs'[s].flags = ResultFlags(DepIds(s))
    BY <2>1 DEF StepOutput
  <2>3. ResultFlags(DepIds(s)) \in Seq(Flags)
    <3>1. ResultFlags(DepIds(s)) \in [1..BatchSize -> Flags]
      BY DEF ResultFlags, Flags, Batch
    <3> QED  BY <3>1, BatchSizeAssumption
  <2>4. ExecTypeOK'
    BY <1>2, <1>6, <1>7, <1>10, <2>1, <2>2, <2>3 DEF ExecTypeOK, OptInv
  <2>5. TiersComplete'
    BY <1>2, <1>4, <2>1 DEF TiersComplete
  <2>6. Dispatched'
    BY <1>1, <1>2, <1>4, <1>6, <1>8, <1>10, <2>1 DEF Dispatched
  <2>7. \A x \in StepIds : HasInputs(x) =>
          HasInputs(x)' /\ Inputs(DepIds(x))' = Inputs(DepIds(x)) /\ DepIds(x)' = DepIds(x)
    BY <1>2, <2>1, InputsStable
  <2>8. TasksHaveInputs'
    BY <1>10, <2>7 DEF TasksHaveInputs, ExecTypeOK
  <2>9. OutputsComputed'
    BY <1>2, <1>3, <1>6, <2>1, <2>2, <2>7 DEF OutputsComputed, ExecTypeOK
  <2> QED  BY <1>7, <1>9, <2>4, <2>5, <2>6, <2>8, <2>9
<1>11. CASE /\ task' = Put(task, s, Task("running", <<>>, Inputs(DepIds(s))))
            /\ outputs' = outputs
  <2>1. /\ DOMAIN task' = DOMAIN task \cup {s}
        /\ task'[s] = Task("running", <<>>, Inputs(DepIds(s)))
        /\ \A d \in DOMAIN task : task'[d] = task[d]
    BY <1>8, <1>11 DEF Put
  <2>2. /\ task'[s].status = "running" /\ task'[s].flags = <<>>
        /\ task'[s].inputs = Inputs(DepIds(s))
    BY <2>1 DEF Task
  <2>3. ExecTypeOK'
    <3>1. task'[s].flags \in Seq(Flags)
      BY <2>2
    <3> QED  BY <1>2, <1>6, <1>7, <1>11, <2>1, <2>2, <3>1 DEF ExecTypeOK, OptInv
  <2>4. TiersComplete'
    BY <1>2, <1>4, <1>11 DEF TiersComplete
  <2>5. Dispatched'
    BY <1>1, <1>2, <1>4, <1>6, <1>8, <1>11, <2>1 DEF Dispatched
  <2>6. \A x \in StepIds : HasInputs(x) =>
          HasInputs(x)' /\ Inputs(DepIds(x))' = Inputs(DepIds(x)) /\ DepIds(x)' = DepIds(x)
    BY <1>2, <1>11, InputsStable
  <2>7. TasksHaveInputs'
    BY <1>3, <1>6, <2>1, <2>2, <2>6 DEF TasksHaveInputs, ExecTypeOK
  <2>8. OutputsComputed'
    BY <1>2, <1>11, <2>6 DEF OutputsComputed, ExecTypeOK
  <2> QED  BY <1>7, <1>9, <2>3, <2>4, <2>5, <2>7, <2>8
<1> QED  BY <1>1, <1>3, <1>10, <1>11 DEF HasInputs

(* A task ends; nobody looks at it before Await does. *)
LEMMA TaskFinishInv ==
    ASSUME ExecInv, NEW s \in StepIds, NEW outcome \in Outcomes, TaskFinish(s, outcome)
    PROVE  ExecInv'
<1> USE DEF ExecInv
<1>1. /\ s \in DOMAIN task /\ task[s].status = "running"
      /\ task' = Put(task, s, Task(outcome.status, outcome.flags, task[s].inputs))
      /\ UNCHANGED optVars /\ tier' = tier /\ current' = current /\ outputs' = outputs
  BY DEF TaskFinish
<1>2. /\ phase' = phase /\ error' = error /\ plan' = plan /\ remap' = remap /\ done' = done
      /\ graph' = graph
  BY <1>1 DEF optVars
<1>3. OptInv'
  BY <1>1, StutterInv
<1>4. /\ outcome.status \in {"running", "ok", "err", "panic"}
      /\ outcome.flags \in Seq(Flags)
  <2>1. CASE outcome \in [status : {"ok"}, flags : FlagLists]
    BY <2>1, FlagListsAssumption
  <2>2. CASE outcome \in [status : {"err", "panic"}, flags : {<<>>}]
    <3>1. outcome.flags = <<>> /\ outcome.status \in {"err", "panic"}
      BY <2>2
    <3> QED  BY <3>1
  <2> QED  BY <2>1, <2>2 DEF Outcomes
<1>5. /\ DOMAIN task' = DOMAIN task
      /\ task'[s].status = outcome.status /\ task'[s].flags = outcome.flags
      /\ task'[s].inputs = task[s].inputs
      /\ \A x \in DOMAIN task : x # s => task'[x] = task[x]
  BY <1>1 DEF Put, Task
<1>6. ExecTypeOK'
  BY <1>1, <1>3, <1>4, <1>5 DEF ExecTypeOK, OptInv
<1>7. NoMissingInput' /\ NothingRunYet' /\ TiersIncrease' /\ TiersComplete'
  BY <1>1, <1>2, <1>5
     DEF NoMissingInput, NothingRunYet, TiersIncrease, TiersComplete, Ordered, Running
<1>8. Dispatched'
  <2>1. s \notin DOMAIN outputs
    BY <1>1 DEF Dispatched
  <2> QED  BY <1>1, <1>2, <1>5, <2>1 DEF Dispatched, Running
<1>9. \A x \in StepIds : HasInputs(x) =>
        HasInputs(x)' /\ Inputs(DepIds(x))' = Inputs(DepIds(x)) /\ DepIds(x)' = DepIds(x)
  BY <1>1, <1>2, InputsStable
<1>10. TasksHaveInputs'
  BY <1>5, <1>9 DEF TasksHaveInputs, ExecTypeOK
<1>11. OutputsComputed'
  BY <1>1, <1>2, <1>9 DEF OutputsComputed, ExecTypeOK
<1> QED  BY <1>3, <1>6, <1>7, <1>8, <1>10, <1>11

(* One iteration of the await loop: an output is stored, or the request    *)
(* fails with the JoinError of a panicked task.                            *)
LEMMA AwaitInv ==
    ASSUME ExecInv, Await
    PROVE  ExecInv'
<1> USE DEF ExecInv
<1>1. PICK s \in TierSteps \ DOMAIN outputs :
        /\ task[s].status # "running"
        /\ \/ /\ Fail("JoinError")
              /\ UNCHANGED outputs
           \/ /\ outputs' = Put(outputs, s, Collected(s))
              /\ UNCHANGED <<phase, error>>
  BY DEF Await
<1>2. /\ phase = "run" /\ TierSteps \subseteq done
      /\ UNCHANGED <<steps, plan, graph, pos, done, seen, remap, placed, rank, tier, current, task>>
  BY DEF Await
<1>3. /\ phase' \in {"run", "failed"} /\ error' \in Errors /\ error' # "MissingInput"
      /\ phase' = "failed" => error' = "JoinError"
  BY <1>1, <1>2 DEF Fail, Errors, NoMissingInput, OptInv, OptTypeOK
<1>4. Ordered /\ Running /\ Running'
  BY <1>2, <1>3 DEF Ordered, Running
<1>5. OptInv'
  BY <1>2, <1>3, <1>4, OptFrame DEF OptInv, OptTypeOK
<1>6. /\ done = DOMAIN task \cup DOMAIN outputs
      /\ DOMAIN task \cup DOMAIN outputs \subseteq DOMAIN plan
      /\ \A x \in DOMAIN task \cap DOMAIN outputs : task[x].status # "running"
  BY <1>2, <1>4 DEF Dispatched
<1>7. s \in DOMAIN task /\ s \notin DOMAIN outputs /\ s \in DOMAIN plan /\ s \in StepIds
  BY <1>1, <1>2, <1>6 DEF ExecTypeOK
<1>8. NoMissingInput' /\ NothingRunYet' /\ TiersIncrease'
  BY <1>2, <1>3, <1>4 DEF NoMissingInput, NothingRunYet, TiersIncrease, Ordered
<1>9. CASE outputs' = outputs
  <2>1. ExecTypeOK'
    BY <1>2, <1>5, <1>9 DEF ExecTypeOK, OptInv
  <2>2. TiersComplete' /\ Dispatched'
    BY <1>2, <1>3, <1>4, <1>9 DEF TiersComplete, Dispatched
  <2>3. \A x \in StepIds : HasInputs(x) =>
          HasInputs(x)' /\ Inputs(DepIds(x))' = Inputs(DepIds(x)) /\ DepIds(x)' = DepIds(x)
    BY <1>2, <1>9, InputsStable
  <2>4. TasksHaveInputs' /\ OutputsComputed'
    BY <1>2, <1>9, <2>3 DEF TasksHaveInputs, OutputsComputed, ExecTypeOK
  <2> QED  BY <1>5, <1>8, <2>1, <2>2, <2>4
<1>10. CASE outputs' = Put(outputs, s, Collected(s)) /\ phase' = phase
  <2>1. /\ DOMAIN outputs' = DOMAIN outputs \cup {s}
        /\ outputs'[s] = Collected(s)
        /\ \A d \in DOMAIN outputs : outputs'[d] = outputs[d]
    BY <1>7, <1>10 DEF Put
  <2>2. Collected(s).flags \in Seq(Flags)
    <3>1. task[s].flags \in Seq(Flags)
      BY <1>7 DEF ExecTypeOK
    <3>2. ErrorOutputBatch.flags \in Seq(Flags)
      <4>1. [i \in Batch |-> {"ERROR"}] \in [1..BatchSize -> Flags]
        BY DEF Batch, Flags
      <4>2. [i \in Batch |-> {"ERROR"}] \in Seq(Flags)
        BY <4>1, BatchSizeAssumption
      <4> QED  BY <4>2 DEF ErrorOutputBatch, StepOutput
    <3>3. BroadcastUnary(task[s].flags) \in Seq(Flags)
      <4>1. CASE Len(task[s].flags) = 1
        <5>1. task[s].flags[1] \in Flags
          BY <3>1, <4>1
        <5>2. [i \in Batch |-> task[s].flags[1]] \in [1..BatchSize -> Flags]
          BY <5>1 DEF Batch
        <5>3. [i \in Batch |-> task[s].flags[1]] \in Seq(Flags)
          BY <5>2, BatchSizeAssumption
        <5> QED  BY <4>1, <5>3 DEF BroadcastUnary
      <4>2. CASE Len(task[s].flags) # 1
        BY <3>1, <4>2 DEF BroadcastUnary
      <4> QED  BY <4>1, <4>2
    <3> QED  BY <3>1, <3>2, <3>3 DEF Collected, StepOutput
  <2>3. Collected(s).value \in {Error, Apply(plan[s].kind, task[s].inputs)}
    BY DEF Collected, ErrorOutputBatch, StepOutput
  <2>4. ExecTypeOK'
    BY <1>2, <1>5, <1>7, <2>1, <2>2 DEF ExecTypeOK, OptInv
  <2>5. TiersComplete'
    BY <1>2, <1>10, <2>1 DEF TiersComplete
  <2>6. Dispatched'
    BY <1>1, <1>2, <1>4, <1>6, <1>7, <1>10, <2>1 DEF Dispatched
  <2>7. \A x \in StepIds : HasInputs(x) =>
          HasInputs(x)' /\ Inputs(DepIds(x))' = Inputs(DepIds(x)) /\ DepIds(x)' = DepIds(x)
    BY <1>2, <2>1, InputsStable
  <2>8. TasksHaveInputs'
    BY <1>2, <2>7 DEF TasksHaveInputs, ExecTypeOK
  <2>9. HasInputs(s) /\ task[s].inputs = Inputs(DepIds(s))
    BY <1>7 DEF TasksHaveInputs
  <2>10. OutputsComputed'
    <3> SUFFICES ASSUME NEW x \in DOMAIN outputs'
                 PROVE  /\ HasInputs(x)'
                        /\ outputs'[x].value \in {Null, Error, Apply(plan'[x].kind, Inputs(DepIds(x))')}
      BY DEF OutputsComputed
    <3>1. CASE x = s
      BY <1>2, <1>7, <2>1, <2>3, <2>7, <2>9, <3>1
    <3>2. CASE x \in DOMAIN outputs
      <4>1. /\ HasInputs(x) /\ x \in StepIds
            /\ outputs[x].value \in {Null, Error, Apply(plan[x].kind, Inputs(DepIds(x)))}
        BY <3>2 DEF OutputsComputed, ExecTypeOK
      <4> QED  BY <1>2, <2>1, <2>7, <3>2, <4>1
    <3> QED  BY <2>1, <3>1, <3>2
  <2> QED  BY <1>5, <1>8, <2>4, <2>5, <2>6, <2>8, <2>10
<1> QED  BY <1>1, <1>9, <1>10

(* The next tier starts, or the request returns, when the tier is done. *)
LEMMA NextTierInv ==
    ASSUME ExecInv, NextTier
    PROVE  ExecInv'
<1> USE DEF ExecInv
<1>1. /\ phase = "run" /\ TierSteps \subseteq DOMAIN outputs
      /\ UNCHANGED <<error, steps, plan, graph, pos, done, seen, remap, placed, rank,
                     tier, task, outputs>>
      /\ \/ current' = current + 1 /\ phase' = phase
         \/ /\ \A s \in DOMAIN tier : tier[s] <= current
            /\ phase' = "done" /\ current' = current
  BY DEF NextTier
<1>2. Ordered /\ Ordered' /\ Running /\ Running' /\ phase' \in {"run", "done"}
  BY <1>1 DEF Ordered, Running
<1>3. OptInv'
  BY <1>1, <1>2, OptFrame DEF OptInv, OptTypeOK
<1>4. current \in Nat /\ current' \in Nat
  BY <1>1 DEF ExecTypeOK
<1>5. ExecTypeOK'
  BY <1>1, <1>3, <1>4 DEF ExecTypeOK, OptInv
<1>6. DOMAIN tier = DOMAIN plan /\ \A s \in DOMAIN tier : tier[s] \in Nat
  BY <1>1, <1>2 DEF TiersIncrease, ExecTypeOK, IsMap
<1>7. \A s \in DOMAIN tier : tier[s] <= current => s \in DOMAIN outputs
  <2> SUFFICES ASSUME NEW s \in DOMAIN tier, tier[s] <= current PROVE s \in DOMAIN outputs
    OBVIOUS
  <2>1. tier[s] < current \/ tier[s] = current
    BY <1>4, <1>6
  <2> QED  BY <1>1, <2>1 DEF TiersComplete, TierSteps
<1>8. TiersComplete'
  <2>1. ASSUME NEW s \in DOMAIN tier, tier[s] < current + 1 PROVE tier[s] <= current
    BY <1>4, <1>6, <2>1
  <2> QED  BY <1>1, <1>6, <1>7, <2>1 DEF TiersComplete
<1>9. NoMissingInput' /\ NothingRunYet' /\ TiersIncrease'
  BY <1>1, <1>2, <1>6 DEF NoMissingInput, NothingRunYet, TiersIncrease
<1>10. Dispatched'
  BY <1>1, <1>2 DEF Dispatched
<1>11. \A x \in StepIds : HasInputs(x) =>
         HasInputs(x)' /\ Inputs(DepIds(x))' = Inputs(DepIds(x)) /\ DepIds(x)' = DepIds(x)
  BY <1>1, InputsStable
<1>12. TasksHaveInputs' /\ OutputsComputed'
  BY <1>1, <1>11 DEF TasksHaveInputs, OutputsComputed, ExecTypeOK
<1> QED  BY <1>3, <1>5, <1>8, <1>9, <1>10, <1>12

LEMMA ExecNextInv ==
    ASSUME ExecInv, [ExecNext]_vars
    PROVE  ExecInv'
<1>1. CASE OptNext /\ UNCHANGED execVars
  BY <1>1, PlanningInv
<1>2. CASE TierStep
  BY <1>2, TierStepInv
<1>3. CASE StartTiers
  BY <1>3, StartTiersInv
<1>4. CASE Dispatch
  BY <1>4, DispatchInv
<1>5. CASE Await
  BY <1>5, AwaitInv
<1>6. CASE NextTier
  BY <1>6, NextTierInv
<1>7. CASE \E s \in StepIds, outcome \in Outcomes : TaskFinish(s, outcome)
  BY <1>7, TaskFinishInv
<1>8. CASE UNCHANGED vars
  <2>1. UNCHANGED optVars /\ UNCHANGED execVars
    BY <1>8 DEF vars
  <2>2. OptInv'
    BY <2>1, StutterInv DEF ExecInv
  <2>3. /\ phase' = phase /\ error' = error /\ plan' = plan /\ remap' = remap /\ graph' = graph
        /\ done' = done /\ tier' = tier /\ current' = current /\ task' = task /\ outputs' = outputs
    BY <2>1 DEF optVars, execVars
  <2>4. ExecTypeOK' /\ NoMissingInput' /\ NothingRunYet' /\ TiersIncrease' /\ TiersComplete'
    BY <2>2, <2>3 DEF ExecInv, OptInv, ExecTypeOK, NoMissingInput, NothingRunYet, TiersIncrease,
                      TiersComplete, Ordered, Running
  <2>5. \A x \in StepIds : HasInputs(x) =>
          HasInputs(x)' /\ Inputs(DepIds(x))' = Inputs(DepIds(x)) /\ DepIds(x)' = DepIds(x)
    BY <2>3, InputsStable
  <2>6. Dispatched' /\ TasksHaveInputs' /\ OutputsComputed'
    BY <2>3, <2>5 DEF ExecInv, ExecTypeOK, Dispatched, TasksHaveInputs, OutputsComputed, Running
  <2> QED  BY <2>2, <2>4, <2>6 DEF ExecInv
<1> QED
  BY <1>1, <1>2, <1>3, <1>4, <1>5, <1>6, <1>7, <1>8 DEF ExecNext, Sequential

-----------------------------------------------------------------------------
(* What became of a step stays readable in its output *)

(* The flags a step sees depend on its dependencies' outputs alone, and    *)
(* those are final.                                                        *)
LEMMA SkipStable ==
    ASSUME NEW s \in StepIds, HasInputs(s), plan' = plan, remap' = remap,
           DOMAIN outputs \subseteq DOMAIN outputs',
           \A d \in DOMAIN outputs : outputs'[d] = outputs[d]
    PROVE  /\ ResultFlags(DepIds(s))' = ResultFlags(DepIds(s))
           /\ ShouldSkip(DepIds(s))' <=> ShouldSkip(DepIds(s))
<1>1. DepIds(s)' = DepIds(s)
  BY InputsStable
<1>2. \A k \in DOMAIN DepIds(s) :
        /\ DepIds(s)[k] \in DOMAIN outputs /\ DepIds(s)[k] \in DOMAIN outputs'
        /\ outputs'[DepIds(s)[k]] = outputs[DepIds(s)[k]]
  BY DEF HasInputs
<1>3. ResultFlags(DepIds(s))' = ResultFlags(DepIds(s))
  <2>1. ASSUME NEW i \in Batch, NEW f \in {"NULL", "ERROR"}
        PROVE  f \in ResultFlags(DepIds(s))'[i] <=> f \in ResultFlags(DepIds(s))[i]
    BY <1>1, <1>2 DEF ResultFlags
  <2>2. ASSUME NEW i \in Batch
        PROVE  ResultFlags(DepIds(s))'[i] = ResultFlags(DepIds(s))[i]
    <3>1. /\ ResultFlags(DepIds(s))[i] \subseteq {"NULL", "ERROR"}
          /\ ResultFlags(DepIds(s))'[i] \subseteq {"NULL", "ERROR"}
      BY DEF ResultFlags
    <3>2. \A f : f \in ResultFlags(DepIds(s))'[i] <=> f \in ResultFlags(DepIds(s))[i]
      BY <2>1, <3>1
    <3> QED  BY <3>2, Zenon
  <2>3. /\ ResultFlags(DepIds(s)) = [i \in Batch |-> ResultFlags(DepIds(s))[i]]
        /\ ResultFlags(DepIds(s))' = [i \in Batch |-> ResultFlags(DepIds(s))'[i]]
    BY DEF ResultFlags
  <2> QED  BY <2>2, <2>3
<1> QED  BY <1>1, <1>3 DEF ShouldSkip

(* A step of the executor that writes neither tasks nor outputs. *)
LEMMA OutcomesFrame ==
    ASSUME ExecInv, OutcomesKept, UNCHANGED <<plan, remap, task, outputs>>
    PROVE  OutcomesKept'
<1>1. \A x : /\ ResultFlags(DepIds(x))' = ResultFlags(DepIds(x))
             /\ ShouldSkip(DepIds(x))' <=> ShouldSkip(DepIds(x))
  BY DEF ResultFlags, ShouldSkip, DepIds
<1>2. \A x : Collected(x)' = Collected(x)
  BY DEF Collected
<1> QED  BY <1>1, <1>2 DEF OutcomesKept

LEMMA DispatchOutcomes ==
    ASSUME ExecInv, OutcomesKept, Dispatch
    PROVE  OutcomesKept'
<1> USE DEF ExecInv
<1>1. PICK s \in TierSteps \ done :
        \/ /\ ShouldSkip(DepIds(s))
           /\ outputs' = Put(outputs, s, StepOutput(Null, ResultFlags(DepIds(s))))
           /\ task' = task
        \/ /\ \E k \in DOMAIN DepIds(s) : DepIds(s)[k] \notin DOMAIN outputs
           /\ UNCHANGED <<task, outputs>>
        \/ /\ ~ShouldSkip(DepIds(s))
           /\ task' = Put(task, s, Task("running", <<>>, Inputs(DepIds(s))))
           /\ outputs' = outputs
  BY DEF Dispatch
<1>2. phase = "run" /\ plan' = plan /\ remap' = remap
  BY DEF Dispatch
<1>3. HasInputs(s)
  BY <1>1, <1>2, TierHasInputs
<1>4. s \in StepIds /\ s \notin DOMAIN task /\ s \notin DOMAIN outputs
  BY <1>1, <1>2 DEF Dispatched, TierSteps, ExecTypeOK, IsMap
<1>5. /\ \A x \in DOMAIN task : x \in StepIds /\ HasInputs(x)
      /\ \A x \in DOMAIN outputs : x \in StepIds /\ HasInputs(x)
  BY DEF TasksHaveInputs, OutputsComputed, ExecTypeOK
<1>6. CASE /\ ShouldSkip(DepIds(s)) /\ task' = task
           /\ outputs' = Put(outputs, s, StepOutput(Null, ResultFlags(DepIds(s))))
  <2>1. /\ DOMAIN outputs' = DOMAIN outputs \cup {s}
        /\ outputs'[s] = StepOutput(Null, ResultFlags(DepIds(s)))
        /\ \A d \in DOMAIN outputs : outputs'[d] = outputs[d]
    BY <1>4, <1>6 DEF Put
  <2>2. \A x \in StepIds : HasInputs(x) =>
          /\ ResultFlags(DepIds(x))' = ResultFlags(DepIds(x))
          /\ ShouldSkip(DepIds(x))' <=> ShouldSkip(DepIds(x))
    BY <1>2, <2>1, SkipStable
  <2>3. \A x : Collected(x)' = Collected(x)
    BY <1>2, <1>6 DEF Collected
  <2> QED  BY <1>3, <1>4, <1>5, <1>6, <2>1, <2>2, <2>3 DEF OutcomesKept
<1>7. CASE /\ ~ShouldSkip(DepIds(s)) /\ outputs' = outputs
           /\ task' = Put(task, s, Task("running", <<>>, Inputs(DepIds(s))))
  <2>1. DOMAIN task' = DOMAIN task \cup {s} /\ \A x \in DOMAIN task : task'[x] = task[x]
    BY <1>4, <1>7 DEF Put
  <2>2. \A x \in StepIds : HasInputs(x) =>
          /\ ResultFlags(DepIds(x))' = ResultFlags(DepIds(x))
          /\ ShouldSkip(DepIds(x))' <=> ShouldSkip(DepIds(x))
    BY <1>2, <1>7, SkipStable
  <2>3. \A x \in DOMAIN task : Collected(x)' = Collected(x)
    BY <1>2, <2>1 DEF Collected
  <2> QED  BY <1>3, <1>4, <1>5, <1>7, <2>1, <2>2, <2>3 DEF OutcomesKept
<1> QED  BY <1>1, <1>3, <1>6, <1>7 DEF HasInputs

LEMMA TaskFinishOutcomes ==
    ASSUME ExecInv, OutcomesKept, NEW s \in StepIds, NEW outcome \in Outcomes,
           TaskFinish(s, outcome)
    PROVE  OutcomesKept'
<1> USE DEF ExecInv
<1>1. /\ s \in DOMAIN task /\ task[s].status = "running"
      /\ task' = Put(task, s, Task(outcome.status, outcome.flags, task[s].inputs))
      /\ plan' = plan /\ remap' = remap /\ outputs' = outputs
  BY DEF TaskFinish, optVars
<1>2. DOMAIN task' = DOMAIN task /\ \A x \in DOMAIN task : x # s => task'[x] = task[x]
  BY <1>1 DEF Put
<1>3. s \notin DOMAIN outputs
  BY <1>1 DEF Dispatched
<1>4. \A x \in DOMAIN task : x # s => Collected(x)' = Collected(x)
  BY <1>1, <1>2 DEF Collected
<1>5. \A x : /\ ResultFlags(DepIds(x))' = ResultFlags(DepIds(x))
             /\ ShouldSkip(DepIds(x))' <=> ShouldSkip(DepIds(x))
  BY <1>1 DEF ResultFlags, ShouldSkip, DepIds
<1> QED  BY <1>1, <1>2, <1>3, <1>4, <1>5 DEF OutcomesKept

LEMMA AwaitOutcomes ==
    ASSUME ExecInv, OutcomesKept, Await
    PROVE  OutcomesKept'
<1> USE DEF ExecInv
<1>1. PICK s \in TierSteps \ DOMAIN outputs :
        /\ task[s].status # "running"
        /\ \/ outputs' = outputs
           \/ /\ task[s].status # "panic"
              /\ outputs' = Put(outputs, s, Collected(s))
  BY DEF Await
<1>2. /\ phase = "run" /\ TierSteps \subseteq done
      /\ plan' = plan /\ remap' = remap /\ task' = task
  BY DEF Await
<1>3. s \in DOMAIN task /\ s \notin DOMAIN outputs
  BY <1>1, <1>2 DEF Dispatched
<1>4. CASE outputs' = outputs
  BY <1>2, <1>4, OutcomesFrame
<1>5. CASE task[s].status # "panic" /\ outputs' = Put(outputs, s, Collected(s))
  <2>1. /\ DOMAIN outputs' = DOMAIN outputs \cup {s}
        /\ outputs'[s] = Collected(s)
        /\ \A d \in DOMAIN outputs : outputs'[d] = outputs[d]
    BY <1>3, <1>5 DEF Put
  <2>2. task[s].status \in {"ok", "err"}
    BY <1>1, <1>3, <1>5 DEF ExecTypeOK
  <2>3. \A x \in StepIds : HasInputs(x) =>
          /\ ResultFlags(DepIds(x))' = ResultFlags(DepIds(x))
          /\ ShouldSkip(DepIds(x))' <=> ShouldSkip(DepIds(x))
    BY <1>2, <2>1, SkipStable
  <2>4. /\ \A x \in DOMAIN task : x \in StepIds /\ HasInputs(x)
        /\ \A x \in DOMAIN outputs : x \in StepIds /\ HasInputs(x)
    BY DEF TasksHaveInputs, OutputsComputed, ExecTypeOK
  <2>5. \A x : Collected(x)' = Collected(x)
    BY <1>2 DEF Collected
  <2> QED  BY <1>2, <1>3, <2>1, <2>2, <2>3, <2>4, <2>5 DEF OutcomesKept
<1> QED  BY <1>1, <1>4, <1>5

LEMMA RunNextInv ==
    ASSUME RunInv, [ExecNext]_vars
    PROVE  RunInv'
<1> USE DEF RunInv
<1>1. ExecInv'
  BY ExecNextInv
<1>2. CASE OptNext /\ UNCHANGED execVars
  <2>1. ~Running'
    BY <1>2, OptNextPhase DEF Running, Early
  <2>2. DOMAIN task' = {} /\ DOMAIN outputs' = {}
    BY <1>1, <2>1 DEF ExecInv, NothingRunYet
  <2> QED  BY <1>1, <2>2 DEF OutcomesKept
<1>3. CASE TierStep \/ StartTiers \/ NextTier \/ UNCHANGED vars
  <2>1. UNCHANGED <<plan, remap, task, outputs>>
    BY <1>3 DEF TierStep, StartTiers, NextTier, vars, optVars, execVars
  <2> QED  BY <1>1, <2>1, OutcomesFrame
<1>4. CASE Dispatch
  BY <1>1, <1>4, DispatchOutcomes
<1>5. CASE Await
  BY <1>1, <1>5, AwaitOutcomes
<1>6. CASE \E s \in StepIds, outcome \in Outcomes : TaskFinish(s, outcome)
  BY <1>1, <1>6, TaskFinishOutcomes
<1> QED
  BY <1>2, <1>3, <1>4, <1>5, <1>6 DEF ExecNext, Sequential

-----------------------------------------------------------------------------
(* The properties *)

LEMMA InvImpliesComplete == ExecInv => CompleteWhenDone
<1> SUFFICES ASSUME ExecInv, phase = "done"
             PROVE  /\ \A s \in DOMAIN steps : Resolve(remap, s) \in DOMAIN outputs
                    /\ \A s \in DOMAIN task : task[s].status # "running"
  BY DEF CompleteWhenDone
<1>1. DOMAIN plan = DOMAIN steps \ DOMAIN remap /\ \A s \in DOMAIN remap : remap[s] \in DOMAIN plan
  BY InvImpliesRemapCanonical DEF ExecInv, RemapCanonical, AfterDedup
<1>2. DOMAIN plan \subseteq DOMAIN outputs
  BY DEF ExecInv, TiersComplete
<1>3. \A s \in DOMAIN steps : Resolve(remap, s) \in DOMAIN plan
  BY <1>1 DEF Resolve
<1>4. DOMAIN task \subseteq DOMAIN outputs
  BY <1>2 DEF ExecInv, Dispatched, Running
<1> QED  BY <1>2, <1>3, <1>4 DEF ExecInv, Dispatched

(* A removed step and the step that absorbed it have the same kind and the *)
(* same resolved dependencies, so they would compute the same value.       *)
LEMMA InvImpliesConsistent == ExecInv => ResultsConsistent
<1> SUFFICES ASSUME ExecInv, NEW s \in DOMAIN steps, Resolve(remap, s) \in DOMAIN outputs
    PROVE  LET deps == ResolveAll(remap, steps[s].deps)
           IN  /\ \A k \in DOMAIN deps : deps[k] \in DOMAIN outputs
               /\ outputs[Resolve(remap, s)].value
                    \in {Null, Error, Apply(steps[s].kind, Inputs(deps))}
  BY DEF ResultsConsistent
<1> DEFINE c == Resolve(remap, s)
<1>1. Running
  BY DEF ExecInv, NothingRunYet
<1>2. AfterDedup
  BY <1>1 DEF Running, AfterDedup
<1>3. c \in DOMAIN plan
  BY <1>1 DEF ExecInv, Dispatched
<1>4. plan[c] = steps[c]
  BY <1>2, <1>3 DEF ExecInv, OptInv, PlanReduced, Without
<1>5. Fingerprint(remap, steps[s]) = Fingerprint(remap, steps[c])
  BY <1>2, InvImpliesRemapCanonical DEF ExecInv, RemapCanonical, Resolve
<1>6. /\ steps[s].kind = plan[c].kind
      /\ ResolveAll(remap, steps[s].deps) = DepIds(c)
  BY <1>4, <1>5 DEF Fingerprint, DepIds
<1>7. /\ HasInputs(c)
      /\ outputs[c].value \in {Null, Error, Apply(plan[c].kind, Inputs(DepIds(c)))}
  BY DEF ExecInv, OutputsComputed
<1> QED  BY <1>6, <1>7 DEF HasInputs

(* An output that says error, or null because of an error, has the ERROR   *)
(* flag in every item: computed values are neither.                        *)
LEMMA FailedIsFlagged ==
    ASSUME RunInv, NEW d \in DOMAIN outputs,
           \/ outputs[d].value = Error
           \/ outputs[d].value = Null /\ \A i \in Batch : "ERROR" \in outputs[d].flags[i]
    PROVE  /\ Len(outputs[d].flags) = BatchSize
           /\ \A i \in Batch : "ERROR" \in outputs[d].flags[i]
<1>1. Running
  BY DEF RunInv, ExecInv, NothingRunYet
<1>2. d \in DOMAIN plan /\ plan[d].kind \in Kinds
  BY <1>1 DEF RunInv, ExecInv, Dispatched, OptInv, OptTypeOK, IsMap, Step
<1>3. \A inputs : Apply(plan[d].kind, inputs) # Error /\ Apply(plan[d].kind, inputs) # Null
  BY <1>2, MarksAssumption DEF Apply, Error, Null
<1>4. CASE d \in DOMAIN task /\ outputs[d] = Collected(d)
  <2>1. outputs[d] = ErrorOutputBatch
    BY <1>3, <1>4 DEF Collected, StepOutput
  <2>2. outputs[d].flags = [i \in Batch |-> {"ERROR"}]
    BY <2>1 DEF ErrorOutputBatch, StepOutput
  <2> QED  BY <2>2, BatchSizeAssumption DEF Batch
<1>5. CASE outputs[d] = StepOutput(Null, ResultFlags(DepIds(d)))
  <2>1. outputs[d].value # Error
    BY <1>5 DEF StepOutput, Null, Error
  <2>2. outputs[d].flags = ResultFlags(DepIds(d))
    BY <1>5 DEF StepOutput
  <2>3. Len(ResultFlags(DepIds(d))) = BatchSize
    BY BatchSizeAssumption DEF ResultFlags, Batch
  <2> QED  BY <2>1, <2>2, <2>3
<1> QED  BY <1>4, <1>5 DEF RunInv, OutcomesKept

LEMMA InvImpliesErrorContained == RunInv => ErrorContained
<1> SUFFICES ASSUME RunInv, NEW s \in DOMAIN outputs, NEW k \in DOMAIN DepIds(s),
                    LET dep == outputs[DepIds(s)[k]]
                    IN  \/ dep.value = Error
                        \/ dep.value = Null /\ \A i \in Batch : "ERROR" \in dep.flags[i]
             PROVE  /\ s \notin DOMAIN task
                    /\ \A i \in Batch : "ERROR" \in outputs[s].flags[i]
  BY DEF ErrorContained
<1> DEFINE d == DepIds(s)[k]
<1>1. d \in DOMAIN outputs
  BY DEF RunInv, ExecInv, OutputsComputed, HasInputs
<1>2. Len(outputs[d].flags) = BatchSize /\ \A i \in Batch : "ERROR" \in outputs[d].flags[i]
  BY <1>1, FailedIsFlagged
<1>3. \A i \in Batch : "ERROR" \in ResultFlags(DepIds(s))[i]
  BY <1>1, <1>2, BatchSizeAssumption DEF ResultFlags, Batch
<1>4. ShouldSkip(DepIds(s))
  BY <1>3 DEF ShouldSkip
<1>5. s \notin DOMAIN task /\ outputs[s] = StepOutput(Null, ResultFlags(DepIds(s)))
  BY <1>4 DEF RunInv, OutcomesKept
<1> QED  BY <1>3, <1>5 DEF StepOutput

(* ExecInv is an invariant of planning, optimizing and executing. *)
THEOREM ExecInvariant == ExecSpec => []ExecInv
<1>1. ExecInit => ExecInv
  BY ExecInitInv
<1>2. ExecInv /\ [ExecNext]_vars => ExecInv'
  BY ExecNextInv
<1> QED  BY <1>1, <1>2, PTL DEF ExecSpec

(* Type correctness of the executor. *)
THEOREM ExecTypeCorrect == ExecSpec => []ExecTypeOK
<1>1. ExecInv => ExecTypeOK
  BY DEF ExecInv
<1> QED  BY <1>1, ExecInvariant, PTL

(* No step is ever dispatched before the outputs it needs are there. *)
THEOREM ExecNoMissingInput == ExecSpec => []NoMissingInput
<1>1. ExecInv => NoMissingInput
  BY DEF ExecInv
<1> QED  BY <1>1, ExecInvariant, PTL

(* A successful execution answers for every registered step and leaves no  *)
(* task behind.                                                            *)
THEOREM ExecComplete == ExecSpec => []CompleteWhenDone
  BY InvImpliesComplete, ExecInvariant, PTL

(* Deduplication is invisible in the results. *)
THEOREM ExecResultsConsistent == ExecSpec => []ResultsConsistent
  BY InvImpliesConsistent, ExecInvariant, PTL

(* RunInv is an invariant too: outputs keep what became of their steps. *)
THEOREM RunInvariant == ExecSpec => []RunInv
<1>1. ExecInit => RunInv
  <2>1. ExecInit => DOMAIN task = {} /\ DOMAIN outputs = {}
    BY EmptyMap DEF ExecInit
  <2> QED  BY <2>1, ExecInitInv DEF RunInv, OutcomesKept
<1>2. RunInv /\ [ExecNext]_vars => RunInv'
  BY RunNextInv
<1> QED  BY <1>1, <1>2, PTL DEF ExecSpec

(* A failed step takes its dependents with it, however far they are. *)
THEOREM ExecErrorContained == ExecSpec => []ErrorContained
  BY InvImpliesErrorContained, RunInvariant, PTL

-----------------------------------------------------------------------------
(* Refinement: every step of the executor is a step of Dataflow on the     *)
(* plan as it was registered, or changes nothing there.                    *)

(* Only Register changes what is registered. *)
LEMMA OptimizeFrame ==
    ASSUME Optimize
    PROVE  steps' = steps /\ error' = error /\ phase # "planning" /\ phase' # "planning"
  BY DEF Optimize, TopologicalSort, DedupStep, RemoveDuplicates, HoistStep, Concatenate

LEMMA NoResultsYet ==
    ASSUME DOMAIN outputs = {}
    PROVE  ResultsBar = Empty
<1>1. {t \in DOMAIN steps : Resolve(remap, t) \in DOMAIN outputs} = {}
  OBVIOUS
<1> QED  BY <1>1 DEF ResultsBar, Empty

LEMMA PlanningSimulates ==
    ASSUME RunInv, RunInv', OptNext, UNCHANGED execVars
    PROVE  Abstract!FlowNext \/ UNCHANGED <<steps, ResultsBar, StatusBar>>
<1> USE DEF RunInv, ExecInv
<1>1. /\ phase \in Early
      /\ phase' \in Early \cup {"optimized", "failed", "panicked"}
  BY OptNextPhase
<1>2. ~Running /\ DOMAIN outputs = {} /\ DOMAIN outputs' = {}
  BY <1>1 DEF Running, Early, NothingRunYet, execVars
<1>3. ResultsBar = Empty /\ ResultsBar' = Empty
  <2>1. ResultsBar = Empty
    BY <1>2, NoResultsYet
  <2>2. {t \in DOMAIN steps' : Resolve(remap', t) \in DOMAIN outputs'} = {}
    BY <1>2
  <2>3. ResultsBar' = Empty
    BY <2>2 DEF ResultsBar, Empty
  <2> QED  BY <2>1, <2>3
<1>4. error # "MissingInput" /\ error' # "MissingInput" /\ phase' # "panicked" /\ phase # "panicked"
  BY DEF NoMissingInput, OptInv, NoPanic
<1>5. ASSUME NEW r \in Registrable, Register(r[1], r[2])
      PROVE  Abstract!Add
  <2>1. /\ r[1] \notin DOMAIN steps /\ steps' = Put(steps, r[1], r[2])
        /\ phase = "planning" /\ phase' = phase
    BY <1>5 DEF Register
  <2>2. r[1] \in DOMAIN steps' /\ steps'[r[1]] = r[2]
    BY <2>1 DEF Put
  <2>3. steps' = Put(steps, r[1], steps'[r[1]])
    BY <2>1, <2>2
  <2>4. StatusBar = "open" /\ StatusBar' = "open"
    BY <2>1 DEF StatusBar
  <2> QED  BY <1>3, <2>1, <2>2, <2>3, <2>4 DEF Abstract!Add, Put, Abstract!Put
<1>6. ASSUME Build
      PROVE  Abstract!Start
  <2>1. steps' = steps /\ StatusBar = "open"
    BY <1>6 DEF Build, StatusBar
  <2>2. Abstract!WellFormed <=>
          /\ ~(\E s \in DOMAIN steps : ~(DepSet(steps[s]) \subseteq DOMAIN steps))
          /\ Acyclic(DOMAIN steps, Edges(steps))
    BY DEF Abstract!WellFormed, Abstract!DepSet, DepSet, Abstract!Acyclic, Acyclic,
           Abstract!Edges, Edges, Abstract!StepIds, StepIds
  <2>3. phase' = IF Abstract!WellFormed THEN "built" ELSE "failed"
    BY <1>6, <2>2 DEF Build, Fail
  <2>4. StatusBar' = IF Abstract!WellFormed THEN "running" ELSE "failed"
    BY <1>4, <2>3 DEF StatusBar
  <2> QED  BY <1>3, <2>1, <2>4 DEF Abstract!Start
<1>7. ASSUME Optimize
      PROVE  UNCHANGED <<steps, ResultsBar, StatusBar>>
  <2>1. steps' = steps /\ error' = error /\ phase # "planning" /\ phase' # "planning"
    BY <1>7, OptimizeFrame
  <2>2. phase' # "failed"
    BY <1>1, <1>7 DEF Optimize, TopologicalSort, DedupStep, RemoveDuplicates, HoistStep,
                      Concatenate, Early
  <2>3. StatusBar = "running" /\ StatusBar' = "running"
    BY <1>1, <1>4, <2>1, <2>2 DEF StatusBar, Early
  <2> QED  BY <1>3, <2>1, <2>3
<1> QED
  BY <1>5, <1>6, <1>7 DEF OptNext, Abstract!FlowNext

(* A registered step and the step that absorbed it: same kind, and the     *)
(* inputs the one would be given are the inputs of the other.              *)
LEMMA AbsorbedAlike ==
    ASSUME RunInv, Running, NEW t \in DOMAIN steps, NEW c \in DOMAIN plan, Resolve(remap, t) = c,
           HasInputs(c)
    PROVE  /\ steps[t].kind = plan[c].kind
           /\ DepSet(steps[t]) \subseteq DOMAIN ResultsBar
           /\ [k \in DOMAIN steps[t].deps |-> ResultsBar[steps[t].deps[k]]] = Inputs(DepIds(c))
<1> USE DEF RunInv, ExecInv
<1>1. AfterDedup
  BY DEF Running, AfterDedup
<1>2. plan[c] = steps[c]
  BY <1>1 DEF OptInv, PlanReduced, Without
<1>3. Fingerprint(remap, steps[t]) = Fingerprint(remap, steps[c])
  BY <1>1, InvImpliesRemapCanonical DEF RemapCanonical, Resolve
<1>4. steps[t].kind = plan[c].kind /\ ResolveAll(remap, steps[t].deps) = DepIds(c)
  BY <1>2, <1>3 DEF Fingerprint, DepIds
<1>5. /\ DOMAIN steps[t].deps = DOMAIN DepIds(c)
      /\ \A k \in DOMAIN steps[t].deps : Resolve(remap, steps[t].deps[k]) = DepIds(c)[k]
  BY <1>4 DEF ResolveAll
<1>6. \A k \in DOMAIN steps[t].deps : steps[t].deps[k] \in DOMAIN steps
  BY <1>1 DEF OptInv, DepsClosed, DepSet
<1>7. \A k \in DOMAIN steps[t].deps :
        /\ steps[t].deps[k] \in DOMAIN ResultsBar
        /\ ResultsBar[steps[t].deps[k]] = outputs[DepIds(c)[k]]
  BY <1>5, <1>6 DEF ResultsBar, HasInputs
<1>8. DepSet(steps[t]) \subseteq DOMAIN ResultsBar
  BY <1>7 DEF DepSet
<1> QED  BY <1>4, <1>5, <1>7, <1>8 DEF Inputs

(* A step whose items are all blocked is one the executor skips. *)
LEMMA BlockedIsSkipped ==
    ASSUME NEW c, HasInputs(c)
    PROVE  (\A i \in Batch : Abstract!Blocked(Inputs(DepIds(c)), i)) <=> ShouldSkip(DepIds(c))
<1>1. ASSUME NEW i \in Batch
      PROVE  Abstract!Blocked(Inputs(DepIds(c)), i) <=> ResultFlags(DepIds(c))[i] # {}
  <2>1. Abstract!Blocked(Inputs(DepIds(c)), i) <=>
          \E k \in DOMAIN DepIds(c) :
            /\ i <= Len(outputs[DepIds(c)[k]].flags)
            /\ \E f \in {"NULL", "ERROR"} : f \in outputs[DepIds(c)[k]].flags[i]
    BY DEF Abstract!Blocked, Inputs
  <2>2. ResultFlags(DepIds(c))[i] # {} <=>
          \E f \in {"NULL", "ERROR"} : \E k \in DOMAIN DepIds(c) :
            /\ i <= Len(outputs[DepIds(c)[k]].flags)
            /\ f \in outputs[DepIds(c)[k]].flags[i]
    BY DEF ResultFlags, HasInputs
  <2> QED  BY <2>1, <2>2
<1> QED  BY <1>1 DEF ShouldSkip

(* Storing the output of a step publishes it to all steps it absorbed. *)
LEMMA OutputPublishes ==
    ASSUME RunInv, RunInv', phase = "run", phase' = "run", error' = error,
           UNCHANGED <<steps, plan, remap>>,
           NEW c \in DOMAIN plan, c \notin DOMAIN outputs, HasInputs(c),
           NEW out, outputs' = Put(outputs, c, out),
           Abstract!Permitted(plan[c].kind, Inputs(DepIds(c)), out)
    PROVE  Abstract!Publish
<1>1. Running
  BY DEF Running
<1>2. StatusBar = "running" /\ StatusBar' = "running"
  BY DEF StatusBar, RunInv, ExecInv, NoMissingInput
<1>3. /\ DOMAIN outputs' = DOMAIN outputs \cup {c} /\ outputs'[c] = out
      /\ \A d \in DOMAIN outputs : outputs'[d] = outputs[d]
  BY DEF Put
<1>4. /\ DOMAIN ResultsBar = {t \in DOMAIN steps : Resolve(remap, t) \in DOMAIN outputs}
      /\ \A t \in DOMAIN ResultsBar : ResultsBar[t] = outputs[Resolve(remap, t)]
  BY DEF ResultsBar
<1>5. /\ DOMAIN ResultsBar' = {t \in DOMAIN steps : Resolve(remap, t) \in DOMAIN outputs'}
      /\ \A t \in DOMAIN ResultsBar' : ResultsBar'[t] = outputs'[Resolve(remap, t)]
  BY DEF ResultsBar
<1>6. /\ DOMAIN ResultsBar \subseteq DOMAIN ResultsBar'
      /\ DOMAIN ResultsBar' \subseteq DOMAIN steps
      /\ \A t \in DOMAIN ResultsBar : ResultsBar'[t] = ResultsBar[t]
  BY <1>3, <1>4, <1>5
<1>7. ASSUME NEW t \in DOMAIN ResultsBar' \ DOMAIN ResultsBar
      PROVE  /\ DepSet(steps[t]) \subseteq DOMAIN ResultsBar
             /\ Abstract!Permitted(steps[t].kind,
                                   [k \in DOMAIN steps[t].deps |-> ResultsBar[steps[t].deps[k]]],
                                   ResultsBar'[t])
  <2>1. t \in DOMAIN steps /\ Resolve(remap, t) = c /\ ResultsBar'[t] = out
    BY <1>3, <1>4, <1>5
  <2>2. /\ steps[t].kind = plan[c].kind
        /\ DepSet(steps[t]) \subseteq DOMAIN ResultsBar
        /\ [k \in DOMAIN steps[t].deps |-> ResultsBar[steps[t].deps[k]]] = Inputs(DepIds(c))
    BY <1>1, <2>1, AbsorbedAlike
  <2> QED  BY <2>1, <2>2
<1> QED  BY <1>2, <1>6, <1>7 DEF Abstract!Publish, Abstract!DepSet, DepSet

LEMMA DispatchSimulates ==
    ASSUME RunInv, RunInv', Dispatch
    PROVE  Abstract!Publish \/ UNCHANGED <<steps, ResultsBar, StatusBar>>
<1> USE DEF RunInv
<1>1. PICK s \in TierSteps \ done :
        \/ /\ ShouldSkip(DepIds(s))
           /\ outputs' = Put(outputs, s, StepOutput(Null, ResultFlags(DepIds(s))))
           /\ UNCHANGED <<phase, error>>
        \/ \E k \in DOMAIN DepIds(s) : DepIds(s)[k] \notin DOMAIN outputs
        \/ UNCHANGED <<phase, error, outputs>>
  BY DEF Dispatch
<1>2. phase = "run" /\ UNCHANGED <<steps, plan, remap>>
  BY DEF Dispatch
<1>3. HasInputs(s)
  BY <1>1, <1>2, TierHasInputs
<1>4. s \in DOMAIN plan /\ s \notin DOMAIN outputs
  BY <1>1, <1>2 DEF ExecInv, Dispatched, TierSteps, TiersIncrease, Ordered
<1>5. CASE /\ ShouldSkip(DepIds(s)) /\ UNCHANGED <<phase, error>>
           /\ outputs' = Put(outputs, s, StepOutput(Null, ResultFlags(DepIds(s))))
  <2>1. \A i \in Batch : Abstract!Blocked(Inputs(DepIds(s)), i)
    BY <1>3, <1>5, BlockedIsSkipped
  <2>2. Abstract!Permitted(plan[s].kind, Inputs(DepIds(s)), StepOutput(Null, ResultFlags(DepIds(s))))
    BY <1>5, <2>1 DEF Abstract!Permitted, StepOutput, ShouldSkip, Abstract!Batch, Batch,
                      Abstract!Null, Null
  <2> QED  BY <1>2, <1>3, <1>4, <1>5, <2>2, OutputPublishes
<1>6. CASE UNCHANGED <<phase, error, outputs>>
  BY <1>2, <1>6 DEF ResultsBar, StatusBar
<1> QED  BY <1>1, <1>3, <1>5, <1>6 DEF HasInputs

LEMMA AwaitSimulates ==
    ASSUME RunInv, RunInv', Await
    PROVE  Abstract!Publish \/ Abstract!Abort
<1> USE DEF RunInv
<1>1. PICK s \in TierSteps \ DOMAIN outputs :
        \/ /\ Fail("JoinError")
           /\ outputs' = outputs
        \/ /\ outputs' = Put(outputs, s, Collected(s))
           /\ UNCHANGED <<phase, error>>
  BY DEF Await
<1>2. phase = "run" /\ TierSteps \subseteq done /\ UNCHANGED <<steps, plan, remap, task>>
  BY DEF Await
<1>3. s \in DOMAIN plan /\ s \in DOMAIN task /\ s \notin DOMAIN outputs
  BY <1>1, <1>2 DEF ExecInv, Dispatched, TierSteps, TiersIncrease, Ordered
<1>4. CASE Fail("JoinError") /\ outputs' = outputs
  BY <1>2, <1>4 DEF Fail, StatusBar, ResultsBar, Abstract!Abort, ExecInv, NoMissingInput
<1>5. CASE outputs' = Put(outputs, s, Collected(s)) /\ UNCHANGED <<phase, error>>
  <2>1. HasInputs(s) /\ task[s].inputs = Inputs(DepIds(s)) /\ ~ShouldSkip(DepIds(s))
    BY <1>3 DEF ExecInv, TasksHaveInputs, OutcomesKept
  <2>2. ~(\A i \in Batch : Abstract!Blocked(Inputs(DepIds(s)), i))
    BY <2>1, BlockedIsSkipped
  <2>3. \/ Collected(s) = StepOutput(Error, [i \in Batch |-> {"ERROR"}])
        \/ Collected(s).value = Apply(plan[s].kind, Inputs(DepIds(s)))
    BY <2>1 DEF Collected, ErrorOutputBatch, StepOutput
  <2>4. Abstract!Permitted(plan[s].kind, Inputs(DepIds(s)), Collected(s))
    BY <2>2, <2>3 DEF Abstract!Permitted, Abstract!StepOutput, StepOutput, Abstract!Batch, Batch,
                      Abstract!Error, Error, Abstract!Apply, Apply
  <2> QED  BY <1>2, <1>3, <1>5, <2>1, <2>4, OutputPublishes
<1> QED  BY <1>1, <1>4, <1>5

(* The outputs are returned once every registered step has its result. *)
LEMMA FinishSimulates ==
    ASSUME RunInv, RunInv', phase \in {"optimized", "run"}, phase' \in {phase, "run", "done"},
           UNCHANGED <<error, steps, remap, outputs>>
    PROVE  Abstract!Finish \/ UNCHANGED <<steps, ResultsBar, StatusBar>>
<1>1. ResultsBar' = ResultsBar
  BY DEF ResultsBar
<1>2. StatusBar = "running"
  BY DEF StatusBar, RunInv, ExecInv, NoMissingInput
<1>3. CASE phase' = "done"
  <2>1. \A s \in DOMAIN steps : Resolve(remap, s) \in DOMAIN outputs
    <3>1. RunInv' => CompleteWhenDone'
      BY InvImpliesComplete, PTL DEF RunInv
    <3> QED  BY <1>3, <3>1 DEF CompleteWhenDone
  <2>2. DOMAIN ResultsBar = DOMAIN steps
    BY <2>1 DEF ResultsBar
  <2>3. StatusBar' = "done"
    BY <1>3 DEF StatusBar
  <2> QED  BY <1>1, <1>2, <2>2, <2>3 DEF Abstract!Finish
<1>4. CASE phase' # "done"
  BY <1>1, <1>2, <1>4 DEF StatusBar, RunInv, ExecInv, NoMissingInput
<1> QED  BY <1>3, <1>4

LEMMA NextSimulates ==
    ASSUME RunInv, RunInv', [ExecNext]_vars
    PROVE  [Abstract!FlowNext]_(Abstract!flowVars)
<1> USE DEF Abstract!FlowNext, Abstract!flowVars
<1>1. CASE OptNext /\ UNCHANGED execVars
  BY <1>1, PlanningSimulates
<1>2. CASE TierStep \/ StartTiers \/ NextTier
  <2>1. /\ phase \in {"optimized", "run"} /\ phase' \in {phase, "run", "done"}
        /\ UNCHANGED <<error, steps, remap, outputs>>
    BY <1>2 DEF TierStep, StartTiers, NextTier, execVars
  <2> QED  BY <2>1, FinishSimulates
<1>3. CASE Dispatch
  BY <1>3, DispatchSimulates
<1>4. CASE Await
  BY <1>4, AwaitSimulates
<1>5. CASE (\E s \in StepIds, outcome \in Outcomes : TaskFinish(s, outcome)) \/ UNCHANGED vars
  <2>1. UNCHANGED <<phase, error, steps, remap, outputs>>
    BY <1>5 DEF TaskFinish, vars, optVars, execVars
  <2> QED  BY <2>1 DEF ResultsBar, StatusBar
<1> QED
  BY <1>1, <1>2, <1>3, <1>4, <1>5 DEF ExecNext, Sequential

(* The optimized, tiered, concurrent execution implements the dataflow     *)
(* evaluation of the plan as it was registered, for every plan, every      *)
(* batch size and every outcome of the steps.                              *)
THEOREM ExecRefinesDataflow == ExecSpec => ImplementsDataflow
<1>1. ExecInit => Abstract!FlowInit
  <2> SUFFICES ASSUME ExecInit PROVE Abstract!FlowInit
    OBVIOUS
  <2>1. DOMAIN steps = {} /\ DOMAIN outputs = {} /\ phase = "planning"
    BY EmptyMap DEF ExecInit, OptInit
  <2>2. DOMAIN ResultsBar = {}
    BY <2>1 DEF ResultsBar
  <2> QED  BY <2>1, <2>2 DEF Abstract!FlowInit, StatusBar
<1>2. RunInv /\ RunInv' /\ [ExecNext]_vars => [Abstract!FlowNext]_(Abstract!flowVars)
  BY NextSimulates
<1> QED
  BY <1>1, <1>2, RunInvariant, PTL DEF ExecSpec, ImplementsDataflow, Abstract!FlowSpec

-----------------------------------------------------------------------------
(* The plan context.                                                       *)

(* Nothing that get_result reads changes after the execution. *)
LEMMA DoneIsFinal ==
    ASSUME phase = "done", ExecNext
    PROVE  UNCHANGED <<phase, steps, plan, remap, outputs>>
<1>1. ~OptNext
  BY OptNextPhase DEF Early
<1>2. ~Sequential
  BY DEF Sequential, TierStep, StartTiers, Dispatch, Await, NextTier
<1>3. PICK s \in StepIds, outcome \in Outcomes : TaskFinish(s, outcome)
  BY <1>1, <1>2 DEF ExecNext
<1> QED  BY <1>3 DEF TaskFinish, optVars

(* An id found in the outputs was not deduplicated away, and one that      *)
(* resolves to an id found there was registered.                           *)
LEMMA FoundIsOwn ==
    ASSUME ExecInv, phase = "done", NEW id, NEW c \in DOMAIN outputs,
           c = id \/ c = Resolve(remap, id)
    PROVE  id \in DOMAIN steps /\ c = Resolve(remap, id)
<1>1. AfterDedup /\ Running
  BY DEF AfterDedup, Running
<1>2. DOMAIN plan = DOMAIN steps \ DOMAIN remap /\ DOMAIN remap \subseteq DOMAIN steps
  BY <1>1, InvImpliesRemapCanonical DEF ExecInv, RemapCanonical, OptInv, MergedIsCanonical
<1>3. c \in DOMAIN plan
  BY <1>1 DEF ExecInv, Dispatched
<1> QED  BY <1>2, <1>3 DEF Resolve

(* The call of a reader, updated in two fields. *)
LEMMA CallUpdated ==
    ASSUME NEW x, NEW pc, NEW got, x = Call(x)
    PROVE  [[x EXCEPT !.pc = pc] EXCEPT !.got = got] =
             [pc |-> pc, id |-> x.id, executed |-> x.executed, canonical |-> x.canonical, got |-> got]
<1>1. PICK a, i, e, c, g : x = [pc |-> a, id |-> i, executed |-> e, canonical |-> c, got |-> g]
  BY DEF Call
<1>2. x.id = i /\ x.executed = e /\ x.canonical = c
  BY <1>1
<1>3. PICK y : y = [x EXCEPT !.pc = pc]
  OBVIOUS
<1>4. y = [pc |-> pc, id |-> i, executed |-> e, canonical |-> c, got |-> g]
  BY <1>1, <1>3
<1>5. [y EXCEPT !.got = got] = [pc |-> pc, id |-> i, executed |-> e, canonical |-> c, got |-> got]
  BY <1>4
<1> QED  BY <1>2, <1>3, <1>5

LEMMA CtxInitInv == CtxInit => CtxInv
<1> SUFFICES ASSUME CtxInit PROVE CtxInv
  OBVIOUS
<1>1. ExecInv
  BY ExecInitInv DEF CtxInit
<1>2. CellsFilled
  BY DEF CtxInit, CellsFilled, IsSet
<1>3. \A r \in Readers : reader[r] = Idle
  BY DEF CtxInit
<1>4. \A r \in Readers :
        reader[r] = Call(reader[r]) /\ Forwarded(reader[r]) /\ Answered(reader[r])
  BY <1>3 DEF Idle, Call, Forwarded, Answered, IsSet
<1>5. ReadAfterExecute
  BY <1>3 DEF Idle, ReadAfterExecute
<1> QED  BY <1>1, <1>2, <1>4, <1>5 DEF CtxInv, CtxInit

(* The execution itself: before its end no lock is set, so no call has an  *)
(* answer; after it, nothing changes.                                      *)
LEMMA ExecutionInv ==
    ASSUME CtxInv, [ExecNext]_vars, UNCHANGED ctxVars
    PROVE  CtxInv'
<1> USE DEF CtxInv
<1>1. ExecInv'
  BY ExecNextInv
<1>2. remapCell' = remapCell /\ resultsCell' = resultsCell /\ reader' = reader
  BY DEF ctxVars
<1>3. CASE phase = "done" \/ UNCHANGED vars
  <2>1. UNCHANGED <<phase, steps, plan, remap, outputs>>
    BY <1>3, DoneIsFinal DEF vars, optVars, execVars
  <2> QED  BY <1>1, <1>2, <2>1 DEF CellsFilled, Forwarded, Answered, Call, ReadAfterExecute
<1>4. CASE phase # "done"
  <2>1. ~IsSet(remapCell) /\ ~IsSet(resultsCell)
    BY <1>4 DEF CellsFilled
  <2> QED  BY <1>1, <1>2, <2>1 DEF CellsFilled, Forwarded, Answered, Call, ReadAfterExecute, IsSet
<1> QED  BY <1>3, <1>4

LEMMA StoreInv ==
    ASSUME CtxInv, StoreRemap \/ StoreResults
    PROVE  CtxInv'
<1> USE DEF CtxInv
<1>1. UNCHANGED vars /\ reader' = reader /\ phase = "done"
  BY DEF StoreRemap, StoreResults
<1>2. UNCHANGED <<phase, steps, plan, remap, outputs>>
  BY <1>1 DEF vars, optVars, execVars
<1>3. ExecInv'
  BY <1>1, ExecNextInv
<1>4. /\ CellsFilled'
      /\ IsSet(remapCell) => IsSet(remapCell)'
      /\ IsSet(resultsCell) => IsSet(resultsCell)'
  BY <1>1, <1>2 DEF StoreRemap, StoreResults, CellsFilled, IsSet, Some, Unset
<1>5. \A r \in Readers :
        (reader[r] = Call(reader[r]) /\ Forwarded(reader[r]) /\ Answered(reader[r]))'
  BY <1>1, <1>2, <1>4 DEF Forwarded, Answered, Call, IsSet
<1>6. ReadAfterExecute'
  BY <1>1, <1>2 DEF ReadAfterExecute
<1> QED  BY <1>1, <1>3, <1>4, <1>5, <1>6

LEMMA ReadRemapInv ==
    ASSUME CtxInv, NEW r \in Readers, NEW id \in StepIds, ReadRemap(r, id)
    PROVE  CtxInv'
<1> USE DEF CtxInv
<1>1. UNCHANGED vars /\ UNCHANGED <<remapCell, resultsCell>>
  BY DEF ReadRemap
<1>2. UNCHANGED <<phase, steps, plan, remap, outputs>>
  BY <1>1 DEF vars, optVars, execVars
<1>3. ExecInv'
  BY <1>1, ExecNextInv
<1>4. CellsFilled'
  BY <1>1, <1>2 DEF CellsFilled, IsSet
<1> DEFINE call == [pc |-> "mid", id |-> id, executed |-> IsSet(resultsCell),
                    canonical |-> IF IsSet(remapCell) THEN Resolve(remapCell[1], id) ELSE id,
                    got |-> Unset]
<1>5. /\ DOMAIN reader' = Readers /\ reader'[r] = call
      /\ \A q \in Readers : q # r => reader'[q] = reader[q]
  BY DEF ReadRemap
<1>6. call = Call(call) /\ Forwarded(call) /\ Answered(call)
  <2>1. IsSet(remapCell) => call.canonical = Resolve(remap, id)
    BY DEF CellsFilled, Some
  <2> QED  BY <2>1 DEF Call, Forwarded, Answered, CellsFilled, IsSet
<1> HIDE DEF call
<1>7. \A q \in Readers :
        (reader[q] = Call(reader[q]) /\ Forwarded(reader[q]) /\ Answered(reader[q]))'
  BY <1>1, <1>2, <1>5, <1>6 DEF Forwarded, Answered, Call, IsSet
<1>8. ReadAfterExecute'
  <2>1. call.pc = "mid"
    BY DEF call
  <2> QED  BY <1>2, <1>5, <2>1 DEF ReadAfterExecute
<1> QED  BY <1>3, <1>4, <1>5, <1>7, <1>8

LEMMA ReadResultsInv ==
    ASSUME CtxInv, NEW r \in Readers, ReadResults(r)
    PROVE  CtxInv'
<1> USE DEF CtxInv
<1>1. UNCHANGED vars /\ UNCHANGED <<remapCell, resultsCell>>
  BY DEF ReadResults
<1>2. UNCHANGED <<phase, steps, plan, remap, outputs>>
  BY <1>1 DEF vars, optVars, execVars
<1>3. ExecInv'
  BY <1>1, ExecNextInv
<1>4. CellsFilled'
  BY <1>1, <1>2 DEF CellsFilled, IsSet
<1> DEFINE x == reader[r]
           got == IF IsSet(resultsCell) /\ x.canonical \in DOMAIN resultsCell[1]
                  THEN Some(resultsCell[1][x.canonical]) ELSE Unset
           call == [pc |-> "end", id |-> x.id, executed |-> x.executed,
                    canonical |-> x.canonical, got |-> got]
<1>5. /\ DOMAIN reader' = Readers /\ reader'[r] = call
      /\ \A q \in Readers : q # r => reader'[q] = reader[q]
  <2>1. reader' = [reader EXCEPT ![r] = [[x EXCEPT !.pc = "end"] EXCEPT !.got = got]]
    BY DEF ReadResults
  <2>2. x = Call(x)
    OBVIOUS
  <2>3. [[x EXCEPT !.pc = "end"] EXCEPT !.got = got] = call
    BY <2>2, CallUpdated
  <2> QED  BY <2>1, <2>3
<1>6. Forwarded(x)
  OBVIOUS
<1>7. IsSet(resultsCell) => phase = "done" /\ resultsCell[1] = outputs
  BY DEF CellsFilled, Some
<1>8. ASSUME IsSet(got)
      PROVE  /\ IsSet(resultsCell) /\ x.id \in DOMAIN steps
             /\ got = Some(outputs[Resolve(remap, x.id)])
  <2>1. IsSet(resultsCell) /\ x.canonical \in DOMAIN outputs /\ got = Some(outputs[x.canonical])
    BY <1>7, <1>8 DEF IsSet
  <2>2. x.id \in DOMAIN steps /\ x.canonical = Resolve(remap, x.id)
    BY <1>6, <1>7, <2>1, FoundIsOwn DEF Forwarded
  <2> QED  BY <2>1, <2>2
<1>9. ASSUME x.executed, x.id \in DOMAIN steps
      PROVE  got = Some(outputs[Resolve(remap, x.id)])
  <2>1. IsSet(resultsCell) /\ x.canonical = Resolve(remap, x.id)
    BY <1>6, <1>9 DEF Forwarded
  <2>2. Resolve(remap, x.id) \in DOMAIN outputs
    BY <1>7, <1>9, <2>1, InvImpliesComplete DEF CompleteWhenDone
  <2> QED  BY <1>7, <2>1, <2>2
<1>10. call = Call(call) /\ Forwarded(call) /\ Answered(call)
  BY <1>6, <1>8 DEF Call, Forwarded, Answered
<1>11. call.pc = "end" /\ call.executed = x.executed /\ call.id = x.id /\ call.got = got
  OBVIOUS
<1> HIDE DEF call, got
<1>12. \A q \in Readers :
         (reader[q] = Call(reader[q]) /\ Forwarded(reader[q]) /\ Answered(reader[q]))'
  BY <1>1, <1>2, <1>5, <1>10 DEF Forwarded, Answered, Call, IsSet
<1>13. ReadAfterExecute'
  BY <1>2, <1>5, <1>9, <1>11 DEF ReadAfterExecute
<1> QED  BY <1>3, <1>4, <1>5, <1>12, <1>13

LEMMA CtxNextInv ==
    ASSUME CtxInv, [CtxNext]_<<vars, ctxVars>>
    PROVE  CtxInv'
<1>1. CASE ExecNext /\ UNCHANGED ctxVars
  BY <1>1, ExecutionInv
<1>2. CASE StoreRemap \/ StoreResults
  BY <1>2, StoreInv
<1>3. CASE \E r \in Readers, id \in StepIds : ReadRemap(r, id)
  BY <1>3, ReadRemapInv
<1>4. CASE \E r \in Readers : ReadResults(r)
  BY <1>4, ReadResultsInv
<1>5. CASE UNCHANGED <<vars, ctxVars>>
  BY <1>5, ExecutionInv
<1> QED  BY <1>1, <1>2, <1>3, <1>4, <1>5 DEF CtxNext

-----------------------------------------------------------------------------
(* The properties *)

(* The invariant of execution, locks and concurrent calls. *)
THEOREM CtxInvariant == CtxSpec => []CtxInv
<1>1. CtxInit => CtxInv
  BY CtxInitInv
<1>2. CtxInv /\ [CtxNext]_<<vars, ctxVars>> => CtxInv'
  BY CtxNextInv
<1> QED  BY <1>1, <1>2, PTL DEF CtxSpec

(* After is_executed() has been true, get_result answers for every step    *)
(* that was registered, whoever calls it and whenever.                     *)
THEOREM CtxReadAfterExecute == CtxSpec => []ReadAfterExecute
<1>1. CtxInv => ReadAfterExecute
  BY DEF CtxInv
<1> QED  BY <1>1, CtxInvariant, PTL

(* get_result never answers with another step's output. *)
LEMMA InvImpliesOwnOutput == CtxInv => ReadIsOwnOutput
<1> SUFFICES ASSUME CtxInv, NEW r \in Readers, IsSet(reader[r].got)
    PROVE  /\ reader[r].id \in DOMAIN steps
           /\ reader[r].got[1].value
                \in {Null, Error, Apply(steps[reader[r].id].kind,
                                        Inputs(ResolveAll(remap, steps[reader[r].id].deps)))}
  BY DEF ReadIsOwnOutput
<1> DEFINE id == reader[r].id
<1>1. IsSet(resultsCell) /\ id \in DOMAIN steps /\ reader[r].got = Some(outputs[Resolve(remap, id)])
  BY DEF CtxInv, Answered
<1>2. reader[r].got[1] = outputs[Resolve(remap, id)]
  BY <1>1 DEF Some
<1>3. Resolve(remap, id) \in DOMAIN outputs
  BY <1>1, InvImpliesComplete DEF CtxInv, CellsFilled, CompleteWhenDone
<1>4. outputs[Resolve(remap, id)].value
        \in {Null, Error, Apply(steps[id].kind, Inputs(ResolveAll(remap, steps[id].deps)))}
  BY <1>1, <1>3, InvImpliesConsistent DEF CtxInv, ResultsConsistent
<1> QED  BY <1>1, <1>2, <1>4

(* A call that races with the end of execute() comes back empty-handed or  *)
(* with the output that is right for its own step.                         *)
THEOREM CtxReadIsOwnOutput == CtxSpec => []ReadIsOwnOutput
  BY InvImpliesOwnOutput, CtxInvariant, PTL
=============================================================================
