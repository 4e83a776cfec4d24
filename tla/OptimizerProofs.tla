-------------------------- MODULE OptimizerProofs --------------------------
(***************************************************************************)
(* Proofs about the optimizer, for every bound on steps and dependencies   *)
(* and every set of kinds: OptInv is inductive, and the properties of      *)
(* Optimizer follow from it.                                               *)
(***************************************************************************)
EXTENDS Optimizer, FiniteSetTheorems, TLAPS

-----------------------------------------------------------------------------
(* Plan data *)

(* Put behaves like HashMap::insert. *)
LEMMA PutMap ==
    ASSUME NEW S, NEW T, NEW map, IsMap(map, S, T), NEW key \in S, NEW value \in T
    PROVE  /\ IsMap(Put(map, key, value), S, T)
           /\ DOMAIN Put(map, key, value) = DOMAIN map \cup {key}
           /\ Put(map, key, value)[key] = value
           /\ \A k \in DOMAIN map : k # key => Put(map, key, value)[k] = map[k]
  BY DEF Put, IsMap

(* Without behaves like HashMap::remove. *)
LEMMA WithoutMap ==
    ASSUME NEW S, NEW T, NEW map, IsMap(map, S, T), NEW keys
    PROVE  /\ IsMap(Without(map, keys), S, T)
           /\ DOMAIN Without(map, keys) = DOMAIN map \ keys
           /\ \A k \in DOMAIN map \ keys : Without(map, keys)[k] = map[k]
  BY DEF Without, IsMap

(* A set of step ids is finite and has at most MaxSteps members. *)
LEMMA StepSetSize ==
    ASSUME NEW S \in SUBSET StepIds
    PROVE  Cardinality(S) \in Nat /\ Cardinality(S) <= MaxSteps
<1>1. 1 \in Int /\ MaxSteps \in Int
  BY MaxStepsAssumption
<1>2. IsFiniteSet(StepIds) /\ Cardinality(StepIds) = MaxSteps
  BY <1>1, MaxStepsAssumption, FS_Interval DEF StepIds
<1>3. IsFiniteSet(S) /\ Cardinality(S) <= Cardinality(StepIds)
  BY <1>2, FS_Subset
<1> QED  BY <1>2, <1>3, FS_CardinalityType

(* Resolving a dependency list through a remap gives a dependency list of  *)
(* the same length.                                                        *)
LEMMA ResolveAllType ==
    ASSUME NEW map, IsMap(map, StepIds, StepIds), NEW deps \in DepLists
    PROVE  /\ ResolveAll(map, deps) \in DepLists
           /\ DOMAIN ResolveAll(map, deps) = DOMAIN deps
           /\ \A i \in DOMAIN deps : ResolveAll(map, deps)[i] = Resolve(map, deps[i])
<1>1. PICK n \in 0..MaxDeps : deps \in [1..n -> StepIds]
  BY DEF DepLists
<1>2. \A i \in 1..n : Resolve(map, deps[i]) \in StepIds
  BY <1>1 DEF Resolve, IsMap
<1>3. ResolveAll(map, deps) \in [1..n -> StepIds]
  BY <1>1, <1>2 DEF ResolveAll
<1> QED  BY <1>1, <1>3 DEF DepLists, ResolveAll

LEMMA FingerprintType ==
    ASSUME NEW map, IsMap(map, StepIds, StepIds), NEW step \in Step
    PROVE  Fingerprint(map, step) \in Fingerprints
  BY ResolveAllType DEF Fingerprint, Fingerprints, Step

(* A fingerprint does not change when a step that is not among the         *)
(* dependencies is remapped.                                               *)
LEMMA FingerprintStable ==
    ASSUME NEW map, NEW step, NEW key, NEW value, key \notin DepSet(step)
    PROVE  Fingerprint(Put(map, key, value), step) = Fingerprint(map, step)
<1>1. \A i \in DOMAIN step.deps :
          Resolve(Put(map, key, value), step.deps[i]) = Resolve(map, step.deps[i])
  BY DEF DepSet, Resolve, Put
<1>2. ResolveAll(Put(map, key, value), step.deps) = ResolveAll(map, step.deps)
  BY <1>1 DEF ResolveAll
<1> QED  BY <1>2 DEF Fingerprint

(* Positions in a topological order are numbers between 1 and MaxSteps. *)
LEMMA TopoOrderType ==
    ASSUME NEW nodes \in SUBSET StepIds, NEW edges, NEW order \in TopoOrders(nodes, edges)
    PROVE  /\ order \in [nodes -> StepIds]
           /\ \A s \in nodes : order[s] \in Nat /\ order[s] <= Cardinality(nodes)
           /\ \A a, b \in nodes : order[a] = order[b] => a = b
           /\ \A e \in edges : order[e[1]] < order[e[2]]
           /\ IsMap(order, StepIds, Nat)
  BY StepSetSize, MaxStepsAssumption DEF TopoOrders, StepIds, IsMap

(* The step a walk reaches next comes after all it has been through and    *)
(* before all that is left.                                                *)
LEMMA WalkStep ==
    ASSUME NEW nodes \in SUBSET StepIds, NEW edges, NEW order \in TopoOrders(nodes, edges),
           NEW through \in SUBSET nodes,
           \A s \in through, t \in nodes \ through : order[s] < order[t],
           NEW next \in nodes \ through, IsNext(next, nodes \ through, order)
    PROVE  \A s \in through \cup {next}, t \in nodes \ (through \cup {next}) : order[s] < order[t]
<1> TAKE s \in through \cup {next}, t \in nodes \ (through \cup {next})
<1>1. CASE s \in through
  BY <1>1
<1>2. CASE s = next
  <2>1. order[next] <= order[t] /\ order[next] # order[t]
    BY TopoOrderType DEF IsNext
  <2>2. order[next] \in Nat /\ order[t] \in Nat
    BY TopoOrderType
  <2> QED  BY <1>2, <2>1, <2>2
<1> QED  BY <1>1, <1>2

-----------------------------------------------------------------------------
(* The planner *)

(* The empty map is a map. *)
LEMMA EmptyMap ==
    ASSUME NEW S, NEW T
    PROVE  DOMAIN Empty = {} /\ IsMap(Empty, S, T)
  BY DEF Empty, IsMap

LEMMA InitInv == OptInit => OptInv
<1> SUFFICES ASSUME OptInit PROVE OptInv
  OBVIOUS
<1> USE DEF OptInit
<1>1. OptTypeOK
  BY EmptyMap DEF OptTypeOK, Phases, Errors
<1>2. NoPanic /\ NotYetMerged /\ NotYetHoisted
  BY EmptyMap DEF NoPanic, NotYetMerged, NotYetHoisted
<1>3. BuildValidated /\ DepsClosed /\ Walk /\ MergedIsCanonical /\ MergedIsEarlier /\ SeenIsTable
  BY DEF BuildValidated, DepsClosed, Walk, MergedIsCanonical, MergedIsEarlier, SeenIsTable, AfterDedup
<1>4. PlanReduced /\ NoDuplicateWork /\ ReducedAcyclic /\ HoistedClosed /\ OrderValid
  BY DEF PlanReduced, NoDuplicateWork, ReducedAcyclic, HoistedClosed, OrderValid, AfterDedup, Ordered
<1> QED  BY <1>1, <1>2, <1>3, <1>4 DEF OptInv

(* While steps are registered, only steps changes. *)
LEMMA RegisterInv ==
    ASSUME OptInv, NEW r \in Registrable, Register(r[1], r[2])
    PROVE  OptInv'
<1> USE DEF Register
<1>1. r[1] \in StepIds /\ r[2] \in Step
  BY RegistrableAssumption
<1>2. OptTypeOK'
  BY <1>1, PutMap DEF OptInv, OptTypeOK
<1>3. NoPanic' /\ NotYetMerged' /\ NotYetHoisted'
  BY DEF OptInv, NoPanic, NotYetMerged, NotYetHoisted
<1>4. /\ BuildValidated' /\ DepsClosed' /\ Walk' /\ MergedIsCanonical' /\ MergedIsEarlier'
      /\ SeenIsTable'
  BY DEF BuildValidated, DepsClosed, Walk, MergedIsCanonical, MergedIsEarlier, SeenIsTable, AfterDedup
<1>5. PlanReduced' /\ NoDuplicateWork' /\ ReducedAcyclic' /\ HoistedClosed' /\ OrderValid'
  BY DEF PlanReduced, NoDuplicateWork, ReducedAcyclic, HoistedClosed, OrderValid, AfterDedup, Ordered
<1> QED  BY <1>2, <1>3, <1>4, <1>5 DEF OptInv

(* build() establishes what the optimizer starts from. *)
LEMMA BuildInv ==
    ASSUME OptInv, Build
    PROVE  OptInv'
<1> USE DEF Build, Fail
<1>1. phase' \in {"built", "failed"} /\ phase = "planning"
  OBVIOUS
<1>2. OptTypeOK'
  <2>1. ASSUME NEW s \in DOMAIN steps PROVE steps[s] \in Step
    BY DEF OptInv, OptTypeOK, IsMap
  <2>2. phase' = "built" =>
            /\ \A s \in DOMAIN steps : DepSet(steps[s]) \subseteq DOMAIN steps
            /\ plan' = steps /\ graph' = Edges(steps)
    OBVIOUS
  <2>3. (\A s \in DOMAIN steps : DepSet(steps[s]) \subseteq DOMAIN steps)
            => Edges(steps) \subseteq StepIds \X StepIds
    BY DEF Edges, OptInv, OptTypeOK, IsMap
  <2>4. graph' \subseteq StepIds \X StepIds /\ IsMap(plan', StepIds, Step)
    BY <1>1, <2>2, <2>3 DEF OptInv, OptTypeOK
  <2>5. phase' \in Phases /\ error' \in Errors
    BY <1>1 DEF OptInv, OptTypeOK, Phases, Errors
  <2> QED  BY <2>4, <2>5 DEF OptInv, OptTypeOK
<1>3. NoPanic' /\ NotYetMerged' /\ NotYetHoisted'
  BY <1>1 DEF OptInv, NoPanic, NotYetMerged, NotYetHoisted
<1>4. BuildValidated' /\ DepsClosed'
  BY <1>1 DEF BuildValidated, DepsClosed, AfterDedup
<1>5. Walk' /\ MergedIsCanonical' /\ MergedIsEarlier' /\ SeenIsTable'
  BY <1>1 DEF Walk, MergedIsCanonical, MergedIsEarlier, SeenIsTable, AfterDedup
<1>6. PlanReduced' /\ NoDuplicateWork' /\ ReducedAcyclic' /\ HoistedClosed' /\ OrderValid'
  BY <1>1 DEF PlanReduced, NoDuplicateWork, ReducedAcyclic, HoistedClosed, OrderValid, AfterDedup, Ordered
<1> QED  BY <1>2, <1>3, <1>4, <1>5, <1>6 DEF OptInv

-----------------------------------------------------------------------------
(* The optimizer *)

(* The first sort meets the graph that build() validated. *)
LEMMA FirstSortInv ==
    ASSUME OptInv, TopologicalSort("built", "dedup")
    PROVE  OptInv'
<1> USE DEF TopologicalSort
<1>1. Acyclic(DOMAIN plan, graph) /\ phase = "built" /\ plan = steps
  BY DEF OptInv, BuildValidated
<1>2. phase' = "dedup" /\ done' = {} /\ pos' \in TopoOrders(DOMAIN plan, graph)
  BY <1>1
<1>3. IsMap(pos', StepIds, Nat)
  BY <1>2, TopoOrderType DEF OptInv, OptTypeOK, IsMap
<1>4. OptTypeOK'
  BY <1>2, <1>3 DEF OptInv, OptTypeOK, Phases
<1>5. NoPanic' /\ NotYetMerged' /\ NotYetHoisted' /\ BuildValidated' /\ DepsClosed'
  BY <1>1, <1>2 DEF OptInv, NoPanic, NotYetMerged, NotYetHoisted, BuildValidated, DepsClosed
<1>6. Walk' /\ MergedIsCanonical' /\ MergedIsEarlier' /\ SeenIsTable'
  BY <1>1, <1>2 DEF OptInv, NotYetMerged, Walk, MergedIsCanonical, MergedIsEarlier, SeenIsTable
<1>7. PlanReduced' /\ NoDuplicateWork' /\ ReducedAcyclic' /\ HoistedClosed' /\ OrderValid'
  BY <1>2 DEF PlanReduced, NoDuplicateWork, ReducedAcyclic, HoistedClosed, OrderValid, AfterDedup, Ordered
<1> QED  BY <1>4, <1>5, <1>6, <1>7 DEF OptInv

(* The loop meets a step's dependencies before the step: so neither it nor *)
(* any step met so far has it as a dependency.                             *)
LEMMA DedupDeps ==
    ASSUME OptInv, phase = "dedup", NEW s \in DOMAIN plan \ done,
           IsNext(s, DOMAIN plan \ done, pos), NEW t \in done \cup {s}
    PROVE  s \notin DepSet(steps[t])
<1> SUFFICES ASSUME s \in DepSet(steps[t]) PROVE FALSE
  OBVIOUS
<1> USE DEF OptInv
<1>1. t \in DOMAIN steps /\ plan = steps
  BY DEF Walk, BuildValidated
<1>2. <<s, t>> \in graph
  BY <1>1 DEF BuildValidated, Edges
<1>3. /\ pos \in TopoOrders(DOMAIN plan, graph)
      /\ DOMAIN plan \in SUBSET StepIds
  BY DEF Walk, OptTypeOK, IsMap
<1>4. pos[s] < pos[t] /\ pos[s] \in Nat /\ pos[t] \in Nat
  <2>1. /\ \A e \in graph : pos[e[1]] < pos[e[2]]
        /\ \A x \in DOMAIN plan : pos[x] \in Nat
    BY <1>3, TopoOrderType
  <2> QED  BY <1>1, <1>2, <2>1 DEF Walk
<1>5. t \in done => pos[t] < pos[s]
  BY DEF Walk
<1> QED  BY <1>4, <1>5

(* One iteration of the deduplication loop. *)
LEMMA DedupInv ==
    ASSUME OptInv, DedupStep
    PROVE  OptInv'
<1>1. PICK s \in DOMAIN plan \ done :
        /\ IsNext(s, DOMAIN plan \ done, pos)
        /\ \/ /\ Fingerprint(remap, plan[s]) \in DOMAIN seen
              /\ remap' = Put(remap, s, seen[Fingerprint(remap, plan[s])])
              /\ UNCHANGED seen
           \/ /\ Fingerprint(remap, plan[s]) \notin DOMAIN seen
              /\ seen' = Put(seen, Fingerprint(remap, plan[s]), s)
              /\ UNCHANGED remap
        /\ done' = done \cup {s}
  BY DEF DedupStep
<1>2. /\ phase = "dedup" /\ phase' = phase
      /\ UNCHANGED <<error, steps, plan, graph, pos, placed, rank>>
  BY DEF DedupStep
<1> DEFINE fp == Fingerprint(remap, plan[s])
<1> USE DEF OptInv
<1>3. plan = steps /\ s \in DOMAIN steps /\ s \in StepIds /\ steps[s] \in Step
  BY <1>2 DEF BuildValidated, OptTypeOK, IsMap
<1>4. fp \in Fingerprints
  BY <1>3, FingerprintType DEF OptTypeOK
<1>5. /\ done \subseteq DOMAIN steps
      /\ \A t \in done : pos[t] < pos[s]
      /\ \A r \in DOMAIN remap : r \in done /\ remap[r] \in done
      /\ s \notin DOMAIN remap
  BY <1>2, <1>3 DEF Walk, MergedIsEarlier
<1>6. \A t \in done \cup {s} : s \notin DepSet(steps[t])
  BY <1>1, <1>2, DedupDeps
<1>7. Walk'
  <2>1. /\ pos \in TopoOrders(DOMAIN plan, graph)
        /\ DOMAIN plan \in SUBSET StepIds
        /\ done \in SUBSET DOMAIN plan
        /\ \A x \in done, y \in DOMAIN plan \ done : pos[x] < pos[y]
    BY <1>2 DEF Walk, OptTypeOK, IsMap
  <2>2. \A x \in done \cup {s}, y \in DOMAIN plan \ (done \cup {s}) : pos[x] < pos[y]
    BY <1>1, <2>1, WalkStep
  <2> QED  BY <1>1, <1>2, <2>1, <2>2 DEF Walk
<1>8. NoPanic' /\ NotYetMerged' /\ NotYetHoisted' /\ BuildValidated' /\ DepsClosed'
  BY <1>2 DEF NoPanic, NotYetMerged, NotYetHoisted, BuildValidated, DepsClosed, AfterDedup
<1>9. PlanReduced' /\ NoDuplicateWork' /\ ReducedAcyclic' /\ HoistedClosed' /\ OrderValid'
  BY <1>2 DEF PlanReduced, NoDuplicateWork, ReducedAcyclic, HoistedClosed, OrderValid, AfterDedup, Ordered
<1>10. CASE fp \in DOMAIN seen
  <2> DEFINE c == seen[fp]
  <2>1. /\ c \in done \ DOMAIN remap /\ c # s
        /\ Fingerprint(remap, steps[c]) = fp
    BY <1>2, <1>5, <1>10 DEF SeenIsTable
  <2>2. remap' = Put(remap, s, c) /\ seen' = seen
    BY <1>1, <1>10
  <2>3. IsMap(remap, StepIds, StepIds) /\ c \in StepIds
    BY <2>1, <1>5 DEF OptTypeOK, IsMap
  <2>4. /\ IsMap(remap', StepIds, StepIds)
        /\ DOMAIN remap' = DOMAIN remap \cup {s}
        /\ remap'[s] = c
        /\ \A r \in DOMAIN remap : remap'[r] = remap[r]
    BY <2>2, <2>3, <1>3, <1>5 DEF Put, IsMap
  <2>5. OptTypeOK'
    BY <1>1, <1>2, <1>3, <2>2, <2>4 DEF OptTypeOK, IsMap
  <2>6. \A t \in done \cup {s} : Fingerprint(remap', steps[t]) = Fingerprint(remap, steps[t])
    BY <1>6, <2>2, FingerprintStable
  <2>7. MergedIsCanonical'
    <3>1. Fingerprint(remap', steps[s]) = Fingerprint(remap', steps[c])
      BY <2>1, <2>6, <1>3
    <3>2. \A r \in DOMAIN remap :
            /\ r \in DOMAIN steps
            /\ remap[r] \in DOMAIN steps \ DOMAIN remap'
            /\ Fingerprint(remap', steps[r]) = Fingerprint(remap', steps[remap[r]])
      BY <1>2, <1>5, <2>4, <2>6 DEF MergedIsCanonical
    <3>3. c \in DOMAIN steps \ DOMAIN remap'
      BY <2>1, <2>4, <1>5
    <3> QED  BY <1>2, <1>3, <2>4, <3>1, <3>2, <3>3 DEF MergedIsCanonical
  <2>8. MergedIsEarlier'
    BY <1>1, <1>2, <1>5, <2>1, <2>4 DEF MergedIsEarlier
  <2>9. SeenIsTable'
    <3>1. done' \ DOMAIN remap' = done \ DOMAIN remap
      BY <1>1, <1>5, <2>4
    <3> QED  BY <1>2, <2>2, <2>6, <3>1 DEF SeenIsTable
  <2> QED  BY <1>7, <1>8, <1>9, <2>5, <2>7, <2>8, <2>9
<1>11. CASE fp \notin DOMAIN seen
  <2>1. seen' = Put(seen, fp, s) /\ remap' = remap
    BY <1>1, <1>11
  <2>2. /\ IsMap(seen', Fingerprints, StepIds)
        /\ DOMAIN seen' = DOMAIN seen \cup {fp}
        /\ seen'[fp] = s
        /\ \A f \in DOMAIN seen : seen'[f] = seen[f]
    BY <1>3, <1>4, <1>11, <2>1 DEF OptTypeOK, Put, IsMap
  <2>3. OptTypeOK'
    BY <1>1, <1>2, <1>3, <2>1, <2>2 DEF OptTypeOK, IsMap
  <2>4. MergedIsCanonical' /\ MergedIsEarlier'
    BY <1>1, <1>2, <2>1 DEF MergedIsCanonical, MergedIsEarlier, AfterDedup
  <2>5. SeenIsTable'
    <3>1. done' \ DOMAIN remap' = (done \ DOMAIN remap) \cup {s}
      BY <1>1, <1>5, <2>1
    <3>2. \A t \in done' \ DOMAIN remap' :
            /\ Fingerprint(remap', steps[t]) \in DOMAIN seen'
            /\ seen'[Fingerprint(remap', steps[t])] = t
      BY <1>2, <1>3, <2>1, <2>2, <3>1 DEF SeenIsTable
    <3>3. \A f \in DOMAIN seen' :
            /\ seen'[f] \in done' \ DOMAIN remap'
            /\ Fingerprint(remap', steps[seen'[f]]) = f
      BY <1>2, <1>3, <2>1, <2>2, <3>1 DEF SeenIsTable
    <3> QED  BY <1>2, <3>2, <3>3 DEF SeenIsTable
  <2> QED  BY <1>7, <1>8, <1>9, <2>3, <2>4, <2>5
<1> QED  BY <1>10, <1>11

(* Removing the duplicates and redirecting the edges keeps every edge      *)
(* pointing forward in the first order, which therefore still witnesses    *)
(* that the graph has no cycle.                                            *)
LEMMA RemoveInv ==
    ASSUME OptInv, RemoveDuplicates
    PROVE  OptInv'
<1>1. /\ phase = "dedup" /\ phase' = "resort" /\ done = DOMAIN plan
      /\ plan' = Without(plan, DOMAIN remap)
      /\ UNCHANGED <<error, steps, pos, done, seen, remap, placed, rank>>
  BY DEF RemoveDuplicates
<1>2. graph' = IF DOMAIN remap = {} THEN graph
               ELSE {<<Resolve(remap, e[1]), e[2]>> : e \in
                        {f \in Edges(plan') : Resolve(remap, f[1]) \in DOMAIN plan'}}
  BY DEF RemoveDuplicates
<1> USE DEF OptInv
<1>3. /\ plan = steps /\ graph = Edges(steps)
      /\ IsMap(steps, StepIds, Step)
      /\ \A s \in DOMAIN steps : DepSet(steps[s]) \subseteq DOMAIN steps
  BY <1>1 DEF BuildValidated, DepsClosed, OptTypeOK
<1>4. /\ DOMAIN plan' = DOMAIN steps \ DOMAIN remap
      /\ \A s \in DOMAIN plan' : plan'[s] = steps[s]
      /\ IsMap(plan', StepIds, Step)
  BY <1>1, <1>3, WithoutMap
<1>5. /\ pos \in TopoOrders(DOMAIN steps, Edges(steps))
      /\ DOMAIN steps \in SUBSET StepIds
  BY <1>1, <1>3 DEF Walk, IsMap
<1>6. /\ pos \in [DOMAIN steps -> StepIds]
      /\ \A s \in DOMAIN steps : pos[s] \in Nat
      /\ \A e \in Edges(steps) : pos[e[1]] < pos[e[2]]
  BY <1>5, TopoOrderType
<1>7. \A x \in DOMAIN steps :
        /\ Resolve(remap, x) \in DOMAIN plan'
        /\ pos[Resolve(remap, x)] <= pos[x]
  <2> TAKE x \in DOMAIN steps
  <2>1. CASE x \in DOMAIN remap
    <3>1. remap[x] \in DOMAIN steps \ DOMAIN remap /\ pos[remap[x]] < pos[x]
      BY <1>1, <2>1 DEF MergedIsCanonical, MergedIsEarlier
    <3> QED  BY <1>4, <1>6, <2>1, <3>1 DEF Resolve
  <2>2. CASE x \notin DOMAIN remap
    BY <1>4, <1>6, <2>2 DEF Resolve
  <2> QED  BY <2>1, <2>2
<1>8. ASSUME NEW e \in graph'
      PROVE  \E s \in DOMAIN plan' : \E d \in DepSet(steps[s]) : e = <<Resolve(remap, d), s>>
  <2>1. CASE DOMAIN remap = {}
    <3>1. e \in Edges(steps)
      BY <1>2, <1>3, <2>1
    <3>2. PICK s \in DOMAIN steps : \E d \in DepSet(steps[s]) : e = <<d, s>>
      BY <3>1 DEF Edges
    <3>3. \A d : Resolve(remap, d) = d
      BY <2>1 DEF Resolve
    <3>4. s \in DOMAIN plan'
      BY <1>4, <2>1
    <3> QED  BY <3>2, <3>3, <3>4
  <2>2. CASE DOMAIN remap # {}
    <3>1. PICK f \in Edges(plan') : e = <<Resolve(remap, f[1]), f[2]>>
      BY <1>2, <2>2
    <3>2. PICK s \in DOMAIN plan' : \E d \in DepSet(plan'[s]) : f = <<d, s>>
      BY <3>1 DEF Edges
    <3>3. PICK d \in DepSet(plan'[s]) : f = <<d, s>>
      BY <3>2
    <3>4. e = <<Resolve(remap, d), s>> /\ d \in DepSet(steps[s])
      BY <1>4, <3>1, <3>3
    <3> QED  BY <3>4
  <2> QED  BY <2>1, <2>2
<1>9. \A s \in DOMAIN plan' : \A d \in DepSet(plan'[s]) : <<Resolve(remap, d), s>> \in graph'
  <2> TAKE s \in DOMAIN plan'
  <2> TAKE d \in DepSet(plan'[s])
  <2>1. s \in DOMAIN steps /\ d \in DepSet(steps[s]) /\ d \in DOMAIN steps
    BY <1>3, <1>4
  <2>2. CASE DOMAIN remap = {}
    <3>1. <<d, s>> \in graph
      BY <1>3, <2>1 DEF Edges
    <3> QED  BY <1>2, <2>2, <3>1 DEF Resolve
  <2>3. CASE DOMAIN remap # {}
    <3>1. <<d, s>> \in Edges(plan')
      BY DEF Edges
    <3>2. Resolve(remap, <<d, s>>[1]) \in DOMAIN plan'
      BY <1>7, <2>1
    <3>3. <<d, s>> \in {f \in Edges(plan') : Resolve(remap, f[1]) \in DOMAIN plan'}
      BY <3>1, <3>2
    <3>4. <<Resolve(remap, <<d, s>>[1]), <<d, s>>[2]>> \in graph'
      BY <1>2, <2>3, <3>3
    <3> QED  BY <3>4
  <2> QED  BY <2>2, <2>3
<1>10. \A e \in graph' : /\ e \in (DOMAIN plan') \X (DOMAIN plan')
                         /\ pos[e[1]] < pos[e[2]]
  <2> TAKE e \in graph'
  <2> PICK s \in DOMAIN plan' : \E d \in DepSet(steps[s]) : e = <<Resolve(remap, d), s>>
    BY <1>8
  <2>1. PICK d \in DepSet(steps[s]) : e = <<Resolve(remap, d), s>>
    OBVIOUS
  <2>2. s \in DOMAIN steps /\ d \in DOMAIN steps /\ <<d, s>> \in Edges(steps)
    BY <1>3, <1>4 DEF Edges
  <2>3. pos[d] < pos[s]
    BY <1>6, <2>2
  <2>4. /\ Resolve(remap, d) \in DOMAIN plan'
        /\ pos[Resolve(remap, d)] <= pos[d]
    BY <1>7, <2>2
  <2>5. pos[Resolve(remap, d)] \in Nat /\ pos[d] \in Nat /\ pos[s] \in Nat
    BY <1>4, <1>6, <2>2, <2>4
  <2>6. pos[Resolve(remap, d)] < pos[s]
    BY <2>3, <2>4, <2>5
  <2> QED  BY <2>1, <2>4, <2>6
<1>11. ReducedAcyclic'
  <2> DEFINE w == [s \in DOMAIN plan' |-> pos[s]]
  <2>1. w \in [DOMAIN plan' -> StepIds]
    BY <1>4, <1>6
  <2>2. \A e \in graph' : w[e[1]] < w[e[2]]
    BY <1>10
  <2>3. Acyclic(DOMAIN plan', graph')
    BY <2>1, <2>2 DEF Acyclic
  <2> QED  BY <2>3 DEF ReducedAcyclic
<1>12. PlanReduced'
  BY <1>1, <1>3, <1>9, <1>10 DEF PlanReduced
<1>13. NoDuplicateWork'
  <2>1. \A s \in DOMAIN plan' : seen[Fingerprint(remap, plan'[s])] = s
    BY <1>1, <1>3, <1>4 DEF SeenIsTable
  <2>2. \A s, t \in DOMAIN plan' :
          Fingerprint(remap, plan'[s]) = Fingerprint(remap, plan'[t]) => s = t
    BY <2>1
  <2> QED  BY <1>1, <2>2 DEF NoDuplicateWork
<1>14. OptTypeOK'
  <2>1. graph' \subseteq StepIds \X StepIds
    BY <1>4, <1>10 DEF IsMap
  <2> QED  BY <1>1, <1>4, <2>1 DEF OptTypeOK, Phases
<1>15. NoPanic' /\ NotYetMerged' /\ NotYetHoisted' /\ BuildValidated' /\ DepsClosed' /\ Walk'
  BY <1>1, <1>3 DEF NoPanic, NotYetMerged, NotYetHoisted, BuildValidated, DepsClosed, Walk, AfterDedup
<1>16. MergedIsCanonical' /\ MergedIsEarlier' /\ SeenIsTable'
  BY <1>1 DEF MergedIsCanonical, MergedIsEarlier, SeenIsTable, AfterDedup
<1>17. HoistedClosed' /\ OrderValid'
  BY <1>1 DEF HoistedClosed, OrderValid, Ordered
<1> QED  BY <1>11, <1>12, <1>13, <1>14, <1>15, <1>16, <1>17

(* The second sort therefore does not panic either. *)
LEMMA SecondSortInv ==
    ASSUME OptInv, TopologicalSort("resort", "hoist")
    PROVE  OptInv'
<1> USE DEF TopologicalSort
<1>1. Acyclic(DOMAIN plan, graph) /\ phase = "resort"
  BY DEF OptInv, ReducedAcyclic
<1>2. phase' = "hoist" /\ done' = {} /\ pos' \in TopoOrders(DOMAIN plan, graph)
  BY <1>1
<1>3. IsMap(pos', StepIds, Nat)
  BY <1>2, TopoOrderType DEF OptInv, OptTypeOK, IsMap
<1>4. OptTypeOK'
  BY <1>2, <1>3 DEF OptInv, OptTypeOK, Phases
<1>5. NoPanic' /\ NotYetMerged' /\ NotYetHoisted' /\ BuildValidated'
  BY <1>2 DEF NoPanic, NotYetMerged, NotYetHoisted, BuildValidated
<1>6. DepsClosed' /\ Walk' /\ MergedIsCanonical' /\ MergedIsEarlier' /\ SeenIsTable'
  BY <1>1, <1>2 DEF OptInv, DepsClosed, Walk, MergedIsCanonical, MergedIsEarlier, SeenIsTable, AfterDedup
<1>7. PlanReduced' /\ NoDuplicateWork' /\ ReducedAcyclic' /\ OrderValid'
  BY <1>1, <1>2 DEF OptInv, PlanReduced, NoDuplicateWork, ReducedAcyclic, OrderValid, AfterDedup, Ordered
<1>8. HoistedClosed'
  BY <1>1 DEF OptInv, NotYetHoisted, HoistedClosed
<1> QED  BY <1>4, <1>5, <1>6, <1>7, <1>8 DEF OptInv

(* One iteration of the hoisting loop. *)
LEMMA HoistInv ==
    ASSUME OptInv, HoistStep
    PROVE  OptInv'
<1>1. PICK s \in DOMAIN plan \ done :
        /\ IsNext(s, DOMAIN plan \ done, pos)
        /\ placed' = IF IsUnary(plan[s]) /\ Predecessors(graph, s) \subseteq placed
                     THEN placed \cup {s} ELSE placed
        /\ done' = done \cup {s}
  BY DEF HoistStep
<1>2. /\ phase = "hoist" /\ phase' = phase
      /\ UNCHANGED <<error, steps, plan, graph, pos, seen, remap, rank>>
  BY DEF HoistStep
<1> USE DEF OptInv
<1>3. OptTypeOK'
  BY <1>1, <1>2 DEF OptTypeOK, IsMap
<1>4. Walk'
  <2>1. /\ pos \in TopoOrders(DOMAIN plan, graph)
        /\ DOMAIN plan \in SUBSET StepIds
        /\ done \in SUBSET DOMAIN plan
        /\ \A x \in done, y \in DOMAIN plan \ done : pos[x] < pos[y]
    BY <1>2 DEF Walk, OptTypeOK, IsMap
  <2>2. \A x \in done \cup {s}, y \in DOMAIN plan \ (done \cup {s}) : pos[x] < pos[y]
    BY <1>1, <2>1, WalkStep
  <2> QED  BY <1>1, <1>2, <2>1, <2>2 DEF Walk
<1>5. HoistedClosed'
  <2>1. \A e \in graph : e[2] = s => e[1] \in Predecessors(graph, s)
    BY DEF Predecessors
  <2>2. \A e \in graph : e[2] \in placed => e[1] \in placed
    BY <1>2 DEF HoistedClosed
  <2> QED  BY <1>1, <1>2, <2>1, <2>2 DEF HoistedClosed
<1>6. NoPanic' /\ NotYetMerged' /\ NotYetHoisted' /\ BuildValidated' /\ DepsClosed'
  BY <1>2 DEF NoPanic, NotYetMerged, NotYetHoisted, BuildValidated, DepsClosed, AfterDedup
<1>7. MergedIsCanonical' /\ MergedIsEarlier' /\ SeenIsTable'
  BY <1>2 DEF MergedIsCanonical, MergedIsEarlier, SeenIsTable, AfterDedup
<1>8. PlanReduced' /\ NoDuplicateWork' /\ ReducedAcyclic' /\ OrderValid'
  BY <1>2 DEF PlanReduced, NoDuplicateWork, ReducedAcyclic, OrderValid, AfterDedup, Ordered
<1> QED  BY <1>3, <1>4, <1>5, <1>6, <1>7, <1>8

(* The hoisted steps followed by the others are a topological order: the   *)
(* hoisted ones are closed under dependencies, and both parts keep pos.    *)
LEMMA ConcatenateInv ==
    ASSUME OptInv, Concatenate
    PROVE  OptInv'
<1> DEFINE n == Cardinality(DOMAIN plan)
<1>1. /\ phase = "hoist" /\ phase' = "optimized" /\ done' = {}
      /\ UNCHANGED <<error, steps, plan, graph, pos, seen, remap, placed>>
      /\ rank' = [s \in DOMAIN plan |-> IF s \in placed THEN pos[s] ELSE n + pos[s]]
  BY DEF Concatenate
<1> USE DEF OptInv
<1>2. /\ pos \in TopoOrders(DOMAIN plan, graph)
      /\ DOMAIN plan \in SUBSET StepIds
  BY <1>1 DEF Walk, OptTypeOK, IsMap
<1>3. /\ n \in Nat
      /\ \A s \in DOMAIN plan : pos[s] \in Nat /\ pos[s] >= 1 /\ pos[s] <= n
      /\ \A e \in graph : pos[e[1]] < pos[e[2]]
  BY <1>2, StepSetSize, TopoOrderType DEF TopoOrders
<1>4. IsMap(rank', StepIds, Nat) /\ DOMAIN rank' = DOMAIN plan
  BY <1>1, <1>2, <1>3 DEF IsMap
<1>5. OptTypeOK'
  BY <1>1, <1>4 DEF OptTypeOK, Phases
<1>6. OrderValid'
  <2>1. \A e \in graph : rank'[e[1]] < rank'[e[2]]
    <3> TAKE e \in graph
    <3>1. e[1] \in DOMAIN plan /\ e[2] \in DOMAIN plan
      BY <1>1 DEF PlanReduced, AfterDedup
    <3>2. e[2] \in placed => e[1] \in placed
      BY <1>1 DEF HoistedClosed
    <3> HIDE DEF n
    <3> QED  BY <1>1, <1>3, <3>1, <3>2
  <2> QED  BY <1>1, <1>4, <2>1 DEF OrderValid
<1>7. NoPanic' /\ NotYetMerged' /\ NotYetHoisted' /\ BuildValidated' /\ DepsClosed' /\ Walk'
  BY <1>1 DEF NoPanic, NotYetMerged, NotYetHoisted, BuildValidated, DepsClosed, Walk, AfterDedup
<1>8. MergedIsCanonical' /\ MergedIsEarlier' /\ SeenIsTable'
  BY <1>1 DEF MergedIsCanonical, MergedIsEarlier, SeenIsTable, AfterDedup
<1>9. PlanReduced' /\ NoDuplicateWork' /\ ReducedAcyclic' /\ HoistedClosed'
  BY <1>1 DEF PlanReduced, NoDuplicateWork, ReducedAcyclic, HoistedClosed, AfterDedup
<1> QED  BY <1>5, <1>6, <1>7, <1>8, <1>9

(* A step that leaves the optimizer's variables alone. *)
LEMMA StutterInv ==
    ASSUME OptInv, UNCHANGED optVars
    PROVE  OptInv'
<1> USE DEF optVars, OptInv
<1>1. OptTypeOK' /\ NoPanic' /\ NotYetMerged' /\ NotYetHoisted' /\ BuildValidated' /\ DepsClosed'
  BY DEF OptTypeOK, NoPanic, NotYetMerged, NotYetHoisted, BuildValidated, DepsClosed, AfterDedup
<1>2. Walk' /\ MergedIsCanonical' /\ MergedIsEarlier' /\ SeenIsTable'
  BY DEF Walk, MergedIsCanonical, MergedIsEarlier, SeenIsTable, AfterDedup
<1>3. PlanReduced' /\ NoDuplicateWork' /\ ReducedAcyclic' /\ HoistedClosed' /\ OrderValid'
  BY DEF PlanReduced, NoDuplicateWork, ReducedAcyclic, HoistedClosed, OrderValid, AfterDedup, Ordered
<1> QED  BY <1>1, <1>2, <1>3

LEMMA OptNextInv ==
    ASSUME OptInv, [OptNext]_optVars
    PROVE  OptInv'
<1>1. CASE \E r \in Registrable : Register(r[1], r[2])
  BY <1>1, RegisterInv
<1>2. CASE Build
  BY <1>2, BuildInv
<1>3. CASE TopologicalSort("built", "dedup")
  BY <1>3, FirstSortInv
<1>4. CASE DedupStep
  BY <1>4, DedupInv
<1>5. CASE RemoveDuplicates
  BY <1>5, RemoveInv
<1>6. CASE TopologicalSort("resort", "hoist")
  BY <1>6, SecondSortInv
<1>7. CASE HoistStep
  BY <1>7, HoistInv
<1>8. CASE Concatenate
  BY <1>8, ConcatenateInv
<1>9. CASE UNCHANGED optVars
  BY <1>9, StutterInv
<1> QED
  BY <1>1, <1>2, <1>3, <1>4, <1>5, <1>6, <1>7, <1>8, <1>9 DEF OptNext, Optimize

-----------------------------------------------------------------------------
(* The properties *)

LEMMA InvImpliesRemapCanonical == OptInv => RemapCanonical
<1> SUFFICES ASSUME OptInv, AfterDedup PROVE /\ DOMAIN plan = DOMAIN steps \ DOMAIN remap
        /\ \A s \in DOMAIN remap :
              /\ remap[s] \in DOMAIN plan
              /\ Fingerprint(remap, steps[s]) = Fingerprint(remap, steps[remap[s]])
  BY DEF RemapCanonical
<1>1. DOMAIN plan = DOMAIN steps \ DOMAIN remap
  BY DEF OptInv, PlanReduced, Without
<1>2. \A s \in DOMAIN remap :
        /\ remap[s] \in DOMAIN steps \ DOMAIN remap
        /\ Fingerprint(remap, steps[s]) = Fingerprint(remap, steps[remap[s]])
  BY DEF OptInv, MergedIsCanonical
<1> QED  BY <1>1, <1>2

LEMMA InvImpliesDepsBefore == OptInv => DepsBefore
<1> SUFFICES ASSUME OptInv, Ordered,
                    NEW s \in DOMAIN plan, NEW d \in DepSet(plan[s])
             PROVE  Resolve(remap, d) \in DOMAIN plan /\ rank[Resolve(remap, d)] < rank[s]
  BY DEF DepsBefore
<1>1. AfterDedup
  BY DEF Ordered, AfterDedup
<1>2. <<Resolve(remap, d), s>> \in graph /\ graph \subseteq (DOMAIN plan) \X (DOMAIN plan)
  BY <1>1 DEF OptInv, PlanReduced
<1>3. \A e \in graph : rank[e[1]] < rank[e[2]]
  BY DEF OptInv, OrderValid
<1> QED  BY <1>2, <1>3

(* OptInv is an invariant of the planner and the optimizer. *)
THEOREM OptInvariant == OptSpec => []OptInv
<1>1. OptInit => OptInv
  BY InitInv
<1>2. OptInv /\ [OptNext]_optVars => OptInv'
  BY OptNextInv
<1> QED  BY <1>1, <1>2, PTL DEF OptSpec

(* Type correctness of the planner and the optimizer. *)
THEOREM OptTypeCorrect == OptSpec => []OptTypeOK
<1>1. OptInv => OptTypeOK
  BY DEF OptInv
<1> QED  BY <1>1, OptInvariant, PTL

(* The expect() in topological_sort never fires: whatever is registered,   *)
(* merging duplicates never closes a cycle.                                *)
THEOREM OptNeverPanics == OptSpec => []NoPanic
<1>1. OptInv => NoPanic
  BY DEF OptInv
<1> QED  BY <1>1, OptInvariant, PTL

(* The remap leads from every removed step to a surviving step that does   *)
(* the same work on the same inputs, in one hop.                           *)
THEOREM OptRemapCanonical == OptSpec => []RemapCanonical
  BY InvImpliesRemapCanonical, OptInvariant, PTL

(* No two surviving steps do the same work on the same inputs. *)
THEOREM OptNoDuplicateWork == OptSpec => []NoDuplicateWork
<1>1. OptInv => NoDuplicateWork
  BY DEF OptInv
<1> QED  BY <1>1, OptInvariant, PTL

(* Every step comes after its dependencies in execution_order. *)
THEOREM OptDepsBefore == OptSpec => []DepsBefore
  BY InvImpliesDepsBefore, OptInvariant, PTL

=============================================================================
