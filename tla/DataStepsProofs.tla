--------------------------- MODULE DataStepsProofs ---------------------------
(***************************************************************************)
(* Proofs about DataSteps: for all plans, tables, batches and orders of    *)
(* optimizing and executing them, a select step that was merged away would *)
(* have returned what the step that stands for it returned, provided that  *)
(* callers keep the contract of apply_keyed.                               *)
(*                                                                         *)
(* The argument has three layers.  The fingerprint: two select steps with  *)
(* equal fingerprints run the same query.  The optimizer: the remap leads  *)
(* to a step of the same fingerprint and back in the topological order.    *)
(* The executor: so tiers increase along dependencies, the inputs of a     *)
(* step have their outputs before it runs, and an output never changes.    *)
(***************************************************************************)
EXTENDS DataSteps, TLAPS, WellFoundedInduction, FiniteSetTheorems

-----------------------------------------------------------------------------
(* Numbers.                                                                *)

\* Among naturals there is a least one.
LEMMA Least ==
  ASSUME NEW T, T \subseteq Nat, T # {}
  PROVE  \E x \in T : \A y \in T : x =< y
<1> DEFINE R == OpToRel(<, Nat)
<1>1. IsWellFoundedOn(R, Nat)
  BY NatLessThanWellFounded
<1>2. \A x, y \in Nat : y < x => <<y, x>> \in R
  BY DEF OpToRel
<1> HIDE DEF R
<1>3. PICK x \in T : \A y \in T : ~(<<y, x>> \in R)
  BY <1>1, WFMin
<1>4. \A y \in T : ~(y < x)
  BY <1>2, <1>3
<1> QED BY <1>4

\* What holds of 0 and is handed on from a number to the next holds up to n.
LEMMA Onward ==
  ASSUME NEW n \in Nat, NEW G, 0 \in G, \A k \in 1..n : k - 1 \in G => k \in G
  PROVE  \A k \in 0..n : k \in G
<1> DEFINE T == {k \in 0..n : k \notin G}
<1> SUFFICES ASSUME T # {} PROVE FALSE
  OBVIOUS
<1> HIDE DEF T
<1>1. T \subseteq Nat
  BY DEF T
<1>2. PICK x \in T : \A y \in T : x =< y
  BY <1>1, Least
<1>3. x \in 1..n /\ x - 1 \in 0..n
  BY <1>2 DEF T
<1>4. x - 1 \in G
  BY <1>2, <1>3 DEF T
<1> QED BY <1>2, <1>3, <1>4 DEF T

\* Finitely many naturals are bounded.
LEMMA Bounded ==
  ASSUME NEW n \in Nat, NEW v, \A i \in 1..n : v[i] \in Nat
  PROVE  \E b \in Nat : \A i \in 1..n : v[i] =< b
<1> DEFINE G == {k \in 0..n : \E b \in Nat : \A i \in 1..k : v[i] =< b}
<1>1. 0 \in G
  OBVIOUS
<1>2. ASSUME NEW k \in 1..n, k - 1 \in G PROVE k \in G
  <2>1. PICK b \in Nat : \A i \in 1..(k - 1) : v[i] =< b
    BY <1>2
  <2>2. v[k] \in Nat
    OBVIOUS
  <2>3. PICK c \in Nat : b =< c /\ v[k] =< c
    <3>1. CASE b =< v[k]
      BY <2>2, <3>1
    <3>2. CASE v[k] =< b
      BY <2>2, <3>2
    <3> QED BY <2>2, <3>1, <3>2
  <2>4. ASSUME NEW i \in 1..k PROVE v[i] =< c
    <3>1. CASE i = k
      BY <2>3, <3>1
    <3>2. CASE i # k
      <4>1. i \in 1..(k - 1) /\ v[i] \in Nat
        BY <3>2
      <4>2. v[i] =< b
        BY <2>1, <4>1
      <4> QED BY <2>3, <4>1, <4>2
    <3> QED BY <3>1, <3>2
  <2> QED BY <2>4
<1>3. \A k \in 1..n : k - 1 \in G => k \in G
  BY <1>2
<1> HIDE DEF G
<1>4. \A k \in 0..n : k \in G
  BY <1>1, <1>3, Onward
<1>5. n \in G
  BY <1>4
<1> QED BY <1>5 DEF G

\* Max of bounded naturals is at least each of them.
LEMMA Largest ==
  ASSUME NEW b \in Nat, NEW T, T \subseteq 0..b, T # {}
  PROVE  Max(T) \in T /\ \A y \in T : y =< Max(T)
<1> DEFINE U == {b - x : x \in T}
<1>1. \A x \in T : b - x \in Nat
  OBVIOUS
<1>2. U \subseteq Nat /\ U # {}
  BY <1>1
<1> HIDE DEF U
<1>3. PICK u \in U : \A y \in U : u =< y
  BY <1>2, Least
<1>4. PICK x \in T : u = b - x
  BY DEF U
<1>5. ASSUME NEW y \in T PROVE x >= y
  <2>1. b - x =< b - y
    BY <1>3, <1>4 DEF U
  <2> QED BY <2>1, x \in 0..b, y \in 0..b
<1>6. \E z \in T : \A y \in T : z >= y
  BY <1>5
<1>7. Max(T) \in T /\ \A y \in T : Max(T) >= y
  BY <1>6 DEF Max
<1>8. \A y \in T : y \in Int
  OBVIOUS
<1> QED BY <1>7, <1>8

-----------------------------------------------------------------------------
(* Fingerprints of select steps.                                           *)

\* One more element after the first ones.
LEMMA Appended ==
  ASSUME NEW k \in Nat \ {0}, NEW v
  PROVE  Append([j \in 1..(k - 1) |-> v[j]], v[k]) = [j \in 1..k |-> v[j]]
<1> DEFINE S == {v[j] : j \in 1..k}
           s == [j \in 1..(k - 1) |-> v[j]]
<1>1. s \in Seq(S) /\ Len(s) = k - 1
  OBVIOUS
<1>2. \A j \in 1..(k - 1) : s[j] = v[j]
  OBVIOUS
<1> HIDE DEF s
<1>3. Append(s, v[k]) = [j \in 1..(Len(s) + 1) |-> IF j =< Len(s) THEN s[j] ELSE v[k]]
  BY <1>1
<1>4. \A j \in 1..k : (IF j =< k - 1 THEN s[j] ELSE v[k]) = v[j]
  BY <1>2
<1>5. Append(s, v[k]) = [j \in 1..k |-> IF j =< k - 1 THEN s[j] ELSE v[k]]
  BY <1>1, <1>3
<1>6. Append(s, v[k]) = [j \in 1..k |-> v[j]]
  BY <1>4, <1>5
<1> QED BY <1>6 DEF s

\* Of tweaks that all have a key, all keys are hashed.
LEMMA AllKeys ==
  ASSUME NEW tweaks, NEW n \in Nat, n = Len(tweaks), \A k \in 1..n : tweaks[k].key # <<>>
  PROVE  tweak_keys(tweaks) = [k \in 1..n |-> tweaks[k].key]
<1> DEFINE v == [k \in 1..n |-> tweaks[k].key]
           Step(g, k) == IF k = 0 THEN <<>> ELSE IF tweaks[k].key = <<>> THEN g[k - 1] ELSE Append(g[k - 1], tweaks[k].key)
           Sol(g) == g = [k \in 0..n |-> Step(g, k)]
           first == [k \in 0..n |-> [j \in 1..k |-> v[j]]]
           keys == CHOOSE g : Sol(g)
<1>1. \A k \in 1..n : v[k] = tweaks[k].key /\ v[k] # <<>>
  OBVIOUS
<1> HIDE DEF v
<1>2. ASSUME NEW k \in 0..n PROVE first[k] = Step(first, k)
  <2>1. CASE k = 0
    BY <2>1
  <2>2. CASE k # 0
    <3>1. k \in 1..n /\ k \in Nat \ {0} /\ k - 1 \in 0..n
      BY <2>2
    <3>2. Append(first[k - 1], v[k]) = first[k]
      BY <3>1, Appended
    <3> QED BY <1>1, <2>2, <3>1, <3>2
  <2> QED BY <2>1, <2>2
<1>3. \E g : Sol(g)
  <2> HIDE DEF Step
  <2>1. first = [k \in 0..n |-> Step(first, k)]
    <3>1. first = [k \in 0..n |-> first[k]]
      OBVIOUS
    <3> HIDE DEF first
    <3> QED BY <1>2, <3>1
  <2> HIDE DEF first
  <2> QED BY <2>1
<1>4. Sol(keys)
  BY <1>3
<1>5. tweak_keys(tweaks) = keys[n]
  BY DEF tweak_keys
<1> HIDE DEF keys
<1>6. \A k \in 0..n : keys[k] = Step(keys, k)
  <2> HIDE DEF Step
  <2> QED BY <1>4
<1> DEFINE G == {k \in 0..n : keys[k] = [j \in 1..k |-> v[j]]}
<1>7. 0 \in G
  <2>1. keys[0] = <<>>
    BY <1>6
  <2> QED BY <2>1
<1>8. ASSUME NEW k \in 1..n, k - 1 \in G PROVE k \in G
  <2>1. k \in 0..n /\ k - 1 \in 0..n /\ k \in Nat \ {0} /\ k # 0
    OBVIOUS
  <2>2. keys[k] = Append(keys[k - 1], v[k])
    BY <1>1, <1>6, <2>1
  <2>3. keys[k - 1] = [j \in 1..(k - 1) |-> v[j]]
    BY <1>8
  <2>4. keys[k] = [j \in 1..k |-> v[j]]
    BY <2>1, <2>2, <2>3, Appended
  <2> QED BY <2>1, <2>4
<1>9. \A k \in 1..n : k - 1 \in G => k \in G
  BY <1>8
<1> HIDE DEF G
<1>10. \A k \in 0..n : k \in G
  BY <1>7, <1>9, Onward
<1>11. keys[n] = [j \in 1..n |-> v[j]]
  BY <1>10 DEF G
<1>12. [j \in 1..n |-> v[j]] = [k \in 1..n |-> tweaks[k].key]
  BY <1>1
<1> QED BY <1>5, <1>11, <1>12

\* A registered step is a candidate with dependencies of its own.
LEMMA Registered ==
  ASSUME PlanKnown, NEW id \in Ids
  PROVE  \E s \in Candidates :
           /\ plan[id].kind = s.kind
           /\ \E n \in Nat : DOMAIN plan[id].deps \subseteq 1..n
           /\ RangeOf(plan[id].deps) \subseteq Ids
           /\ plan[id].kind = "select" => Query(plan[id]) = Query(s) /\ IsSequence(s.tweaks)
<1>0. PICK s \in Candidates : \E parents \in [1..s.deps -> Ids] : plan[id] = [s EXCEPT !.deps = parents]
  BY DEF PlanKnown
<1>1. PICK parents \in [1..s.deps -> Ids] : plan[id] = [s EXCEPT !.deps = parents]
  BY <1>0
<1>2. {"kind", "deps"} \subseteq DOMAIN s /\ s.deps \in Nat
  BY CandidatesAssumption
<1>3. plan[id].kind = s.kind /\ plan[id].deps = parents
  BY <1>1, <1>2
<1>4. DOMAIN parents = 1..s.deps /\ RangeOf(parents) \subseteq Ids
  BY DEF RangeOf
<1>5. plan[id].kind = "select" => Query(plan[id]) = Query(s) /\ IsSequence(s.tweaks)
  <2> SUFFICES ASSUME plan[id].kind = "select"
               PROVE  Query(plan[id]) = Query(s) /\ IsSequence(s.tweaks)
    OBVIOUS
  <2>1. SelectFields \subseteq DOMAIN s /\ IsSequence(s.tweaks)
    BY <1>3, CandidatesAssumption
  <2>2. \A f \in SelectFields : plan[id][f] = s[f]
    BY <1>1, <2>1 DEF SelectFields
  <2>3. /\ plan[id].table = s.table /\ plan[id].cols = s.cols /\ plan[id].fk = s.fk
        /\ plan[id].parent_pk = s.parent_pk /\ plan[id].tweaks = s.tweaks
    BY <2>2 DEF SelectFields
  <2> QED BY <2>1, <2>3 DEF Query
<1> QED BY <1>2, <1>3, <1>4, <1>5

\* Equal lists of five have equal elements.
LEMMA FiveEqual ==
  ASSUME NEW a, NEW b, NEW c, NEW d, NEW e, NEW v, NEW w, NEW x, NEW y, NEW z,
         <<a, b, c, d, e>> = <<v, w, x, y, z>>
  PROVE  a = v /\ b = w /\ c = x /\ d = y /\ e = z
OBVIOUS

\* Two select steps with equal fingerprints run the same query, provided they
\* read the same column of their parents.
LEMMA SameQuery ==
  ASSUME PlanKnown, NEW i \in Ids, NEW j \in Ids, NEW remap, i # j,
         fingerprint(i, remap) = fingerprint(j, remap),
         plan[i].kind = "select", plan[i].parent_pk = plan[j].parent_pk
  PROVE  plan[j].kind = "select" /\ Query(plan[i]) = Query(plan[j])
<1>1. plan[i].kind = plan[j].kind /\ config(plan[i], i) = config(plan[j], j)
  BY DEF fingerprint
<1>2. PICK s \in Candidates : plan[i].kind = s.kind /\ Query(plan[i]) = Query(s) /\ IsSequence(s.tweaks)
  BY Registered
<1>3. PICK t \in Candidates : plan[j].kind = t.kind /\ Query(plan[j]) = Query(t) /\ IsSequence(t.tweaks)
  BY <1>1, Registered
<1>4. plan[i].tweaks = s.tweaks /\ plan[j].tweaks = t.tweaks
  BY <1>2, <1>3 DEF Query
<1> DEFINE free(u) == \E k \in DOMAIN u.tweaks : u.tweaks[k].key = <<>>
           mark(u, id) == IF free(u) THEN <<id>> ELSE <<>>
           si == plan[i]
           sj == plan[j]
<1>5. /\ config(si, i) = <<si.table, si.cols, si.fk, tweak_keys(si.tweaks), mark(si, i)>>
      /\ config(sj, j) = <<sj.table, sj.cols, sj.fk, tweak_keys(sj.tweaks), mark(sj, j)>>
  BY <1>1 DEF config
<1> HIDE DEF mark
<1>6. /\ si.table = sj.table /\ si.cols = sj.cols /\ si.fk = sj.fk
      /\ tweak_keys(si.tweaks) = tweak_keys(sj.tweaks) /\ mark(si, i) = mark(sj, j)
  <2>1. <<si.table, si.cols, si.fk, tweak_keys(si.tweaks), mark(si, i)>>
          = <<sj.table, sj.cols, sj.fk, tweak_keys(sj.tweaks), mark(sj, j)>>
    BY <1>1, <1>5
  <2> HIDE DEF si, sj
  <2> QED BY <2>1, FiveEqual
<1> HIDE DEF free
<1>7. ~free(si) /\ ~free(sj)
  <2>1. <<i>> # <<>> /\ <<j>> # <<>> /\ <<i>> # <<j>>
    OBVIOUS
  <2> QED BY <1>6, <2>1 DEF mark
<1> DEFINE n == Len(s.tweaks)
           m == Len(t.tweaks)
<1>8. n \in Nat /\ m \in Nat /\ DOMAIN s.tweaks = 1..n /\ DOMAIN t.tweaks = 1..m
  BY <1>2, <1>3 DEF IsSequence
<1>9. (\A k \in 1..n : s.tweaks[k].key # <<>>) /\ (\A k \in 1..m : t.tweaks[k].key # <<>>)
  BY <1>4, <1>7, <1>8 DEF free
<1> HIDE DEF n, m
<1>10. tweak_keys(s.tweaks) = [k \in 1..n |-> s.tweaks[k].key] /\ tweak_keys(t.tweaks) = [k \in 1..m |-> t.tweaks[k].key]
  BY <1>8, <1>9, AllKeys DEF n, m
<1>11. [k \in 1..n |-> s.tweaks[k].key] = [k \in 1..m |-> t.tweaks[k].key]
  BY <1>4, <1>6, <1>10
<1>12. 1..n = 1..m /\ \A k \in 1..n : s.tweaks[k].key = t.tweaks[k].key
  BY <1>11
<1>13. n = m
  BY <1>8, <1>12
<1>14. ASSUME NEW k \in 1..n PROVE s.tweaks[k] = t.tweaks[k]
  <2>1. s.tweaks[k] \in RangeOf(s.tweaks) /\ t.tweaks[k] \in RangeOf(t.tweaks)
    BY <1>8, <1>13 DEF RangeOf
  <2>2. s.kind = "select" /\ t.kind = "select"
    BY <1>1, <1>2, <1>3
  <2> QED BY <1>9, <1>12, <2>1, <2>2, KeysAssumption
<1>15. s.tweaks = t.tweaks
  <2>1. s.tweaks = [k \in 1..n |-> s.tweaks[k]] /\ t.tweaks = [k \in 1..n |-> t.tweaks[k]]
    BY <1>2, <1>3, <1>8, <1>13 DEF IsSequence
  <2> QED BY <1>14, <2>1
<1> QED BY <1>1, <1>4, <1>6, <1>15 DEF Query

-----------------------------------------------------------------------------
(* The optimizer.                                                          *)

\* Where the steps are in an order: each at one place, after its dependencies.
Places(order, pos) ==
  /\ pos \in [Ids -> Ids]
  /\ \A k \in Ids : order[k] \in Ids /\ pos[order[k]] = k
  /\ \A id \in Ids : order[pos[id]] = id
  /\ \A id \in Ids : \A d \in RangeOf(plan[id].deps) : pos[d] < pos[id]

\* A topological order gives every step a place.
LEMMA OrderPlaces ==
  ASSUME PlanKnown, NEW order \in TopologicalOrders
  PROVE  /\ Len(plan) \in Nat /\ Ids = 1..Len(plan) /\ Len(order) = Len(plan)
         /\ \E pos : Places(order, pos)
<1> DEFINE n == Len(plan)
<1>1. n \in Nat /\ Ids = 1..n
  BY DEF PlanKnown, Ids, IsSequence
<1> HIDE DEF n
<1>2. IsFiniteSet(Ids) /\ Cardinality(Ids) = n
  <2>1. IsFiniteSet(1..n) /\ Cardinality(1..n) = n
    BY <1>1, FS_Interval
  <2> QED BY <1>1, <2>1
<1>3. /\ order \in [1..n -> Ids] /\ \A i, j \in 1..n : i # j => order[i] # order[j]
      /\ \A i, j \in DOMAIN order : order[j] \in RangeOf(plan[order[i]].deps) => j < i
  BY <1>2 DEF TopologicalOrders, SetToSeqs
<1>4. order \in Injection(Ids, Ids)
  BY <1>1, <1>3 DEF Injection, IsInjective
<1>5. order \in Surjection(Ids, Ids)
  BY <1>2, <1>4, FS_Injection
<1>6. \A id \in Ids : \E k \in Ids : order[k] = id
  BY <1>5 DEF Surjection
<1> DEFINE pos == [id \in Ids |-> CHOOSE k \in Ids : order[k] = id]
<1>7. \A id \in Ids : pos[id] \in Ids /\ order[pos[id]] = id
  BY <1>6
<1>8. pos \in [Ids -> Ids]
  BY <1>7
<1> HIDE DEF pos
<1>9. \A k \in Ids : order[k] \in Ids /\ pos[order[k]] = k
  BY <1>1, <1>3, <1>7
<1>10. ASSUME NEW id \in Ids, NEW d \in RangeOf(plan[id].deps) PROVE pos[d] < pos[id]
  <2>1. d \in Ids
    BY Registered
  <2>2. pos[id] \in DOMAIN order /\ pos[d] \in DOMAIN order
    BY <1>1, <1>3, <1>7, <2>1
  <2>3. order[pos[id]] = id /\ order[pos[d]] = d
    BY <1>7, <2>1
  <2> QED BY <1>3, <2>2, <2>3
<1>11. Places(order, pos)
  BY <1>7, <1>8, <1>9, <1>10 DEF Places
<1>12. Len(order) = n
  BY <1>1, <1>3
<1> QED BY <1>1, <1>11, <1>12 DEF n

\* A fingerprint depends on the remap of the dependencies only.
LEMMA FingerprintOf ==
  ASSUME NEW id \in Ids, NEW f, NEW g, \A d \in RangeOf(plan[id].deps) : f[d] = g[d]
  PROVE  fingerprint(id, f) = fingerprint(id, g)
<1>1. \A k \in DOMAIN plan[id].deps : f[plan[id].deps[k]] = g[plan[id].deps[k]]
  BY DEF RangeOf
<1>2. [k \in DOMAIN plan[id].deps |-> f[plan[id].deps[k]]] = [k \in DOMAIN plan[id].deps |-> g[plan[id].deps[k]]]
  BY <1>1
<1> QED BY <1>2 DEF fingerprint

\* What the loop of deduplicate has established for the first k steps.
RemapUpTo(f, pos, k) ==
  /\ DOMAIN f = {id \in Ids : pos[id] =< k}
  /\ \A id \in DOMAIN f :
       /\ f[id] \in DOMAIN f /\ f[f[id]] = f[id] /\ pos[f[id]] =< pos[id]
       /\ fingerprint(f[id], f) = fingerprint(id, f)

\* One turn of the loop.
LEMMA RemapTurn ==
  ASSUME PlanKnown, NEW order, NEW pos, Places(order, pos), NEW k \in Ids, NEW f, RemapUpTo(f, pos, k - 1),
         Ids \subseteq Nat
  PROVE  RemapUpTo(remap_one(f, order[k]), pos, k)
<1> DEFINE m == order[k]
           same == {j \in DOMAIN f : f[j] = j /\ fingerprint(j, f) = fingerprint(m, f)}
           c == IF same = {} THEN m ELSE CHOOSE j \in same : TRUE
           h == [j \in DOMAIN f \cup {m} |-> IF j # m THEN f[j] ELSE c]
<1>1. remap_one(f, m) = h
  BY DEF remap_one
<1>2. m \in Ids /\ pos[m] = k /\ k \in Nat
  BY DEF Places
<1>3. \A id \in Ids : pos[id] \in Nat /\ (pos[id] = k => id = m)
  BY DEF Places
<1>a. DOMAIN f = {id \in Ids : pos[id] =< k - 1}
  BY DEF RemapUpTo
<1>b. \A id : id \in DOMAIN f <=> id \in Ids /\ pos[id] =< k - 1
  BY <1>a
<1>4. m \notin DOMAIN f
  BY <1>2, <1>b
<1>5. c = m \/ (c \in DOMAIN f /\ f[c] = c /\ fingerprint(c, f) = fingerprint(m, f))
  OBVIOUS
<1> HIDE DEF c
<1>6. DOMAIN h = DOMAIN f \cup {m} /\ h[m] = c /\ \A j \in DOMAIN f : h[j] = f[j]
  BY <1>4
<1> HIDE DEF h, m
<1>7. DOMAIN h = {id \in Ids : pos[id] =< k}
  <2>1. \A id \in Ids : pos[id] =< k <=> (pos[id] =< k - 1 \/ id = m)
    BY <1>2, <1>3
  <2> QED BY <1>2, <1>6, <1>b, <2>1
<1>8. ASSUME NEW id \in DOMAIN h PROVE fingerprint(id, h) = fingerprint(id, f)
  <2>1. id \in Ids /\ pos[id] =< k
    BY <1>7
  <2>2. ASSUME NEW d \in RangeOf(plan[id].deps) PROVE h[d] = f[d]
    <3>1. d \in Ids /\ pos[d] < pos[id]
      BY <2>1, Registered DEF Places
    <3>2. d \in DOMAIN f
      <4>1. pos[d] \in Nat /\ pos[id] \in Nat
        BY <1>3, <2>1, <3>1
      <4>2. pos[d] =< k - 1
        BY <1>2, <2>1, <3>1, <4>1
      <4> QED BY <1>b, <3>1, <4>2
    <3> QED BY <1>6, <3>2
  <2> QED BY <2>1, <2>2, FingerprintOf
<1>9. ASSUME NEW id \in DOMAIN h
      PROVE  /\ h[id] \in DOMAIN h /\ h[h[id]] = h[id] /\ pos[h[id]] =< pos[id]
             /\ fingerprint(h[id], h) = fingerprint(id, h)
  <2>1. CASE id = m
    <3>1. CASE c = m
      BY <1>2, <1>6, <2>1, <3>1
    <3>2. CASE c # m
      <4>1. c \in DOMAIN f /\ f[c] = c /\ fingerprint(c, f) = fingerprint(m, f)
        BY <1>5, <3>2
      <4>2. h[id] = c /\ c \in DOMAIN h /\ h[c] = c
        BY <1>6, <2>1, <4>1
      <4>3. pos[c] =< pos[id]
        <5>1. c \in Ids /\ pos[c] =< k - 1
          BY <1>b, <4>1
        <5>2. pos[c] \in Nat /\ pos[id] = k
          BY <1>2, <1>3, <2>1, <5>1
        <5> QED BY <1>2, <5>1, <5>2
      <4>4. fingerprint(c, h) = fingerprint(id, h)
        BY <1>8, <2>1, <4>1, <4>2
      <4> QED BY <4>2, <4>3, <4>4
    <3> QED BY <3>1, <3>2
  <2>2. CASE id # m
    <3>1. id \in DOMAIN f
      BY <1>6, <2>2
    <3>2. /\ f[id] \in DOMAIN f /\ f[f[id]] = f[id] /\ pos[f[id]] =< pos[id]
          /\ fingerprint(f[id], f) = fingerprint(id, f)
      BY <3>1 DEF RemapUpTo
    <3>3. h[id] = f[id] /\ h[f[id]] = f[f[id]] /\ f[id] \in DOMAIN h
      BY <1>6, <3>1, <3>2
    <3>4. fingerprint(f[id], h) = fingerprint(id, h)
      BY <1>8, <3>2, <3>3
    <3> QED BY <3>2, <3>3, <3>4
  <2> QED BY <2>1, <2>2
<1>10. RemapUpTo(h, pos, k)
  BY <1>7, <1>9 DEF RemapUpTo
<1> QED BY <1>1, <1>10 DEF m

\* The loop of deduplicate gives a map after each turn.
LEMMA RemapLoop ==
  ASSUME NEW order, NEW n \in Nat, n = Len(order)
  PROVE  \E f : /\ f[0] = <<>> /\ \A k \in 1..n : f[k] = remap_one(f[k - 1], order[k])
                /\ deduplicate(order) = f[n]
<1> DEFINE Step(g, k) == IF k = 0 THEN <<>> ELSE remap_one(g[k - 1], order[k])
           Sol(g, m) == g = [k \in 0..m |-> Step(g, k)]
           G == {m \in 0..n : \E g : Sol(g, m)}
<1>1. 0 \in G
  <2> DEFINE h == [k \in 0..0 |-> <<>>]
  <2>1. \A k \in 0..0 : h[k] = Step(h, k)
    OBVIOUS
  <2>2. Sol(h, 0)
    BY <2>1
  <2>3. \E g : Sol(g, 0)
    BY <2>2
  <2> HIDE DEF Sol
  <2> QED BY <2>3
<1>2. ASSUME NEW m \in 1..n, m - 1 \in G PROVE m \in G
  <2>1. PICK g : Sol(g, m - 1)
    BY <1>2
  <2> DEFINE h == [k \in 0..m |-> IF k = m THEN Step(g, m) ELSE g[k]]
  <2>2. ASSUME NEW k \in 0..m PROVE h[k] = Step(h, k)
    <3>1. k # 0 => k - 1 \in 0..(m - 1) /\ h[k - 1] = g[k - 1]
      OBVIOUS
    <3>2. CASE k = m
      BY <3>1, <3>2
    <3>3. CASE k # m
      <4>1. k \in 0..(m - 1)
        BY <3>3
      <4> HIDE DEF Step
      <4>2. g[k] = Step(g, k)
        BY <2>1, <4>1
      <4>3. h[k] = g[k]
        BY <3>3
      <4>4. Step(g, k) = Step(h, k)
        BY <3>1 DEF Step
      <4> QED BY <4>2, <4>3, <4>4
    <3> QED BY <3>2, <3>3
  <2>3. Sol(h, m)
    BY <2>2
  <2>4. \E f : Sol(f, m)
    BY <2>3
  <2> HIDE DEF Sol
  <2> QED BY <2>4
<1>3. \A m \in 1..n : m - 1 \in G => m \in G
  <2> HIDE DEF G
  <2> QED BY <1>2
<1> HIDE DEF G
<1>4. \A m \in 0..n : m \in G
  <2> HIDE DEF Step, Sol
  <2> QED BY <1>1, <1>3, Onward
<1> DEFINE remap == CHOOSE g : Sol(g, n)
<1>5. n \in G
  BY <1>4
<1>6. Sol(remap, n)
  BY <1>5 DEF G
<1>7. deduplicate(order) = remap[n]
  BY DEF deduplicate
<1> HIDE DEF remap
<1>8. \A k \in 0..n : remap[k] = Step(remap, k)
  <2> HIDE DEF Step
  <2> QED BY <1>6
<1>9. remap[0] = <<>> /\ \A k \in 1..n : remap[k] = remap_one(remap[k - 1], order[k])
  BY <1>8
<1> QED BY <1>7, <1>9

\* What deduplicate returns for any topological order.
LEMMA Deduplicated ==
  ASSUME PlanKnown, NEW order \in TopologicalOrders
  PROVE  LET r == deduplicate(order)
         IN  /\ r \in [Ids -> Ids]
             /\ \A id \in Ids : r[r[id]] = r[id] /\ fingerprint(r[id], r) = fingerprint(id, r)
             /\ \E rank \in [Ids -> Ids] : \A id \in Ids : \A d \in RangeOf(plan[id].deps) : rank[r[d]] < rank[id]
<1> DEFINE n == Len(plan)
           r == deduplicate(order)
<1>1. n \in Nat /\ Ids = 1..n /\ Len(order) = n
  BY OrderPlaces
<1>2. PICK pos : Places(order, pos)
  BY OrderPlaces
<1> HIDE DEF n
<1>3. PICK f : /\ f[0] = <<>> /\ \A k \in 1..n : f[k] = remap_one(f[k - 1], order[k])
               /\ r = f[n]
  BY <1>1, RemapLoop
<1> HIDE DEF r
<1>4. \A id \in Ids : pos[id] \in 1..n
  BY <1>1, <1>2 DEF Places
<1> DEFINE G == {k \in 0..n : RemapUpTo(f[k], pos, k)}
<1>5. 0 \in G
  <2>1. DOMAIN f[0] = {}
    BY <1>3
  <2>2. \A id \in Ids : ~(pos[id] =< 0)
    BY <1>4
  <2>3. DOMAIN f[0] = {id \in Ids : pos[id] =< 0}
    BY <2>1, <2>2
  <2>4. RemapUpTo(f[0], pos, 0)
    BY <2>1, <2>3 DEF RemapUpTo
  <2> QED BY <1>1, <2>4
<1>6. ASSUME NEW k \in 1..n, k - 1 \in G PROVE k \in G
  <2>1. k \in Ids /\ Ids \subseteq Nat /\ k \in 0..n
    BY <1>1
  <2>2. RemapUpTo(f[k - 1], pos, k - 1)
    BY <1>6
  <2>3. RemapUpTo(f[k], pos, k)
    BY <1>2, <1>3, <2>1, <2>2, RemapTurn
  <2> QED BY <2>1, <2>3
<1>7. \A k \in 1..n : k - 1 \in G => k \in G
  <2> HIDE DEF G
  <2> QED BY <1>6
<1> HIDE DEF G
<1>8. \A k \in 0..n : k \in G
  BY <1>1, <1>5, <1>7, Onward
<1>9. RemapUpTo(r, pos, n)
  BY <1>1, <1>3, <1>8 DEF G
<1>10. DOMAIN r = Ids
  <2>1. \A id \in Ids : pos[id] =< n
    BY <1>1, <1>4
  <2> QED BY <1>9, <2>1 DEF RemapUpTo
<1>11. \A id \in Ids : /\ r[id] \in Ids /\ r[r[id]] = r[id] /\ pos[r[id]] =< pos[id]
                       /\ fingerprint(r[id], r) = fingerprint(id, r)
  BY <1>9, <1>10 DEF RemapUpTo
<1>12. r \in [Ids -> Ids]
  <2>1. r = [id \in Ids |-> r[id]]
    <3>1. r = f[n] /\ n \in 0..n
      BY <1>1, <1>3
    <3>2. CASE n = 0
      <4>1. r = <<>>
        BY <1>3, <3>2
      <4> QED BY <1>10, <4>1
    <3>3. CASE n # 0
      <4>1. n \in 1..n
        BY <1>1, <3>3
      <4>2. r = remap_one(f[n - 1], order[n])
        BY <1>3, <4>1
      <4> QED BY <1>10, <4>2 DEF remap_one
    <3> QED BY <3>2, <3>3
  <2> QED BY <1>11, <2>1
<1>13. ASSUME NEW id \in Ids, NEW d \in RangeOf(plan[id].deps) PROVE pos[r[d]] < pos[id]
  <2>1. d \in Ids
    BY Registered
  <2>2. pos[d] < pos[id] /\ pos[r[d]] =< pos[d]
    BY <1>2, <1>11, <2>1 DEF Places
  <2>3. pos[d] \in Nat /\ pos[id] \in Nat /\ pos[r[d]] \in Nat
    BY <1>4, <1>11, <2>1
  <2> QED BY <2>2, <2>3
<1>14. pos \in [Ids -> Ids]
  BY <1>2 DEF Places
<1>15. \E rank \in [Ids -> Ids] : \A id \in Ids : \A d \in RangeOf(plan[id].deps) : rank[r[d]] < rank[id]
  BY <1>13, <1>14
<1> QED BY <1>11, <1>12, <1>15 DEF r

-----------------------------------------------------------------------------
(* The executor.                                                           *)

\* The tier of a step, given those of its dependencies.
After(tier, id) == 1 + Max({0} \cup {tier[rep[d]] : d \in RangeOf(plan[id].deps)})

\* It is later than each of them.
LEMMA AfterAll ==
  ASSUME PlanKnown, NEW id \in Ids, NEW g, \A d \in RangeOf(plan[id].deps) : g[rep[d]] \in Nat
  PROVE  After(g, id) \in Nat /\ \A d \in RangeOf(plan[id].deps) : g[rep[d]] < After(g, id)
<1> DEFINE deps == plan[id].deps
           T == {0} \cup {g[rep[d]] : d \in RangeOf(deps)}
<1>1. PICK n \in Nat : DOMAIN deps \subseteq 1..n
  BY Registered
<1> DEFINE v == [i \in 1..n |-> IF i \in DOMAIN deps THEN g[rep[deps[i]]] ELSE 0]
<1>2. \A i \in 1..n : v[i] \in Nat
  BY DEF RangeOf
<1>3. \A d \in RangeOf(deps) : \E i \in 1..n : g[rep[d]] = v[i]
  BY <1>1 DEF RangeOf
<1> HIDE DEF v
<1>4. PICK b \in Nat : \A i \in 1..n : v[i] =< b
  BY <1>2, Bounded
<1> HIDE DEF deps
<1>5. \A d \in RangeOf(deps) : g[rep[d]] \in 0..b
  BY <1>3, <1>4 DEF deps
<1>6. T \subseteq 0..b /\ T # {}
  BY <1>5
<1>7. \A d \in RangeOf(deps) : g[rep[d]] \in T
  OBVIOUS
<1> HIDE DEF T
<1>8. Max(T) \in T /\ \A y \in T : y =< Max(T)
  BY <1>6, Largest
<1>9. Max(T) \in Nat
  <2>1. \A x \in 0..b : x \in Nat
    OBVIOUS
  <2> QED BY <1>6, <1>8, <2>1
<1>10. After(g, id) = 1 + Max(T)
  BY DEF After, T, deps
<1>11. \A d \in RangeOf(deps) : g[rep[d]] =< Max(T) /\ g[rep[d]] \in Nat
  BY <1>5, <1>7, <1>8
<1> QED BY <1>9, <1>10, <1>11 DEF deps

\* The tier of a step depends on those of its dependencies only.
LEMMA AfterOf ==
  ASSUME NEW id \in Ids, NEW f, NEW g, \A d \in RangeOf(plan[id].deps) : f[rep[d]] = g[rep[d]]
  PROVE  After(f, id) = After(g, id)
<1>1. {f[rep[d]] : d \in RangeOf(plan[id].deps)} = {g[rep[d]] : d \in RangeOf(plan[id].deps)}
  OBVIOUS
<1> QED BY <1>1 DEF After

\* compute_tiers: a step is in a later tier than what it depends on.
LEMMA TiersIncrease ==
  ASSUME PlanKnown, RemapSound, Running
  PROVE  \A id \in Ids : \A d \in RangeOf(plan[id].deps) : Tiers[rep[d]] < Tiers[id]
<1> DEFINE n == Len(plan)
<1>1. n \in Nat /\ Ids = 1..n
  BY DEF PlanKnown, Ids, IsSequence
<1> HIDE DEF n
<1>2. PICK rank \in [Ids -> Ids] : \A id \in Ids : \A d \in RangeOf(plan[id].deps) : rank[rep[d]] < rank[id]
  BY DEF RemapSound
<1>3. \A id \in Ids : rank[id] \in 1..n
  BY <1>1
<1>4. \A id \in Ids : \A d \in RangeOf(plan[id].deps) : rep[d] \in Ids
  <2> SUFFICES ASSUME NEW id \in Ids, NEW d \in RangeOf(plan[id].deps) PROVE rep[d] \in Ids
    OBVIOUS
  <2>1. d \in Ids
    BY Registered
  <2> QED BY <2>1 DEF RemapSound
<1>5. \A id \in Ids : \A d \in RangeOf(plan[id].deps) : \A k \in 0..n : rank[id] =< k => rank[rep[d]] =< k - 1 /\ rank[rep[d]] # k
  <2> SUFFICES ASSUME NEW id \in Ids, NEW d \in RangeOf(plan[id].deps), NEW k \in 0..n, rank[id] =< k
               PROVE  rank[rep[d]] =< k - 1 /\ rank[rep[d]] # k
    OBVIOUS
  <2>1. rank[rep[d]] < rank[id] /\ rank[rep[d]] \in Nat /\ rank[id] \in Nat
    BY <1>2, <1>3, <1>4
  <2>2. k \in Nat
    BY <1>1
  <2>3. \A x, y, z \in Nat : x < y /\ y =< z => x =< z - 1 /\ x # z
    OBVIOUS
  <2> QED BY <2>1, <2>2, <2>3
<1> DEFINE Upto(g, k) == \A id \in Ids : rank[id] =< k => g[id] = After(g, id)
           G == {k \in 0..n : \E g : Upto(g, k)}
<1>6. 0 \in G
  <2>1. \A id \in Ids : ~(rank[id] =< 0)
    BY <1>3
  <2>2. Upto(<<>>, 0)
    BY <2>1
  <2> HIDE DEF Upto
  <2> QED BY <1>1, <2>2
<1>7. ASSUME NEW k \in 1..n, k - 1 \in G PROVE k \in G
  <2>1. PICK g : Upto(g, k - 1)
    BY <1>7
  <2>2. k \in 0..n
    BY <1>1
  <2> DEFINE h == [id \in Ids |-> IF rank[id] = k THEN After(g, id) ELSE g[id]]
  <2>3. ASSUME NEW id \in Ids, rank[id] =< k PROVE h[id] = After(h, id)
    <3>1. \A d \in RangeOf(plan[id].deps) : h[rep[d]] = g[rep[d]]
      BY <1>4, <1>5, <2>2, <2>3
    <3> HIDE DEF h
    <3>2. After(h, id) = After(g, id)
      BY <3>1, AfterOf
    <3>3. CASE rank[id] = k
      BY <3>2, <3>3 DEF h
    <3>4. CASE rank[id] # k
      <4>1. rank[id] =< k - 1
        BY <1>1, <1>3, <2>3, <3>4
      <4>2. h[id] = g[id]
        BY <3>4 DEF h
      <4> QED BY <2>1, <3>2, <4>1, <4>2
    <3> QED BY <3>3, <3>4
  <2> HIDE DEF h
  <2>4. Upto(h, k)
    BY <2>3
  <2> HIDE DEF Upto
  <2> QED BY <2>2, <2>4
<1>8. \A k \in 1..n : k - 1 \in G => k \in G
  <2> HIDE DEF G
  <2> QED BY <1>7
<1> HIDE DEF G
<1>9. \A k \in 0..n : k \in G
  <2> HIDE DEF Upto
  <2> QED BY <1>1, <1>6, <1>8, Onward
<1>10. PICK g : Upto(g, n)
  <2>1. n \in G
    BY <1>1, <1>9
  <2> QED BY <2>1 DEF G
<1> DEFINE Sol(f) == f = [id \in Ids |-> After(f, id)]
<1>11. \E f : Sol(f)
  <2> DEFINE h == [id \in Ids |-> g[id]]
  <2>1. ASSUME NEW id \in Ids PROVE h[id] = After(h, id)
    <3>1. rank[id] =< n
      BY <1>1, <1>3
    <3>2. g[id] = After(g, id)
      BY <1>10, <3>1
    <3>3. \A d \in RangeOf(plan[id].deps) : h[rep[d]] = g[rep[d]]
      BY <1>4
    <3>4. After(h, id) = After(g, id)
      <4> HIDE DEF h
      <4> QED BY <3>3, AfterOf
    <3> QED BY <3>2, <3>4
  <2>2. h = [id \in Ids |-> h[id]]
    OBVIOUS
  <2> HIDE DEF h
  <2>3. Sol(h)
    BY <2>1, <2>2
  <2> QED BY <2>3
<1> DEFINE tier == CHOOSE f : Sol(f)
<1>12. Sol(tier)
  BY <1>11
<1>13. Tiers = tier
  BY DEF Tiers, After
<1> HIDE DEF tier
<1>14. \A id \in Ids : tier[id] = After(tier, id)
  BY <1>12
<1> DEFINE H == {k \in 0..n : \A id \in Ids : rank[id] =< k => tier[id] \in Nat}
<1>15. 0 \in H
  BY <1>1, <1>3
<1>16. ASSUME NEW k \in 1..n, k - 1 \in H PROVE k \in H
  <2>1. k \in 0..n
    BY <1>1
  <2>2. ASSUME NEW id \in Ids, rank[id] =< k PROVE tier[id] \in Nat
    <3>1. \A d \in RangeOf(plan[id].deps) : tier[rep[d]] \in Nat
      BY <1>4, <1>5, <1>16, <2>1, <2>2
    <3> QED BY <1>14, <3>1, AfterAll
  <2> QED BY <2>1, <2>2
<1>17. \A k \in 1..n : k - 1 \in H => k \in H
  <2> HIDE DEF H
  <2> QED BY <1>16
<1> HIDE DEF H
<1>18. \A k \in 0..n : k \in H
  BY <1>1, <1>15, <1>17, Onward
<1>19. \A id \in Ids : tier[id] \in Nat
  BY <1>1, <1>3, <1>18 DEF H
<1>20. ASSUME NEW id \in Ids, NEW d \in RangeOf(plan[id].deps) PROVE tier[rep[d]] < tier[id]
  <2>1. \A e \in RangeOf(plan[id].deps) : tier[rep[e]] \in Nat
    BY <1>4, <1>19
  <2>2. tier[rep[d]] < After(tier, id)
    BY <2>1, AfterAll
  <2> QED BY <1>14, <2>2
<1> QED BY <1>13, <1>20

-----------------------------------------------------------------------------
(* The invariant.                                                          *)

\* A sequence is a function on the numbers up to its length.
LEMMA SequenceIs ==
  ASSUME NEW s, IsSequence(s)
  PROVE  Len(s) \in Nat /\ DOMAIN s = 1..Len(s) /\ s = [k \in 1..Len(s) |-> s[k]]
BY DEF IsSequence

LEMMA IsOne ==
  ASSUME NEW s, NEW n \in Nat, s = [k \in 1..n |-> s[k]]
  PROVE  IsSequence(s) /\ Len(s) = n /\ DOMAIN s = 1..n
<1>1. DOMAIN s = 1..n
  OBVIOUS
<1>2. \A k \in 1..n : s[k] \in RangeOf(s)
  BY <1>1 DEF RangeOf
<1>3. s \in [1..n -> RangeOf(s)]
  BY <1>2
<1>4. s \in Seq(RangeOf(s)) /\ Len(s) = n
  BY <1>3
<1> QED BY <1>1, <1>4 DEF IsSequence

\* One element more, and one element replaced.
LEMMA AppendedIs ==
  ASSUME NEW s, IsSequence(s), NEW e
  PROVE  /\ IsSequence(Append(s, e)) /\ Len(Append(s, e)) = Len(s) + 1 /\ DOMAIN Append(s, e) = 1..(Len(s) + 1)
         /\ Append(s, e)[Len(s) + 1] = e /\ \A k \in 1..Len(s) : Append(s, e)[k] = s[k]
<1> DEFINE n == Len(s)
           t == Append(s, e)
<1>1. n \in Nat /\ DOMAIN s = 1..n /\ s \in Seq(RangeOf(s))
  BY SequenceIs DEF IsSequence
<1> DEFINE S == RangeOf(s) \cup {e}
<1>2. s \in Seq(S) /\ e \in S
  BY <1>1
<1> HIDE DEF S
<1>3. t \in Seq(S) /\ Len(t) = n + 1
  BY <1>2
<1>4. t[n + 1] = e /\ \A k \in 1..n : t[k] = s[k]
  BY <1>1, <1>2
<1> HIDE DEF n, t
<1>6. t = [k \in 1..(n + 1) |-> t[k]] /\ n + 1 \in Nat
  BY <1>1, <1>3
<1>5. IsSequence(t) /\ Len(t) = n + 1 /\ DOMAIN t = 1..(n + 1)
  BY <1>6, IsOne
<1> QED BY <1>4, <1>5 DEF n, t

LEMMA ReplacedIs ==
  ASSUME NEW s, IsSequence(s), NEW id \in DOMAIN s, NEW e
  PROVE  LET t == [s EXCEPT ![id] = e]
         IN  /\ IsSequence(t) /\ Len(t) = Len(s) /\ DOMAIN t = DOMAIN s
             /\ t[id] = e /\ \A k \in DOMAIN s : k # id => t[k] = s[k]
<1> DEFINE n == Len(s)
           t == [s EXCEPT ![id] = e]
<1>1. n \in Nat /\ DOMAIN s = 1..n
  BY SequenceIs
<1>2. DOMAIN t = 1..n /\ t = [k \in 1..n |-> t[k]] /\ t[id] = e /\ \A k \in DOMAIN s : k # id => t[k] = s[k]
  BY <1>1
<1> HIDE DEF n, t
<1>3. IsSequence(t) /\ Len(t) = n
  BY <1>1, <1>2, IsOne
<1> QED BY <1>1, <1>2, <1>3 DEF n, t

\* The positions of the three lists.
LEMMA Positions ==
  ASSUME PlanKnown, OutputsInOrder
  PROVE  Len(plan) \in Nat /\ Ids = 1..Len(plan) /\ DOMAIN out = Ids /\ DOMAIN seen = Ids
BY SequenceIs DEF PlanKnown, OutputsInOrder, Ids

\* Nothing is registered at first.
LEMMA DataInitInv == DataInit => DataInv
<1> SUFFICES ASSUME DataInit PROVE DataInv
  OBVIOUS
<1>1. plan = <<>> /\ rep = <<>> /\ out = <<>> /\ seen = <<>>
  BY DEF DataInit
<1>2. IsSequence(<<>>) /\ DOMAIN <<>> = {} /\ Len(<<>>) = 0
  BY DEF IsSequence
<1>3. Ids = {} /\ ~Running
  BY <1>1, <1>2 DEF Ids, Running
<1>4. PlanKnown
  BY <1>1, <1>2, <1>3 DEF PlanKnown
<1>5. RemapSound
  BY <1>3 DEF RemapSound
<1>6. OutputsInOrder
  BY <1>1, <1>2, <1>3 DEF OutputsInOrder
<1>7. SelectsRead
  BY <1>3 DEF SelectsRead
<1> QED BY <1>4, <1>5, <1>6, <1>7 DEF DataInv

\* Before the plan is optimized nothing has run.
LEMMA NothingRan ==
  ASSUME OutputsInOrder, ~Running
  PROVE  \A id \in Ids : out[id] = <<>>
BY DEF OutputsInOrder

\* A step is registered.
LEMMA RegisterInv ==
  ASSUME DataInv, NEW s \in Candidates, register_step(s)
  PROVE  DataInv'
<1> DEFINE n == Len(plan)
<1>1. ~Running /\ rep' = rep
  BY DEF register_step
<1>2. PICK parents \in [1..s.deps -> Ids] : plan' = Append(plan, [s EXCEPT !.deps = parents])
  BY DEF register_step
<1>3. out' = Append(out, <<>>) /\ seen' = Append(seen, <<>>)
  BY DEF register_step
<1>4. IsSequence(plan) /\ IsSequence(out) /\ IsSequence(seen) /\ Len(out) = n /\ Len(seen) = n
  BY DEF DataInv, PlanKnown, OutputsInOrder
<1>5. n \in Nat /\ Ids = 1..n
  BY Positions DEF DataInv
<1>6. /\ IsSequence(plan') /\ Len(plan') = n + 1 /\ DOMAIN plan' = 1..(n + 1)
      /\ plan'[n + 1] = [s EXCEPT !.deps = parents] /\ \A k \in 1..n : plan'[k] = plan[k]
  BY <1>2, <1>4, AppendedIs
<1>7. IsSequence(out') /\ Len(out') = n + 1 /\ out'[n + 1] = <<>> /\ \A k \in 1..n : out'[k] = out[k]
  BY <1>3, <1>4, AppendedIs
<1>8. IsSequence(seen') /\ Len(seen') = n + 1
  BY <1>3, <1>4, AppendedIs
<1> HIDE DEF n
<1>9. Ids' = 1..(n + 1) /\ Ids \subseteq Ids'
  BY <1>5, <1>6 DEF Ids
<1>10. ~Running'
  BY <1>1 DEF Running
<1>11. PlanKnown'
  <2>1. ASSUME NEW id \in Ids'
        PROVE  \E t \in Candidates : \E ps \in [1..t.deps -> Ids'] : plan'[id] = [t EXCEPT !.deps = ps]
    <3>1. CASE id = n + 1
      <4>1. parents \in [1..s.deps -> Ids']
        BY <1>9
      <4> QED BY <1>6, <3>1, <4>1
    <3>2. CASE id # n + 1
      <4>1. id \in 1..n /\ id \in Ids
        BY <1>5, <1>9, <3>2
      <4>2. PICK t \in Candidates : \E ps \in [1..t.deps -> Ids] : plan[id] = [t EXCEPT !.deps = ps]
        BY <4>1 DEF DataInv, PlanKnown
      <4>3. PICK ps \in [1..t.deps -> Ids] : plan[id] = [t EXCEPT !.deps = ps]
        BY <4>2
      <4>4. ps \in [1..t.deps -> Ids']
        BY <1>9
      <4> QED BY <1>6, <4>1, <4>3, <4>4
    <3> QED BY <3>1, <3>2
  <2> QED BY <1>6, <2>1 DEF PlanKnown
<1>12. \A id \in Ids' : out'[id] = <<>>
  <2>1. \A k \in 1..n : out[k] = <<>>
    BY <1>1, <1>5, NothingRan DEF DataInv
  <2> QED BY <1>5, <1>7, <1>9, <2>1
<1>13. RemapSound'
  BY <1>10 DEF RemapSound
<1>14. OutputsInOrder'
  BY <1>6, <1>7, <1>8, <1>12 DEF OutputsInOrder
<1>15. SelectsRead'
  BY <1>10 DEF SelectsRead, Ran
<1> QED BY <1>11, <1>13, <1>14, <1>15 DEF DataInv

\* The plan is optimized.
LEMMA OptimizeInv ==
  ASSUME DataInv, optimize
  PROVE  DataInv'
<1>1. ~Running /\ UNCHANGED <<plan, db, out, seen>>
  BY DEF optimize
<1>2. PICK order \in TopologicalOrders : rep' = deduplicate(order)
  BY DEF optimize
<1>3. Ids' = Ids
  BY <1>1 DEF Ids
<1>4. PlanKnown'
  BY <1>1, <1>3 DEF DataInv, PlanKnown
<1>5. /\ rep' \in [Ids -> Ids]
      /\ \A id \in Ids : rep'[rep'[id]] = rep'[id] /\ fingerprint(rep'[id], rep') = fingerprint(id, rep')
      /\ \E rank \in [Ids -> Ids] : \A id \in Ids : \A d \in RangeOf(plan[id].deps) : rank[rep'[d]] < rank[id]
  BY <1>2, Deduplicated DEF DataInv
<1>6. RemapSound'
  BY <1>1, <1>3, <1>5 DEF RemapSound, fingerprint
<1>7. \A id \in Ids : out[id] = <<>>
  BY <1>1, NothingRan DEF DataInv
<1>8. OutputsInOrder'
  BY <1>1, <1>3, <1>7 DEF DataInv, OutputsInOrder
<1>9. SelectsRead'
  BY <1>1, <1>3, <1>7 DEF SelectsRead, Ran
<1> QED BY <1>4, <1>6, <1>8, <1>9 DEF DataInv

\* A step finishes: with a result of its query if it is a select step that was
\* neither skipped nor failed.
LEMMA FinishInv ==
  ASSUME DataInv, NEW id \in Ids, Ready(id), NEW output, Finish(id, output),
         plan[id].kind = "select" /\ ~Skipped(InputsOf(id)) /\ output # error_output_batch
           => output \in SelectOutputs(Query(plan[id]), InputsOf(id), db[plan[id].table])
  PROVE  DataInv'
<1>1. plan' = plan /\ rep' = rep /\ out' = [out EXCEPT ![id] = <<output>>] /\ seen' = [seen EXCEPT ![id] = db]
  BY DEF Finish
<1>2. Running /\ rep[id] = id /\ out[id] = <<>> /\ \A j \in Ids : rep[j] = j /\ Tiers[j] < Tiers[id] => out[j] # <<>>
  BY DEF Ready
<1>3. PlanKnown /\ RemapSound /\ OutputsInOrder /\ SelectsRead
  BY DEF DataInv
<1>4. Ids' = Ids /\ Running'
  BY <1>1, <1>2 DEF Ids, Running
<1>5. DOMAIN out = Ids /\ DOMAIN seen = Ids /\ IsSequence(out) /\ IsSequence(seen)
  BY <1>3, Positions DEF OutputsInOrder
<1>6. /\ IsSequence(out') /\ Len(out') = Len(out)
      /\ out'[id] = <<output>> /\ \A j \in Ids : j # id => out'[j] = out[j]
  BY <1>1, <1>5, ReplacedIs
<1>7. /\ IsSequence(seen') /\ Len(seen') = Len(seen)
      /\ seen'[id] = db /\ \A j \in Ids : j # id => seen'[j] = seen[j]
  BY <1>1, <1>5, ReplacedIs
<1>8. \A j \in Ids : \A d \in RangeOf(plan[j].deps) : d \in Ids /\ rep[d] \in Ids /\ rep[rep[d]] = rep[d]
  <2> SUFFICES ASSUME NEW j \in Ids, NEW d \in RangeOf(plan[j].deps)
               PROVE  d \in Ids /\ rep[d] \in Ids /\ rep[rep[d]] = rep[d]
    OBVIOUS
  <2>1. d \in Ids
    BY <1>3, Registered
  <2> QED BY <1>2, <1>3, <2>1 DEF RemapSound
<1>9. \A d \in RangeOf(plan[id].deps) : out[rep[d]] # <<>>
  BY <1>2, <1>3, <1>8, TiersIncrease
<1>10. \A j \in Ids : j = id \/ out[j] # <<>> => \A d \in RangeOf(plan[j].deps) : out[rep[d]] # <<>>
  BY <1>3, <1>9 DEF OutputsInOrder
<1>11. \A j \in Ids : j = id \/ out[j] # <<>> => \A d \in RangeOf(plan[j].deps) : out'[rep[d]] = out[rep[d]]
  BY <1>2, <1>6, <1>8, <1>10
<1>12. ASSUME NEW j \in Ids, j = id \/ out[j] # <<>> PROVE InputsOf(j)' = InputsOf(j)
  <2>1. \A k \in DOMAIN plan[j].deps : out'[rep[plan[j].deps[k]]] = out[rep[plan[j].deps[k]]]
    BY <1>11, <1>12 DEF RangeOf
  <2>2. InputsOf(j)' = [k \in DOMAIN plan[j].deps |-> out'[rep[plan[j].deps[k]]][1]]
    BY <1>1 DEF InputsOf
  <2>3. InputsOf(j) = [k \in DOMAIN plan[j].deps |-> out[rep[plan[j].deps[k]]][1]]
    BY DEF InputsOf
  <2> QED BY <2>1, <2>2, <2>3
<1>13. PlanKnown'
  BY <1>1, <1>3, <1>4 DEF PlanKnown
<1>14. RemapSound'
  BY <1>1, <1>2, <1>3, <1>4 DEF RemapSound, fingerprint
<1>15. OutputsInOrder'
  <2>1. ASSUME NEW j \in Ids, out'[j] # <<>>
        PROVE  rep[j] = j /\ \A d \in RangeOf(plan[j].deps) : out'[rep[d]] # <<>>
    <3>1. j = id \/ out[j] # <<>>
      BY <1>6, <2>1
    <3>2. rep[j] = j
      BY <1>2, <1>3, <3>1 DEF OutputsInOrder
    <3> QED BY <1>10, <1>11, <3>1, <3>2
  <2>2. Len(out') = Len(plan') /\ Len(seen') = Len(plan')
    BY <1>1, <1>3, <1>6, <1>7 DEF OutputsInOrder
  <2> QED BY <1>1, <1>4, <1>6, <1>7, <2>1, <2>2 DEF OutputsInOrder
<1>16. SelectsRead'
  <2>1. ASSUME NEW j \in Ids, plan[j].kind = "select", Ran(j)'
        PROVE  out'[j][1] \in SelectOutputs(Query(plan[j]), InputsOf(j)', seen'[j][plan[j].table])
    <3>1. out'[j] # <<>> /\ ~Skipped(InputsOf(j)') /\ out'[j][1] # error_output_batch
      BY <2>1 DEF Ran
    <3>2. CASE j = id
      <4>1. out'[j][1] = output
        BY <1>6, <3>2
      <4>2. InputsOf(j)' = InputsOf(j) /\ seen'[j] = db
        BY <1>7, <1>12, <3>2
      <4> QED BY <2>1, <3>1, <3>2, <4>1, <4>2
    <3>3. CASE j # id
      <4>1. out'[j] = out[j] /\ seen'[j] = seen[j]
        BY <1>6, <1>7, <3>3
      <4>2. InputsOf(j)' = InputsOf(j)
        BY <1>12, <3>1, <4>1
      <4>3. rep[j] = j
        BY <1>3, <3>1, <4>1 DEF OutputsInOrder
      <4>4. Ran(j)
        BY <1>2, <3>1, <4>1, <4>2, <4>3 DEF Ran
      <4>5. out[j][1] \in SelectOutputs(Query(plan[j]), InputsOf(j), seen[j][plan[j].table])
        BY <1>3, <2>1, <4>4 DEF SelectsRead, Output
      <4> QED BY <4>1, <4>2, <4>5
    <3> QED BY <3>2, <3>3
  <2> QED BY <1>1, <1>4, <2>1 DEF SelectsRead, Output
<1> QED BY <1>13, <1>14, <1>15, <1>16 DEF DataInv

\* Every step of a plan finishes in one of these ways.
LEMMA DataStepInv ==
  ASSUME DataInv, NEW id \in Ids,
         \/ PgSelectStep(id) \/ PgInsertStep(id) \/ PgUpdateStep(id) \/ PgDeleteStep(id)
         \/ BatchStep(id) \/ PgUnionStep(id) \/ SourceStep(id) \/ QueryFails(id) \/ Skip(id)
  PROVE  DataInv'
<1>1. CASE PgSelectStep(id)
  <2>1. Ready(id)
    BY <1>1 DEF PgSelectStep, Runs
  <2>2. PICK output \in SelectOutputs(Query(plan[id]), InputsOf(id), db[plan[id].table]) : Finish(id, output)
    BY <1>1 DEF PgSelectStep
  <2> QED BY <2>1, <2>2, FinishInv
<1>2. ASSUME NEW output, Finish(id, output), Ready(id), plan[id].kind # "select"
      PROVE  DataInv'
  BY <1>2, FinishInv
<1>3. ASSUME Ready(id), FailsWith(id) PROVE DataInv'
  BY <1>3, FinishInv DEF FailsWith
<1>4. CASE PgInsertStep(id)
  <2>1. Ready(id) /\ plan[id].kind # "select"
    BY <1>4 DEF PgInsertStep, Runs
  <2>2. FailsWith(id) \/ \E output : Finish(id, output)
    BY <1>4 DEF PgInsertStep, Returns
  <2> QED BY <1>2, <1>3, <2>1, <2>2
<1>5. CASE PgUpdateStep(id)
  <2>1. Ready(id) /\ plan[id].kind # "select"
    BY <1>5 DEF PgUpdateStep, Runs
  <2>2. FailsWith(id) \/ \E output : Finish(id, output)
    BY <1>5 DEF PgUpdateStep, Returns
  <2> QED BY <1>2, <1>3, <2>1, <2>2
<1>6. CASE PgDeleteStep(id)
  <2>1. Ready(id) /\ plan[id].kind # "select"
    BY <1>6 DEF PgDeleteStep, Runs
  <2>2. FailsWith(id) \/ \E output : Finish(id, output)
    BY <1>6 DEF PgDeleteStep, Returns
  <2> QED BY <1>2, <1>3, <2>1, <2>2
<1>7. CASE BatchStep(id)
  <2>1. Ready(id) /\ plan[id].kind # "select"
    BY <1>7 DEF BatchStep, Runs
  <2>2. \E output : Finish(id, output)
    BY <1>7 DEF BatchStep
  <2> QED BY <1>2, <2>1, <2>2
<1>8. CASE PgUnionStep(id)
  <2>1. Ready(id) /\ plan[id].kind # "select"
    BY <1>8 DEF PgUnionStep, Runs
  <2>2. \E output : Finish(id, output)
    BY <1>8 DEF PgUnionStep
  <2> QED BY <1>2, <2>1, <2>2
<1>9. CASE SourceStep(id)
  <2>1. Ready(id) /\ plan[id].kind # "select" /\ Finish(id, plan[id].output)
    BY <1>9 DEF SourceStep, Runs
  <2> QED BY <1>2, <2>1
<1>10. CASE QueryFails(id)
  <2>1. Ready(id) /\ FailsWith(id)
    BY <1>10 DEF QueryFails, Runs
  <2> QED BY <1>3, <2>1
<1>11. CASE Skip(id)
  <2>1. Ready(id) /\ Skipped(InputsOf(id)) /\ \E output : Finish(id, output)
    BY <1>11 DEF Skip
  <2> QED BY <2>1, FinishInv
<1> QED BY <1>1, <1>4, <1>5, <1>6, <1>7, <1>8, <1>9, <1>10, <1>11

LEMMA DataNextInv == DataInv /\ [DataNext]_dataVars => DataInv'
<1> SUFFICES ASSUME DataInv, [DataNext]_dataVars PROVE DataInv'
  OBVIOUS
<1>1. CASE \E s \in Candidates : register_step(s)
  BY <1>1, RegisterInv
<1>2. CASE optimize
  BY <1>2, OptimizeInv
<1>3. CASE \E id \in Ids : \/ PgSelectStep(id) \/ PgInsertStep(id) \/ PgUpdateStep(id) \/ PgDeleteStep(id)
                           \/ BatchStep(id) \/ PgUnionStep(id) \/ SourceStep(id) \/ QueryFails(id) \/ Skip(id)
  BY <1>3, DataStepInv
<1>4. CASE UNCHANGED dataVars
  <2>1. UNCHANGED <<plan, rep, db, out, seen>>
    BY <1>4 DEF dataVars
  <2>2. Ids' = Ids /\ (Running' <=> Running)
    BY <2>1 DEF Ids, Running
  <2>3. PlanKnown'
    BY <2>1, <2>2 DEF DataInv, PlanKnown
  <2>4. RemapSound'
    BY <2>1, <2>2 DEF DataInv, RemapSound, fingerprint
  <2>5. OutputsInOrder'
    BY <2>1, <2>2 DEF DataInv, OutputsInOrder
  <2>6. SelectsRead'
    BY <2>1, <2>2 DEF DataInv, SelectsRead, Ran, Output, InputsOf
  <2> QED BY <2>3, <2>4, <2>5, <2>6 DEF DataInv
<1> QED BY <1>1, <1>2, <1>3, <1>4 DEF DataNext

\* The invariant implies that merged selects agree.
LEMMA MergedFollows == DataInv => MergedSelectsAgree
<1> SUFFICES ASSUME DataInv, NEW id \in Ids, Running, rep[id] # id, plan[id].kind = "select", Ran(rep[id]),
                    plan[id].parent_pk = plan[rep[id]].parent_pk
             PROVE  Output(rep[id]) \in SelectOutputs(Query(plan[id]), InputsOf(rep[id]), seen[rep[id]][plan[id].table])
  BY DEF MergedSelectsAgree
<1> DEFINE j == rep[id]
<1>1. PlanKnown /\ j \in Ids /\ fingerprint(j, rep) = fingerprint(id, rep)
  BY DEF DataInv, RemapSound
<1> HIDE DEF j
<1>2. plan[j].kind = "select" /\ Query(plan[id]) = Query(plan[j])
  BY <1>1, SameQuery DEF j
<1>3. plan[id].table = plan[j].table
  BY <1>2 DEF Query
<1>4. Output(j) \in SelectOutputs(Query(plan[j]), InputsOf(j), seen[j][plan[j].table])
  BY <1>1, <1>2 DEF DataInv, SelectsRead, j
<1> QED BY <1>2, <1>3, <1>4 DEF j

-----------------------------------------------------------------------------
(* The theorems.                                                           *)

\* In every state of a plan's life the remap leads to steps of the same
\* fingerprint, outputs appear after those they depend on, and what a select
\* step returned is what its query gives for its inputs: register_step,
\* deduplicate, compute_tiers and the execute of all steps.
THEOREM DataInvariant == DataSpec => []DataInv
BY DataInitInv, DataNextInv, PTL DEF DataSpec

\* A select step that was merged away would have returned what the step that
\* stands for it returned, if callers keep the contract of apply_keyed and both
\* read the same column of their parents: compute_config_hash sees every tweak.
THEOREM DataMergedSelectsAgree == DataSpec => []MergedSelectsAgree
BY DataInvariant, MergedFollows, PTL
=============================================================================
