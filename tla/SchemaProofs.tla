---------------------------- MODULE SchemaProofs ----------------------------
(***************************************************************************)
(* Proofs about Schema: SchemaInv is inductive, and HiddenUnreachable,     *)
(* RegistryAgrees and ExtensionsKept follow from it.                       *)
(*                                                                         *)
(* The argument has three layers.  Lists: what filtering, folding and      *)
(* joining leave of a list's elements, which is what the operators of the  *)
(* model are made of.  Gather: which classes it keeps, and that its        *)
(* resources and the registry read the same columns and constraints.  The  *)
(* builder: each pass only adds (Grows), adds what comes from the classes  *)
(* that were kept (ComesFrom), and adds every type it was asked for.       *)
(***************************************************************************)
EXTENDS Schema, TLAPS, WellFoundedInduction, FiniteSetTheorems

\* A non-empty set of naturals has a least element.
LEMMA LeastNat ==
  ASSUME NEW T, T \subseteq Nat, T # {}
  PROVE  \E x \in T : \A y \in T : x =< y
<1> DEFINE R == OpToRel(<, Nat)
<1>1. IsWellFoundedOn(R, Nat)
  BY NatLessThanWellFounded
<1>2. \A x, y \in Nat : y < x => <<y, x>> \in R
  BY DEF OpToRel
<1> HIDE DEF R
<1>3. PICK x \in T : \A y \in T : ~(<<y, x>> \in R)
  BY <1>1, WFMin
<1>4. ASSUME NEW y \in T PROVE x =< y
  <2>1. ~(y < x)
     BY <1>2, <1>3
  <2> QED BY <2>1
<1> QED BY <1>4

\* Max of a non-empty set of positions is its greatest element.
LEMMA MaxIs ==
  ASSUME NEW n \in Nat, NEW T, T \subseteq 1..n, T # {}
  PROVE  Max(T) \in T /\ \A y \in T : Max(T) >= y
<1> DEFINE U == {n - x : x \in T}
<1>0. U \subseteq Nat /\ U # {}
  <2>1. \A x \in T : n - x \in Nat
    OBVIOUS
  <2> QED BY <2>1
<1> HIDE DEF U
<1>1. PICK u \in U : \A y \in U : u =< y
  BY <1>0, LeastNat
<1> USE DEF U
<1>2. PICK x \in T : u = n - x
  OBVIOUS
<1>3. ASSUME NEW y \in T PROVE x >= y
  <2>1. n - y \in U OBVIOUS
  <2>2. n - x =< n - y BY <1>1, <1>2, <2>1
  <2> QED BY <2>2, x \in 1..n, y \in 1..n
<1>4. \E z \in T : \A y \in T : z >= y
  BY <1>3
<1> QED BY <1>4 DEF Max

\* What holds of the empty prefix of a list and is kept by one more element
\* holds of the whole list.
LEMMA Upward ==
  ASSUME NEW n \in Nat, NEW G, 0 \in G, \A k \in 1..n : k - 1 \in G => k \in G
  PROVE  \A k \in 0..n : k \in G
<1> DEFINE T == {k \in 0..n : k \notin G}
<1>1. SUFFICES ASSUME T # {} PROVE FALSE
  OBVIOUS
<1> HIDE DEF T
<1>0. T \subseteq Nat
  BY DEF T
<1>2. PICK x \in T : \A y \in T : x =< y
  BY <1>0, <1>1, LeastNat
<1> USE DEF T
<1>3. x \in 1..n /\ x - 1 \in 0..n
  BY <1>2
<1>4. x - 1 \in G
  BY <1>2, <1>3
<1> QED BY <1>3, <1>4

-----------------------------------------------------------------------------
(* Lists.                                                                  *)

\* A function on an interval from 1 is a sequence.
LEMMA SequenceOf ==
  ASSUME NEW n \in Nat, NEW s, s = [k \in 1..n |-> s[k]]
  PROVE  IsSequence(s) /\ Len(s) = n /\ DOMAIN s = 1..n
<1>1. \A k \in 1..n : s[k] \in RangeOf(s)
  BY DEF RangeOf
<1>2. s \in [1..n -> RangeOf(s)]
  BY <1>1
<1>3. s \in Seq(RangeOf(s))
  BY <1>2
<1> QED BY <1>2, <1>3 DEF IsSequence

\* A list of elements of some set is a sequence.
LEMMA ElementsIn ==
  ASSUME NEW S, NEW s \in Seq(S)
  PROVE  IsSequence(s) /\ RangeOf(s) \subseteq S
<1>1. s \in [1..Len(s) -> S] /\ Len(s) \in Nat
  OBVIOUS
<1>2. s = [k \in 1..Len(s) |-> s[k]]
  BY <1>1
<1> QED BY <1>1, <1>2, SequenceOf DEF RangeOf

\* A sequence is a function on the interval of its length.
LEMMA SequenceIs ==
  ASSUME NEW s, IsSequence(s)
  PROVE  /\ Len(s) \in Nat /\ DOMAIN s = 1..Len(s)
         /\ s = [k \in 1..Len(s) |-> s[k]]
         /\ IsFiniteSet(RangeOf(s))
<1>1. s \in Seq(RangeOf(s))
  BY DEF IsSequence
<1>2. Len(s) \in Nat /\ DOMAIN s = 1..Len(s) /\ s = [k \in 1..Len(s) |-> s[k]]
  BY <1>1
<1>3. IsFiniteSet(1..Len(s))
  BY <1>2, FS_Interval
<1>4. RangeOf(s) = {s[k] : k \in 1..Len(s)}
  BY <1>2 DEF RangeOf
<1>5. IsFiniteSet({s[k] : k \in 1..Len(s)})
  <2> DEFINE f == [k \in 1..Len(s) |-> s[k]]
             T == {s[k] : k \in 1..Len(s)}
  <2>1. f \in Surjection(1..Len(s), T)
    BY DEF Surjection
  <2> QED BY <2>1, <1>3, FS_Surjection
<1> QED BY <1>2, <1>4, <1>5

\* The elements of two lists one after the other.
LEMMA Joined ==
  ASSUME NEW s, NEW t, IsSequence(s), IsSequence(t)
  PROVE  IsSequence(s \o t) /\ RangeOf(s \o t) = RangeOf(s) \cup RangeOf(t)
<1> DEFINE S == RangeOf(s) \cup RangeOf(t)
<1>1. s \in Seq(S) /\ t \in Seq(S)
  BY DEF IsSequence
<1>2. s \o t \in Seq(S) /\ Len(s \o t) = Len(s) + Len(t)
  BY <1>1
<1>3. \A k \in 1..(Len(s) + Len(t)) : (s \o t)[k] = IF k \in 1..Len(s) THEN s[k] ELSE t[k - Len(s)]
  BY <1>1
<1>4. RangeOf(s \o t) \subseteq S
  BY <1>2, <1>3 DEF RangeOf
<1>5. ASSUME NEW x \in RangeOf(s) PROVE x \in RangeOf(s \o t)
  <2>1. PICK k \in 1..Len(s) : x = s[k]
    BY <1>1 DEF RangeOf
  <2> QED BY <2>1, <1>1, <1>2, <1>3 DEF RangeOf
<1>6. ASSUME NEW x \in RangeOf(t) PROVE x \in RangeOf(s \o t)
  <2>1. PICK k \in 1..Len(t) : x = t[k]
    BY <1>1 DEF RangeOf
  <2>2. k + Len(s) \in 1..(Len(s) + Len(t)) /\ k + Len(s) \notin 1..Len(s) /\ (k + Len(s)) - Len(s) = k
    BY <1>1, <2>1
  <2> QED BY <2>1, <2>2, <1>2, <1>3 DEF RangeOf
<1>7. IsSequence(s \o t)
  BY <1>2, ElementsIn
<1> QED BY <1>4, <1>5, <1>6, <1>7

\* The empty list and a list of one element.
LEMMA Short ==
  ASSUME NEW x
  PROVE  /\ IsSequence(<<>>) /\ RangeOf(<<>>) = {}
         /\ IsSequence(<<x>>) /\ RangeOf(<<x>>) = {x}
<1>1. RangeOf(<<>>) = {}
  BY DEF RangeOf
<1>2. RangeOf(<<x>>) = {x}
  BY DEF RangeOf
<1> QED BY <1>1, <1>2 DEF IsSequence

\* One more element at the end.
LEMMA Appended ==
  ASSUME NEW s, IsSequence(s), NEW x
  PROVE  IsSequence(Append(s, x)) /\ RangeOf(Append(s, x)) = RangeOf(s) \cup {x}
<1> DEFINE S == RangeOf(s) \cup {x}
<1>1. s \in Seq(S) /\ x \in S
  BY DEF IsSequence
<1>2. Append(s, x) = s \o <<x>>
  BY <1>1
<1> QED BY <1>2, Joined, Short

\* Keep leaves the elements of a list that are in the set, and no others.
LEMMA Kept ==
  ASSUME NEW s, IsSequence(s), NEW S
  PROVE  IsSequence(Keep(s, S)) /\ RangeOf(Keep(s, S)) = RangeOf(s) \cap S
<1> DEFINE n == Len(s)
           Step(g, k) == IF k = 0 THEN <<>> ELSE IF s[k] \in S THEN Append(g[k - 1], s[k]) ELSE g[k - 1]
           Sol(g, m) == g = [k \in 0..m |-> Step(g, k)]
           G == {m \in 0..n : \E g : Sol(g, m)}
<1>0. n \in Nat /\ DOMAIN s = 1..n
  BY SequenceIs
<1> HIDE DEF n
<1>1. 0 \in G
  <2> DEFINE h == [k \in 0..0 |-> <<>>]
  <2>1. \A k \in 0..0 : h[k] = Step(h, k)
    OBVIOUS
  <2>2. Sol(h, 0)
    BY <2>1
  <2>3. \E g : Sol(g, 0)
    BY <2>2
  <2> HIDE DEF Sol
  <2> QED BY <2>3, <1>0
<1>2. ASSUME NEW m \in 1..n, m - 1 \in G PROVE m \in G
  <2>1. PICK g : Sol(g, m - 1)
    BY <1>2
  <2> DEFINE h == [k \in 0..m |-> IF k = m THEN Step(g, m) ELSE g[k]]
  <2>2. ASSUME NEW k \in 0..m PROVE h[k] = Step(h, k)
    <3>1. k # 0 => k - 1 \in 0..(m - 1) /\ h[k - 1] = g[k - 1]
      BY <1>0
    <3>2. CASE k = m
      BY <3>1, <3>2
    <3>3. CASE k # m
      <4>1. k \in 0..(m - 1)
        BY <3>3, <1>0
      <4> HIDE DEF Step
      <4>2. g[k] = Step(g, k)
        BY <2>1, <4>1
      <4>3. h[k] = g[k]
        BY <3>3
      <4>4. Step(g, k) = Step(h, k)
        BY <3>1 DEF Step
      <4> QED BY <4>2, <4>3, <4>4
    <3> QED BY <3>2, <3>3
  <2>3. Sol(h, m)
    BY <2>2
  <2>4. \E f : Sol(f, m)
    BY <2>3
  <2> HIDE DEF Sol
  <2> QED BY <2>4, <1>0
<1> HIDE DEF G
<1>3. n \in G
  BY <1>0, <1>1, <1>2, Upward
<1> DEFINE kept == CHOOSE g : Sol(g, n)
<1>4. Sol(kept, n)
  BY <1>3 DEF G
<1>5. Keep(s, S) = kept[n]
  BY DEF Keep, n
<1> HIDE DEF kept
<1>9. \A k \in 0..n : kept[k] = Step(kept, k)
  <2> HIDE DEF Step
  <2> QED BY <1>4
<1> DEFINE H == {k \in 0..n : IsSequence(kept[k]) /\ RangeOf(kept[k]) = {s[j] : j \in 1..k} \cap S}
<1>6. 0 \in H
  <2>1. kept[0] = <<>> /\ 1..0 = {}
    BY <1>0, <1>9
  <2>2. IsSequence(<<>>) /\ RangeOf(<<>>) = {}
    BY Short
  <2> QED BY <2>1, <2>2, <1>0
<1>7. ASSUME NEW k \in 1..n, k - 1 \in H PROVE k \in H
  <2>1. kept[k] = IF s[k] \in S THEN Append(kept[k - 1], s[k]) ELSE kept[k - 1]
    BY <1>0, <1>9
  <2>2. {s[j] : j \in 1..k} = {s[j] : j \in 1..(k - 1)} \cup {s[k]}
    BY <1>0
  <2>3. CASE s[k] \in S
    <3>1. kept[k] = Append(kept[k - 1], s[k])
      BY <2>1, <2>3
    <3>2. IsSequence(kept[k]) /\ RangeOf(kept[k]) = RangeOf(kept[k - 1]) \cup {s[k]}
      BY <3>1, <1>7, Appended
    <3> QED BY <3>2, <2>2, <2>3, <1>7, <1>0
  <2>4. CASE s[k] \notin S
    BY <2>1, <2>2, <2>4, <1>7, <1>0
  <2> QED BY <2>3, <2>4
<1> HIDE DEF H
<1>8. n \in H
  BY <1>0, <1>6, <1>7, Upward
<1> QED BY <1>0, <1>5, <1>8 DEF H, RangeOf

\* FlattenSeq puts the lists of a list one after the other: its elements are
\* theirs.
LEMMA Flattened ==
  ASSUME NEW s, IsSequence(s), \A k \in DOMAIN s : IsSequence(s[k])
  PROVE  IsSequence(FlattenSeq(s)) /\ RangeOf(FlattenSeq(s)) = UNION {RangeOf(s[k]) : k \in DOMAIN s}
<1> DEFINE n == Len(s)
           Step(g, k) == IF k = 1 THEN s[k] ELSE g[k - 1] \o s[k]
           Sol(g, m) == g = [k \in 1..m |-> Step(g, k)]
           G == {m \in 0..n : \E g : Sol(g, m)}
<1>0. n \in Nat /\ DOMAIN s = 1..n /\ s = [k \in 1..n |-> s[k]]
  BY SequenceIs
<1> HIDE DEF n
<1>1. CASE n = 0
  <2>1. s = <<>> /\ FlattenSeq(s) = s
    BY <1>0, <1>1 DEF FlattenSeq, n
  <2>2. DOMAIN s = {}
    BY <1>0, <1>1
  <2>3. UNION {RangeOf(s[k]) : k \in DOMAIN s} = {} /\ RangeOf(s) = {}
    BY <2>2 DEF RangeOf
  <2> QED BY <2>1, <2>3
<1>2. CASE n # 0
  <2>1. 0 \in G
    <3> DEFINE h == [k \in 1..0 |-> <<>>]
    <3>1. Sol(h, 0)
      OBVIOUS
    <3>2. \E g : Sol(g, 0)
      BY <3>1
    <3> HIDE DEF Sol
    <3> QED BY <3>2, <1>0
  <2>2. ASSUME NEW m \in 1..n, m - 1 \in G PROVE m \in G
    <3>1. PICK g : Sol(g, m - 1)
      BY <2>2
    <3> DEFINE h == [k \in 1..m |-> IF k = m THEN Step(g, m) ELSE g[k]]
    <3>2. ASSUME NEW k \in 1..m PROVE h[k] = Step(h, k)
      <4>1. k # 1 => k - 1 \in 1..(m - 1) /\ h[k - 1] = g[k - 1]
        BY <1>0
      <4>2. CASE k = m
        BY <4>1, <4>2
      <4>3. CASE k # m
        <5>1. k \in 1..(m - 1)
          BY <4>3, <1>0
        <5> HIDE DEF Step
        <5>2. g[k] = Step(g, k)
          BY <3>1, <5>1
        <5>3. h[k] = g[k]
          BY <4>3
        <5>4. Step(g, k) = Step(h, k)
          BY <4>1 DEF Step
        <5> QED BY <5>2, <5>3, <5>4
      <4> QED BY <4>2, <4>3
    <3>3. Sol(h, m)
      BY <3>2
    <3>4. \E f : Sol(f, m)
      BY <3>3
    <3> HIDE DEF Sol
    <3> QED BY <3>4, <1>0
  <2> HIDE DEF G
  <2>3. n \in G
    BY <1>0, <2>1, <2>2, Upward
  <2> DEFINE flatten == CHOOSE g : Sol(g, n)
  <2>4. Sol(flatten, n)
    BY <2>3 DEF G
  <2>5. FlattenSeq(s) = flatten[n]
    BY <1>2 DEF FlattenSeq, n
  <2> HIDE DEF flatten
  <2>6. \A k \in 1..n : flatten[k] = Step(flatten, k)
    <3> HIDE DEF Step
    <3> QED BY <2>4
  <2> DEFINE H == {k \in 0..n : k # 0 => IsSequence(flatten[k]) /\ RangeOf(flatten[k]) = UNION {RangeOf(s[j]) : j \in 1..k}}
  <2>7. 0 \in H
    BY <1>0
  <2>8. ASSUME NEW k \in 1..n, k - 1 \in H PROVE k \in H
    <3>1. CASE k = 1
      <4>1. flatten[k] = s[1] /\ 1..1 = {1}
        BY <2>6, <3>1
      <4> QED BY <4>1, <3>1, <1>0
    <3>2. CASE k # 1
      <4>1. flatten[k] = flatten[k - 1] \o s[k]
        BY <2>6, <3>2
      <4>2. IsSequence(flatten[k - 1]) /\ RangeOf(flatten[k - 1]) = UNION {RangeOf(s[j]) : j \in 1..(k - 1)}
        BY <2>8, <3>2, <1>0
      <4>3. IsSequence(flatten[k]) /\ RangeOf(flatten[k]) = RangeOf(flatten[k - 1]) \cup RangeOf(s[k])
        BY <4>1, <4>2, <1>0, Joined
      <4>4. 1..k = 1..(k - 1) \cup {k}
        BY <1>0
      <4>5. UNION {RangeOf(s[j]) : j \in 1..k} = (UNION {RangeOf(s[j]) : j \in 1..(k - 1)}) \cup RangeOf(s[k])
        BY <4>4
      <4> QED BY <4>2, <4>3, <4>5, <1>0
    <3> QED BY <3>1, <3>2
  <2> HIDE DEF H
  <2>9. n \in H
    BY <1>0, <2>7, <2>8, Upward
  <2> QED BY <1>0, <1>2, <2>5, <2>9 DEF H
<1> QED BY <1>1, <1>2

\* Insert: a key is one of the map's or of a pair's, and has the value it had or
\* the value of a pair with that key.
LEMMA Inserted ==
  ASSUME NEW map, NEW pairs, IsSequence(pairs)
  PROVE  /\ \A key : key \in DOMAIN Insert(map, pairs) <=> key \in DOMAIN map \/ \E p \in RangeOf(pairs) : p[1] = key
         /\ \A key \in DOMAIN Insert(map, pairs) :
              \/ key \in DOMAIN map /\ Insert(map, pairs)[key] = map[key]
              \/ \E p \in RangeOf(pairs) : p[1] = key /\ Insert(map, pairs)[key] = p[2]
<1> DEFINE at(key) == {k \in DOMAIN pairs : pairs[k][1] = key}
           keys == DOMAIN map \cup {p[1] : p \in RangeOf(pairs)}
           val(key) == IF at(key) = {} THEN map[key] ELSE pairs[Max(at(key))][2]
<1>1. Insert(map, pairs) = [key \in keys |-> val(key)]
  BY DEF Insert
<1>2. ASSUME NEW key \in keys
      PROVE  \/ key \in DOMAIN map /\ val(key) = map[key]
             \/ \E p \in RangeOf(pairs) : p[1] = key /\ val(key) = p[2]
  <2>1. CASE at(key) = {}
    <3>1. ASSUME NEW p \in RangeOf(pairs) PROVE p[1] # key
      BY <2>1 DEF RangeOf
    <3> QED BY <2>1, <3>1
  <2>2. CASE at(key) # {}
    <3>1. Len(pairs) \in Nat /\ at(key) \subseteq 1..Len(pairs)
      BY SequenceIs
    <3> HIDE DEF at
    <3>2. Max(at(key)) \in at(key)
      BY <2>2, <3>1, MaxIs
    <3> QED BY <2>2, <3>2 DEF at, RangeOf
  <2> QED BY <2>1, <2>2
<1> HIDE DEF val, keys
<1>3. DOMAIN Insert(map, pairs) = keys /\ \A key \in keys : Insert(map, pairs)[key] = val(key)
  BY <1>1
<1> QED BY <1>2, <1>3 DEF keys

\* A key of the map that no pair has keeps its value.
LEMMA InsertedElsewhere ==
  ASSUME NEW map, NEW pairs, IsSequence(pairs), NEW key \in DOMAIN map, \A p \in RangeOf(pairs) : p[1] # key
  PROVE  Insert(map, pairs)[key] = map[key]
BY Inserted

\* Of the pairs with a key the last one counts.
LEMMA InsertedLast ==
  ASSUME NEW map, NEW pairs, IsSequence(pairs), NEW n \in 1..Len(pairs),
         \A k \in 1..Len(pairs) : pairs[k][1] = pairs[n][1] => k =< n
  PROVE  Insert(map, pairs)[pairs[n][1]] = pairs[n][2]
<1> DEFINE at == {k \in DOMAIN pairs : pairs[k][1] = pairs[n][1]}
<1>1. Len(pairs) \in Nat /\ DOMAIN pairs = 1..Len(pairs)
  BY SequenceIs
<1>2. n \in at /\ at \subseteq 1..Len(pairs) /\ \A k \in at : k =< n
  BY <1>1
<1>3. pairs[n][1] \in DOMAIN map \cup {p[1] : p \in RangeOf(pairs)}
  BY <1>1 DEF RangeOf
<1>4. Insert(map, pairs)[pairs[n][1]] = IF at = {} THEN map[pairs[n][1]] ELSE pairs[Max(at)][2]
  BY <1>3 DEF Insert
<1> HIDE DEF at
<1>5. Max(at) \in at /\ Max(at) >= n
  BY <1>1, <1>2, MaxIs
<1>6. Max(at) = n
  <2>1. Max(at) \in 1..Len(pairs) /\ Max(at) =< n
    BY <1>2, <1>5
  <2> QED BY <2>1, <1>1, <1>5
<1> QED BY <1>2, <1>4, <1>6

\* SetToSeq lists the elements of a finite set.
LEMMA Listed ==
  ASSUME NEW S, IsFiniteSet(S)
  PROVE  IsSequence(SetToSeq(S)) /\ RangeOf(SetToSeq(S)) \subseteq S
<1> DEFINE n == Cardinality(S)
<1>1. n \in Nat
  BY FS_CardinalityType
<1>2. PICK f : f \in Bijection(1..n, S)
  BY FS_CardinalityType DEF ExistsBijection
<1>3. f \in [1..n -> S] /\ IsInjective(f)
  BY <1>2 DEF Bijection, Injection, IsInjective
<1> HIDE DEF n
<1>4. SetToSeq(S) \in [1..n -> S]
  BY <1>3 DEF SetToSeq, n
<1>5. SetToSeq(S) \in Seq(S)
  BY <1>1, <1>4
<1> QED BY <1>5, ElementsIn

-----------------------------------------------------------------------------
(* The builder.                                                            *)

\* Nothing that one builder holds is lost in the other.
Grows(b, c) ==
  /\ DOMAIN b.types \subseteq DOMAIN c.types /\ b.plans \subseteq c.plans
  /\ RangeOf(b.query) \subseteq RangeOf(c.query) /\ RangeOf(b.mutation) \subseteq RangeOf(c.mutation)
  /\ b.panicked => c.panicked
\* A builder after some step, all of which still comes from these classes.
Extends(b, c, oids) == IsBuilder(c) /\ ComesFrom(c, oids) /\ Grows(b, c)

\* Steps that extend the builder one after the other extend it.
LEMMA ExtendsTwice ==
  ASSUME NEW oids, NEW b, NEW c, NEW d, Extends(b, c, oids), Extends(c, d, oids)
  PROVE  Extends(b, d, oids)
BY DEF Extends, Grows

\* A call registers a type of that name.
Names(call, name) == call.do = "register_type" /\ call.name = name

\* What an extension's call left in the builder is still there after it grew.
LEMMA StillHeard ==
  ASSUME NEW b, NEW c, Grows(b, c), NEW hook, NEW call, Heard(b, hook, call),
         call.do \in {"register_type", "plan_field", "query_field", "mutation_field"}
  PROVE  Heard(c, hook, call)
BY DEF Grows, Heard

\* Types registered by name: the earlier names stay and the new ones are added.
LEMMA Registered ==
  ASSUME NEW oids, NEW b, IsBuilder(b), ComesFrom(b, oids),
         NEW defs, IsSequence(defs), \A p \in RangeOf(defs) : From(p[2], oids)
  PROVE  /\ Extends(b, register(b, defs), oids)
         /\ \A t : t \in DOMAIN register(b, defs).types <=> t \in DOMAIN b.types \/ \E p \in RangeOf(defs) : p[1] = t
         /\ register(b, defs).types = Insert(b.types, defs)
         /\ register(b, defs).query = b.query /\ register(b, defs).mutation = b.mutation
         /\ register(b, defs).panicked = b.panicked
<1> DEFINE c == register(b, defs)
           types == Insert(b.types, defs)
<1>1. /\ \A t : t \in DOMAIN types <=> t \in DOMAIN b.types \/ \E p \in RangeOf(defs) : p[1] = t
      /\ \A t \in DOMAIN types : \/ t \in DOMAIN b.types /\ types[t] = b.types[t]
                                 \/ \E p \in RangeOf(defs) : p[1] = t /\ types[t] = p[2]
  BY Inserted
<1> HIDE DEF types
<1>2. c = [types |-> types, query |-> b.query, mutation |-> b.mutation,
           loaders |-> b.loaders, plans |-> b.plans, panicked |-> b.panicked]
  BY DEF register, IsBuilder, types
<1> HIDE DEF c
<1>3. /\ c.types = types /\ c.query = b.query /\ c.mutation = b.mutation
      /\ c.loaders = b.loaders /\ c.plans = b.plans /\ c.panicked = b.panicked
  BY <1>2
<1>4. IsBuilder(c)
  BY <1>2, <1>3 DEF IsBuilder
<1>5. \A t \in DOMAIN types : From(types[t], oids)
  BY <1>1 DEF ComesFrom
<1>6. ComesFrom(c, oids)
  BY <1>3, <1>5 DEF ComesFrom
<1>7. Grows(b, c)
  BY <1>1, <1>3 DEF Grows
<1> QED BY <1>1, <1>3, <1>4, <1>6, <1>7 DEF Extends, c, types

\* Fields added to a root: the earlier ones stay and the new ones are added.
LEMMA RootFields ==
  ASSUME NEW oids, NEW b, IsBuilder(b), ComesFrom(b, oids), NEW root \in {"query", "mutation"},
         NEW fields, IsSequence(fields), \A f \in RangeOf(fields) : f.of \in oids
  PROVE  /\ Extends(b, root_fields(b, root, fields), oids)
         /\ RangeOf(fields) \subseteq RangeOf(root_fields(b, root, fields)[root])
         /\ root_fields(b, root, fields).types = b.types
<1> DEFINE c == root_fields(b, root, fields)
           all == b[root] \o fields
<1>1. IsSequence(b[root]) /\ \A f \in RangeOf(b[root]) : f.of \in oids
  BY DEF IsBuilder, ComesFrom
<1>2. IsSequence(all) /\ RangeOf(all) = RangeOf(b[root]) \cup RangeOf(fields)
  BY <1>1, Joined
<1> DEFINE bad == Twice(all)
<1>3. bad \in BOOLEAN
  BY DEF Twice
<1>4. /\ c.types = b.types /\ c.loaders = b.loaders /\ c.plans = b.plans /\ c.panicked = (b.panicked \/ bad)
      /\ c.query = (IF root = "query" THEN all ELSE b.query)
      /\ c.mutation = (IF root = "mutation" THEN all ELSE b.mutation)
      /\ c = [types |-> c.types, query |-> c.query, mutation |-> c.mutation,
              loaders |-> c.loaders, plans |-> c.plans, panicked |-> c.panicked]
  <2> HIDE DEF all, bad
  <2>1. c = [b EXCEPT ![root] = all, !["panicked"] = b.panicked \/ bad]
    BY DEF root_fields, all, bad, IsBuilder
  <2> HIDE DEF c
  <2> QED BY <2>1 DEF IsBuilder
<1> HIDE DEF c, all, bad
<1>5. IsBuilder(c)
  BY <1>2, <1>3, <1>4 DEF IsBuilder
<1>6. ComesFrom(c, oids)
  BY <1>1, <1>2, <1>4 DEF ComesFrom
<1>7. Grows(b, c)
  BY <1>1, <1>2, <1>4 DEF Grows
<1>8. RangeOf(fields) \subseteq RangeOf(c[root])
  BY <1>2, <1>4
<1> QED BY <1>4, <1>5, <1>6, <1>7, <1>8 DEF Extends, c

-----------------------------------------------------------------------------
(* Extensions.                                                             *)

\* A call that an extension may make: what it adds comes from no relation.
GoodCall(call) ==
  \/ call.do = "register_type" /\ From(call.def, {0})
  \/ call.do = "plan_field"
  \/ call.do \in {"query_field", "mutation_field"} /\ call.field.of = 0

\* run_extension_phase makes the calls of every extension and no others.
LEMMA CallsAre ==
  ASSUME extensions \in Extensions, NEW hook \in Hooks
  PROVE  /\ IsSequence(HookCalls(hook))
         /\ \A call \in RangeOf(HookCalls(hook)) : GoodCall(call)
         /\ \A e \in RangeOf(extensions) : \A call \in RangeOf(e[hook]) : call \in RangeOf(HookCalls(hook))
<1> DEFINE lists == [k \in DOMAIN extensions |-> extensions[k][hook]]
<1>1. /\ IsSequence(extensions)
      /\ \A e \in RangeOf(extensions) : IsSequence(e[hook]) /\ \A call \in RangeOf(e[hook]) : GoodCall(call)
  BY ExtensionsAssumption DEF GoodCall
<1>2. Len(extensions) \in Nat /\ DOMAIN extensions = 1..Len(extensions)
  BY <1>1, SequenceIs
<1>3. lists = [k \in 1..Len(extensions) |-> lists[k]] /\ DOMAIN lists = DOMAIN extensions
  BY <1>2
<1>4. IsSequence(lists)
  <2> HIDE DEF lists
  <2> QED BY <1>2, <1>3, SequenceOf
<1>5. \A k \in DOMAIN lists : extensions[k] \in RangeOf(extensions) /\ lists[k] = extensions[k][hook]
  BY DEF RangeOf
<1>6. HookCalls(hook) = FlattenSeq(lists)
  BY DEF HookCalls
<1> HIDE DEF lists
<1>7. IsSequence(HookCalls(hook)) /\ RangeOf(HookCalls(hook)) = UNION {RangeOf(lists[k]) : k \in DOMAIN lists}
  BY <1>1, <1>4, <1>5, <1>6, Flattened
<1>8. ASSUME NEW call \in RangeOf(HookCalls(hook)) PROVE GoodCall(call)
  <2>1. PICK k \in DOMAIN lists : call \in RangeOf(lists[k])
    BY <1>7
  <2> QED BY <2>1, <1>1, <1>5
<1>9. ASSUME NEW e \in RangeOf(extensions), NEW call \in RangeOf(e[hook])
      PROVE  call \in RangeOf(HookCalls(hook))
  <2>1. PICK k \in DOMAIN lists : e = extensions[k]
    BY <1>3 DEF RangeOf
  <2> QED BY <2>1, <1>5, <1>7
<1> QED BY <1>7, <1>8, <1>9

\* One call of an extension: it leaves what it adds, or the build panics.
LEMMA ContextCall ==
  ASSUME NEW oids, 0 \in oids, NEW b, IsBuilder(b), ComesFrom(b, oids),
         NEW hook \in Hooks, NEW call, GoodCall(call)
  PROVE  /\ Extends(b, context_call(b, hook, call), oids)
         /\ ~context_call(b, hook, call).panicked => Heard(context_call(b, hook, call), hook, call)
         /\ \A t \in DOMAIN b.types : context_call(b, hook, call).types[t] = b.types[t] \/ Names(call, t)
         /\ call.do = "register_type" => context_call(b, hook, call).types[call.name] = call.def
<1> DEFINE c == context_call(b, hook, call)
<1>1. CASE call.do = "register_type"
  <2> DEFINE pair == <<call.name, call.def>>
             defs == <<pair>>
  <2>1. c = register(b, defs)
    BY <1>1 DEF context_call
  <2>2. pair[1] = call.name /\ pair[2] = call.def
    OBVIOUS
  <2> HIDE DEF pair
  <2>3. IsSequence(defs) /\ RangeOf(defs) = {pair}
    BY Short
  <2> HIDE DEF c, defs
  <2>4. \A p \in RangeOf(defs) : From(p[2], oids)
    BY <1>1, <2>2, <2>3 DEF GoodCall, From
  <2>5. Extends(b, c, oids) /\ call.name \in DOMAIN c.types /\ c.types = Insert(b.types, defs)
    BY <2>1, <2>2, <2>3, <2>4, Registered
  <2>6. \A t \in DOMAIN b.types : c.types[t] = b.types[t] \/ t = call.name
    BY <2>2, <2>3, <2>5, InsertedElsewhere
  <2>7. Len(defs) = 1 /\ defs[1] = pair
    BY DEF defs
  <2>8. Insert(b.types, defs)[defs[1][1]] = defs[1][2]
    <3>1. 1 \in 1..Len(defs) /\ \A k \in 1..Len(defs) : k =< 1
      BY <2>7
    <3> QED BY <2>3, <3>1, InsertedLast
  <2> QED BY <1>1, <2>2, <2>5, <2>6, <2>7, <2>8 DEF Heard, Names, c
<1>2. CASE call.do = "plan_field"
  <2>1. c = [b EXCEPT !.plans = b.plans \cup {call.name}]
    BY <1>2 DEF context_call, IsBuilder
  <2> HIDE DEF c
  <2>2. /\ c = [types |-> b.types, query |-> b.query, mutation |-> b.mutation,
                loaders |-> b.loaders, plans |-> c.plans, panicked |-> b.panicked]
        /\ c.plans = b.plans \cup {call.name}
    BY <2>1 DEF IsBuilder
  <2>3. /\ c.types = b.types /\ c.query = b.query /\ c.mutation = b.mutation
        /\ c.loaders = b.loaders /\ c.panicked = b.panicked
    BY <2>2
  <2>4. IsBuilder(c)
    BY <2>2, <2>3 DEF IsBuilder
  <2>5. ComesFrom(c, oids) /\ Grows(b, c)
    BY <2>2, <2>3 DEF ComesFrom, Grows
  <2> QED BY <1>2, <2>2, <2>3, <2>4, <2>5 DEF Heard, Extends, c
<1>3. CASE call.do \in {"query_field", "mutation_field"} /\ hook = PhaseOf[call.do]
  <2> DEFINE root == RootOf[call.do]
  <2>1. c = root_fields(b, root, <<call.field>>)
    BY <1>3 DEF context_call
  <2>2. root \in {"query", "mutation"} /\ (call.do = "query_field" => root = "query") /\ (call.do = "mutation_field" => root = "mutation")
    BY <1>3 DEF RootOf
  <2>3. IsSequence(<<call.field>>) /\ RangeOf(<<call.field>>) = {call.field}
    BY Short
  <2> HIDE DEF root, c
  <2>4. Extends(b, c, oids) /\ call.field \in RangeOf(c[root]) /\ c.types = b.types
    BY <1>3, <2>1, <2>2, <2>3, RootFields DEF GoodCall
  <2>5. CASE call.do = "query_field"
    <3>1. hook = "extend_query" /\ root = "query"
      BY <1>3, <2>2, <2>5 DEF PhaseOf
    <3>2. Heard(c, hook, call)
      BY <2>4, <2>5, <3>1 DEF Heard
    <3> QED BY <2>4, <2>5, <3>2 DEF c
  <2>6. CASE call.do = "mutation_field"
    <3>1. hook = "extend_mutation" /\ root = "mutation"
      BY <1>3, <2>2, <2>6 DEF PhaseOf
    <3>2. Heard(c, hook, call)
      BY <2>4, <2>6, <3>1 DEF Heard
    <3> QED BY <2>4, <2>6, <3>2 DEF c
  <2> QED BY <1>3, <2>5, <2>6
<1>4. CASE call.do \in {"query_field", "mutation_field"} /\ hook # PhaseOf[call.do]
  <2>1. c = [b EXCEPT !.panicked = TRUE]
    BY <1>4 DEF context_call
  <2> HIDE DEF c
  <2>2. c = [types |-> b.types, query |-> b.query, mutation |-> b.mutation,
             loaders |-> b.loaders, plans |-> b.plans, panicked |-> TRUE]
    BY <2>1 DEF IsBuilder
  <2>3. /\ c.types = b.types /\ c.query = b.query /\ c.mutation = b.mutation
        /\ c.loaders = b.loaders /\ c.plans = b.plans /\ c.panicked = TRUE
    BY <2>2
  <2>4. IsBuilder(c)
    BY <2>2, <2>3 DEF IsBuilder
  <2>5. ComesFrom(c, oids) /\ Grows(b, c)
    BY <2>3 DEF ComesFrom, Grows
  <2> QED BY <1>4, <2>3, <2>4, <2>5 DEF Extends, c
<1> QED BY <1>1, <1>2, <1>3, <1>4 DEF GoodCall

\* A hook of all the extensions: each call leaves what it adds, whatever is
\* called after it, or the build panics; of the types registered with one name
\* the last is kept, and no other type changes.
LEMMA ExtensionPhase ==
  ASSUME extensions \in Extensions, NEW hook \in Hooks,
         NEW oids, 0 \in oids, NEW b, IsBuilder(b), ComesFrom(b, oids)
  PROVE  LET c == run_extension_phase(b, hook)
         IN  /\ Extends(b, c, oids)
             /\ ~c.panicked => \A e \in RangeOf(extensions) : \A call \in RangeOf(e[hook]) : Heard(c, hook, call)
             /\ \A t \in DOMAIN b.types : c.types[t] = b.types[t] \/ \E j \in DOMAIN HookCalls(hook) : Names(HookCalls(hook)[j], t)
             /\ \A j \in DOMAIN HookCalls(hook) : HookCalls(hook)[j].do = "register_type" =>
                  /\ HookCalls(hook)[j].name \in DOMAIN c.types
                  /\ \/ c.types[HookCalls(hook)[j].name] = HookCalls(hook)[j].def
                     \/ \E i \in DOMAIN HookCalls(hook) : j < i /\ Names(HookCalls(hook)[i], HookCalls(hook)[j].name)
<1> DEFINE calls == HookCalls(hook)
           n == Len(calls)
           Step(g, k) == IF k = 0 THEN b ELSE context_call(g[k - 1], hook, calls[k])
           Sol(g, m) == g = [k \in 0..m |-> Step(g, k)]
           G == {m \in 0..n : \E g : Sol(g, m)}
<1>a. IsSequence(calls) /\ \A call \in RangeOf(calls) : GoodCall(call)
  BY CallsAre
<1>0. n \in Nat /\ DOMAIN calls = 1..n
  BY <1>a, SequenceIs
<1> HIDE DEF n, calls
<1>1. 0 \in G
  <2> DEFINE h == [k \in 0..0 |-> b]
  <2>1. \A k \in 0..0 : h[k] = Step(h, k)
    OBVIOUS
  <2>2. Sol(h, 0)
    BY <2>1
  <2>3. \E g : Sol(g, 0)
    BY <2>2
  <2> HIDE DEF Sol
  <2> QED BY <2>3, <1>0
<1>2. ASSUME NEW m \in 1..n, m - 1 \in G PROVE m \in G
  <2>1. PICK g : Sol(g, m - 1)
    BY <1>2
  <2> DEFINE h == [k \in 0..m |-> IF k = m THEN Step(g, m) ELSE g[k]]
  <2>2. ASSUME NEW k \in 0..m PROVE h[k] = Step(h, k)
    <3>1. k # 0 => k - 1 \in 0..(m - 1) /\ h[k - 1] = g[k - 1]
      BY <1>0
    <3>2. CASE k = m
      BY <3>1, <3>2
    <3>3. CASE k # m
      <4>1. k \in 0..(m - 1)
        BY <3>3, <1>0
      <4> HIDE DEF Step
      <4>2. g[k] = Step(g, k)
        BY <2>1, <4>1
      <4>3. h[k] = g[k]
        BY <3>3
      <4>4. Step(g, k) = Step(h, k)
        BY <3>1 DEF Step
      <4> QED BY <4>2, <4>3, <4>4
    <3> QED BY <3>2, <3>3
  <2>3. Sol(h, m)
    BY <2>2
  <2>4. \E f : Sol(f, m)
    BY <2>3
  <2> HIDE DEF Sol
  <2> QED BY <2>4, <1>0
<1> HIDE DEF G
<1>3. n \in G
  BY <1>0, <1>1, <1>2, Upward
<1> DEFINE run == CHOOSE g : Sol(g, n)
<1>4. Sol(run, n)
  BY <1>3 DEF G
<1>5. run_extension_phase(b, hook) = run[n]
  BY DEF run_extension_phase, n, calls, HookCalls
<1> HIDE DEF run
<1>6. \A k \in 0..n : run[k] = Step(run, k)
  <2> HIDE DEF Step
  <2> QED BY <1>4
<1> DEFINE Good(k) == /\ Extends(b, run[k], oids)
                      /\ ~run[k].panicked => \A j \in 1..k : Heard(run[k], hook, calls[j])
                      /\ \A t \in DOMAIN b.types : run[k].types[t] = b.types[t] \/ \E j \in 1..k : Names(calls[j], t)
                      /\ \A j \in 1..k : calls[j].do = "register_type" =>
                           /\ calls[j].name \in DOMAIN run[k].types
                           /\ \/ run[k].types[calls[j].name] = calls[j].def
                              \/ \E i \in 1..k : j < i /\ Names(calls[i], calls[j].name)
           H == {k \in 0..n : Good(k)}
<1>7. 0 \in H
  <2>1. run[0] = b
    BY <1>0, <1>6
  <2> QED BY <2>1, <1>0 DEF Extends, Grows
<1>8. ASSUME NEW k \in 1..n, k - 1 \in H PROVE k \in H
  <2>1. k - 1 \in 0..n /\ Good(k - 1)
    BY <1>8
  <2>2. run[k] = context_call(run[k - 1], hook, calls[k])
    BY <1>0, <1>6
  <2>3. GoodCall(calls[k]) /\ \A j \in 1..k : GoodCall(calls[j])
    BY <1>a, <1>0 DEF RangeOf
  <2>4. /\ Extends(run[k - 1], run[k], oids) /\ (~run[k].panicked => Heard(run[k], hook, calls[k]))
        /\ \A t \in DOMAIN run[k - 1].types : run[k].types[t] = run[k - 1].types[t] \/ Names(calls[k], t)
        /\ calls[k].do = "register_type" => run[k].types[calls[k].name] = calls[k].def
    BY <2>1, <2>2, <2>3, ContextCall DEF Extends
  <2>5. Extends(b, run[k], oids)
    BY <2>1, <2>4, ExtendsTwice
  <2>6. ASSUME ~run[k].panicked, NEW j \in 1..k PROVE Heard(run[k], hook, calls[j])
    <3>1. CASE j = k
      BY <2>4, <2>6, <3>1
    <3>2. CASE j # k
      <4>1. Grows(run[k - 1], run[k]) /\ ~run[k - 1].panicked
        BY <2>4, <2>6 DEF Extends, Grows
      <4>2. Heard(run[k - 1], hook, calls[j])
        BY <2>1, <3>2, <4>1, <1>0
      <4>3. calls[j].do \in {"register_type", "plan_field", "query_field", "mutation_field"}
        BY <2>3 DEF GoodCall
      <4> QED BY <4>1, <4>2, <4>3, StillHeard
    <3> QED BY <3>1, <3>2
  <2>7. DOMAIN b.types \subseteq DOMAIN run[k - 1].types /\ DOMAIN run[k - 1].types \subseteq DOMAIN run[k].types
    BY <2>1, <2>4 DEF Extends, Grows
  <2>8. k \in 1..k /\ \A j \in 1..(k - 1) : j \in 1..k /\ j < k
    BY <1>0
  <2>9. ASSUME NEW t \in DOMAIN b.types PROVE run[k].types[t] = b.types[t] \/ \E j \in 1..k : Names(calls[j], t)
    <3>1. run[k - 1].types[t] = b.types[t] \/ \E j \in 1..(k - 1) : Names(calls[j], t)
      BY <2>1
    <3>2. run[k].types[t] = run[k - 1].types[t] \/ Names(calls[k], t)
      BY <2>4, <2>7
    <3> QED BY <2>8, <3>1, <3>2
  <2>10. ASSUME NEW j \in 1..k, calls[j].do = "register_type"
         PROVE  /\ calls[j].name \in DOMAIN run[k].types
                /\ \/ run[k].types[calls[j].name] = calls[j].def
                   \/ \E i \in 1..k : j < i /\ Names(calls[i], calls[j].name)
    <3>1. CASE j = k
      <4>1. calls[k].name \in DOMAIN run[k].types
        <5>1. context_call(run[k - 1], hook, calls[k]).types = Insert(run[k - 1].types, <<<<calls[k].name, calls[k].def>>>>)
          BY <2>1, <2>10, <3>1 DEF context_call, register, Extends, IsBuilder
        <5> QED BY <2>2, <5>1, Short, Inserted
      <4> QED BY <2>4, <2>10, <3>1, <4>1
    <3>2. CASE j # k
      <4>1. j \in 1..(k - 1)
        BY <3>2, <1>0
      <4>2. /\ calls[j].name \in DOMAIN run[k - 1].types
            /\ \/ run[k - 1].types[calls[j].name] = calls[j].def
               \/ \E i \in 1..(k - 1) : j < i /\ Names(calls[i], calls[j].name)
        BY <2>1, <2>10, <4>1
      <4>3. run[k].types[calls[j].name] = run[k - 1].types[calls[j].name] \/ Names(calls[k], calls[j].name)
        BY <2>4, <4>2
      <4> QED BY <2>7, <2>8, <4>1, <4>2, <4>3
    <3> QED BY <3>1, <3>2
  <2> QED BY <2>5, <2>6, <2>9, <2>10, <1>0
<1> HIDE DEF H
<1>9. n \in H
  BY <1>0, <1>7, <1>8, Upward
<1>10. Good(n)
  BY <1>9 DEF H
<1>11. ASSUME ~run[n].panicked, NEW e \in RangeOf(extensions), NEW call \in RangeOf(e[hook])
       PROVE  Heard(run[n], hook, call)
  <2>1. call \in RangeOf(calls)
    BY CallsAre DEF calls
  <2>2. PICK j \in 1..n : call = calls[j]
    BY <2>1, <1>0 DEF RangeOf
  <2> QED BY <2>2, <1>10, <1>11
<1> QED BY <1>0, <1>5, <1>10, <1>11 DEF calls

-----------------------------------------------------------------------------
(* Configuration.                                                          *)

\* merge: a field that is replaced and not appended to has the value of the last
\* override that sets it, or else its default.
LEMMA MergeIsSetting ==
  ASSUME overrides \in Configurations, NEW field \in DOMAIN DefaultPreset, field # "plugins"
  PROVE  merge(DefaultPreset, overrides)[field] = Setting(field)
<1> DEFINE ovs == overrides
           base == DefaultPreset
           n == Len(ovs)
           Step(g, k) == IF k = 0 THEN base ELSE merge_one(g[k - 1], ovs[k])
           Sol(g, m) == g = [k \in 0..m |-> Step(g, k)]
           G == {m \in 0..n : \E g : Sol(g, m)}
<1>0. n \in Nat /\ DOMAIN ovs = 1..n
  BY ConfigurationsAssumption, SequenceIs
<1> HIDE DEF n, base, ovs
<1>1. 0 \in G
  <2> DEFINE h == [k \in 0..0 |-> base]
  <2>1. \A k \in 0..0 : h[k] = Step(h, k)
    OBVIOUS
  <2>2. Sol(h, 0)
    BY <2>1
  <2>3. \E g : Sol(g, 0)
    BY <2>2
  <2> HIDE DEF Sol
  <2> QED BY <2>3, <1>0
<1>2. ASSUME NEW m \in 1..n, m - 1 \in G PROVE m \in G
  <2>1. PICK g : Sol(g, m - 1)
    BY <1>2
  <2> DEFINE h == [k \in 0..m |-> IF k = m THEN Step(g, m) ELSE g[k]]
  <2>2. ASSUME NEW k \in 0..m PROVE h[k] = Step(h, k)
    <3>1. k # 0 => k - 1 \in 0..(m - 1) /\ h[k - 1] = g[k - 1]
      BY <1>0
    <3>2. CASE k = m
      BY <3>1, <3>2
    <3>3. CASE k # m
      <4>1. k \in 0..(m - 1)
        BY <3>3, <1>0
      <4> HIDE DEF Step
      <4>2. g[k] = Step(g, k)
        BY <2>1, <4>1
      <4>3. h[k] = g[k]
        BY <3>3
      <4>4. Step(g, k) = Step(h, k)
        BY <3>1 DEF Step
      <4> QED BY <4>2, <4>3, <4>4
    <3> QED BY <3>2, <3>3
  <2>3. Sol(h, m)
    BY <2>2
  <2>4. \E f : Sol(f, m)
    BY <2>3
  <2> HIDE DEF Sol
  <2> QED BY <2>4, <1>0
<1> HIDE DEF G
<1>3. n \in G
  <2> HIDE DEF Step, Sol
  <2>1. \A k \in 1..n : k - 1 \in G => k \in G
    BY <1>2
  <2>2. \A k \in 0..n : k \in G
    BY <1>0, <1>1, <2>1, Upward
  <2> QED BY <1>0, <2>2
<1> DEFINE merged == CHOOSE g : Sol(g, n)
<1>4. Sol(merged, n)
  BY <1>3 DEF G
<1>5. merge(base, ovs) = merged[n]
  BY DEF merge, n
<1> HIDE DEF merged
<1>6. \A k \in 0..n : merged[k] = Step(merged, k)
  <2> HIDE DEF Step
  <2> QED BY <1>4
<1> DEFINE given(k) == {j \in 1..k : field \in DOMAIN ovs[j]}
           value(k) == IF given(k) = {} THEN base[field] ELSE ovs[Max(given(k))][field]
           H == {k \in 0..n : DOMAIN merged[k] = DOMAIN base /\ merged[k][field] = value(k)}
<1>7. 0 \in H
  <2>1. merged[0] = base
    BY <1>0, <1>6
  <2>2. given(0) = {}
    OBVIOUS
  <2> HIDE DEF given
  <2> QED BY <2>1, <2>2, <1>0
<1>8. ASSUME NEW k \in 1..n, k - 1 \in H PROVE k \in H
  <2>0. k \in 0..n /\ k \in Nat
    BY <1>0
  <2>1. merged[k] = merge_one(merged[k - 1], ovs[k])
    BY <1>0, <1>6
  <2>2. DOMAIN merged[k] = DOMAIN base
    BY <2>1, <1>8 DEF merge_one
  <2>3. merged[k][field] = IF field \notin DOMAIN ovs[k] THEN merged[k - 1][field] ELSE ovs[k][field]
    BY <2>1, <1>8 DEF merge_one, base
  <2>4. CASE field \in DOMAIN ovs[k]
    <3>1. k \in given(k) /\ given(k) \subseteq 1..k
      BY <2>4, <1>0
    <3> HIDE DEF given
    <3>2. Max(given(k)) \in given(k) /\ Max(given(k)) >= k
      BY <3>1, <2>0, MaxIs
    <3>3. Max(given(k)) = k
      <4>1. Max(given(k)) \in 1..k
        BY <3>1, <3>2
      <4> QED BY <4>1, <3>2, <2>0
    <3> QED BY <2>0, <2>2, <2>3, <2>4, <3>1, <3>3
  <2>5. CASE field \notin DOMAIN ovs[k]
    <3>1. given(k) = given(k - 1)
      BY <2>5, <1>0
    <3> HIDE DEF given
    <3> QED BY <2>0, <2>2, <2>3, <2>5, <3>1, <1>8
  <2> QED BY <2>4, <2>5
<1> HIDE DEF H
<1>9. n \in H
  <2> HIDE DEF Step, Sol, given, value
  <2>1. \A k \in 1..n : k - 1 \in H => k \in H
    BY <1>8
  <2>2. \A k \in 0..n : k \in H
    BY <1>0, <1>7, <2>1, Upward
  <2> QED BY <1>0, <2>2
<1>10. merged[n][field] = value(n)
  BY <1>9 DEF H
<1>11. value(n) = Setting(field)
  BY <1>0 DEF Setting, base, ovs
<1> QED BY <1>5, <1>10, <1>11 DEF base, ovs

\* The exposure that counts is one of the three kinds.
LEMMA ExposureKind ==
  ASSUME overrides \in Configurations
  PROVE  Setting("exposure").t \in {"All", "ExtensionsOnly", "Only"}
<1> DEFINE given == {k \in DOMAIN overrides : "exposure" \in DOMAIN overrides[k]}
<1>1. /\ IsSequence(overrides)
      /\ \A ov \in RangeOf(overrides) : "exposure" \in DOMAIN ov => ov.exposure.t \in {"All", "ExtensionsOnly", "Only"}
  BY ConfigurationsAssumption
<1>2. Len(overrides) \in Nat /\ DOMAIN overrides = 1..Len(overrides)
  BY <1>1, SequenceIs
<1>3. CASE given = {}
  BY <1>3 DEF Setting, DefaultPreset
<1>4. CASE given # {}
  <2>1. given \subseteq 1..Len(overrides)
    BY <1>2
  <2> HIDE DEF given
  <2>2. Max(given) \in given
    BY <1>2, <1>4, <2>1, MaxIs
  <2>3. Setting("exposure") = overrides[Max(given)].exposure
    BY <1>4 DEF Setting, given
  <2> QED BY <1>1, <2>2, <2>3 DEF given, RangeOf
<1> QED BY <1>3, <1>4

-----------------------------------------------------------------------------
(* Introspection.                                                          *)

\* A query returns rows of the catalog it runs on; a column's number is positive.
LEMMA Fetched ==
  ASSUME NEW cat, SoundCatalog(cat), NEW q \in Queries, NEW schemas
  PROVE  /\ IsSequence(fetch(q, cat, schemas)) /\ RangeOf(fetch(q, cat, schemas)) \subseteq RangeOf(cat[q])
         /\ q = "attributes" => \A a \in RangeOf(fetch(q, cat, schemas)) : a.num > 0
<1> DEFINE rows == {row \in RangeOf(cat[q]) :
             CASE q = "namespaces" -> row.name \in schemas
               [] q \in {"classes", "types"} -> row.schema_oid \in SchemaOids(cat, schemas)
               [] q = "attributes" -> row.class_oid \in ClassOids(cat, schemas) /\ row.num > 0
               [] q = "constraints" -> row.class_oid \in ClassOids(cat, schemas)
               [] q = "enums" -> row.type_oid \in TypeOids(cat, schemas)
               [] q = "descriptions" -> row.obj_oid \in ClassOids(cat, schemas) \cup TypeOids(cat, schemas)}
<1>1. fetch(q, cat, schemas) = Keep(cat[q], rows)
  BY DEF fetch
<1>2. q = "attributes" => \A row \in rows : row.num > 0
  OBVIOUS
<1>3. IsSequence(cat[q])
  BY DEF SoundCatalog
<1> HIDE DEF rows
<1>4. IsSequence(Keep(cat[q], rows)) /\ RangeOf(Keep(cat[q], rows)) = RangeOf(cat[q]) \cap rows
  BY <1>3, Kept
<1> QED BY <1>1, <1>2, <1>4

\* Whatever moments the queries ran at, the rows together keep what one catalog
\* guarantees of each query's rows.
LEMMA IntrospectionSound ==
  ASSUME catalogs \in Migrations, NEW at \in [Queries -> DOMAIN catalogs], NEW schemas, NEW intro,
         intro = [q \in Queries |-> fetch(q, catalogs[at[q]], schemas)]
  PROVE  SoundCatalog(intro) /\ \A a \in RangeOf(intro["attributes"]) : a.num > 0
<1>1. \A q \in Queries : SoundCatalog(catalogs[at[q]])
  BY MigrationsAssumption
<1>2. ASSUME NEW q \in Queries
      PROVE  /\ IsSequence(intro[q]) /\ RangeOf(intro[q]) \subseteq RangeOf(catalogs[at[q]][q])
             /\ q = "attributes" => \A a \in RangeOf(intro[q]) : a.num > 0
  BY <1>1, Fetched
<1>3. \A m, n \in RangeOf(intro["namespaces"]) : m.oid = n.oid => m = n
  BY <1>1, <1>2 DEF SoundCatalog, Queries
<1>4. \A c, d \in RangeOf(intro["classes"]) : c.oid = d.oid => c = d
  BY <1>1, <1>2 DEF SoundCatalog, Queries
<1>5. \A c \in RangeOf(intro["constraints"]) : c.kind = "ForeignKey" => c.foreign_attrs # <<>>
  BY <1>1, <1>2 DEF SoundCatalog, Queries
<1>6. \A a \in RangeOf(intro["attributes"]) : a.num > 0
  BY <1>2 DEF Queries
<1> QED BY <1>2, <1>3, <1>4, <1>5, <1>6 DEF SoundCatalog

-----------------------------------------------------------------------------
(* What gather makes of the catalog.                                       *)

\* The schemas and relations that gather publishes.
SchemasSeen == {n.oid : n \in {m \in RangeOf(introspection.namespaces) : m.name \in preset.pg_schemas}}
Exposed ==
  {c \in RangeOf(introspection.classes) :
    /\ c.kind \in {"Table", "View"} /\ c.schema_oid \in SchemasSeen
    /\ allows(preset.exposure, SchemaName(introspection, c.schema_oid)[1], c.name)}
ExposedList == Keep(introspection.classes, Exposed)

\* What the state holds once gather ran.
AfterGather ==
  /\ SoundCatalog(introspection) /\ \A a \in RangeOf(introspection["attributes"]) : a.num > 0
  /\ overrides \in Configurations
  /\ preset["pg_schemas"] = Setting("pg_schemas") /\ preset["exposure"] = Setting("exposure")
  /\ registry = from_introspection(introspection) /\ gathered = gather_output(introspection, preset)

\* The name of a schema that was seen.
LEMMA SchemaNameIs ==
  ASSUME SoundCatalog(introspection), NEW n \in RangeOf(introspection.namespaces)
  PROVE  SchemaName(introspection, n.oid) = <<n.name>>
<1> DEFINE ns == {m \in RangeOf(introspection.namespaces) : m.oid = n.oid}
<1>1. \A m \in ns : m = n
  BY DEF SoundCatalog
<1>2. n \in ns
  OBVIOUS
<1> HIDE DEF ns
<1>3. (CHOOSE m \in ns : TRUE) = n
  BY <1>1, <1>2
<1> QED BY <1>2, <1>3 DEF SchemaName, ns

\* The relations that gather publishes are those that the configuration says.
LEMMA ExposedIsPublished ==
  ASSUME AfterGather, NEW c \in RangeOf(introspection.classes)
  PROVE  c \in Exposed <=> Published(c.oid)
<1>0. /\ SoundCatalog(introspection)
      /\ \A d \in RangeOf(introspection.classes) : d.oid = c.oid => d = c
  BY DEF AfterGather, SoundCatalog
<1> DEFINE ns == RangeOf(introspection.namespaces)
           ex == Setting("exposure")
           says(name) == CASE ex.t = "All" -> TRUE
                           [] ex.t = "ExtensionsOnly" -> FALSE
                           [] ex.t = "Only" -> <<name, c.name>> \in ex.names
<1>1. Published(c.oid) <=> \E n \in ns : /\ n.oid = c.schema_oid /\ c.kind \in {"Table", "View"}
                                         /\ n.name \in Setting("pg_schemas") /\ says(n.name)
  BY <1>0 DEF Published
<1>2. \A name : allows(preset.exposure, name, c.name) <=> says(name)
  <2>1. ex.t \in {"All", "ExtensionsOnly", "Only"} /\ preset.exposure = ex
    BY ExposureKind DEF AfterGather
  <2> SUFFICES ASSUME NEW name PROVE allows(ex, name, c.name) <=> says(name)
    BY <2>1
  <2> HIDE DEF ex
  <2>2. CASE ex.t = "All"
    BY <2>2 DEF allows
  <2>3. CASE ex.t = "ExtensionsOnly"
    BY <2>3 DEF allows
  <2>4. CASE ex.t = "Only"
    BY <2>4 DEF allows
  <2> QED BY <2>1, <2>2, <2>3, <2>4
<1> HIDE DEF says
<1>3. c.schema_oid \in SchemasSeen <=> \E n \in ns : n.oid = c.schema_oid /\ n.name \in Setting("pg_schemas")
  BY DEF SchemasSeen, AfterGather
<1>4. \A n \in ns : n.oid = c.schema_oid => SchemaName(introspection, c.schema_oid) = <<n.name>>
  BY <1>0, SchemaNameIs
<1>5. c \in Exposed => Published(c.oid)
  <2> SUFFICES ASSUME c \in Exposed PROVE Published(c.oid)
    OBVIOUS
  <2>1. PICK n \in ns : n.oid = c.schema_oid /\ n.name \in Setting("pg_schemas")
    BY <1>3 DEF Exposed
  <2>2. SchemaName(introspection, c.schema_oid)[1] = n.name
    BY <1>4, <2>1
  <2> QED BY <1>1, <1>2, <2>1, <2>2 DEF Exposed
<1>6. Published(c.oid) => c \in Exposed
  <2> SUFFICES ASSUME Published(c.oid) PROVE c \in Exposed
    OBVIOUS
  <2>1. PICK n \in ns : /\ n.oid = c.schema_oid /\ c.kind \in {"Table", "View"}
                        /\ n.name \in Setting("pg_schemas") /\ says(n.name)
    BY <1>1
  <2>2. SchemaName(introspection, c.schema_oid)[1] = n.name
    BY <1>4, <2>1
  <2> QED BY <1>2, <1>3, <2>1, <2>2 DEF Exposed
<1> QED BY <1>5, <1>6

\* gather makes one resource of each relation that it publishes.
LEMMA ResourcesAre ==
  ASSUME AfterGather
  PROVE  /\ IsSequence(gathered.resources)
         /\ \A r \in RangeOf(gathered.resources) : \E c \in Exposed : r = build_resource(introspection, c)
         /\ \A c \in Exposed : build_resource(introspection, c) \in RangeOf(gathered.resources)
         /\ gathered.resources = [k \in DOMAIN ExposedList |-> build_resource(introspection, ExposedList[k])]
<1>1. gathered.resources = [k \in DOMAIN ExposedList |-> build_resource(introspection, ExposedList[k])]
  BY DEF AfterGather, gather_output, ExposedList, Exposed, SchemasSeen
<1>2. IsSequence(ExposedList) /\ RangeOf(ExposedList) = Exposed
  <2>1. IsSequence(introspection.classes)
    BY DEF AfterGather, SoundCatalog, Queries
  <2>2. Exposed \subseteq RangeOf(introspection.classes)
    BY DEF Exposed
  <2> QED BY <2>1, <2>2, Kept DEF ExposedList
<1>3. Len(ExposedList) \in Nat /\ DOMAIN ExposedList = 1..Len(ExposedList)
  BY <1>2, SequenceIs
<1>4. IsSequence(gathered.resources)
  <2>1. gathered.resources = [k \in 1..Len(ExposedList) |-> gathered.resources[k]]
    BY <1>1, <1>3
  <2> QED BY <2>1, <1>3, SequenceOf
<1>5. DOMAIN gathered.resources = DOMAIN ExposedList /\ \A k \in DOMAIN ExposedList : gathered.resources[k] = build_resource(introspection, ExposedList[k])
  BY <1>1
<1> QED BY <1>1, <1>2, <1>4, <1>5 DEF RangeOf

\* A resource knows its class, and has finitely many columns.
LEMMA ResourceIs ==
  ASSUME AfterGather, NEW c
  PROVE  /\ build_resource(introspection, c).class_oid = c.oid /\ IsFiniteSet(build_resource(introspection, c).columns)
         /\ build_resource(introspection, c).kind = IF c.kind = "Table" THEN "Table" ELSE "View"
<1> DEFINE attrs == {a \in RangeOf(introspection.attributes) : a.class_oid = c.oid /\ a.num > 0}
           column(a) == [pg_name |-> a.name, gql_type |-> pg_oid_to_gql_type(a.type_oid)]
           columns == {column(a) : a \in attrs}
<1>1. IsFiniteSet(attrs)
  <2>1. IsSequence(introspection.attributes)
    BY DEF AfterGather, SoundCatalog, Queries
  <2>2. IsFiniteSet(RangeOf(introspection.attributes))
    BY <2>1, SequenceIs
  <2> QED BY <2>2, FS_Subset
<1>2. build_resource(introspection, c).columns = columns
  BY DEF build_resource
<1>3. IsFiniteSet(columns)
  <2> DEFINE f == [a \in attrs |-> column(a)]
  <2>1. f \in Surjection(attrs, columns)
    BY DEF Surjection
  <2> HIDE DEF f, attrs, columns
  <2> QED BY <2>1, <1>1, FS_Surjection
<1> QED BY <1>2, <1>3 DEF build_resource

\* A class that became a resource, and the references between two of those.
Found(oid) == \E r \in RangeOf(gathered.resources) : r.class_oid = oid
KeptRefs == {c \in References : Found(c.class_oid) /\ Found(c.foreign)}
RelationOf(c) ==
  [source_resource |-> ResourceOf(c.class_oid).name, source_columns |-> ColumnNames(introspection, c.class_oid, c.key_attrs),
   target_resource |-> ResourceOf(c.foreign).name, target_columns |-> ColumnNames(introspection, c.foreign, c.foreign_attrs),
   is_unique |-> is_unique(ResourceOf(c.class_oid), ColumnNames(introspection, c.class_oid, c.key_attrs))]

\* A class that became a resource is in a schema that was asked for.
LEMMA FoundIsExposed ==
  ASSUME AfterGather, NEW oid, Found(oid)
  PROVE  /\ \E c \in Exposed : c.oid = oid
         /\ ResourceOf(oid) \in RangeOf(gathered.resources) /\ ResourceOf(oid).class_oid = oid
<1>1. PICK r \in RangeOf(gathered.resources) : r.class_oid = oid
  BY DEF Found
<1>2. PICK c \in Exposed : r = build_resource(introspection, c)
  BY <1>1, ResourcesAre
<1>3. c.oid = oid
  BY <1>1, <1>2, ResourceIs
<1>4. ResourceOf(oid) \in RangeOf(gathered.resources) /\ ResourceOf(oid).class_oid = oid
  BY <1>1 DEF ResourceOf
<1> QED BY <1>3, <1>4

\* build_relations makes a relation of each reference between two resources.
LEMMA RelationsAre ==
  ASSUME AfterGather
  PROVE  /\ IsSequence(gathered.relations)
         /\ \A rel \in RangeOf(gathered.relations) : \E c \in KeptRefs : rel = RelationOf(c)
         /\ \A c \in KeptRefs : RelationOf(c) \in RangeOf(gathered.relations)
<1> DEFINE cons == introspection.constraints
           class_schema(oid) == {c.schema_oid : c \in {d \in RangeOf(introspection.classes) : d.oid = oid}}
           keep == {c \in RangeOf(cons) :
                     /\ c.kind = "ForeignKey" /\ c.foreign_attrs # <<>>
                     /\ \E s \in class_schema(c.class_oid), t \in class_schema(c.foreign) : {s, t} \subseteq SchemasSeen
                     /\ Found(c.class_oid) /\ Found(c.foreign)}
           list == Keep(cons, keep)
<1>0. IsSequence(cons)
  BY DEF AfterGather, SoundCatalog, Queries
<1>1. gathered.relations = [k \in DOMAIN list |-> RelationOf(list[k])]
  <2>1. gathered.resources = gather_output(introspection, preset).resources /\ gathered.relations = gather_output(introspection, preset).relations
    BY DEF AfterGather
  <2>2. gather_output(introspection, preset).relations = build_relations(introspection, SchemasSeen, gather_output(introspection, preset).resources)
    BY DEF gather_output, SchemasSeen
  <2>3. gathered.relations = build_relations(introspection, SchemasSeen, gathered.resources)
    BY <2>1, <2>2
  <2> QED BY <2>3 DEF build_relations, Found, RelationOf, ResourceOf
<1>2. keep = KeptRefs
  <2>1. ASSUME NEW oid, Found(oid)
        PROVE  \E s \in class_schema(oid) : s \in SchemasSeen
    <3>1. PICK c \in Exposed : c.oid = oid
      BY <2>1, FoundIsExposed
    <3> QED BY <3>1 DEF Exposed
  <2>2. \A c \in RangeOf(cons) : c.kind = "ForeignKey" => c.foreign_attrs # <<>>
    BY DEF AfterGather, SoundCatalog
  <2>3. ASSUME NEW c \in KeptRefs PROVE c \in keep
    <3>1. c \in RangeOf(cons) /\ c.kind = "ForeignKey" /\ Found(c.class_oid) /\ Found(c.foreign)
      BY DEF KeptRefs, References
    <3>2. PICK s \in class_schema(c.class_oid) : s \in SchemasSeen
      BY <2>1, <3>1
    <3>3. PICK t \in class_schema(c.foreign) : t \in SchemasSeen
      BY <2>1, <3>1
    <3> HIDE DEF class_schema
    <3> QED BY <2>2, <3>1, <3>2, <3>3
  <2>4. ASSUME NEW c \in keep PROVE c \in KeptRefs
    BY DEF KeptRefs, References
  <2> HIDE DEF keep
  <2> QED BY <2>3, <2>4
<1> HIDE DEF keep
<1>3. IsSequence(list) /\ RangeOf(list) = KeptRefs
  <2>1. KeptRefs \subseteq RangeOf(cons)
    BY DEF KeptRefs, References
  <2> HIDE DEF cons
  <2> QED BY <2>1, <1>0, <1>2, Kept
<1> HIDE DEF list
<1>4. Len(list) \in Nat /\ DOMAIN list = 1..Len(list)
  BY <1>3, SequenceIs
<1>5. gathered.relations = [k \in 1..Len(list) |-> gathered.relations[k]]
  BY <1>1, <1>4
<1>6. IsSequence(gathered.relations)
  BY <1>4, <1>5, SequenceOf
<1>7. DOMAIN gathered.relations = DOMAIN list /\ \A k \in DOMAIN list : gathered.relations[k] = RelationOf(list[k])
  BY <1>1
<1> QED BY <1>3, <1>6, <1>7 DEF RangeOf

\* The ends of a relation are found by name.
LEMMA EndsFound ==
  ASSUME AfterGather, NEW rel \in RangeOf(gathered.relations)
  PROVE  /\ Ends(rel).src \in RangeOf(gathered.resources) /\ Ends(rel).src.name = rel.source_resource
         /\ Ends(rel).tgt \in RangeOf(gathered.resources) /\ Ends(rel).tgt.name = rel.target_resource
<1>1. IsSequence(gathered.resources)
  BY ResourcesAre
<1>2. Len(gathered.resources) \in Nat /\ DOMAIN gathered.resources = 1..Len(gathered.resources)
  BY <1>1, SequenceIs
<1>3. ASSUME NEW r \in RangeOf(gathered.resources)
      PROVE  /\ gathered.resources[ByName(r.name)] \in RangeOf(gathered.resources)
             /\ gathered.resources[ByName(r.name)].name = r.name
  <2> DEFINE I == {i \in 1..Len(gathered.resources) : gathered.resources[i].name = r.name}
  <2>1. I # {} /\ I \subseteq Nat
    BY <1>2 DEF RangeOf
  <2>2. ByName(r.name) = IF I # {} THEN Min(I) ELSE 0
    BY DEF ByName, SelectInSeq
  <2> HIDE DEF I
  <2>3. \E x \in I : \A y \in I : x =< y
    BY <2>1, LeastNat
  <2>4. Min(I) \in I
    BY <2>3 DEF Min
  <2> QED BY <1>2, <2>1, <2>2, <2>4 DEF I, RangeOf
<1>4. PICK c \in KeptRefs : rel = RelationOf(c)
  BY RelationsAre
<1>5. /\ ResourceOf(c.class_oid) \in RangeOf(gathered.resources) /\ rel.source_resource = ResourceOf(c.class_oid).name
      /\ ResourceOf(c.foreign) \in RangeOf(gathered.resources) /\ rel.target_resource = ResourceOf(c.foreign).name
  BY <1>4, FoundIsExposed DEF KeptRefs, RelationOf
<1> QED BY <1>3, <1>5 DEF Ends

\* Every resource has its flags under its name, and there are no others.
LEMMA BehaviorsNamed ==
  ASSUME AfterGather
  PROVE  /\ \A r \in RangeOf(gathered.resources) : r.name \in DOMAIN gathered.behaviors
         /\ \A n \in DOMAIN gathered.behaviors : \E r \in RangeOf(gathered.resources) : r.name = n
<1> DEFINE rs == gathered.resources
           pairs == [k \in DOMAIN rs |-> <<rs[k].name, Behavior(introspection, rs[k])>>]
<1>1. gathered.behaviors = Insert(<<>>, pairs)
  BY DEF AfterGather, gather_output
<1>2. Len(rs) \in Nat /\ DOMAIN rs = 1..Len(rs)
  BY ResourcesAre, SequenceIs
<1>3. pairs = [k \in 1..Len(rs) |-> pairs[k]] /\ DOMAIN pairs = DOMAIN rs /\ \A k \in DOMAIN rs : pairs[k][1] = rs[k].name
  BY <1>2
<1> HIDE DEF pairs
<1>4. IsSequence(pairs)
  BY <1>2, <1>3, SequenceOf
<1>5. ASSUME NEW r \in RangeOf(rs) PROVE \E p \in RangeOf(pairs) : p[1] = r.name
  <2>1. PICK k \in DOMAIN rs : r = rs[k]
    BY DEF RangeOf
  <2>2. pairs[k] \in RangeOf(pairs) /\ pairs[k][1] = r.name
    BY <1>3, <2>1 DEF RangeOf
  <2> QED BY <2>2
<1>6. ASSUME NEW p \in RangeOf(pairs) PROVE \E r \in RangeOf(rs) : r.name = p[1]
  <2>1. PICK k \in DOMAIN rs : p = pairs[k]
    BY <1>3 DEF RangeOf
  <2>2. rs[k] \in RangeOf(rs) /\ rs[k].name = p[1]
    BY <1>3, <2>1 DEF RangeOf
  <2> QED BY <2>2
<1> HIDE DEF rs
<1>7. DOMAIN <<>> = {}
  OBVIOUS
<1>8. \A n : n \in DOMAIN gathered.behaviors <=> \E p \in RangeOf(pairs) : p[1] = n
  BY <1>1, <1>4, <1>7, Inserted
<1> QED BY <1>5, <1>6, <1>8 DEF rs

-----------------------------------------------------------------------------
(* The registry.                                                           *)

\* The constraints of one kind of a class, as the registry groups and picks them.
ConstraintsOf(oid, kind) ==
  Keep(constraint_map(introspection, oid), {c \in RangeOf(constraint_map(introspection, oid)) : c.kind = kind})

\* They are the catalog's constraints of that class and kind.
LEMMA ConstraintsAre ==
  ASSUME AfterGather, NEW oid, NEW kind
  PROVE  /\ IsSequence(constraint_map(introspection, oid)) /\ IsSequence(ConstraintsOf(oid, kind))
         /\ \A c : c \in RangeOf(ConstraintsOf(oid, kind)) <=>
                     c \in RangeOf(introspection.constraints) /\ c.class_oid = oid /\ c.kind = kind
<1> DEFINE S == {c \in RangeOf(introspection.constraints) : c.class_oid = oid}
           all == introspection.constraints
           cons == constraint_map(introspection, oid)
           T == {c \in RangeOf(cons) : c.kind = kind}
<1>1. IsSequence(all)
  BY DEF AfterGather, SoundCatalog, Queries
<1>2. cons = Keep(all, S) /\ ConstraintsOf(oid, kind) = Keep(cons, T)
  BY DEF constraint_map, ConstraintsOf
<1> HIDE DEF all, cons
<1>3. IsSequence(cons) /\ RangeOf(cons) = RangeOf(all) \cap S
  <2> HIDE DEF S
  <2> QED BY <1>1, <1>2, Kept
<1>4. IsSequence(Keep(cons, T)) /\ RangeOf(Keep(cons, T)) = RangeOf(cons) \cap T
  <2> HIDE DEF T
  <2> QED BY <1>3, Kept
<1> QED BY <1>2, <1>3, <1>4 DEF all, cons

\* Looking a number up among the attributes of its table, as the registry does,
\* or among all attributes by table and number, as gather does, gives the same.
LEMMA SameColumns ==
  ASSUME NEW oid, NEW nums
  PROVE  OwnColumns(attr_map(introspection, oid), nums) = ColumnNames(introspection, oid, nums)
<1> DEFINE own(n) == {a \in attr_map(introspection, oid) : a.num = n}
           any(n) == {a \in RangeOf(introspection.attributes) : a.class_oid = oid /\ a.num = n}
<1>1. \A n : own(n) = any(n)
  BY DEF attr_map
<1>2. /\ OwnColumns(attr_map(introspection, oid), nums) = filter_map(nums, [n \in RangeOf(nums) |-> own(n)])
      /\ ColumnNames(introspection, oid, nums) = filter_map(nums, [n \in RangeOf(nums) |-> any(n)])
  BY DEF OwnColumns, ColumnNames
<1> HIDE DEF own, any
<1>3. [n \in RangeOf(nums) |-> own(n)] = [n \in RangeOf(nums) |-> any(n)]
  BY <1>1
<1> QED BY <1>2, <1>3

\* Both readings take the first primary key and all unique constraints of a class.
LEMMA KeysAgree ==
  ASSUME AfterGather, NEW c
  PROVE  LET cons == constraint_map(introspection, c.oid)
             attrs == attr_map(introspection, c.oid)
         IN  /\ build_resource(introspection, c).primary_key = extract_primary_key(cons, attrs)
             /\ build_resource(introspection, c).unique_constraints = extract_unique_constraints(cons, attrs)
<1> DEFINE cons == constraint_map(introspection, c.oid)
           attrs == attr_map(introspection, c.oid)
           pks == {k \in DOMAIN cons : cons[k].kind = "PrimaryKey"}
           pk == SelectInSeq(cons, LAMBDA x : x.kind = "PrimaryKey")
           uniques == Keep(cons, {x \in RangeOf(cons) : x.kind = "Unique"})
<1>1. /\ build_resource(introspection, c).primary_key =
            IF pk = 0 THEN <<>> ELSE ColumnNames(introspection, c.oid, cons[pk].key_attrs)
      /\ build_resource(introspection, c).unique_constraints =
            [k \in DOMAIN uniques |-> ColumnNames(introspection, c.oid, uniques[k].key_attrs)]
  BY DEF build_resource, constraint_map
<1>2. /\ extract_primary_key(cons, attrs) = IF pks = {} THEN <<>> ELSE OwnColumns(attrs, cons[Min(pks)].key_attrs)
      /\ extract_unique_constraints(cons, attrs) = [k \in DOMAIN uniques |-> OwnColumns(attrs, uniques[k].key_attrs)]
  BY DEF extract_primary_key, extract_unique_constraints
<1>3. Len(cons) \in Nat /\ DOMAIN cons = 1..Len(cons)
  BY ConstraintsAre, SequenceIs
<1>4. pk = IF pks # {} THEN Min(pks) ELSE 0
  BY <1>3 DEF SelectInSeq
<1>5. pks # {} => Min(pks) \in pks
  <2>1. pks \subseteq Nat
    BY <1>3
  <2> HIDE DEF pks
  <2> QED BY <2>1, LeastNat DEF Min
<1>6. pks # {} => Min(pks) # 0
  BY <1>3, <1>5
<1>7. \A nums : OwnColumns(attrs, nums) = ColumnNames(introspection, c.oid, nums)
  BY SameColumns
<1> HIDE DEF cons, attrs, pks, pk, uniques
<1>8. build_resource(introspection, c).primary_key = extract_primary_key(cons, attrs)
  BY <1>1, <1>2, <1>4, <1>6, <1>7
<1>9. build_resource(introspection, c).unique_constraints = extract_unique_constraints(cons, attrs)
  BY <1>1, <1>2, <1>7
<1> QED BY <1>8, <1>9 DEF cons, attrs

\* The references of a class as the registry reads them.
KeysOf(oid) == extract_foreign_keys(constraint_map(introspection, oid), attr_map(introspection, oid), RangeOf(introspection.attributes))

\* The registry has the table of every published class, read from the same rows.
LEMMA RegistryOf ==
  ASSUME AfterGather, NEW c \in Exposed, c.kind = "Table"
  PROVE  LET g == registry[c.oid]
         IN  /\ g.schema = build_resource(introspection, c).schema /\ g.primary_key = build_resource(introspection, c).primary_key
             /\ g.unique_constraints = build_resource(introspection, c).unique_constraints
             /\ g.columns = {x.pg_name : x \in build_resource(introspection, c).columns}
             /\ g.foreign_keys = KeysOf(c.oid)
<1> DEFINE tables == {d \in RangeOf(introspection.classes) : d.kind = "Table"}
           class(oid) == CHOOSE d \in tables : d.oid = oid
           attrs == attr_map(introspection, c.oid)
           cons == constraint_map(introspection, c.oid)
<1>1. c \in tables /\ \A d \in tables : d.oid = c.oid => d = c
  BY DEF Exposed, AfterGather, SoundCatalog
<1>2. class(c.oid) = c
  BY <1>1
<1>3. registry[c.oid] =
         [schema |-> IF SchemaName(introspection, class(c.oid).schema_oid) = <<>> THEN "public" ELSE SchemaName(introspection, class(c.oid).schema_oid)[1],
          table |-> class(c.oid).name,
          columns |-> {a.name : a \in attrs},
          primary_key |-> extract_primary_key(cons, attrs), foreign_keys |-> KeysOf(c.oid),
          unique_constraints |-> extract_unique_constraints(cons, attrs)]
  BY <1>1 DEF AfterGather, from_introspection, KeysOf
<1> HIDE DEF class
<1>4. {a.name : a \in attrs} = {x.pg_name : x \in build_resource(introspection, c).columns}
  <2> DEFINE column(a) == [pg_name |-> a.name, gql_type |-> pg_oid_to_gql_type(a.type_oid)]
             positive == {a \in RangeOf(introspection.attributes) : a.class_oid = c.oid /\ a.num > 0}
  <2>1. build_resource(introspection, c).columns = {column(a) : a \in positive}
    BY DEF build_resource
  <2>2. positive = attrs
    BY DEF AfterGather, attr_map
  <2>3. \A a : column(a).pg_name = a.name
    OBVIOUS
  <2> HIDE DEF column, positive, attrs
  <2> QED BY <2>1, <2>2, <2>3
<1>5. /\ build_resource(introspection, c).schema = IF SchemaName(introspection, c.schema_oid) = <<>> THEN "public" ELSE SchemaName(introspection, c.schema_oid)[1]
      /\ build_resource(introspection, c).primary_key = extract_primary_key(cons, attrs)
      /\ build_resource(introspection, c).unique_constraints = extract_unique_constraints(cons, attrs)
  <2>1. build_resource(introspection, c).schema = IF SchemaName(introspection, c.schema_oid) = <<>> THEN "public" ELSE SchemaName(introspection, c.schema_oid)[1]
    BY DEF build_resource
  <2> QED BY <2>1, KeysAgree
<1> DEFINE names == {a.name : a \in attrs}
           g == registry[c.oid]
<1>6. /\ g.schema = IF SchemaName(introspection, c.schema_oid) = <<>> THEN "public" ELSE SchemaName(introspection, c.schema_oid)[1]
      /\ g.columns = names /\ g.primary_key = extract_primary_key(cons, attrs)
      /\ g.foreign_keys = KeysOf(c.oid) /\ g.unique_constraints = extract_unique_constraints(cons, attrs)
  <2> HIDE DEF names
  <2> QED BY <1>2, <1>3 DEF names
<1> HIDE DEF names, g
<1>7. g.columns = {x.pg_name : x \in build_resource(introspection, c).columns}
  BY <1>4, <1>6 DEF names
<1> QED BY <1>5, <1>6, <1>7 DEF g

\* The references of a published table are the same in both readings.
LEMMA ReferencesAgree ==
  ASSUME AfterGather, NEW r \in RangeOf(gathered.resources), r.kind = "Table", ~SameName,
         NEW keys, keys = KeysOf(r.class_oid)
  PROVE  {<<x.source_columns, x.target_resource, x.target_columns>> :
            x \in {y \in RangeOf(gathered.relations) : y.source_resource = r.name}}
         = {<<keys[k].columns, ResourceOf(keys[k].foreign_class_oid).name, keys[k].foreign_columns>> :
              k \in {j \in DOMAIN keys : \E x \in RangeOf(gathered.resources) : x.class_oid = keys[j].foreign_class_oid}}
<1> DEFINE oid == r.class_oid
           cons == ConstraintsOf(oid, "ForeignKey")
           rels == {y \in RangeOf(gathered.relations) : y.source_resource = r.name}
           fks == {j \in DOMAIN keys : \E x \in RangeOf(gathered.resources) : x.class_oid = keys[j].foreign_class_oid}
           left(x) == <<x.source_columns, x.target_resource, x.target_columns>>
           right(k) == <<keys[k].columns, ResourceOf(keys[k].foreign_class_oid).name, keys[k].foreign_columns>>
<1>1. /\ DOMAIN keys = DOMAIN cons
      /\ \A k \in DOMAIN cons : keys[k] = [columns |-> ColumnNames(introspection, oid, cons[k].key_attrs), foreign_class_oid |-> cons[k].foreign,
                                           foreign_columns |-> ColumnNames(introspection, cons[k].foreign, cons[k].foreign_attrs)]
  <2> DEFINE attrs == attr_map(introspection, oid)
             theirs(x) == [n \in RangeOf(x.foreign_attrs) |->
                             {a \in RangeOf(introspection.attributes) : a.class_oid = x.foreign /\ a.num = n}]
  <2>1. keys = [k \in DOMAIN cons |->
                  [columns |-> OwnColumns(attrs, cons[k].key_attrs), foreign_class_oid |-> cons[k].foreign,
                   foreign_columns |-> filter_map(cons[k].foreign_attrs, theirs(cons[k]))]]
    BY DEF KeysOf, extract_foreign_keys, ConstraintsOf
  <2>2. \A x : filter_map(x.foreign_attrs, theirs(x)) = ColumnNames(introspection, x.foreign, x.foreign_attrs)
    BY DEF ColumnNames
  <2>3. \A nums : OwnColumns(attrs, nums) = ColumnNames(introspection, oid, nums)
    BY SameColumns
  <2> HIDE DEF cons, attrs, theirs
  <2> QED BY <2>1, <2>2, <2>3
<1>10. \A k \in DOMAIN cons : /\ keys[k].columns = ColumnNames(introspection, oid, cons[k].key_attrs)
                              /\ keys[k].foreign_class_oid = cons[k].foreign
                              /\ keys[k].foreign_columns = ColumnNames(introspection, cons[k].foreign, cons[k].foreign_attrs)
  <2> SUFFICES ASSUME NEW k \in DOMAIN cons
               PROVE  /\ keys[k].columns = ColumnNames(introspection, oid, cons[k].key_attrs)
                      /\ keys[k].foreign_class_oid = cons[k].foreign
                      /\ keys[k].foreign_columns = ColumnNames(introspection, cons[k].foreign, cons[k].foreign_attrs)
    OBVIOUS
  <2> DEFINE own == ColumnNames(introspection, oid, cons[k].key_attrs)
             foreign == cons[k].foreign
             theirs == ColumnNames(introspection, cons[k].foreign, cons[k].foreign_attrs)
  <2>1. keys[k] = [columns |-> own, foreign_class_oid |-> foreign, foreign_columns |-> theirs]
    BY <1>1
  <2> HIDE DEF own, foreign, theirs
  <2>2. keys[k].columns = own /\ keys[k].foreign_class_oid = foreign /\ keys[k].foreign_columns = theirs
    BY <2>1
  <2> QED BY <2>2 DEF own, foreign, theirs
<1>11. \A c : /\ RelationOf(c).source_columns = ColumnNames(introspection, c.class_oid, c.key_attrs)
              /\ RelationOf(c).target_resource = ResourceOf(c.foreign).name
              /\ RelationOf(c).target_columns = ColumnNames(introspection, c.foreign, c.foreign_attrs)
              /\ RelationOf(c).source_resource = ResourceOf(c.class_oid).name
  BY DEF RelationOf
<1>2. \A c : c \in RangeOf(cons) <=> c \in References /\ c.class_oid = oid
  BY ConstraintsAre DEF References
<1> HIDE DEF cons
<1>3. \A x \in RangeOf(gathered.resources) : x.name = r.name => x = r
  BY DEF SameName, RangeOf
<1>4. Found(oid) /\ ResourceOf(oid) \in RangeOf(gathered.resources) /\ ResourceOf(oid).class_oid = oid
  BY FoundIsExposed DEF Found
<1>5. ResourceOf(oid) = r
  <2>1. PICK c \in Exposed : r = build_resource(introspection, c)
    BY ResourcesAre
  <2>2. PICK d \in Exposed : ResourceOf(oid) = build_resource(introspection, d)
    BY <1>4, ResourcesAre
  <2>3. c.oid = oid /\ d.oid = oid
    BY <1>4, <2>1, <2>2, ResourceIs
  <2>4. c = d
    BY <2>3 DEF Exposed, AfterGather, SoundCatalog
  <2> QED BY <2>1, <2>2, <2>4
<1>6. ASSUME NEW x \in rels PROVE \E k \in fks : left(x) = right(k)
  <2>1. PICK c \in KeptRefs : x = RelationOf(c)
    BY RelationsAre
  <2>2. c \in References /\ Found(c.class_oid) /\ Found(c.foreign)
    BY DEF KeptRefs
  <2>3. ResourceOf(c.class_oid) \in RangeOf(gathered.resources) /\ ResourceOf(c.class_oid).class_oid = c.class_oid
    BY <2>2, FoundIsExposed
  <2>4. ResourceOf(c.class_oid).name = r.name
    BY <2>1, <1>11
  <2>5. c.class_oid = oid
    BY <1>3, <2>3, <2>4
  <2>6. PICK k \in DOMAIN cons : c = cons[k]
    BY <1>2, <2>2, <2>5 DEF RangeOf
  <2>7. k \in fks
    BY <1>1, <1>10, <2>2, <2>6 DEF Found
  <2>8. left(x) = right(k)
    BY <1>10, <1>11, <2>1, <2>5, <2>6
  <2> QED BY <2>7, <2>8
<1>7. ASSUME NEW k \in fks PROVE \E x \in rels : left(x) = right(k)
  <2> DEFINE c == cons[k]
  <2>1. k \in DOMAIN cons /\ c \in RangeOf(cons)
    BY <1>1 DEF RangeOf
  <2>2. c \in References /\ c.class_oid = oid
    BY <1>2, <2>1
  <2>3. Found(c.foreign)
    BY <1>10, <2>1 DEF Found
  <2>4. c \in KeptRefs
    BY <1>4, <2>2, <2>3 DEF KeptRefs
  <2>5. RelationOf(c) \in RangeOf(gathered.relations)
    BY <2>4, RelationsAre
  <2>6. RelationOf(c).source_resource = r.name
    BY <1>5, <2>2 DEF RelationOf
  <2>7. left(RelationOf(c)) = right(k)
    BY <1>10, <1>11, <2>1, <2>2
  <2> QED BY <2>5, <2>6, <2>7
<1> HIDE DEF left, right, rels, fks
<1>8. {left(x) : x \in rels} = {right(k) : k \in fks}
  BY <1>6, <1>7
<1> QED BY <1>8 DEF left, right, rels, fks

\* The registry and gather agree on every published table.
LEMMA RegistryAgreesNow ==
  ASSUME AfterGather PROVE RegistryAgrees
<1> SUFFICES ASSUME NEW r \in RangeOf(gathered.resources), r.kind = "Table"
    PROVE  LET g == registry[r.class_oid]
               fks == {k \in DOMAIN g.foreign_keys : \E x \in RangeOf(gathered.resources) : x.class_oid = g.foreign_keys[k].foreign_class_oid}
           IN  /\ g.primary_key = r.primary_key /\ RangeOf(g.unique_constraints) = RangeOf(r.unique_constraints)
               /\ g.columns = {c.pg_name : c \in r.columns} /\ g.schema = r.schema
               /\ ~SameName =>
                    {<<x.source_columns, x.target_resource, x.target_columns>> :
                       x \in {y \in RangeOf(gathered.relations) : y.source_resource = r.name}}
                    = {<<g.foreign_keys[k].columns, ResourceOf(g.foreign_keys[k].foreign_class_oid).name, g.foreign_keys[k].foreign_columns>> : k \in fks}
  BY DEF RegistryAgrees
<1>1. PICK c \in Exposed : r = build_resource(introspection, c)
  BY ResourcesAre
<1>2. r.class_oid = c.oid /\ c.kind = "Table"
  BY <1>1, ResourceIs
<1> DEFINE g == registry[r.class_oid]
<1>3. /\ g.schema = r.schema /\ g.primary_key = r.primary_key
      /\ g.unique_constraints = r.unique_constraints
      /\ g.columns = {x.pg_name : x \in r.columns}
      /\ g.foreign_keys = KeysOf(r.class_oid)
  BY <1>1, <1>2, RegistryOf
<1> DEFINE keys == g.foreign_keys
<1>4. ASSUME ~SameName
      PROVE  {<<x.source_columns, x.target_resource, x.target_columns>> :
                x \in {y \in RangeOf(gathered.relations) : y.source_resource = r.name}}
             = {<<keys[k].columns, ResourceOf(keys[k].foreign_class_oid).name, keys[k].foreign_columns>> :
                  k \in {j \in DOMAIN keys : \E x \in RangeOf(gathered.resources) : x.class_oid = keys[j].foreign_class_oid}}
  <2>1. keys = KeysOf(r.class_oid)
    BY <1>3
  <2> HIDE DEF keys
  <2> QED BY <1>4, <2>1, ReferencesAgree, SMTT(60)
<1> QED BY <1>3, <1>4

-----------------------------------------------------------------------------
(* The passes of build_schema.                                             *)

\* Lists of fields, and of types by name, all of which come from these classes.
FieldsFrom(fields, oids) == IsSequence(fields) /\ \A f \in RangeOf(fields) : f.of \in oids
DefsFrom(defs, oids) == IsSequence(defs) /\ \A p \in RangeOf(defs) : From(p[2], oids)

\* A list of two elements.
LEMMA Two ==
  ASSUME NEW x, NEW y
  PROVE  IsSequence(<<x, y>>) /\ RangeOf(<<x, y>>) = {x, y}
<1>1. <<x, y>> \in Seq({x, y}) /\ DOMAIN <<x, y>> = {1, 2}
  OBVIOUS
<1>2. <<x, y>>[1] = x /\ <<x, y>>[2] = y
  OBVIOUS
<1>3. RangeOf(<<x, y>>) = {x, y}
  BY <1>1, <1>2 DEF RangeOf
<1> QED BY <1>1, <1>3 DEF IsSequence

\* Two short lists one after the other.
LEMMA TwoJoined ==
  ASSUME NEW x, NEW y
  PROVE  <<x>> \o <<y>> = <<x, y>> /\ <<>> \o <<y>> = <<y>>
<1> DEFINE S == {x, y}
           z == <<x>> \o <<y>>
<1>1. <<x>> \in Seq(S) /\ <<y>> \in Seq(S) /\ <<x, y>> \in Seq(S) /\ <<>> \in Seq(S)
  OBVIOUS
<1>2. z \in Seq(S) /\ Len(z) = 2 /\ z[1] = x /\ z[2] = y
  BY <1>1
<1>3. Len(<<x, y>>) = 2 /\ <<x, y>>[1] = x /\ <<x, y>>[2] = y
  OBVIOUS
<1> DEFINE w == <<x, y>>
<1>4. z = w
  <2>1. z = [k \in 1..2 |-> z[k]] /\ w = [k \in 1..2 |-> w[k]]
    BY <1>1, <1>2, <1>3
  <2>2. \A k \in 1..2 : k = 1 \/ k = 2
    OBVIOUS
  <2>3. \A k \in 1..2 : z[k] = w[k]
    BY <1>2, <1>3, <2>2
  <2> HIDE DEF z, w
  <2> QED BY <2>1, <2>3
<1>5. <<>> \o <<y>> = <<y>>
  BY <1>1
<1> QED BY <1>4, <1>5

\* A field that refers to types comes from its class.
LEMMA FieldFrom ==
  ASSUME NEW name, NEW refs, NEW of
  PROVE  Field(name, refs, of).of = of
BY DEF Field

\* A type made of such fields comes from its classes.
LEMMA DefFrom ==
  ASSUME NEW oids, NEW of \in oids, NEW fields, FieldsFrom(fields, oids)
  PROVE  From(Def(fields, of), oids)
BY DEF FieldsFrom, From, Def

\* Lists of fields one after the other, and the short ones.
LEMMA FieldLists ==
  ASSUME NEW oids
  PROVE  /\ FieldsFrom(<<>>, oids)
         /\ \A f : f.of \in oids => FieldsFrom(<<f>>, oids)
         /\ \A f, g : f.of \in oids /\ g.of \in oids => FieldsFrom(<<f, g>>, oids)
         /\ \A s, t : FieldsFrom(s, oids) /\ FieldsFrom(t, oids) => FieldsFrom(s \o t, oids)
<1>1. FieldsFrom(<<>>, oids)
  BY Short DEF FieldsFrom
<1>2. ASSUME NEW f, f.of \in oids PROVE FieldsFrom(<<f>>, oids)
  BY <1>2, Short DEF FieldsFrom
<1>3. ASSUME NEW f, NEW g, f.of \in oids, g.of \in oids PROVE FieldsFrom(<<f, g>>, oids)
  BY <1>3, Two DEF FieldsFrom
<1>4. ASSUME NEW s, NEW t, FieldsFrom(s, oids), FieldsFrom(t, oids) PROVE FieldsFrom(s \o t, oids)
  BY <1>4, Joined DEF FieldsFrom
<1> QED BY <1>1, <1>2, <1>3, <1>4

\* Lists of types one after the other, and the short ones.
LEMMA DefLists ==
  ASSUME NEW oids
  PROVE  /\ DefsFrom(<<>>, oids)
         /\ \A name, def : From(def, oids) => DefsFrom(<<<<name, def>>>>, oids)
         /\ \A n1, d1, n2, d2 : From(d1, oids) /\ From(d2, oids) => DefsFrom(<<<<n1, d1>>, <<n2, d2>>>>, oids)
         /\ \A s, t : DefsFrom(s, oids) /\ DefsFrom(t, oids) => DefsFrom(s \o t, oids)
<1>1. DefsFrom(<<>>, oids)
  BY Short DEF DefsFrom
<1>2. ASSUME NEW name, NEW def, From(def, oids) PROVE DefsFrom(<<<<name, def>>>>, oids)
  <2> DEFINE p == <<name, def>>
  <2>1. p[2] = def
    OBVIOUS
  <2> HIDE DEF p
  <2>2. DefsFrom(<<p>>, oids)
    BY <1>2, <2>1, Short DEF DefsFrom
  <2> QED BY <2>2 DEF p
<1>3. ASSUME NEW n1, NEW d1, NEW n2, NEW d2, From(d1, oids), From(d2, oids)
      PROVE  DefsFrom(<<<<n1, d1>>, <<n2, d2>>>>, oids)
  <2> DEFINE p == <<n1, d1>>
             q == <<n2, d2>>
  <2>1. p[2] = d1 /\ q[2] = d2
    OBVIOUS
  <2> HIDE DEF p, q
  <2>2. DefsFrom(<<p, q>>, oids)
    BY <1>3, <2>1, Two DEF DefsFrom
  <2> QED BY <2>2 DEF p, q
<1>4. ASSUME NEW s, NEW t, DefsFrom(s, oids), DefsFrom(t, oids) PROVE DefsFrom(s \o t, oids)
  BY <1>4, Joined DEF DefsFrom
<1> QED BY <1>1, <1>2, <1>3, <1>4

\* What is registered for each of some resources, one after the other.
LEMMA EachFrom ==
  ASSUME NEW oids, NEW lists, IsSequence(lists)
  PROVE  /\ (\A k \in DOMAIN lists : DefsFrom(lists[k], oids)) => DefsFrom(FlattenSeq(lists), oids)
         /\ (\A k \in DOMAIN lists : FieldsFrom(lists[k], oids)) => FieldsFrom(FlattenSeq(lists), oids)
<1>1. ASSUME \A k \in DOMAIN lists : DefsFrom(lists[k], oids) PROVE DefsFrom(FlattenSeq(lists), oids)
  <2>1. IsSequence(FlattenSeq(lists)) /\ RangeOf(FlattenSeq(lists)) = UNION {RangeOf(lists[k]) : k \in DOMAIN lists}
    BY <1>1, Flattened DEF DefsFrom
  <2>2. ASSUME NEW p \in RangeOf(FlattenSeq(lists)) PROVE From(p[2], oids)
    <3>1. PICK k \in DOMAIN lists : p \in RangeOf(lists[k])
      BY <2>1
    <3> QED BY <1>1, <3>1 DEF DefsFrom
  <2> QED BY <2>1, <2>2 DEF DefsFrom
<1>2. ASSUME \A k \in DOMAIN lists : FieldsFrom(lists[k], oids) PROVE FieldsFrom(FlattenSeq(lists), oids)
  <2>1. IsSequence(FlattenSeq(lists)) /\ RangeOf(FlattenSeq(lists)) = UNION {RangeOf(lists[k]) : k \in DOMAIN lists}
    BY <1>2, Flattened DEF FieldsFrom
  <2>2. ASSUME NEW f \in RangeOf(FlattenSeq(lists)) PROVE f.of \in oids
    <3>1. PICK k \in DOMAIN lists : f \in RangeOf(lists[k])
      BY <2>1
    <3> QED BY <1>2, <3>1 DEF FieldsFrom
  <2> QED BY <2>1, <2>2 DEF FieldsFrom
<1> QED BY <1>1, <1>2

\* The classes of the resources are those that were gathered; a resource has
\* finitely many columns.
LEMMA ResourceGathered ==
  ASSUME AfterGather
  PROVE  /\ 0 \in ClassesGathered
         /\ \A r \in RangeOf(gathered.resources) : r.class_oid \in ClassesGathered /\ IsFiniteSet(r.columns)
         /\ Len(gathered.resources) \in Nat /\ DOMAIN gathered.resources = 1..Len(gathered.resources)
<1>1. ASSUME NEW r \in RangeOf(gathered.resources) PROVE IsFiniteSet(r.columns)
  BY ResourcesAre, ResourceIs
<1> QED BY <1>1, ResourcesAre, SequenceIs DEF ClassesGathered

\* The fields for the columns of a resource come from its class.
LEMMA InputsFrom ==
  ASSUME NEW oids, NEW r, r.class_oid \in oids, IsFiniteSet(r.columns)
  PROVE  FieldsFrom(Inputs(r), oids)
<1> DEFINE field(c) == Field(c.pg_name, {c.gql_type}, r.class_oid)
           S == {field(c) : c \in r.columns}
           f == [c \in r.columns |-> field(c)]
<1>1. f \in Surjection(r.columns, S)
  BY DEF Surjection
<1>2. IsFiniteSet(S)
  <2> HIDE DEF f, S
  <2> QED BY <1>1, FS_Surjection
<1>3. ASSUME NEW x \in S PROVE x.of \in oids
  <2>1. PICK c \in r.columns : x = field(c)
    OBVIOUS
  <2>2. field(c).of = r.class_oid
    BY FieldFrom
  <2> QED BY <2>1, <2>2
<1>4. Inputs(r) = SetToSeq(S)
  BY DEF Inputs
<1> HIDE DEF S
<1> QED BY <1>2, <1>3, <1>4, Listed DEF FieldsFrom

\* The types that are registered for one resource, and its root fields.
LEMMA ResourceTypes ==
  ASSUME NEW oids, NEW r, r.class_oid \in oids, IsFiniteSet(r.columns)
  PROVE  /\ DefsFrom(register_connection_types(r), oids) /\ DefsFrom(register_filter_types(r), oids)
         /\ DefsFrom(register_order_by_types(r), oids) /\ DefsFrom(register_condition_types(r), oids)
<1>0. FieldsFrom(Inputs(r), oids)
  BY InputsFrom
<1>1. \A name, refs : Field(name, refs, r.class_oid).of \in oids
  BY FieldFrom
<1>2. \A name, refs : FieldsFrom(<<Field(name, refs, r.class_oid)>>, oids)
  BY <1>1, FieldLists
<1>3. \A fields : FieldsFrom(fields, oids) => From(Def(fields, r.class_oid), oids)
  BY DefFrom
<1>4. DefsFrom(register_connection_types(r), oids)
  BY <1>2, <1>3, DefLists DEF register_connection_types
<1>5. DefsFrom(register_filter_types(r), oids)
  <2> DEFINE and == <<Field(<<"and">>, {filter_type_name(r.name), <<"Boolean">>}, r.class_oid)>>
  <2>1. FieldsFrom(and, oids)
    BY <1>2
  <2> HIDE DEF and
  <2>2. FieldsFrom(Inputs(r) \o and, oids)
    BY <1>0, <2>1, FieldLists
  <2>3. From(Def(Inputs(r) \o and, r.class_oid), oids)
    BY <1>3, <2>2
  <2> QED BY <2>3, DefLists DEF register_filter_types, and
<1>6. DefsFrom(register_order_by_types(r), oids)
  BY <1>2, <1>3, DefLists DEF register_order_by_types
<1>7. DefsFrom(register_condition_types(r), oids)
  BY <1>0, <1>3, DefLists DEF register_condition_types
<1> QED BY <1>4, <1>5, <1>6, <1>7

\* The types that are registered for one mutation of a resource.
LEMMA MutationTypes ==
  ASSUME NEW oids, NEW r, r.class_oid \in oids, IsFiniteSet(r.columns), NEW verb \in {"create", "update", "delete"}
  PROVE  DefsFrom(register_mutation_types(r, verb), oids)
<1>0. FieldsFrom(Inputs(r), oids)
  BY InputsFrom
<1>1. \A name, refs : Field(name, refs, r.class_oid).of \in oids
  BY FieldFrom
<1>2. \A fields : FieldsFrom(fields, oids) => From(Def(fields, r.class_oid), oids)
  BY DefFrom
<1> DEFINE node == Field(<<"node", "id">>, {<<"ID">>}, r.class_oid)
           patch == Field(<<"patch">>, {patch_type_name(r.name)}, r.class_oid)
           input == CASE verb = "create" -> Inputs(r) [] verb = "update" -> <<node, patch>> [] verb = "delete" -> <<node>>
           own == Field(r.name, {r.name}, r.class_oid)
           query == Field(<<"query">>, {<<"Query">>}, r.class_oid)
           defs == << <<input_type_name(verb, r.name), Def(input, r.class_oid)>>,
                      <<payload_type_name(verb, r.name), Def(<<own, query>>, r.class_oid)>> >>
           more == IF verb = "update" THEN <<<<patch_type_name(r.name), Def(Inputs(r), r.class_oid)>>>> ELSE <<>>
<1>3. node.of \in oids /\ patch.of \in oids /\ own.of \in oids /\ query.of \in oids
  BY <1>1
<1>4. register_mutation_types(r, verb) = defs \o more
  BY DEF register_mutation_types
<1> HIDE DEF node, patch, own, query
<1>5. FieldsFrom(<<node, patch>>, oids) /\ FieldsFrom(<<node>>, oids) /\ FieldsFrom(<<own, query>>, oids)
  BY <1>3, FieldLists
<1>6. FieldsFrom(input, oids)
  <2>1. CASE verb = "create"
    BY <1>0, <2>1
  <2>2. CASE verb = "update"
    BY <1>5, <2>2
  <2>3. CASE verb = "delete"
    BY <1>5, <2>3
  <2> QED BY <2>1, <2>2, <2>3
<1> HIDE DEF input
<1>7. DefsFrom(defs, oids)
  BY <1>2, <1>5, <1>6, DefLists
<1>8. DefsFrom(more, oids)
  <2>1. From(Def(Inputs(r), r.class_oid), oids)
    BY <1>0, <1>2
  <2> QED BY <2>1, DefLists
<1> HIDE DEF defs, more
<1>9. \A s, t : DefsFrom(s, oids) /\ DefsFrom(t, oids) => DefsFrom(s \o t, oids)
  BY DefLists
<1>10. DefsFrom(defs \o more, oids)
  BY <1>7, <1>8, <1>9
<1> QED BY <1>4, <1>10

\* The relation fields come from the classes at the two ends, which were gathered.
LEMMA RelationFieldsFrom ==
  ASSUME AfterGather
  PROVE  IsSequence(RelationFields) /\ \A p \in RangeOf(RelationFields) : p[2].of \in ClassesGathered
<1> DEFINE oids == ClassesGathered
           rels == gathered.relations
           list(k) == LET rel == rels[k]
                          e == Ends(rel)
                      IN  <<<<e.src.name, belongs_to_field(rel, e.src, e.tgt)>>>>
                            \o IF rel.is_unique THEN <<>> ELSE <<<<e.tgt.name, has_many_field(rel, e.src, e.tgt)>>>>
           lists == [k \in DOMAIN rels |-> list(k)]
<1>1. RelationFields = FlattenSeq(lists)
  BY DEF RelationFields
<1>2. Len(rels) \in Nat /\ DOMAIN rels = 1..Len(rels)
  BY RelationsAre, SequenceIs
<1>3. ASSUME NEW k \in DOMAIN rels
      PROVE  IsSequence(list(k)) /\ \A p \in RangeOf(list(k)) : p[2].of \in oids
  <2> DEFINE rel == rels[k]
             e == Ends(rel)
             src == e.src
             tgt == e.tgt
             p1 == <<src.name, belongs_to_field(rel, src, tgt)>>
             p2 == <<tgt.name, has_many_field(rel, src, tgt)>>
             s1 == <<p1>>
             s2 == IF rel.is_unique THEN <<>> ELSE <<p2>>
  <2>1. src.class_oid \in oids /\ tgt.class_oid \in oids
    <3>1. rel \in RangeOf(gathered.relations)
      BY DEF RangeOf
    <3> HIDE DEF rel
    <3> QED BY <3>1, EndsFound, ResourceGathered
  <2>2. list(k) = s1 \o s2
    OBVIOUS
  <2> HIDE DEF list, rel, e, src, tgt
  <2>3. p1[2].of = tgt.class_oid /\ p2[2].of = src.class_oid
    BY DEF belongs_to_field, has_many_field, Field
  <2> HIDE DEF p1, p2
  <2>4. /\ IsSequence(s1) /\ \A p \in RangeOf(s1) : p[2].of \in oids
        /\ IsSequence(s2) /\ \A p \in RangeOf(s2) : p[2].of \in oids
    BY <2>1, <2>3, Short
  <2> HIDE DEF s1, s2
  <2>5. IsSequence(s1 \o s2) /\ RangeOf(s1 \o s2) = RangeOf(s1) \cup RangeOf(s2)
    BY <2>4, Joined
  <2> QED BY <2>2, <2>4, <2>5
<1> HIDE DEF list
<1>4. DOMAIN lists = DOMAIN rels /\ lists = [k \in 1..Len(rels) |-> lists[k]] /\ \A k \in DOMAIN rels : lists[k] = list(k)
  BY <1>2
<1> HIDE DEF lists, rels
<1>5. IsSequence(lists)
  BY <1>2, <1>4, SequenceOf
<1>6. IsSequence(FlattenSeq(lists)) /\ RangeOf(FlattenSeq(lists)) = UNION {RangeOf(lists[k]) : k \in DOMAIN lists}
  <2>1. \A k \in DOMAIN lists : IsSequence(lists[k])
    BY <1>3, <1>4
  <2> QED BY <1>5, <2>1, Flattened
<1>7. ASSUME NEW p \in RangeOf(FlattenSeq(lists)) PROVE p[2].of \in oids
  <2>1. PICK k \in DOMAIN lists : p \in RangeOf(lists[k])
    BY <1>6
  <2> QED BY <1>3, <1>4, <2>1
<1> QED BY <1>1, <1>6, <1>7

\* The loaders read the classes at the two ends of a relation.
LEMMA LoadersFrom ==
  ASSUME AfterGather
  PROVE  \A l \in DOMAIN Loaders : Loaders[l].oid \in ClassesGathered
<1> DEFINE oids == ClassesGathered
           rels == gathered.relations
           loader(oid, column) == [oid |-> oid, column |-> column]
           list(k) == LET rel == rels[k]
                          e == Ends(rel)
                          fk == First(rel.source_columns, <<>>)
                          pk == First(e.tgt.primary_key, <<>>)
                      IN  (IF rel.is_unique THEN <<>> ELSE <<<<<<"has_many", e.src.name, fk>>, loader(e.src.class_oid, fk)>>>>)
                            \o <<<<<<"belongs_to", e.tgt.name, pk>>, loader(e.tgt.class_oid, pk)>>>>
           lists == [k \in DOMAIN rels |-> list(k)]
           pairs == FlattenSeq(lists)
<1>1. Loaders = Insert(<<>>, pairs)
  BY DEF Loaders
<1>2. Len(rels) \in Nat /\ DOMAIN rels = 1..Len(rels)
  BY RelationsAre, SequenceIs
<1>3. ASSUME NEW k \in DOMAIN rels
      PROVE  IsSequence(list(k)) /\ \A p \in RangeOf(list(k)) : p[2].oid \in oids
  <2> DEFINE rel == rels[k]
             e == Ends(rel)
             src == e.src
             tgt == e.tgt
             fk == First(rel.source_columns, <<>>)
             pk == First(tgt.primary_key, <<>>)
             p1 == <<<<"belongs_to", tgt.name, pk>>, loader(tgt.class_oid, pk)>>
             p2 == <<<<"has_many", src.name, fk>>, loader(src.class_oid, fk)>>
             s1 == <<p1>>
             s2 == IF rel.is_unique THEN <<>> ELSE <<p2>>
  <2>1. src.class_oid \in oids /\ tgt.class_oid \in oids
    <3>1. rel \in RangeOf(gathered.relations)
      BY DEF RangeOf
    <3> HIDE DEF rel
    <3> QED BY <3>1, EndsFound, ResourceGathered
  <2>2. list(k) = s2 \o s1
    OBVIOUS
  <2> HIDE DEF list, rel, e, src, tgt, fk, pk
  <2>3. p1[2].oid = tgt.class_oid /\ p2[2].oid = src.class_oid
    OBVIOUS
  <2> HIDE DEF p1, p2
  <2>4. /\ IsSequence(s1) /\ \A p \in RangeOf(s1) : p[2].oid \in oids
        /\ IsSequence(s2) /\ \A p \in RangeOf(s2) : p[2].oid \in oids
    BY <2>1, <2>3, Short
  <2> HIDE DEF s1, s2
  <2>5. IsSequence(s2 \o s1) /\ RangeOf(s2 \o s1) = RangeOf(s2) \cup RangeOf(s1)
    BY <2>4, Joined
  <2> QED BY <2>2, <2>4, <2>5
<1> HIDE DEF list
<1>4. DOMAIN lists = DOMAIN rels /\ lists = [k \in 1..Len(rels) |-> lists[k]] /\ \A k \in DOMAIN rels : lists[k] = list(k)
  BY <1>2
<1> HIDE DEF lists, rels
<1>5. IsSequence(lists)
  BY <1>2, <1>4, SequenceOf
<1>6. IsSequence(pairs) /\ RangeOf(pairs) = UNION {RangeOf(lists[k]) : k \in DOMAIN lists}
  <2>1. \A k \in DOMAIN lists : IsSequence(lists[k])
    BY <1>3, <1>4
  <2> QED BY <1>5, <2>1, Flattened
<1> HIDE DEF pairs
<1>7. ASSUME NEW p \in RangeOf(pairs) PROVE p[2].oid \in oids
  <2>1. PICK k \in DOMAIN lists : p \in RangeOf(lists[k])
    BY <1>6
  <2> QED BY <1>3, <1>4, <2>1
<1>8. DOMAIN <<>> = {}
  OBVIOUS
<1>9. ASSUME NEW l \in DOMAIN Loaders PROVE Loaders[l].oid \in oids
  <2>1. \E p \in RangeOf(pairs) : p[1] = l /\ Loaders[l] = p[2]
    BY <1>1, <1>6, <1>8, Inserted
  <2> QED BY <1>7, <2>1
<1> QED BY <1>9

\* The object type of a resource comes from its class and from the classes that
\* its relation fields lead to.
LEMMA ObjectTypeFrom ==
  ASSUME AfterGather, NEW k \in DOMAIN gathered.resources
  PROVE  From(build_object_type(k), ClassesGathered)
<1> DEFINE oids == ClassesGathered
           r == gathered.resources[k]
           keep == {f \in RangeOf(RelationFields) : f[1] = r.name}
           mine == IF ByName(r.name) = k THEN Keep(RelationFields, keep) ELSE <<>>
           node == r.primary_key # <<>> /\ ~\E c \in r.columns : c.pg_name = <<"node", "id">>
           related == [j \in DOMAIN mine |-> mine[j][2]]
           id == IF node THEN <<Field(<<"node", "id">>, {<<"ID">>}, r.class_oid)>> ELSE <<>>
<1>1. build_object_type(k) = Def((Inputs(r) \o related) \o id, r.class_oid)
  BY DEF build_object_type
<1>2. r.class_oid \in oids /\ IsFiniteSet(r.columns)
  BY ResourceGathered DEF RangeOf
<1> HIDE DEF r, node, keep
<1>3. FieldsFrom(Inputs(r), oids)
  BY <1>2, InputsFrom
<1>4. FieldsFrom(id, oids)
  <2>1. Field(<<"node", "id">>, {<<"ID">>}, r.class_oid).of \in oids
    BY <1>2, FieldFrom
  <2> QED BY <2>1, FieldLists
<1>5. IsSequence(mine) /\ \A p \in RangeOf(mine) : p[2].of \in oids
  <2>1. IsSequence(RelationFields) /\ \A p \in RangeOf(RelationFields) : p[2].of \in oids
    BY RelationFieldsFrom
  <2>2. IsSequence(Keep(RelationFields, keep)) /\ RangeOf(Keep(RelationFields, keep)) = RangeOf(RelationFields) \cap keep
    BY <2>1, Kept
  <2> QED BY <2>1, <2>2, Short
<1> HIDE DEF mine
<1>6. Len(mine) \in Nat /\ DOMAIN mine = 1..Len(mine)
  BY <1>5, SequenceIs
<1>7. related = [j \in 1..Len(mine) |-> related[j]] /\ DOMAIN related = DOMAIN mine
  BY <1>6
<1>8. \A j \in DOMAIN mine : related[j].of \in oids
  BY <1>5 DEF RangeOf
<1> HIDE DEF related, id
<1>9. FieldsFrom(related, oids)
  BY <1>6, <1>7, <1>8, SequenceOf DEF FieldsFrom, RangeOf
<1>10. \A s, t : FieldsFrom(s, oids) /\ FieldsFrom(t, oids) => FieldsFrom(s \o t, oids)
  BY FieldLists
<1>11. FieldsFrom((Inputs(r) \o related) \o id, oids)
  BY <1>3, <1>4, <1>9, <1>10
<1> QED BY <1>1, <1>2, <1>11, DefFrom

\* A scalar or an enum comes from no class.
LEMMA LeafFrom ==
  ASSUME NEW labels, IsFiniteSet(labels)
  PROVE  From(Leaf(labels), {0})
<1> DEFINE first == Plain(<<>>, {})
           field(l) == Plain(<<l>>, {})
           S == {field(l) : l \in labels}
           f == [l \in labels |-> field(l)]
<1>1. f \in Surjection(labels, S)
  BY DEF Surjection
<1>2. IsFiniteSet(S)
  <2> HIDE DEF f, S
  <2> QED BY <1>1, FS_Surjection
<1>3. first.of = 0 /\ \A l : field(l).of = 0
  BY DEF Plain, Field
<1> HIDE DEF field, first
<1>4. \A x \in S : x.of \in {0}
  BY <1>3
<1>5. Leaf(labels) = Def(<<first>> \o SetToSeq(S), 0)
  BY DEF Leaf, first, field
<1> HIDE DEF S
<1>6. FieldsFrom(<<first>>, {0}) /\ FieldsFrom(SetToSeq(S), {0})
  <2>1. FieldsFrom(<<first>>, {0})
    <3>1. IsSequence(<<first>>) /\ RangeOf(<<first>>) = {first}
      BY Short
    <3> QED BY <1>3, <3>1 DEF FieldsFrom
  <2>2. IsSequence(SetToSeq(S)) /\ RangeOf(SetToSeq(S)) \subseteq S
    BY <1>2, Listed
  <2> QED BY <1>4, <2>1, <2>2 DEF FieldsFrom
<1>7. FieldsFrom(<<first>> \o SetToSeq(S), {0})
  BY <1>6, FieldLists
<1> QED BY <1>5, <1>7, DefFrom

\* The scalars and the enums come from no class.
LEMMA LeavesFrom ==
  ASSUME AfterGather, NEW oids, 0 \in oids
  PROVE  /\ DefsFrom(SetToSeq({<<<<s>>, Leaf({})>> : s \in ScalarTypes}), oids)
         /\ DefsFrom([k \in DOMAIN gathered.enums |-> <<gathered.enums[k].name, Leaf(gathered.enums[k].values)>>], oids)
<1>0. \A labels : IsFiniteSet(labels) => From(Leaf(labels), oids)
  BY LeafFrom DEF From
<1>1. DefsFrom(SetToSeq({<<<<s>>, Leaf({})>> : s \in ScalarTypes}), oids)
  <2> DEFINE leaf == Leaf({})
             pair(s) == <<<<s>>, leaf>>
             S == {pair(s) : s \in ScalarTypes}
             f == [s \in ScalarTypes |-> pair(s)]
  <2>1. IsFiniteSet(ScalarTypes)
    <3>1. \A T, x : IsFiniteSet(T) => IsFiniteSet(T \cup {x})
      BY FS_AddElement
    <3>2. IsFiniteSet({})
      BY FS_EmptySet
    <3>3. IsFiniteSet((((((({} \cup {"UUID"}) \cup {"DateTime"}) \cup {"Date"}) \cup {"BigInt"}) \cup {"JSON"}) \cup {"Cursor"}))
      BY <3>1, <3>2
    <3>4. ((((({} \cup {"UUID"}) \cup {"DateTime"}) \cup {"Date"}) \cup {"BigInt"}) \cup {"JSON"}) \cup {"Cursor"} = ScalarTypes
      BY DEF ScalarTypes
    <3> QED BY <3>3, <3>4
  <2>2. From(leaf, oids)
    BY <1>0, FS_EmptySet
  <2> HIDE DEF leaf
  <2>3. f \in Surjection(ScalarTypes, S)
    BY DEF Surjection
  <2>4. \A p \in S : p[2] = leaf
    OBVIOUS
  <2>5. IsFiniteSet(S)
    <3> HIDE DEF f, S
    <3> QED BY <2>1, <2>3, FS_Surjection
  <2> HIDE DEF S
  <2>6. DefsFrom(SetToSeq(S), oids)
    BY <2>2, <2>4, <2>5, Listed DEF DefsFrom
  <2> QED BY <2>6 DEF S, leaf
<1>2. DefsFrom([k \in DOMAIN gathered.enums |-> <<gathered.enums[k].name, Leaf(gathered.enums[k].values)>>], oids)
  <2> DEFINE types == introspection.types
             keep == {t \in RangeOf(types) : t.is_enum /\ t.schema_oid \in SchemasSeen}
             kept == Keep(types, keep)
             labels(k) == {e.label : e \in {f \in RangeOf(introspection.enums) : f.type_oid = kept[k].oid}}
             defs == [k \in DOMAIN gathered.enums |-> <<gathered.enums[k].name, Leaf(gathered.enums[k].values)>>]
  <2>1. gathered.enums = [k \in DOMAIN kept |-> [name |-> to_type_name(kept[k].name), values |-> labels(k)]]
    BY DEF AfterGather, gather_output, build_enums, SchemasSeen
  <2>2. IsSequence(types) /\ IsSequence(introspection.enums)
    BY DEF AfterGather, SoundCatalog, Queries
  <2>3. IsSequence(kept)
    <3> HIDE DEF keep, types
    <3> QED BY <2>2, Kept
  <2>4. Len(kept) \in Nat /\ DOMAIN kept = 1..Len(kept)
    BY <2>3, SequenceIs
  <2>5. ASSUME NEW k \in DOMAIN kept PROVE IsFiniteSet(labels(k))
    <3> DEFINE T == {f \in RangeOf(introspection.enums) : f.type_oid = kept[k].oid}
               L == {e.label : e \in T}
               g == [e \in T |-> e.label]
    <3>1. IsFiniteSet(T)
      BY <2>2, SequenceIs, FS_Subset
    <3>2. g \in Surjection(T, L)
      BY DEF Surjection
    <3>3. IsFiniteSet(L)
      <4> HIDE DEF T, L, g
      <4> QED BY <3>1, <3>2, FS_Surjection
    <3> QED BY <3>3
  <2> HIDE DEF kept, labels
  <2>6. DOMAIN gathered.enums = 1..Len(kept) /\ \A k \in DOMAIN kept : gathered.enums[k].values = labels(k)
    BY <2>1, <2>4
  <2>7. /\ DOMAIN defs = 1..Len(kept) /\ defs = [k \in 1..Len(kept) |-> defs[k]]
        /\ \A k \in 1..Len(kept) : defs[k][2] = Leaf(gathered.enums[k].values)
    BY <2>6
  <2>8. \A k \in 1..Len(kept) : From(defs[k][2], oids)
    <3> HIDE DEF defs
    <3> QED BY <1>0, <2>4, <2>5, <2>6, <2>7
  <2> HIDE DEF defs
  <2>9. DefsFrom(defs, oids)
    BY <2>4, <2>7, <2>8, SequenceOf DEF DefsFrom, RangeOf
  <2> QED BY <2>9 DEF defs
<1> QED BY <1>1, <1>2

\* Types registered from lists that come from these classes (see Registered).
LEMMA RegisteredFrom ==
  ASSUME NEW oids, NEW b, IsBuilder(b), ComesFrom(b, oids), NEW defs, DefsFrom(defs, oids)
  PROVE  Extends(b, register(b, defs), oids) /\ IsBuilder(register(b, defs)) /\ ComesFrom(register(b, defs), oids)
BY Registered DEF DefsFrom, Extends

\* The first pass: scalars, enums, object types and loaders.
LEMMA ObjectTypesFrom ==
  ASSUME AfterGather
  PROVE  /\ IsBuilder(object_types) /\ ComesFrom(object_types, ClassesGathered)
         /\ \A r \in RangeOf(gathered.resources) : r.name \in DOMAIN object_types.types
<1> DEFINE oids == ClassesGathered
           rs == gathered.resources
           scalars == SetToSeq({<<<<s>>, Leaf({})>> : s \in ScalarTypes})
           enums == [k \in DOMAIN gathered.enums |-> <<gathered.enums[k].name, Leaf(gathered.enums[k].values)>>]
           objects == [k \in DOMAIN rs |-> <<rs[k].name, build_object_type(k)>>]
           b1 == register(NoBuilder, scalars)
           b2 == register(b1, enums)
           b3 == register(b2, objects)
           bad == \E k \in DOMAIN objects : Twice(objects[k][2].fields)
<1>1. IsBuilder(NoBuilder) /\ ComesFrom(NoBuilder, oids)
  <2>0. IsSequence(<<>>) /\ RangeOf(<<>>) = {}
    BY Short
  <2>1. DOMAIN <<>> = {} /\ IsSequence(<<>>) /\ RangeOf(<<>>) = {}
    BY <2>0
  <2>2. /\ NoBuilder.types = <<>> /\ NoBuilder.query = <<>> /\ NoBuilder.mutation = <<>>
        /\ NoBuilder.loaders = <<>> /\ NoBuilder.plans = {} /\ NoBuilder.panicked = FALSE
    BY DEF NoBuilder
  <2>3. IsBuilder(NoBuilder)
    BY <2>1, <2>2 DEF IsBuilder, NoBuilder
  <2> QED BY <2>1, <2>2, <2>3 DEF ComesFrom
<1>2. 0 \in oids
  BY ResourceGathered
<1>3. DefsFrom(scalars, oids) /\ DefsFrom(enums, oids)
  BY <1>2, LeavesFrom
<1>4. Len(rs) \in Nat /\ DOMAIN rs = 1..Len(rs)
  BY ResourceGathered
<1>5. /\ DOMAIN objects = DOMAIN rs /\ objects = [k \in 1..Len(rs) |-> objects[k]]
      /\ \A k \in DOMAIN rs : objects[k][1] = rs[k].name /\ objects[k][2] = build_object_type(k)
  BY <1>4
<1>6. object_types = [b3 EXCEPT !.panicked = bad, !.loaders = Loaders]
  BY DEF object_types, register_enums, register_scalars
<1>7. bad \in BOOLEAN
  OBVIOUS
<1> HIDE DEF scalars, enums, objects, bad
<1>8. DefsFrom(objects, oids)
  <2>1. IsSequence(objects)
    BY <1>4, <1>5, SequenceOf
  <2>2. \A k \in DOMAIN rs : From(objects[k][2], oids)
    BY <1>5, ObjectTypeFrom
  <2> QED BY <1>5, <2>1, <2>2 DEF DefsFrom, RangeOf
<1>9. IsBuilder(b1) /\ ComesFrom(b1, oids)
  BY <1>1, <1>3, RegisteredFrom
<1> HIDE DEF b1
<1>10. IsBuilder(b2) /\ ComesFrom(b2, oids)
  BY <1>3, <1>9, RegisteredFrom
<1> HIDE DEF b2
<1>11. IsBuilder(b3) /\ ComesFrom(b3, oids)
  BY <1>8, <1>10, RegisteredFrom
<1>12. ASSUME NEW r \in RangeOf(rs) PROVE r.name \in DOMAIN b3.types
  <2>1. PICK k \in DOMAIN rs : r = rs[k]
    BY DEF RangeOf
  <2>2. objects[k] \in RangeOf(objects) /\ objects[k][1] = r.name
    BY <1>5, <2>1 DEF RangeOf
  <2>3. \A t : t \in DOMAIN b3.types <=> t \in DOMAIN b2.types \/ \E p \in RangeOf(objects) : p[1] = t
    BY <1>8, <1>10, Registered DEF DefsFrom
  <2> QED BY <2>2, <2>3
<1> HIDE DEF b3
<1>13. object_types = [types |-> b3.types, query |-> b3.query, mutation |-> b3.mutation,
                       loaders |-> Loaders, plans |-> b3.plans, panicked |-> bad]
  BY <1>6, <1>11 DEF IsBuilder
<1>14. /\ object_types.types = b3.types /\ object_types.query = b3.query /\ object_types.mutation = b3.mutation
       /\ object_types.loaders = Loaders /\ object_types.plans = b3.plans /\ object_types.panicked = bad
  BY <1>13
<1>15. IsBuilder(object_types)
  BY <1>7, <1>11, <1>13, <1>14 DEF IsBuilder
<1>16. ComesFrom(object_types, oids)
  BY <1>11, <1>14, LoadersFrom DEF ComesFrom
<1> QED BY <1>12, <1>14, <1>15, <1>16

\* The resources with a flag are resources.
LEMMA HavingIs ==
  ASSUME AfterGather, NEW flag
  PROVE  /\ IsSequence(Having(flag)) /\ RangeOf(Having(flag)) \subseteq RangeOf(gathered.resources)
<1> DEFINE rs == gathered.resources
           S == {r \in RangeOf(rs) : flag \in Flags(r)}
<1>1. IsSequence(rs)
  BY ResourcesAre
<1>2. Having(flag) = Keep(rs, S)
  BY DEF Having
<1> HIDE DEF S, rs
<1> QED BY <1>1, <1>2, Kept DEF rs

\* The types that are registered for each of some resources.
LEMMA TypesForEach ==
  ASSUME AfterGather, NEW rs, IsSequence(rs), RangeOf(rs) \subseteq RangeOf(gathered.resources)
  PROVE  /\ DefsFrom(Each(rs, register_connection_types), ClassesGathered)
         /\ DefsFrom(Each(rs, register_filter_types), ClassesGathered)
         /\ DefsFrom(Each(rs, register_order_by_types), ClassesGathered)
         /\ DefsFrom(Each(rs, register_condition_types), ClassesGathered)
<1>1. Len(rs) \in Nat /\ DOMAIN rs = 1..Len(rs)
  BY SequenceIs
<1>2. ASSUME NEW k \in DOMAIN rs
      PROVE  /\ DefsFrom(register_connection_types(rs[k]), ClassesGathered)
             /\ DefsFrom(register_filter_types(rs[k]), ClassesGathered)
             /\ DefsFrom(register_order_by_types(rs[k]), ClassesGathered)
             /\ DefsFrom(register_condition_types(rs[k]), ClassesGathered)
  <2>1. rs[k].class_oid \in ClassesGathered /\ IsFiniteSet(rs[k].columns)
    BY ResourceGathered DEF RangeOf
  <2> QED BY <2>1, ResourceTypes
<1>3. ASSUME NEW lists, lists = [k \in 1..Len(rs) |-> lists[k]], \A k \in DOMAIN rs : DefsFrom(lists[k], ClassesGathered)
      PROVE  DefsFrom(FlattenSeq(lists), ClassesGathered)
  <2>1. IsSequence(lists) /\ DOMAIN lists = DOMAIN rs
    BY <1>1, <1>3, SequenceOf
  <2> QED BY <1>3, <2>1, EachFrom
<1>4. DefsFrom(Each(rs, register_connection_types), ClassesGathered)
  <2> DEFINE lists == [k \in DOMAIN rs |-> register_connection_types(rs[k])]
  <2>1. lists = [k \in 1..Len(rs) |-> lists[k]] /\ \A k \in DOMAIN rs : DefsFrom(lists[k], ClassesGathered)
    BY <1>1, <1>2
  <2>2. Each(rs, register_connection_types) = FlattenSeq(lists)
    BY DEF Each
  <2> HIDE DEF lists
  <2> QED BY <1>3, <2>1, <2>2
<1>5. DefsFrom(Each(rs, register_filter_types), ClassesGathered)
  <2> DEFINE lists == [k \in DOMAIN rs |-> register_filter_types(rs[k])]
  <2>1. lists = [k \in 1..Len(rs) |-> lists[k]] /\ \A k \in DOMAIN rs : DefsFrom(lists[k], ClassesGathered)
    BY <1>1, <1>2
  <2>2. Each(rs, register_filter_types) = FlattenSeq(lists)
    BY DEF Each
  <2> HIDE DEF lists
  <2> QED BY <1>3, <2>1, <2>2
<1>6. DefsFrom(Each(rs, register_order_by_types), ClassesGathered)
  <2> DEFINE lists == [k \in DOMAIN rs |-> register_order_by_types(rs[k])]
  <2>1. lists = [k \in 1..Len(rs) |-> lists[k]] /\ \A k \in DOMAIN rs : DefsFrom(lists[k], ClassesGathered)
    BY <1>1, <1>2
  <2>2. Each(rs, register_order_by_types) = FlattenSeq(lists)
    BY DEF Each
  <2> HIDE DEF lists
  <2> QED BY <1>3, <2>1, <2>2
<1>7. DefsFrom(Each(rs, register_condition_types), ClassesGathered)
  <2> DEFINE lists == [k \in DOMAIN rs |-> register_condition_types(rs[k])]
  <2>1. lists = [k \in 1..Len(rs) |-> lists[k]] /\ \A k \in DOMAIN rs : DefsFrom(lists[k], ClassesGathered)
    BY <1>1, <1>2
  <2>2. Each(rs, register_condition_types) = FlattenSeq(lists)
    BY DEF Each
  <2> HIDE DEF lists
  <2> QED BY <1>3, <2>1, <2>2
<1> QED BY <1>4, <1>5, <1>6, <1>7

\* A step that extends a builder from gathered classes.
Builds(b, c) == Extends(b, c, ClassesGathered)

\* The second pass: the node interface, page info, and the types of the resources.
LEMMA TypesOfResourcesFrom ==
  ASSUME AfterGather, IsBuilder(builder), ComesFrom(builder, ClassesGathered)
  PROVE  Builds(builder, types_of_resources)
<1> DEFINE oids == ClassesGathered
           nodes == <<Plain(<<"node", "id">>, {<<"ID">>})>>
           node == <<<<<<"Node">>, Def(nodes, 0)>>>>
           roots == <<Plain(<<"_placeholder">>, {<<"String">>}), Plain(<<"node">>, {<<"Node">>})>>
           infos == <<Plain(<<"end", "cursor">>, {<<"Boolean">>, <<"Cursor">>})>>
           info == <<<<<<"PageInfo">>, Def(infos, 0)>>>>
           conns == Each(Having("CONNECTION"), register_connection_types)
           filters == Each(Having("FILTER"), register_filter_types)
           orders == Each(Having("ORDER_BY"), register_order_by_types)
           conds == Each(gathered.resources, register_condition_types)
           b1 == register(builder, node)
           b2 == root_fields(b1, "query", roots)
           b3 == register(b2, info)
           all == ((conns \o filters) \o orders) \o conds
           b4 == register(b3, all)
<1>1. types_of_resources = b4
  BY DEF types_of_resources, register_page_info, register_node_interface
<1>2. 0 \in oids
  BY ResourceGathered
<1>3. \A name, refs : Plain(name, refs).of = 0
  BY DEF Plain, Field
<1>4. FieldsFrom(nodes, oids) /\ FieldsFrom(roots, oids) /\ FieldsFrom(infos, oids)
  BY <1>2, <1>3, FieldLists
<1> HIDE DEF nodes, roots, infos
<1>5. From(Def(nodes, 0), oids) /\ From(Def(infos, 0), oids)
  BY <1>2, <1>4, DefFrom
<1>6. DefsFrom(node, oids) /\ DefsFrom(info, oids)
  BY <1>5, DefLists
<1>7. DefsFrom(conns, oids) /\ DefsFrom(filters, oids) /\ DefsFrom(orders, oids) /\ DefsFrom(conds, oids)
  BY HavingIs, ResourcesAre, TypesForEach
<1> HIDE DEF node, info, conns, filters, orders, conds
<1>8. \A s, t : DefsFrom(s, oids) /\ DefsFrom(t, oids) => DefsFrom(s \o t, oids)
  BY DefLists
<1>9. DefsFrom(all, oids)
  BY <1>7, <1>8
<1> HIDE DEF all
<1>10. Extends(builder, b1, oids)
  BY <1>6, RegisteredFrom
<1> HIDE DEF b1
<1>11. Extends(b1, b2, oids)
  BY <1>4, <1>10, RootFields DEF Extends, FieldsFrom
<1> HIDE DEF b2
<1>12. Extends(b2, b3, oids)
  BY <1>6, <1>11, RegisteredFrom DEF Extends
<1> HIDE DEF b3
<1>13. Extends(b3, b4, oids)
  BY <1>9, <1>12, RegisteredFrom DEF Extends
<1> HIDE DEF b4
<1>14. Extends(builder, b2, oids)
  BY <1>10, <1>11, ExtendsTwice
<1>15. Extends(builder, b3, oids)
  BY <1>12, <1>14, ExtendsTwice
<1>16. Extends(builder, b4, oids)
  BY <1>13, <1>15, ExtendsTwice
<1> QED BY <1>1, <1>16 DEF Builds

\* The third pass: the query fields of the resources.
LEMMA QueryFieldsFrom ==
  ASSUME AfterGather, IsBuilder(builder), ComesFrom(builder, ClassesGathered)
  PROVE  Builds(builder, query_fields) /\ query_fields.types = builder.types
<1> DEFINE oids == ClassesGathered
           rs == gathered.resources
           one(r) == IF "CONNECTION" \in Flags(r) THEN <<build_allx_resolver(r)>> ELSE <<>>
           two(r) == IF "SELECT_ONE" \in Flags(r) THEN <<build_by_pk_resolver(r)>> ELSE <<>>
           fields(r) == one(r) \o two(r)
           lists == [k \in DOMAIN rs |-> fields(rs[k])]
<1>1. query_fields = root_fields(builder, "query", FlattenSeq(lists))
  BY DEF query_fields, Each
<1>2. ASSUME NEW r \in RangeOf(rs) PROVE FieldsFrom(fields(r), oids)
  <2>1. build_allx_resolver(r).of \in oids /\ build_by_pk_resolver(r).of \in oids
    BY ResourceGathered, FieldFrom DEF build_allx_resolver, build_by_pk_resolver
  <2>2. FieldsFrom(one(r), oids) /\ FieldsFrom(two(r), oids)
    BY <2>1, FieldLists
  <2> HIDE DEF one, two
  <2>3. \A s, t : FieldsFrom(s, oids) /\ FieldsFrom(t, oids) => FieldsFrom(s \o t, oids)
    BY FieldLists
  <2> QED BY <2>2, <2>3
<1> HIDE DEF fields
<1>3. Len(rs) \in Nat /\ DOMAIN rs = 1..Len(rs)
  BY ResourceGathered
<1>4. DOMAIN lists = DOMAIN rs /\ lists = [k \in 1..Len(rs) |-> lists[k]] /\ \A k \in DOMAIN rs : lists[k] = fields(rs[k])
  BY <1>3
<1> HIDE DEF lists
<1>5. IsSequence(lists) /\ \A k \in DOMAIN lists : FieldsFrom(lists[k], oids)
  BY <1>2, <1>3, <1>4, SequenceOf DEF RangeOf
<1>6. FieldsFrom(FlattenSeq(lists), oids)
  BY <1>5, EachFrom
<1> QED BY <1>1, <1>6, RootFields DEF Builds, FieldsFrom

\* The fourth pass: the mutations of the resources and their types.
LEMMA MutationRootFrom ==
  ASSUME AfterGather, IsBuilder(builder), ComesFrom(builder, ClassesGathered)
  PROVE  /\ Builds(builder, mutation_root)
         /\ \A t \in DOMAIN builder.types : mutation_root.types[t] = builder.types[t] \/ IsMutationType(t)
<1> DEFINE oids == ClassesGathered
           rs == gathered.resources
           on(r) == Keep(Verbs, {v \in RangeOf(Verbs) : v[2] \in Flags(r)})
           typelists(r) == [j \in DOMAIN on(r) |-> register_mutation_types(r, on(r)[j][1])]
           types(r) == FlattenSeq(typelists(r))
           fields(r) == [j \in DOMAIN on(r) |-> mutation_resolver(r, on(r)[j][1])]
           tlists == [k \in DOMAIN rs |-> types(rs[k])]
           flists == [k \in DOMAIN rs |-> fields(rs[k])]
           b1 == register(builder, FlattenSeq(tlists))
<1>1. mutation_root = root_fields(b1, "mutation", FlattenSeq(flists))
  BY DEF mutation_root, Each
<1>2. IsSequence(Verbs) /\ \A v \in RangeOf(Verbs) : v[1] \in {"create", "update", "delete"}
  <2> DEFINE v1 == <<"create", "INSERT">>
             v2 == <<"update", "UPDATE">>
             v3 == <<"delete", "DELETE">>
             one == <<v1>>
             two == <<v2, v3>>
  <2>1. Verbs = one \o two
    BY DEF Verbs
  <2>2. v1[1] = "create" /\ v2[1] = "update" /\ v3[1] = "delete"
    OBVIOUS
  <2> HIDE DEF v1, v2, v3
  <2>3. IsSequence(one) /\ RangeOf(one) = {v1} /\ IsSequence(two) /\ RangeOf(two) = {v2, v3}
    BY Short, Two
  <2> HIDE DEF one, two
  <2>4. IsSequence(one \o two) /\ RangeOf(one \o two) = RangeOf(one) \cup RangeOf(two)
    BY <2>3, Joined
  <2> QED BY <2>1, <2>2, <2>3, <2>4
<1>3. ASSUME NEW r \in RangeOf(rs)
      PROVE  /\ DefsFrom(types(r), oids) /\ FieldsFrom(fields(r), oids)
             /\ \A p \in RangeOf(types(r)) : IsMutationType(p[1])
  <2>1. r.class_oid \in oids /\ IsFiniteSet(r.columns)
    BY ResourceGathered
  <2> DEFINE S == {v \in RangeOf(Verbs) : v[2] \in Flags(r)}
             list == on(r)
             ts == typelists(r)
             fs == fields(r)
  <2>2. IsSequence(list) /\ \A v \in RangeOf(list) : v \in S /\ v[1] \in {"create", "update", "delete"}
    <3>1. list = Keep(Verbs, S)
      OBVIOUS
    <3> HIDE DEF S, list
    <3> QED BY <1>2, <3>1, Kept
  <2> HIDE DEF on, list
  <2>3. Len(list) \in Nat /\ DOMAIN list = 1..Len(list)
    BY <2>2, SequenceIs
  <2>4. \A j \in DOMAIN list : list[j][1] \in {"create", "update", "delete"}
    BY <2>2 DEF RangeOf
  <2>5. /\ DOMAIN ts = DOMAIN list /\ ts = [j \in 1..Len(list) |-> ts[j]]
        /\ \A j \in DOMAIN list : ts[j] = register_mutation_types(r, list[j][1])
    BY <2>3 DEF list
  <2>6. /\ DOMAIN fs = DOMAIN list /\ fs = [j \in 1..Len(list) |-> fs[j]]
        /\ \A j \in DOMAIN list : fs[j] = mutation_resolver(r, list[j][1])
    BY <2>3 DEF list
  <2>7. types(r) = FlattenSeq(ts)
    OBVIOUS
  <2> HIDE DEF ts, fs, typelists, types
  <2>8. IsSequence(ts) /\ \A j \in DOMAIN ts : DefsFrom(ts[j], oids)
    BY <2>1, <2>3, <2>4, <2>5, SequenceOf, MutationTypes
  <2>9. DefsFrom(types(r), oids)
    BY <2>7, <2>8, EachFrom
  <2>10. \A verb : mutation_resolver(r, verb).of \in oids
    BY <2>1, FieldFrom DEF mutation_resolver
  <2>11. FieldsFrom(fs, oids)
    BY <2>3, <2>6, <2>10, SequenceOf DEF FieldsFrom, RangeOf
  <2>12. ASSUME NEW p \in RangeOf(types(r)) PROVE IsMutationType(p[1])
    <3>1. RangeOf(types(r)) = UNION {RangeOf(ts[j]) : j \in DOMAIN ts}
      <4>1. \A j \in DOMAIN ts : IsSequence(ts[j])
        BY <2>8 DEF DefsFrom
      <4> QED BY <2>7, <2>8, <4>1, Flattened
    <3>0. PICK j \in DOMAIN ts : p \in RangeOf(ts[j])
      <4> DEFINE all == RangeOf(types(r))
      <4>1. p \in all /\ all = UNION {RangeOf(ts[k]) : k \in DOMAIN ts}
        BY <2>12, <3>1
      <4> HIDE DEF all
      <4> QED BY <4>1
    <3>2. j \in DOMAIN list /\ p \in RangeOf(register_mutation_types(r, list[j][1]))
      BY <2>5, <3>0
    <3>3. list[j] \in RangeOf(Verbs) /\ list[j][2] \in Flags(r)
      BY <2>2, <3>2 DEF RangeOf, S
    <3> QED BY <3>2, <3>3 DEF IsMutationType
  <2> QED BY <2>9, <2>11, <2>12 DEF fs
<1> HIDE DEF types, fields
<1>4. Len(rs) \in Nat /\ DOMAIN rs = 1..Len(rs)
  BY ResourceGathered
<1>5. /\ DOMAIN tlists = DOMAIN rs /\ tlists = [k \in 1..Len(rs) |-> tlists[k]] /\ \A k \in DOMAIN rs : tlists[k] = types(rs[k])
      /\ DOMAIN flists = DOMAIN rs /\ flists = [k \in 1..Len(rs) |-> flists[k]] /\ \A k \in DOMAIN rs : flists[k] = fields(rs[k])
  BY <1>4
<1> HIDE DEF tlists, flists
<1>6. IsSequence(tlists) /\ \A k \in DOMAIN tlists : DefsFrom(tlists[k], oids)
  BY <1>3, <1>4, <1>5, SequenceOf DEF RangeOf
<1>7. IsSequence(flists) /\ \A k \in DOMAIN flists : FieldsFrom(flists[k], oids)
  BY <1>3, <1>4, <1>5, SequenceOf DEF RangeOf
<1>8. DefsFrom(FlattenSeq(tlists), oids) /\ FieldsFrom(FlattenSeq(flists), oids)
  BY <1>6, <1>7, EachFrom
<1>9. Extends(builder, b1, oids) /\ b1.types = Insert(builder.types, FlattenSeq(tlists))
  BY <1>8, Registered DEF DefsFrom
<1> HIDE DEF b1
<1>10. Extends(b1, mutation_root, oids) /\ mutation_root.types = b1.types
  BY <1>1, <1>8, <1>9, RootFields DEF Extends, FieldsFrom
<1>11. ASSUME NEW p \in RangeOf(FlattenSeq(tlists)) PROVE IsMutationType(p[1])
  <2>1. RangeOf(FlattenSeq(tlists)) = UNION {RangeOf(tlists[k]) : k \in DOMAIN tlists}
    <3>1. \A k \in DOMAIN tlists : IsSequence(tlists[k])
      BY <1>6 DEF DefsFrom
    <3> QED BY <1>6, <3>1, Flattened
  <2>0. PICK k \in DOMAIN tlists : p \in RangeOf(tlists[k])
    <3> DEFINE all == RangeOf(FlattenSeq(tlists))
    <3>1. p \in all /\ all = UNION {RangeOf(tlists[k]) : k \in DOMAIN tlists}
      BY <1>11, <2>1
    <3> HIDE DEF all
    <3> QED BY <3>1
  <2>2. k \in DOMAIN rs /\ p \in RangeOf(types(rs[k]))
    BY <1>5, <2>0
  <2> QED BY <1>3, <2>2 DEF RangeOf
<1>12. \A t \in DOMAIN builder.types : mutation_root.types[t] = builder.types[t] \/ IsMutationType(t)
  BY <1>8, <1>9, <1>10, <1>11, InsertedElsewhere DEF DefsFrom
<1> QED BY <1>9, <1>10, <1>12, ExtendsTwice DEF Builds

-----------------------------------------------------------------------------
(* The inductive invariant.                                                *)

\* Once gather ran, the state is what it made of the catalog.
LEMMA GatherRan ==
  ASSUME SchemaInv, phase \in Gathered
  PROVE  AfterGather /\ extensions \in Extensions
BY DEF SchemaInv, AfterGather, InputsKept, Configured, CatalogRead, GatheredNow, Gathered

\* Nothing that was gathered changes in the passes.
LEMMA GatheredStays ==
  ASSUME SchemaInv, phase \in Gathered, phase' \in Gathered,
         UNCHANGED <<preset, introspection, registry, gathered, inputs>>
  PROVE  /\ PhaseKnown' /\ InputsKept' /\ Configured' /\ CatalogRead' /\ GatheredNow'
         /\ ClassesGathered' = ClassesGathered /\ (has_mutations' <=> has_mutations)
<1>1. catalogs' = catalogs /\ overrides' = overrides /\ extensions' = extensions
  BY DEF inputs
<1>2. InputsKept'
  BY <1>1 DEF SchemaInv, InputsKept
<1>3. Configured'
  <2>1. preset["pg_schemas"] = Setting("pg_schemas") /\ preset["exposure"] = Setting("exposure")
    BY DEF SchemaInv, Configured, Gathered
  <2>2. Setting("pg_schemas")' = Setting("pg_schemas") /\ Setting("exposure")' = Setting("exposure")
    BY <1>1 DEF Setting
  <2> QED BY <2>1, <2>2 DEF Configured
<1>4. CatalogRead'
  BY DEF SchemaInv, CatalogRead
<1>5. GatheredNow'
  BY DEF SchemaInv, GatheredNow
<1>6. ClassesGathered' = ClassesGathered
  BY DEF ClassesGathered
<1>7. has_mutations' <=> has_mutations
  BY DEF has_mutations
<1>8. PhaseKnown'
  BY DEF PhaseKnown
<1> QED BY <1>2, <1>3, <1>4, <1>5, <1>6, <1>7, <1>8

\* What a hook left is still there after the builder grew.
LEMMA AllStillHeard ==
  ASSUME extensions \in Extensions, NEW hook \in Hooks, NEW b, NEW c, Grows(b, c),
         \A e \in RangeOf(extensions) : \A call \in RangeOf(e[hook]) : Heard(b, hook, call)
  PROVE  \A e \in RangeOf(extensions) : \A call \in RangeOf(e[hook]) : Heard(c, hook, call)
<1> SUFFICES ASSUME NEW e \in RangeOf(extensions), NEW call \in RangeOf(e[hook]) PROVE Heard(c, hook, call)
  OBVIOUS
<1>1. GoodCall(call)
  BY CallsAre
<1>2. call.do \in {"register_type", "plan_field", "query_field", "mutation_field"}
  BY <1>1 DEF GoodCall
<1>3. Heard(b, hook, call)
  OBVIOUS
<1> QED BY <1>2, <1>3, StillHeard

\* The extend_mutation hook runs exactly if there are mutations.
LEMMA HooksRunAre ==
  ASSUME AfterGather
  PROVE  /\ has_mutations => HooksRun = {"register_types", "extend_query"} \cup {"extend_mutation"}
         /\ ~has_mutations => HooksRun = {"register_types", "extend_query"}
<1> DEFINE writable == \E r \in RangeOf(gathered.resources) : Flags(r) \cap {"INSERT", "UPDATE", "DELETE"} # {}
<1>1. writable <=> has_mutations
  BY BehaviorsNamed DEF Flags, has_mutations
<1>2. HooksRun = {h \in Hooks : h = "extend_mutation" => writable}
  BY DEF HooksRun
<1> HIDE DEF writable
<1> QED BY <1>1, <1>2 DEF Hooks

\* One more hook, after passes that replace no type but those of mutations: the
\* types of the earlier hooks are kept, unless the new calls name them again.
LEMMA OneMoreHook ==
  ASSUME NEW hooks \in SUBSET Hooks, NEW hook \in Hooks, \A h \in hooks : HookNumber[h] < HookNumber[hook],
         NEW a, NEW b, NEW c, DefsKept(a, hooks), DOMAIN a.types \subseteq DOMAIN b.types, DOMAIN b.types \subseteq DOMAIN c.types,
         \A t \in DOMAIN a.types : b.types[t] = a.types[t] \/ IsMutationType(t),
         \A t \in DOMAIN b.types : c.types[t] = b.types[t] \/ \E j \in DOMAIN HookCalls(hook) : Names(HookCalls(hook)[j], t),
         \A j \in DOMAIN HookCalls(hook) : HookCalls(hook)[j].do = "register_type" =>
           /\ HookCalls(hook)[j].name \in DOMAIN c.types
           /\ \/ c.types[HookCalls(hook)[j].name] = HookCalls(hook)[j].def
              \/ \E i \in DOMAIN HookCalls(hook) : j < i /\ Names(HookCalls(hook)[i], HookCalls(hook)[j].name)
  PROVE  DefsKept(c, hooks \cup {hook})
<1> SUFFICES ASSUME NEW h \in hooks \cup {hook}, NEW k \in DOMAIN HookCalls(h), HookCalls(h)[k].do = "register_type"
             PROVE  /\ HookCalls(h)[k].name \in DOMAIN c.types
                    /\ c.types[HookCalls(h)[k].name] = HookCalls(h)[k].def \/ Replaced(h, k, hooks \cup {hook})
  BY DEF DefsKept
<1> DEFINE name == HookCalls(h)[k].name
<1>1. CASE h = hook
  <2>1. /\ name \in DOMAIN c.types
        /\ \/ c.types[name] = HookCalls(h)[k].def
           \/ \E i \in DOMAIN HookCalls(hook) : k < i /\ Names(HookCalls(hook)[i], name)
    BY <1>1
  <2>2. (\E i \in DOMAIN HookCalls(hook) : k < i /\ Names(HookCalls(hook)[i], name)) => Replaced(h, k, hooks \cup {hook})
    BY <1>1 DEF Replaced, Names
  <2> QED BY <2>1, <2>2
<1>2. CASE h \in hooks
  <2>1. name \in DOMAIN a.types /\ (a.types[name] = HookCalls(h)[k].def \/ Replaced(h, k, hooks))
    BY <1>2 DEF DefsKept
  <2>2. name \in DOMAIN b.types /\ name \in DOMAIN c.types
    BY <2>1
  <2>3. Replaced(h, k, hooks) => Replaced(h, k, hooks \cup {hook})
    BY DEF Replaced
  <2>4. IsMutationType(name) => Replaced(h, k, hooks \cup {hook})
    <3>1. h # "extend_mutation"
      BY <1>2 DEF HookNumber, Hooks
    <3> QED BY <3>1 DEF Replaced
  <2>5. (\E j \in DOMAIN HookCalls(hook) : Names(HookCalls(hook)[j], name)) => Replaced(h, k, hooks \cup {hook})
    BY <1>2 DEF Replaced, Names
  <2>6. b.types[name] = a.types[name] \/ IsMutationType(name)
    BY <2>1
  <2>7. c.types[name] = b.types[name] \/ \E j \in DOMAIN HookCalls(hook) : Names(HookCalls(hook)[j], name)
    BY <2>2
  <2> HIDE DEF name
  <2> QED BY <2>1, <2>2, <2>3, <2>4, <2>5, <2>6, <2>7 DEF name
<1> QED BY <1>1, <1>2

\* The roots, registered last, replace no other type.
LEMMA RootsReplaceThemselves ==
  ASSUME NEW hooks, NEW b, NEW c, DefsKept(b, hooks), DOMAIN b.types \subseteq DOMAIN c.types,
         \A t \in DOMAIN b.types : c.types[t] = b.types[t] \/ t \in {<<"Query">>, <<"Mutation">>}
  PROVE  DefsKept(c, hooks)
<1> SUFFICES ASSUME NEW h \in hooks, NEW k \in DOMAIN HookCalls(h), HookCalls(h)[k].do = "register_type"
             PROVE  /\ HookCalls(h)[k].name \in DOMAIN c.types
                    /\ c.types[HookCalls(h)[k].name] = HookCalls(h)[k].def \/ Replaced(h, k, hooks)
  BY DEF DefsKept
<1> DEFINE name == HookCalls(h)[k].name
<1>1. name \in DOMAIN b.types /\ (b.types[name] = HookCalls(h)[k].def \/ Replaced(h, k, hooks))
  BY DEF DefsKept
<1>2. c.types[name] = b.types[name] \/ name \in {<<"Query">>, <<"Mutation">>}
  BY <1>1
<1>3. name \in {<<"Query">>, <<"Mutation">>} => Replaced(h, k, hooks)
  BY DEF Replaced
<1> QED BY <1>1, <1>2, <1>3

\* What is kept of the extensions' types depends on the inputs and on gather only.
LEMMA DefsStay ==
  ASSUME UNCHANGED <<extensions, gathered>>, NEW hooks, DefsKept(builder', hooks)
  PROVE  DefsKept(builder, hooks)'
<1>1. \A h : HookCalls(h)' = HookCalls(h)
  BY DEF HookCalls
<1>2. \A t : IsMutationType(t)' <=> IsMutationType(t)
  BY DEF IsMutationType, Flags
<1>3. \A h, k : Replaced(h, k, hooks) => Replaced(h, k, hooks)'
  BY <1>1, <1>2 DEF Replaced
<1> QED BY <1>1, <1>3 DEF DefsKept

\* Nothing is built before gather ran.
LEMMA InvInit ==
  SchemaInit => SchemaInv
<1> SUFFICES ASSUME SchemaInit PROVE SchemaInv
  OBVIOUS
<1>1. IsSequence(<<>>)
  BY Short
<1>2. IsBuilder(NoBuilder)
  <2>1. /\ NoBuilder.types = <<>> /\ NoBuilder.query = <<>> /\ NoBuilder.mutation = <<>>
        /\ NoBuilder.loaders = <<>> /\ NoBuilder.plans = {} /\ NoBuilder.panicked = FALSE
    BY DEF NoBuilder
  <2> QED BY <1>1, <2>1 DEF IsBuilder, NoBuilder
<1>3. phase \notin Gathered /\ phase = "configure"
  BY DEF SchemaInit, Gathered
<1>4. PhaseKnown /\ InputsKept /\ builder = NoBuilder
  BY <1>3 DEF SchemaInit, PhaseKnown, InputsKept
<1>5. Configured /\ CatalogRead /\ GatheredNow
  BY <1>3 DEF Configured, CatalogRead, GatheredNow
<1>6. BuilderClean
  BY <1>2, <1>3, <1>4 DEF BuilderClean
<1>7. TypesNamed /\ CallsHeard /\ RootsRegistered
  BY <1>3 DEF TypesNamed, CallsHeard, RootsRegistered
<1>8. TypesKept
  <2>1. HooksDone = {}
    BY <1>3 DEF HooksDone
  <2> QED BY <1>3, <2>1 DEF TypesKept, DefsKept
<1> QED BY <1>4, <1>5, <1>6, <1>7, <1>8 DEF SchemaInv

\* Preset merging settles what is published.
LEMMA ConfigureKeeps ==
  ASSUME SchemaInv, Configure PROVE SchemaInv'
<1>1. /\ phase = "configure" /\ preset' = merge(DefaultPreset, overrides)
      /\ phase' \in {"introspect", "rejected"} /\ builder' = builder
      /\ catalogs' = catalogs /\ overrides' = overrides /\ extensions' = extensions
  BY DEF Configure, inputs
<1>2. phase \notin Gathered /\ phase' \notin Gathered \cup {"gather"}
  BY <1>1 DEF Gathered
<1>3. PhaseKnown' /\ InputsKept'
  BY <1>1 DEF SchemaInv, PhaseKnown, Gathered, InputsKept
<1>4. Configured'
  <2>1. {"pg_schemas", "exposure"} \subseteq DOMAIN DefaultPreset
    BY DEF DefaultPreset
  <2>2. preset'["pg_schemas"] = Setting("pg_schemas") /\ preset'["exposure"] = Setting("exposure")
    BY <1>1, <2>1, MergeIsSetting DEF SchemaInv, InputsKept
  <2>3. Setting("pg_schemas")' = Setting("pg_schemas") /\ Setting("exposure")' = Setting("exposure")
    BY <1>1 DEF Setting
  <2> QED BY <2>2, <2>3 DEF Configured
<1>5. CatalogRead' /\ GatheredNow'
  BY <1>2 DEF CatalogRead, GatheredNow
<1>6. BuilderClean'
  BY <1>1, <1>2 DEF SchemaInv, BuilderClean
<1>7. TypesNamed' /\ CallsHeard' /\ RootsRegistered'
  BY <1>1 DEF TypesNamed, CallsHeard, RootsRegistered
<1>8. TypesKept'
  <2>1. HooksDone' = {}
    BY <1>1 DEF HooksDone
  <2> QED BY <1>1, <2>1 DEF TypesKept, DefsKept
<1> QED BY <1>3, <1>4, <1>5, <1>6, <1>7, <1>8 DEF SchemaInv

\* The catalog queries, each at a moment of its own.
LEMMA IntrospectKeeps ==
  ASSUME SchemaInv, introspect PROVE SchemaInv'
<1>1. PICK at \in [Queries -> DOMAIN catalogs] :
        introspection' = [q \in Queries |-> fetch(q, catalogs[at[q]], preset.pg_schemas)]
  BY DEF introspect
<1>2. /\ phase = "introspect" /\ phase' = "gather" /\ preset' = preset /\ builder' = builder
      /\ catalogs' = catalogs /\ overrides' = overrides /\ extensions' = extensions
  BY DEF introspect, inputs
<1>3. phase \notin Gathered /\ phase' \notin Gathered
  BY <1>2 DEF Gathered
<1>4. PhaseKnown' /\ InputsKept'
  BY <1>2 DEF SchemaInv, PhaseKnown, InputsKept
<1>5. Configured'
  <2>1. Setting("pg_schemas")' = Setting("pg_schemas") /\ Setting("exposure")' = Setting("exposure")
    BY <1>2 DEF Setting
  <2> QED BY <1>2, <2>1 DEF SchemaInv, Configured
<1>6. CatalogRead'
  <2>1. SoundCatalog(introspection') /\ \A a \in RangeOf(introspection'["attributes"]) : a.num > 0
    BY <1>1, IntrospectionSound DEF SchemaInv, InputsKept
  <2> QED BY <2>1 DEF CatalogRead
<1>7. GatheredNow'
  BY <1>3 DEF GatheredNow
<1>8. BuilderClean'
  BY <1>2, <1>3 DEF SchemaInv, BuilderClean
<1>9. TypesNamed' /\ CallsHeard' /\ RootsRegistered'
  BY <1>2 DEF TypesNamed, CallsHeard, RootsRegistered
<1>10. TypesKept'
  <2>1. HooksDone' = {}
    BY <1>2 DEF HooksDone
  <2> QED BY <1>2, <2>1 DEF TypesKept, DefsKept
<1> QED BY <1>4, <1>5, <1>6, <1>7, <1>8, <1>9, <1>10 DEF SchemaInv

\* gather and the registry read the same rows.
LEMMA GatherKeeps ==
  ASSUME SchemaInv, gather PROVE SchemaInv'
<1>1. /\ phase = "gather" /\ phase' = "object_types" /\ preset' = preset /\ builder' = builder /\ introspection' = introspection
      /\ registry' = from_introspection(introspection) /\ gathered' = gather_output(introspection, preset)
      /\ catalogs' = catalogs /\ overrides' = overrides /\ extensions' = extensions
  BY DEF gather, inputs
<1>2. phase \notin Gathered /\ phase' \in Gathered
  BY <1>1 DEF Gathered
<1>3. PhaseKnown' /\ InputsKept'
  BY <1>1 DEF SchemaInv, PhaseKnown, Gathered, InputsKept
<1>4. Configured'
  <2>1. Setting("pg_schemas")' = Setting("pg_schemas") /\ Setting("exposure")' = Setting("exposure")
    BY <1>1 DEF Setting
  <2> QED BY <1>1, <2>1 DEF SchemaInv, Configured
<1>5. CatalogRead'
  BY <1>1 DEF SchemaInv, CatalogRead
<1>6. GatheredNow'
  BY <1>1 DEF GatheredNow
<1>7. BuilderClean'
  <2>1. IsBuilder(builder') /\ builder' = NoBuilder
    BY <1>1, <1>2 DEF SchemaInv, BuilderClean
  <2>2. DOMAIN <<>> = {} /\ RangeOf(<<>>) = {}
    BY DEF RangeOf
  <2>3. NoBuilder.types = <<>> /\ NoBuilder.query = <<>> /\ NoBuilder.mutation = <<>> /\ NoBuilder.loaders = <<>>
    BY DEF NoBuilder
  <2>4. \A oids : ComesFrom(NoBuilder, oids)
    BY <2>2, <2>3 DEF ComesFrom
  <2> QED BY <1>2, <2>1, <2>4 DEF BuilderClean
<1>8. TypesNamed' /\ CallsHeard' /\ RootsRegistered'
  BY <1>1 DEF TypesNamed, CallsHeard, RootsRegistered
<1>9. TypesKept'
  <2>1. HooksDone' = {}
    BY <1>1 DEF HooksDone
  <2> QED BY <1>1, <2>1 DEF TypesKept, DefsKept
<1> QED BY <1>3, <1>4, <1>5, <1>6, <1>7, <1>8, <1>9 DEF SchemaInv

\* The first pass registers a type for every resource.
LEMMA BuildObjectsKeeps ==
  ASSUME SchemaInv, BuildObjects PROVE SchemaInv'
<1>1. /\ phase = "object_types" /\ builder' = object_types
      /\ phase' = IF object_types.panicked THEN "panicked" ELSE "register_types"
      /\ UNCHANGED <<preset, introspection, registry, gathered, inputs>>
  BY DEF BuildObjects, Pass
<1>2. phase \in Gathered /\ phase' \in Gathered /\ phase' \in {"panicked", "register_types"}
  BY <1>1 DEF Gathered
<1>3. AfterGather
  BY <1>2, GatherRan
<1>4. PhaseKnown' /\ InputsKept' /\ Configured' /\ CatalogRead' /\ GatheredNow' /\ ClassesGathered' = ClassesGathered
  BY <1>1, <1>2, GatheredStays
<1>5. /\ IsBuilder(builder') /\ ComesFrom(builder', ClassesGathered)
      /\ \A r \in RangeOf(gathered.resources) : r.name \in DOMAIN builder'.types
  BY <1>1, <1>3, ObjectTypesFrom
<1>6. BuilderClean'
  BY <1>2, <1>4, <1>5 DEF BuilderClean
<1>7. TypesNamed'
  BY <1>1, <1>5 DEF TypesNamed
<1>8. CallsHeard' /\ RootsRegistered'
  BY <1>2 DEF CallsHeard, RootsRegistered
<1>9. TypesKept'
  <2>1. HooksDone' = {}
    BY <1>2 DEF HooksDone
  <2> QED BY <1>2, <2>1 DEF TypesKept, DefsKept
<1> QED BY <1>4, <1>6, <1>7, <1>8, <1>9 DEF SchemaInv

\* A pass that ends with the calls of a hook: the builder grows, and the calls
\* are heard or the build panics.
LEMMA PassWithHook ==
  ASSUME SchemaInv, phase \in Gathered, NEW hook \in Hooks, NEW b, Builds(builder, b)
  PROVE  LET c == run_extension_phase(b, hook)
         IN  /\ IsBuilder(c) /\ ComesFrom(c, ClassesGathered) /\ Grows(builder, c)
             /\ ~c.panicked => \A e \in RangeOf(extensions) : \A call \in RangeOf(e[hook]) : Heard(c, hook, call)
<1> DEFINE c == run_extension_phase(b, hook)
<1>1. AfterGather /\ extensions \in Extensions /\ 0 \in ClassesGathered
  BY GatherRan, ResourceGathered
<1>2. IsBuilder(b) /\ ComesFrom(b, ClassesGathered)
  BY DEF Builds, Extends
<1>3. /\ Extends(b, c, ClassesGathered)
      /\ ~c.panicked => \A e \in RangeOf(extensions) : \A call \in RangeOf(e[hook]) : Heard(c, hook, call)
  BY <1>1, <1>2, ExtensionPhase
<1> HIDE DEF c
<1>4. Extends(builder, c, ClassesGathered)
  BY <1>3, ExtendsTwice DEF Builds
<1> QED BY <1>3, <1>4 DEF Extends, c

\* A pass that ends with the calls of a hook keeps the extensions' types.
LEMMA HookKeepsDefs ==
  ASSUME SchemaInv, phase \in Gathered, NEW hook \in Hooks, NEW b, Builds(builder, b),
         NEW hooks \in SUBSET Hooks, \A h \in hooks : HookNumber[h] < HookNumber[hook],
         NEW a, DefsKept(a, hooks), DOMAIN a.types \subseteq DOMAIN b.types,
         \A t \in DOMAIN a.types : b.types[t] = a.types[t] \/ IsMutationType(t)
  PROVE  DefsKept(run_extension_phase(b, hook), hooks \cup {hook})
<1> DEFINE c == run_extension_phase(b, hook)
<1>1. AfterGather /\ extensions \in Extensions /\ 0 \in ClassesGathered
  BY GatherRan, ResourceGathered
<1>2. IsBuilder(b) /\ ComesFrom(b, ClassesGathered)
  BY DEF Builds, Extends
<1>3. /\ Extends(b, c, ClassesGathered)
      /\ \A t \in DOMAIN b.types : c.types[t] = b.types[t] \/ \E j \in DOMAIN HookCalls(hook) : Names(HookCalls(hook)[j], t)
      /\ \A j \in DOMAIN HookCalls(hook) : HookCalls(hook)[j].do = "register_type" =>
           /\ HookCalls(hook)[j].name \in DOMAIN c.types
           /\ \/ c.types[HookCalls(hook)[j].name] = HookCalls(hook)[j].def
              \/ \E i \in DOMAIN HookCalls(hook) : j < i /\ Names(HookCalls(hook)[i], HookCalls(hook)[j].name)
  BY <1>1, <1>2, ExtensionPhase
<1> HIDE DEF c
<1>4. DOMAIN b.types \subseteq DOMAIN c.types
  BY <1>3 DEF Extends, Grows
<1>5. DefsKept(c, hooks \cup {hook})
  BY <1>3, <1>4, OneMoreHook
<1> QED BY <1>5 DEF c

\* The second pass, with the types that extensions register.
LEMMA RegisterTypesKeeps ==
  ASSUME SchemaInv, RegisterTypes PROVE SchemaInv'
<1> DEFINE c == run_extension_phase(types_of_resources, "register_types")
<1>1. /\ phase = "register_types" /\ builder' = c
      /\ phase' = IF c.panicked THEN "panicked" ELSE "query"
      /\ UNCHANGED <<preset, introspection, registry, gathered, inputs>>
  BY DEF RegisterTypes, Pass
<1>2. phase \in Gathered /\ phase' \in Gathered /\ phase' \in {"panicked", "query"} /\ "register_types" \in Hooks
  BY <1>1 DEF Gathered, Hooks
<1>3. AfterGather /\ extensions \in Extensions
  BY <1>2, GatherRan
<1>4. PhaseKnown' /\ InputsKept' /\ Configured' /\ CatalogRead' /\ GatheredNow' /\ ClassesGathered' = ClassesGathered
  BY <1>1, <1>2, GatheredStays
<1>5. Builds(builder, types_of_resources)
  BY <1>2, <1>3, TypesOfResourcesFrom DEF SchemaInv, BuilderClean
<1>6. /\ IsBuilder(c) /\ ComesFrom(c, ClassesGathered) /\ Grows(builder, c)
      /\ ~c.panicked => \A e \in RangeOf(extensions) : \A call \in RangeOf(e["register_types"]) : Heard(c, "register_types", call)
  BY <1>2, <1>5, PassWithHook
<1>0. DefsKept(c, {"register_types"})
  <2>1. DefsKept(types_of_resources, {})
    BY DEF DefsKept
  <2>2. {} \in SUBSET Hooks /\ {} \cup {"register_types"} = {"register_types"}
    OBVIOUS
  <2>3. \A h \in {} : HookNumber[h] < HookNumber["register_types"]
    OBVIOUS
  <2>4. DefsKept(c, {} \cup {"register_types"})
    BY <1>2, <1>5, <2>1, <2>2, <2>3, HookKeepsDefs
  <2> QED BY <2>2, <2>4
<1> HIDE DEF c
<1>7. BuilderClean'
  BY <1>1, <1>2, <1>4, <1>6 DEF BuilderClean
<1>8. TypesNamed'
  BY <1>1, <1>6 DEF SchemaInv, TypesNamed, Grows
<1>9. CallsHeard'
  <2>1. phase' = "query" => AllHeard("register_types")'
    BY <1>1, <1>6 DEF AllHeard, inputs
  <2> QED BY <1>2, <2>1 DEF CallsHeard
<1>10. RootsRegistered'
  BY <1>2 DEF RootsRegistered
<1>11. TypesKept'
  <2>1. DefsKept(builder, {"register_types"})'
    BY <1>0, <1>1, DefsStay DEF inputs
  <2>2. CASE phase' = "query"
    <3>1. HooksDone' = {"register_types"}
      BY <2>2 DEF HooksDone
    <3> QED BY <2>1, <2>2, <3>1 DEF TypesKept, DefsKept
  <2>3. CASE phase' = "panicked"
    <3>1. HooksDone' = {}
      BY <2>3 DEF HooksDone
    <3> QED BY <2>3, <3>1 DEF TypesKept, DefsKept
  <2> QED BY <1>2, <2>2, <2>3
<1> QED BY <1>4, <1>7, <1>8, <1>9, <1>10, <1>11 DEF SchemaInv

\* The third pass, with the query fields of extensions.
LEMMA BuildQueryKeeps ==
  ASSUME SchemaInv, BuildQuery PROVE SchemaInv'
<1> DEFINE c == run_extension_phase(query_fields, "extend_query")
<1>1. /\ phase = "query" /\ builder' = c
      /\ phase' = IF c.panicked THEN "panicked" ELSE IF has_mutations THEN "mutation" ELSE "finish"
      /\ UNCHANGED <<preset, introspection, registry, gathered, inputs>>
  BY DEF BuildQuery, Pass
<1>2. /\ phase \in Gathered /\ phase' \in Gathered /\ phase' \in {"panicked", "mutation", "finish"}
      /\ "extend_query" \in Hooks /\ "register_types" \in Hooks
  BY <1>1 DEF Gathered, Hooks
<1>3. AfterGather /\ extensions \in Extensions
  BY <1>2, GatherRan
<1>4. /\ PhaseKnown' /\ InputsKept' /\ Configured' /\ CatalogRead' /\ GatheredNow' /\ ClassesGathered' = ClassesGathered
      /\ has_mutations' <=> has_mutations
  BY <1>1, <1>2, GatheredStays
<1>5. Builds(builder, query_fields) /\ query_fields.types = builder.types
  BY <1>2, <1>3, QueryFieldsFrom DEF SchemaInv, BuilderClean
<1>6. /\ IsBuilder(c) /\ ComesFrom(c, ClassesGathered) /\ Grows(builder, c)
      /\ ~c.panicked => \A e \in RangeOf(extensions) : \A call \in RangeOf(e["extend_query"]) : Heard(c, "extend_query", call)
  BY <1>2, <1>5, PassWithHook
<1>0. DefsKept(c, {"register_types"} \cup {"extend_query"})
  <2>1. DefsKept(builder, {"register_types"})
    BY <1>1 DEF SchemaInv, TypesKept, HooksDone
  <2>2. {"register_types"} \in SUBSET Hooks /\ \A h \in {"register_types"} : HookNumber[h] < HookNumber["extend_query"]
    BY DEF Hooks, HookNumber
  <2> QED BY <1>2, <1>5, <2>1, <2>2, HookKeepsDefs
<1> HIDE DEF c
<1>7. BuilderClean'
  BY <1>1, <1>2, <1>4, <1>6 DEF BuilderClean
<1>8. TypesNamed'
  BY <1>1, <1>6 DEF SchemaInv, TypesNamed, Grows
<1>9. CallsHeard'
  <2>1. phase' # "panicked" => AllHeard("extend_query")'
    BY <1>1, <1>6 DEF AllHeard, inputs
  <2>2. \A e \in RangeOf(extensions) : \A call \in RangeOf(e["register_types"]) : Heard(builder, "register_types", call)
    BY <1>1 DEF SchemaInv, CallsHeard, AllHeard
  <2>3. AllHeard("register_types")'
    <3>1. \A e \in RangeOf(extensions) : \A call \in RangeOf(e["register_types"]) : Heard(c, "register_types", call)
      BY <1>2, <1>3, <1>6, <2>2, AllStillHeard
    <3> QED BY <1>1, <3>1 DEF AllHeard, inputs
  <2>4. phase' = "finish" => ~has_mutations'
    BY <1>1, <1>4
  <2> QED BY <1>2, <2>1, <2>3, <2>4 DEF CallsHeard
<1>10. RootsRegistered'
  BY <1>2 DEF RootsRegistered
<1>11. TypesKept'
  <2>0. {"register_types"} \cup {"extend_query"} = {"register_types", "extend_query"}
    OBVIOUS
  <2>1. DefsKept(builder, {"register_types", "extend_query"})'
    BY <1>0, <1>1, <2>0, DefsStay DEF inputs
  <2>2. CASE phase' = "mutation"
    <3>1. HooksDone' = {"register_types", "extend_query"} /\ has_mutations'
      BY <1>1, <1>4, <2>2 DEF HooksDone
    <3> QED BY <2>1, <3>1 DEF TypesKept, DefsKept
  <2>3. CASE phase' = "finish"
    <3>1. ~has_mutations
      BY <1>1, <2>3
    <3>2. HooksRun = {"register_types", "extend_query"}
      BY <1>3, <3>1, HooksRunAre
    <3>3. HooksRun' = HooksRun
      BY <1>1 DEF HooksRun, Flags
    <3>4. HooksDone' = {"register_types", "extend_query"}
      BY <2>3, <3>2, <3>3 DEF HooksDone
    <3> QED BY <2>1, <2>3, <3>4 DEF TypesKept, DefsKept
  <2>4. CASE phase' = "panicked"
    <3>1. HooksDone' = {}
      BY <2>4 DEF HooksDone
    <3> QED BY <2>4, <3>1 DEF TypesKept, DefsKept
  <2> QED BY <1>2, <2>2, <2>3, <2>4
<1> QED BY <1>4, <1>7, <1>8, <1>9, <1>10, <1>11 DEF SchemaInv

\* The fourth pass, with the mutation fields of extensions.
LEMMA BuildMutationKeeps ==
  ASSUME SchemaInv, BuildMutation PROVE SchemaInv'
<1> DEFINE c == run_extension_phase(mutation_root, "extend_mutation")
<1>1. /\ phase = "mutation" /\ builder' = c
      /\ phase' = IF c.panicked THEN "panicked" ELSE "finish"
      /\ UNCHANGED <<preset, introspection, registry, gathered, inputs>>
  BY DEF BuildMutation, Pass
<1>2. /\ phase \in Gathered /\ phase' \in Gathered /\ phase' \in {"panicked", "finish"}
      /\ "extend_query" \in Hooks /\ "register_types" \in Hooks /\ "extend_mutation" \in Hooks
  BY <1>1 DEF Gathered, Hooks
<1>3. AfterGather /\ extensions \in Extensions
  BY <1>2, GatherRan
<1>4. PhaseKnown' /\ InputsKept' /\ Configured' /\ CatalogRead' /\ GatheredNow' /\ ClassesGathered' = ClassesGathered
  BY <1>1, <1>2, GatheredStays
<1>5. /\ Builds(builder, mutation_root)
      /\ \A t \in DOMAIN builder.types : mutation_root.types[t] = builder.types[t] \/ IsMutationType(t)
  BY <1>2, <1>3, MutationRootFrom DEF SchemaInv, BuilderClean
<1>6. /\ IsBuilder(c) /\ ComesFrom(c, ClassesGathered) /\ Grows(builder, c)
      /\ ~c.panicked => \A e \in RangeOf(extensions) : \A call \in RangeOf(e["extend_mutation"]) : Heard(c, "extend_mutation", call)
  BY <1>2, <1>5, PassWithHook
<1>0. DefsKept(c, {"register_types", "extend_query"} \cup {"extend_mutation"})
  <2>1. DefsKept(builder, {"register_types", "extend_query"})
    BY <1>1 DEF SchemaInv, TypesKept, HooksDone
  <2>2. /\ {"register_types", "extend_query"} \in SUBSET Hooks
        /\ \A h \in {"register_types", "extend_query"} : HookNumber[h] < HookNumber["extend_mutation"]
    BY DEF Hooks, HookNumber
  <2>3. DOMAIN builder.types \subseteq DOMAIN mutation_root.types
    BY <1>5 DEF Builds, Extends, Grows
  <2> QED BY <1>2, <1>5, <2>1, <2>2, <2>3, HookKeepsDefs
<1> HIDE DEF c
<1>7. BuilderClean'
  BY <1>1, <1>2, <1>4, <1>6 DEF BuilderClean
<1>8. TypesNamed'
  BY <1>1, <1>6 DEF SchemaInv, TypesNamed, Grows
<1>9. CallsHeard'
  <2>1. phase' # "panicked" => AllHeard("extend_mutation")'
    BY <1>1, <1>6 DEF AllHeard, inputs
  <2>2. /\ \A e \in RangeOf(extensions) : \A call \in RangeOf(e["register_types"]) : Heard(builder, "register_types", call)
        /\ \A e \in RangeOf(extensions) : \A call \in RangeOf(e["extend_query"]) : Heard(builder, "extend_query", call)
    BY <1>1 DEF SchemaInv, CallsHeard, AllHeard
  <2>3. AllHeard("register_types")' /\ AllHeard("extend_query")'
    <3>1. \A e \in RangeOf(extensions) : \A call \in RangeOf(e["register_types"]) : Heard(c, "register_types", call)
      BY <1>2, <1>3, <1>6, <2>2, AllStillHeard
    <3>2. \A e \in RangeOf(extensions) : \A call \in RangeOf(e["extend_query"]) : Heard(c, "extend_query", call)
      BY <1>2, <1>3, <1>6, <2>2, AllStillHeard
    <3> QED BY <1>1, <3>1, <3>2 DEF AllHeard, inputs
  <2> QED BY <1>2, <2>1, <2>3 DEF CallsHeard
<1>10. RootsRegistered'
  BY <1>2 DEF RootsRegistered
<1>11. TypesKept'
  <2>1. has_mutations
    BY <1>1 DEF SchemaInv, TypesKept
  <2>2. DefsKept(builder, HooksRun)'
    <3>1. DefsKept(c, HooksRun) /\ HooksRun' = HooksRun
      BY <1>0, <1>1, <1>3, <2>1, HooksRunAre DEF HooksRun, Flags
    <3>2. PICK hooks : hooks = HooksRun
      OBVIOUS
    <3>3. DefsKept(builder, hooks)'
      BY <1>1, <3>1, <3>2, DefsStay DEF inputs
    <3> QED BY <3>1, <3>2, <3>3 DEF DefsKept, Replaced
  <2>3. CASE phase' = "finish"
    BY <2>2, <2>3 DEF TypesKept, HooksDone
  <2>4. CASE phase' = "panicked"
    <3>1. HooksDone' = {}
      BY <2>4 DEF HooksDone
    <3> QED BY <2>4, <3>1 DEF TypesKept, DefsKept
  <2> QED BY <1>2, <2>3, <2>4
<1> QED BY <1>4, <1>7, <1>8, <1>9, <1>10, <1>11 DEF SchemaInv

\* finish registers the roots last, so nothing replaces them.
LEMMA FinishKeeps ==
  ASSUME SchemaInv, finish PROVE SchemaInv'
<1> DEFINE q == <<<<"Query">>, Def(builder.query, 0)>>
           m == <<<<"Mutation">>, Def(builder.mutation, 0)>>
           defs == (IF has_mutations THEN <<m>> ELSE <<>>) \o <<q>>
           c == register(builder, defs)
<1>1. /\ phase = "finish" /\ builder' = c
      /\ phase' \in {"built", "failed"}
      /\ UNCHANGED <<preset, introspection, registry, gathered, inputs>>
  BY DEF finish
<1>2. /\ phase \in Gathered /\ phase' \in Gathered
      /\ "extend_query" \in Hooks /\ "register_types" \in Hooks /\ "extend_mutation" \in Hooks
  BY <1>1 DEF Gathered, Hooks
<1>3. AfterGather /\ extensions \in Extensions /\ 0 \in ClassesGathered
  BY <1>2, GatherRan, ResourceGathered
<1>4. /\ PhaseKnown' /\ InputsKept' /\ Configured' /\ CatalogRead' /\ GatheredNow' /\ ClassesGathered' = ClassesGathered
      /\ has_mutations' <=> has_mutations
  BY <1>1, <1>2, GatheredStays
<1>5. IsBuilder(builder) /\ ComesFrom(builder, ClassesGathered)
  BY <1>2 DEF SchemaInv, BuilderClean
<1>6. /\ q[1] = <<"Query">> /\ q[2].fields = builder.query /\ From(q[2], ClassesGathered)
      /\ m[1] = <<"Mutation">> /\ m[2].fields = builder.mutation /\ From(m[2], ClassesGathered)
      /\ q[1] # m[1]
  BY <1>3, <1>5 DEF Def, From, ComesFrom
<1> HIDE DEF q, m
<1>7. defs = IF has_mutations THEN <<m, q>> ELSE <<q>>
  <2>1. <<m>> \o <<q>> = <<m, q>>
    BY TwoJoined
  <2>2. <<>> \o <<q>> = <<q>>
    BY TwoJoined
  <2>3. CASE has_mutations
    BY <2>1, <2>3
  <2>4. CASE ~has_mutations
    BY <2>2, <2>4
  <2> QED BY <2>3, <2>4
<1> HIDE DEF defs
<1>8. IsSequence(defs) /\ \A p \in RangeOf(defs) : From(p[2], ClassesGathered)
  BY <1>6, <1>7, Short, Two
<1>9. /\ Extends(builder, c, ClassesGathered) /\ c.types = Insert(builder.types, defs)
      /\ c.query = builder.query /\ c.mutation = builder.mutation
      /\ \A t : t \in DOMAIN c.types <=> t \in DOMAIN builder.types \/ \E p \in RangeOf(defs) : p[1] = t
  BY <1>5, <1>8, Registered
<1> HIDE DEF c
<1>10. BuilderClean'
  BY <1>1, <1>2, <1>4, <1>9 DEF BuilderClean, Extends
<1>11. TypesNamed'
  BY <1>1, <1>9 DEF SchemaInv, TypesNamed, Grows, Extends
<1>12. CallsHeard'
  <2>1. Grows(builder, c)
    BY <1>9 DEF Extends
  <2>2. AllHeard("register_types")'
    <3>1. \A e \in RangeOf(extensions) : \A call \in RangeOf(e["register_types"]) : Heard(builder, "register_types", call)
      BY <1>1 DEF SchemaInv, CallsHeard, AllHeard
    <3>2. \A e \in RangeOf(extensions) : \A call \in RangeOf(e["register_types"]) : Heard(c, "register_types", call)
      BY <1>2, <1>3, <2>1, <3>1, AllStillHeard
    <3> QED BY <1>1, <3>2 DEF AllHeard, inputs
  <2>3. AllHeard("extend_query")'
    <3>1. \A e \in RangeOf(extensions) : \A call \in RangeOf(e["extend_query"]) : Heard(builder, "extend_query", call)
      BY <1>1 DEF SchemaInv, CallsHeard, AllHeard
    <3>2. \A e \in RangeOf(extensions) : \A call \in RangeOf(e["extend_query"]) : Heard(c, "extend_query", call)
      BY <1>2, <1>3, <2>1, <3>1, AllStillHeard
    <3> QED BY <1>1, <3>2 DEF AllHeard, inputs
  <2>4. ASSUME has_mutations PROVE AllHeard("extend_mutation")'
    <3>1. \A e \in RangeOf(extensions) : \A call \in RangeOf(e["extend_mutation"]) : Heard(builder, "extend_mutation", call)
      BY <1>1, <2>4 DEF SchemaInv, CallsHeard, AllHeard
    <3>2. \A e \in RangeOf(extensions) : \A call \in RangeOf(e["extend_mutation"]) : Heard(c, "extend_mutation", call)
      BY <1>2, <1>3, <2>1, <3>1, AllStillHeard
    <3> QED BY <1>1, <3>2 DEF AllHeard, inputs
  <2> QED BY <1>4, <2>2, <2>3, <2>4 DEF CallsHeard
<1>13. RootsRegistered'
  <2>1. q \in RangeOf(defs)
    BY <1>7, Short, Two
  <2>2. <<"Query">> \in DOMAIN c.types
    BY <1>6, <1>9, <2>1
  <2>3. CASE has_mutations
    <3>1. Len(defs) = 2 /\ defs[1] = m /\ defs[2] = q
      BY <1>7, <2>3
    <3>2. Insert(builder.types, defs)[defs[1][1]] = defs[1][2]
      BY <1>6, <1>8, <3>1, InsertedLast
    <3>3. Insert(builder.types, defs)[defs[2][1]] = defs[2][2]
      BY <1>6, <1>8, <3>1, InsertedLast
    <3> QED BY <1>1, <1>4, <1>6, <1>9, <2>2, <3>1, <3>2, <3>3 DEF RootsRegistered
  <2>4. CASE ~has_mutations
    <3>1. Len(defs) = 1 /\ defs[1] = q
      BY <1>7, <2>4
    <3>2. Insert(builder.types, defs)[defs[1][1]] = defs[1][2]
      BY <1>6, <1>8, <3>1, InsertedLast
    <3> QED BY <1>1, <1>4, <1>6, <1>9, <2>2, <2>4, <3>1, <3>2 DEF RootsRegistered
  <2> QED BY <2>3, <2>4
<1>14. TypesKept'
  <2>1. DefsKept(builder, HooksRun)
    BY <1>1 DEF SchemaInv, TypesKept, HooksDone
  <2>2. DOMAIN builder.types \subseteq DOMAIN c.types
    BY <1>9 DEF Extends, Grows
  <2>3. \A p \in RangeOf(defs) : p[1] \in {<<"Query">>, <<"Mutation">>}
    BY <1>6, <1>7, Short, Two
  <2>4. \A t \in DOMAIN builder.types : c.types[t] = builder.types[t] \/ t \in {<<"Query">>, <<"Mutation">>}
    BY <1>8, <1>9, <2>3, InsertedElsewhere
  <2>5. PICK hooks : hooks = HooksRun
    OBVIOUS
  <2>6. HooksRun' = hooks
    BY <1>1, <2>5 DEF HooksRun, Flags
  <2>7. DefsKept(c, hooks)
    BY <2>1, <2>2, <2>4, <2>5, RootsReplaceThemselves
  <2>8. DefsKept(builder, hooks)'
    BY <1>1, <2>7, DefsStay DEF inputs
  <2>9. CASE phase' = "built"
    <3>1. HooksDone' = hooks
      BY <2>6, <2>9 DEF HooksDone
    <3> QED BY <2>8, <2>9, <3>1 DEF TypesKept, DefsKept, Replaced
  <2>10. CASE phase' = "failed"
    <3>1. HooksDone' = {}
      BY <2>10 DEF HooksDone
    <3> QED BY <2>10, <3>1 DEF TypesKept, DefsKept
  <2> QED BY <1>1, <2>9, <2>10
<1> QED BY <1>4, <1>10, <1>11, <1>12, <1>13, <1>14 DEF SchemaInv

\* A step that changes nothing keeps the invariant.
LEMMA StutterKeeps ==
  ASSUME SchemaInv, UNCHANGED schemaVars PROVE SchemaInv'
<1> USE DEF schemaVars
<1>1. PhaseKnown' /\ InputsKept' /\ CatalogRead' /\ GatheredNow'
  BY DEF SchemaInv, PhaseKnown, InputsKept, CatalogRead, GatheredNow
<1>2. Configured'
  <2>1. Setting("pg_schemas")' = Setting("pg_schemas") /\ Setting("exposure")' = Setting("exposure")
    BY DEF Setting
  <2> QED BY <2>1 DEF SchemaInv, Configured
<1>3. BuilderClean' /\ TypesNamed'
  BY DEF SchemaInv, BuilderClean, TypesNamed, ClassesGathered
<1>4. CallsHeard' /\ RootsRegistered'
  BY DEF SchemaInv, CallsHeard, RootsRegistered, AllHeard, has_mutations
<1>5. TypesKept'
  <2>1. HooksDone' = HooksDone /\ (has_mutations' <=> has_mutations)
    BY DEF HooksDone, HooksRun, Flags, has_mutations
  <2>2. PICK hooks : hooks = HooksDone
    OBVIOUS
  <2>3. DefsKept(builder, hooks)'
    BY <2>2, DefsStay DEF SchemaInv, TypesKept
  <2> QED BY <2>1, <2>2, <2>3 DEF SchemaInv, TypesKept, DefsKept, Replaced
<1> QED BY <1>1, <1>2, <1>3, <1>4, <1>5 DEF SchemaInv

\* The invariant is inductive.
LEMMA InvNext ==
  SchemaInv /\ [SchemaNext]_schemaVars => SchemaInv'
<1> SUFFICES ASSUME SchemaInv, [SchemaNext]_schemaVars PROVE SchemaInv'
  OBVIOUS
<1>1. CASE Configure
  BY <1>1, ConfigureKeeps
<1>2. CASE introspect
  BY <1>2, IntrospectKeeps
<1>3. CASE gather
  BY <1>3, GatherKeeps
<1>4. CASE BuildObjects
  BY <1>4, BuildObjectsKeeps
<1>5. CASE RegisterTypes
  BY <1>5, RegisterTypesKeeps
<1>6. CASE BuildQuery
  BY <1>6, BuildQueryKeeps
<1>7. CASE BuildMutation
  BY <1>7, BuildMutationKeeps
<1>8. CASE finish
  BY <1>8, FinishKeeps
<1>9. CASE UNCHANGED schemaVars
  BY <1>9, StutterKeeps
<1> QED BY <1>1, <1>2, <1>3, <1>4, <1>5, <1>6, <1>7, <1>8, <1>9 DEF SchemaNext

\* The invariant rules out hidden relations: every origin is a class that was
\* gathered, and those are the published ones.
LEMMA HiddenFollows ==
  SchemaInv => HiddenUnreachable
<1> SUFFICES ASSUME SchemaInv PROVE HiddenUnreachable
  OBVIOUS
<1> DEFINE fields == (UNION {RangeOf(builder.types[t].fields) : t \in DOMAIN builder.types})
                       \cup RangeOf(builder.query) \cup RangeOf(builder.mutation)
           origins == {builder.types[t].of : t \in DOMAIN builder.types} \cup {f.of : f \in fields}
                        \cup {builder.loaders[l].oid : l \in DOMAIN builder.loaders}
<1>1. CASE phase \notin Gathered
  <2>1. builder = NoBuilder
    BY <1>1 DEF SchemaInv, BuilderClean
  <2>2. DOMAIN <<>> = {} /\ RangeOf(<<>>) = {}
    BY DEF RangeOf
  <2>3. builder.types = <<>> /\ builder.query = <<>> /\ builder.mutation = <<>> /\ builder.loaders = <<>>
    BY <2>1 DEF NoBuilder
  <2>4. origins = {}
    <3>1. fields = {}
      BY <2>2, <2>3
    <3> HIDE DEF fields
    <3> QED BY <2>2, <2>3, <3>1
  <2>5. phase # "built"
    BY <1>1 DEF Gathered
  <2> HIDE DEF origins
  <2>6. \A oid \in origins \ {0} : Published(oid)
    BY <2>4
  <2> QED BY <2>5, <2>6 DEF HiddenUnreachable, origins
<1>2. CASE phase \in Gathered
  <2>1. AfterGather
    BY <1>2, GatherRan
  <2>2. ComesFrom(builder, ClassesGathered)
    BY <1>2 DEF SchemaInv, BuilderClean
  <2>3. \A f \in fields : f.of \in ClassesGathered
    BY <2>2 DEF ComesFrom, From
  <2>4. origins \subseteq ClassesGathered
    <3> HIDE DEF fields
    <3> QED BY <2>2, <2>3 DEF ComesFrom, From
  <2>5. ASSUME NEW oid \in ClassesGathered \ {0} PROVE Published(oid)
    <3>1. PICK r \in RangeOf(gathered.resources) : oid = r.class_oid
      BY DEF ClassesGathered
    <3>2. PICK c \in Exposed : r = build_resource(introspection, c)
      BY <2>1, ResourcesAre
    <3>3. c.oid = oid /\ c \in RangeOf(introspection.classes)
      BY <2>1, <3>1, <3>2, ResourceIs DEF Exposed
    <3> QED BY <2>1, <3>3, ExposedIsPublished
  <2>6. ASSUME phase = "built", NEW r \in RangeOf(introspection.classes), Published(r.oid)
        PROVE  \E x \in RangeOf(gathered.resources) : x.class_oid = r.oid /\ x.name \in DOMAIN builder.types
    <3>1. r \in Exposed
      BY <2>1, <2>6, ExposedIsPublished
    <3> DEFINE x == build_resource(introspection, r)
    <3>2. x \in RangeOf(gathered.resources) /\ x.class_oid = r.oid
      BY <2>1, <3>1, ResourcesAre, ResourceIs
    <3> HIDE DEF x
    <3>3. x.name \in DOMAIN builder.types
      BY <2>6, <3>2 DEF SchemaInv, TypesNamed
    <3> QED BY <3>2, <3>3
  <2> HIDE DEF origins
  <2>7. \A oid \in origins \ {0} : Published(oid)
    BY <2>4, <2>5
  <2> QED BY <2>6, <2>7 DEF HiddenUnreachable, origins
<1> QED BY <1>1, <1>2

\* The invariant implies that the two readings of the catalog agree.
LEMMA RegistryFollows ==
  SchemaInv => RegistryAgrees
<1> SUFFICES ASSUME SchemaInv PROVE RegistryAgrees
  OBVIOUS
<1>1. CASE phase \in Gathered
  BY <1>1, GatherRan, RegistryAgreesNow
<1>2. CASE phase \in {"configure", "rejected", "introspect", "gather"}
  BY <1>2 DEF RegistryAgrees
<1> QED BY <1>1, <1>2 DEF SchemaInv, PhaseKnown

\* The invariant implies that a schema that was built has what extensions add.
LEMMA ExtensionsFollow ==
  SchemaInv => ExtensionsKept
<1> SUFFICES ASSUME SchemaInv, phase = "built", NEW e \in RangeOf(extensions), NEW hook \in HooksRun,
                    NEW call \in RangeOf(e[hook])
             PROVE  CASE call.do = "register_type" -> TRUE
                      [] call.do = "plan_field" -> call.name \in builder.plans
                      [] call.do = "query_field" -> call.field \in RangeOf(builder.types[<<"Query">>].fields)
                      [] call.do = "mutation_field" -> call.field \in RangeOf(builder.types[<<"Mutation">>].fields)
  <2>1. SchemaInv /\ phase = "built" => DefsKept(builder, HooksRun)
    BY DEF SchemaInv, TypesKept, HooksDone
  <2> QED BY <2>1 DEF ExtensionsKept
<1>1. phase \in Gathered
  BY DEF Gathered
<1>2. AfterGather /\ extensions \in Extensions
  BY <1>1, GatherRan
<1>3. hook \in Hooks /\ (hook = "extend_mutation" => has_mutations)
  BY <1>2, HooksRunAre DEF Hooks
<1>4. Heard(builder, hook, call)
  BY <1>3 DEF SchemaInv, CallsHeard, AllHeard, Hooks
<1>5. /\ builder.types[<<"Query">>].fields = builder.query
      /\ has_mutations => builder.types[<<"Mutation">>].fields = builder.mutation
  BY DEF SchemaInv, RootsRegistered
<1>6. GoodCall(call)
  BY <1>2, <1>3, CallsAre
<1>7. CASE call.do = "register_type"
  BY <1>4, <1>7 DEF Heard
<1>8. CASE call.do = "plan_field"
  BY <1>4, <1>8 DEF Heard
<1>9. CASE call.do = "query_field"
  BY <1>4, <1>5, <1>9 DEF Heard
<1>10. CASE call.do = "mutation_field"
  <2>1. hook = "extend_mutation" /\ call.field \in RangeOf(builder.mutation)
    BY <1>4, <1>10 DEF Heard
  <2>2. builder.types[<<"Mutation">>].fields = builder.mutation
    BY <1>3, <1>5, <2>1
  <2> QED BY <1>10, <2>1, <2>2
<1> QED BY <1>6, <1>7, <1>8, <1>9, <1>10 DEF GoodCall
-----------------------------------------------------------------------------
(* The theorems.                                                           *)

\* Every state of a build satisfies the invariant: what gather keeps is what its catalog and its
\* settings give, every class that was kept has its type from register_types on, whatever the builder
\* holds comes from the classes that were kept, and every call of a hook that ran was heard, the last
\* registration of a name with its definition.
THEOREM SchemaInvariant == SchemaSpec => []SchemaInv
<1>1. SchemaInv /\ [SchemaNext]_schemaVars => SchemaInv'
  BY InvNext
<1> QED BY InvInit, <1>1, PTL DEF SchemaSpec

\* Whatever migrations, settings and extensions a build meets, nothing of a relation that the settings
\* hide reaches the schema, and every relation they publish has its type: build_schema over the output
\* of gather.
THEOREM SchemaHiddenUnreachable == SchemaSpec => []HiddenUnreachable
BY SchemaInvariant, HiddenFollows, PTL

\* The registry that mutations resolve against and the resources that queries are planned against, two
\* readings of one catalog, agree on columns, keys and constraints: from_introspection and gather.
THEOREM SchemaRegistryAgrees == SchemaSpec => []RegistryAgrees
BY SchemaInvariant, RegistryFollows, PTL

\* A schema that was built has every field its extensions added in the hooks that ran, and every type
\* with the definition given: where two of them, or one and the build itself, register the same name,
\* the type is that of the registration that came last (register_types, extend_query, extend_mutation).
THEOREM SchemaExtensionsKept == SchemaSpec => []ExtensionsKept
BY SchemaInvariant, ExtensionsFollow, PTL
=============================================================================
