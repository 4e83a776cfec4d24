--------------------------- MODULE RequestsProofs ---------------------------
(***************************************************************************)
(* Proofs about requests, their connections and their loads, for any       *)
(* number of requests, fields, connections and hot swaps: ReqInv is        *)
(* inductive, and ConnectionsConserved and LoadsAreServed follow from it.  *)
(***************************************************************************)
EXTENDS Requests, TLAPS, SequenceTheorems, FiniteSetTheorems

(* The elements of a queue, and that none is in it twice. *)
Elements(s) == {s[i] : i \in 1..Len(s)}
Distinct(s) == \A i, j \in 1..Len(s) : s[i] = s[j] => i = j

LEMMA AppendQueue ==
    ASSUME NEW S, NEW s \in Seq(S), NEW x \in S, x \notin Elements(s), Distinct(s)
    PROVE  /\ Append(s, x) \in Seq(S)
           /\ Elements(Append(s, x)) = Elements(s) \cup {x}
           /\ Distinct(Append(s, x))
<1> DEFINE t == Append(s, x)
<1>1. /\ t \in Seq(S) /\ Len(t) = Len(s) + 1 /\ Len(s) \in Nat
      /\ \A i \in 1..Len(s) : t[i] = s[i]
      /\ t[Len(s) + 1] = x
  BY AppendProperties, LenProperties
<1> HIDE DEF t
<1>2. Elements(t) = Elements(s) \cup {x}
  <2>1. \A i \in 1..Len(t) : i \in 1..Len(s) \/ i = Len(s) + 1
    BY <1>1
  <2>2. Elements(t) \subseteq Elements(s) \cup {x}
    BY <1>1, <2>1 DEF Elements
  <2>3. \A i \in 1..Len(s) : i \in 1..Len(t) /\ t[i] = s[i]
    BY <1>1
  <2>4. Len(s) + 1 \in 1..Len(t)
    BY <1>1
  <2>5. Elements(s) \subseteq Elements(t) /\ x \in Elements(t)
    BY <1>1, <2>3, <2>4 DEF Elements
  <2> QED  BY <2>2, <2>5
<1>3. Distinct(t)
  <2> SUFFICES ASSUME NEW i \in 1..Len(t), NEW j \in 1..Len(t), t[i] = t[j] PROVE i = j
    BY DEF Distinct
  <2>1. /\ i \in 1..Len(s) \/ i = Len(s) + 1
        /\ j \in 1..Len(s) \/ j = Len(s) + 1
    BY <1>1
  <2>2. \A k \in 1..Len(s) : s[k] # x
    BY DEF Elements
  <2> QED  BY <1>1, <2>1, <2>2 DEF Distinct
<1> QED  BY <1>1, <1>2, <1>3 DEF t

LEMMA TailQueue ==
    ASSUME NEW S, NEW s \in Seq(S), s # <<>>, Distinct(s)
    PROVE  /\ Head(s) \in Elements(s)
           /\ Tail(s) \in Seq(S)
           /\ Elements(Tail(s)) = Elements(s) \ {Head(s)}
           /\ Distinct(Tail(s))
<1> DEFINE t == Tail(s)
<1>1. /\ t \in Seq(S) /\ Len(t) = Len(s) - 1 /\ Len(s) \in Nat /\ Len(s) # 0
      /\ \A i \in 1..Len(t) : t[i] = s[i + 1]
      /\ Head(s) = s[1]
  BY HeadTailProperties, LenProperties, EmptySeq
<1> HIDE DEF t
<1>2. Head(s) \in Elements(s)
  BY <1>1 DEF Elements
<1>3. \A i \in 1..Len(t) : i + 1 \in 1..Len(s) /\ i + 1 # 1
  BY <1>1
<1>4. \A j \in 1..Len(s) : j # 1 => j - 1 \in 1..Len(t) /\ t[j - 1] = s[j]
  BY <1>1
<1>5. 1 \in 1..Len(s)
  BY <1>1
<1>6. Elements(t) \subseteq Elements(s) \ {Head(s)}
  BY <1>1, <1>3, <1>5 DEF Elements, Distinct
<1>7. Elements(s) \ {Head(s)} \subseteq Elements(t)
  <2> SUFFICES ASSUME NEW j \in 1..Len(s), s[j] # s[1] PROVE s[j] \in Elements(t)
    BY <1>1 DEF Elements
  <2>1. j # 1
    OBVIOUS
  <2> QED  BY <1>4, <2>1 DEF Elements
<1>8. Distinct(t)
  BY <1>1, <1>3 DEF Distinct
<1> QED  BY <1>1, <1>2, <1>6, <1>7, <1>8 DEF t

LEMMA RemoveFromQueue ==
    ASSUME NEW S, NEW s \in Seq(S), NEW k \in 1..Len(s), Distinct(s)
    PROVE  /\ RemoveAt(s, k) \in Seq(S)
           /\ Elements(RemoveAt(s, k)) = Elements(s) \ {s[k]}
           /\ Distinct(RemoveAt(s, k))
<1> DEFINE a == SubSeq(s, 1, k - 1)
           z == SubSeq(s, k + 1, Len(s))
           t == a \o z
<1>1. Len(s) \in Nat /\ k \in Int /\ 1 <= k /\ k <= Len(s) /\ \A i \in 1..Len(s) : s[i] \in S
  BY LenProperties, ElementOfSeq
<1>2. a \in Seq(S) /\ Len(a) = k - 1 /\ \A i \in 1..(k - 1) : a[i] = s[i]
  <2>1. \A i \in 1..(k - 1) : s[i] \in S
    BY <1>1
  <2>2. /\ a \in Seq(S)
        /\ Len(a) = IF 1 <= k - 1 THEN k - 1 - 1 + 1 ELSE 0
        /\ \A i \in 1..(k - 1 - 1 + 1) : a[i] = s[1 + i - 1]
    BY <1>1, <2>1, SubSeqProperties
  <2> HIDE DEF a
  <2>3. \A i \in 1..(k - 1) : a[i] = s[i]
    <3> SUFFICES ASSUME NEW i \in 1..(k - 1) PROVE a[i] = s[i]
      OBVIOUS
    <3>1. i \in 1..(k - 1 - 1 + 1) /\ 1 + i - 1 = i
      BY <1>1
    <3> QED  BY <2>2, <3>1
  <2> QED  BY <1>1, <2>2, <2>3
<1>3. z \in Seq(S) /\ Len(z) = Len(s) - k /\ \A i \in 1..(Len(s) - k) : z[i] = s[k + i]
  <2>1. \A i \in (k + 1)..Len(s) : s[i] \in S
    BY <1>1
  <2>2. /\ z \in Seq(S)
        /\ Len(z) = IF k + 1 <= Len(s) THEN Len(s) - (k + 1) + 1 ELSE 0
        /\ \A i \in 1..(Len(s) - (k + 1) + 1) : z[i] = s[(k + 1) + i - 1]
    BY <1>1, <2>1, SubSeqProperties
  <2> HIDE DEF z
  <2>3. \A i \in 1..(Len(s) - k) : z[i] = s[k + i]
    <3> SUFFICES ASSUME NEW i \in 1..(Len(s) - k) PROVE z[i] = s[k + i]
      OBVIOUS
    <3>1. i \in 1..(Len(s) - (k + 1) + 1) /\ (k + 1) + i - 1 = k + i
      BY <1>1
    <3> QED  BY <2>2, <3>1
  <2> QED  BY <1>1, <2>2, <2>3
<1>4. /\ t \in Seq(S) /\ Len(t) = Len(a) + Len(z)
      /\ \A i \in 1..(Len(a) + Len(z)) : t[i] = IF i <= Len(a) THEN a[i] ELSE z[i - Len(a)]
  BY <1>2, <1>3, ConcatProperties
<1>5. RemoveAt(s, k) = t
  BY DEF RemoveAt
<1> HIDE DEF a, z, t
<1>6. Len(t) = Len(s) - 1
  BY <1>1, <1>2, <1>3, <1>4
<1>7. ASSUME NEW i \in 1..Len(t)
      PROVE  /\ i < k => i \in 1..Len(s) /\ i # k /\ t[i] = s[i]
             /\ i >= k => i + 1 \in 1..Len(s) /\ i + 1 # k /\ t[i] = s[i + 1]
  <2>1. CASE i < k
    <3>1. i \in 1..Len(s) /\ i # k /\ i \in 1..(k - 1) /\ i <= Len(a) /\ i \in 1..(Len(a) + Len(z))
      BY <1>1, <1>2, <1>3, <1>6, <2>1
    <3> QED  BY <1>2, <1>4, <2>1, <3>1
  <2>2. CASE i >= k
    <3>1. /\ i + 1 \in 1..Len(s) /\ i + 1 # k /\ ~(i <= Len(a)) /\ i \in 1..(Len(a) + Len(z))
          /\ i - Len(a) \in 1..(Len(s) - k) /\ k + (i - Len(a)) = i + 1
      BY <1>1, <1>2, <1>3, <1>6, <2>2
    <3>2. t[i] = z[i - Len(a)]
      BY <1>4, <3>1
    <3>3. z[i - Len(a)] = s[i + 1]
      BY <1>3, <3>1
    <3>4. ~(i < k)
      BY <1>1, <1>6, <2>2
    <3> QED  BY <3>1, <3>2, <3>3, <3>4
  <2> QED  BY <1>1, <1>6, <2>1, <2>2
<1>8. ASSUME NEW j \in 1..Len(s), j # k
      PROVE  \E i \in 1..Len(t) : t[i] = s[j]
  <2>1. CASE j < k
    <3>1. j \in 1..Len(t)
      BY <1>1, <1>6, <2>1
    <3> QED  BY <1>7, <2>1, <3>1
  <2>2. CASE j > k
    <3>1. j - 1 \in 1..Len(t) /\ j - 1 >= k /\ (j - 1) + 1 = j
      BY <1>1, <1>6, <2>2
    <3> QED  BY <1>7, <3>1
  <2> QED  BY <1>1, <1>8, <2>1, <2>2
<1>9. Elements(t) = Elements(s) \ {s[k]}
  <2>1. \A i \in 1..Len(t) : \E j \in 1..Len(s) : j # k /\ t[i] = s[j]
    BY <1>1, <1>6, <1>7
  <2>2. Elements(t) \subseteq Elements(s) \ {s[k]}
    BY <2>1 DEF Elements, Distinct
  <2>3. Elements(s) \ {s[k]} \subseteq Elements(t)
    BY <1>8 DEF Elements
  <2> QED  BY <2>2, <2>3
<1>10. Distinct(t)
  <2> SUFFICES ASSUME NEW i \in 1..Len(t), NEW j \in 1..Len(t), t[i] = t[j] PROVE i = j
    BY DEF Distinct
  <2> DEFINE At(n) == IF n < k THEN n ELSE n + 1
  <2>1. /\ At(i) \in 1..Len(s) /\ t[i] = s[At(i)]
        /\ At(j) \in 1..Len(s) /\ t[j] = s[At(j)]
    BY <1>1, <1>6, <1>7
  <2>2. At(i) = At(j)
    BY <2>1 DEF Distinct
  <2> QED  BY <1>1, <1>6, <2>2
<1> QED  BY <1>4, <1>5, <1>9, <1>10

-----------------------------------------------------------------------------
(* The pool *)

(* An owner holds a connection, or waits for one. *)
Holding(o) ==
    \/ o \in Clients /\ req[o].pc \in {"rls", "run"}
    \/ o \in BatchIds /\ batches[o].pc = "query"
Queueing(o) ==
    \/ o \in Clients /\ req[o].pc = "acquire"
    \/ o \in BatchIds /\ batches[o].pc = "acquire"

LEMMA PoolView ==
    ConnectionsConserved <=>
        /\ \A o : o \in held <=> Holding(o)
        /\ Cardinality(held) <= PoolMax
        /\ \A o : o \in Elements(waiting) <=> Queueing(o)
        /\ Distinct(waiting)
<1> DEFINE H == {r \in Clients : req[r].pc \in {"rls", "run"}}
                  \cup {b \in BatchIds : batches[b].pc = "query"}
           Q == {r \in Clients : req[r].pc = "acquire"} \cup {b \in BatchIds : batches[b].pc = "acquire"}
<1>1. \A o : (o \in H <=> Holding(o)) /\ (o \in Q <=> Queueing(o))
  BY DEF Holding, Queueing
<1>2. ConnectionsConserved <=>
        held = H /\ Cardinality(held) <= PoolMax /\ Elements(waiting) = Q /\ Distinct(waiting)
  BY DEF ConnectionsConserved, Elements, Distinct
<1> HIDE DEF H, Q
<1>3. held = H <=> \A o : o \in held <=> o \in H
  BY Zenon
<1>4. Elements(waiting) = Q <=> \A o : o \in Elements(waiting) <=> o \in Q
  BY Zenon
<1> QED  BY <1>1, <1>2, <1>3, <1>4

(* A step moves one owner between the outside, the queue and the           *)
(* connections, and does it in the pool and in its own state alike.        *)
LEMMA OwnerMoves ==
    ASSUME ConnectionsConserved, NEW x,
           \A o : o # x => (Holding(o)' <=> Holding(o)) /\ (Queueing(o)' <=> Queueing(o)),
           \A o : o # x => (o \in held' <=> o \in held),
           x \in held' <=> Holding(x)',
           Cardinality(held') <= PoolMax,
           \A o : o # x => (o \in Elements(waiting') <=> o \in Elements(waiting)),
           x \in Elements(waiting') <=> Queueing(x)',
           Distinct(waiting')
    PROVE  ConnectionsConserved'
<1>1. /\ \A o : o \in held <=> Holding(o)
      /\ \A o : o \in Elements(waiting) <=> Queueing(o)
  BY PoolView
<1>2. \A o : o \in held' <=> Holding(o)'
  BY <1>1
<1>3. \A o : o \in Elements(waiting') <=> Queueing(o)'
  BY <1>1
<1>4. ConnectionsConserved' <=>
        /\ \A o : o \in held' <=> Holding(o)'
        /\ Cardinality(held') <= PoolMax
        /\ \A o : o \in Elements(waiting') <=> Queueing(o)'
        /\ Distinct(waiting')
  <2>1. Elements(waiting)' = Elements(waiting') /\ (Distinct(waiting)' <=> Distinct(waiting'))
    BY DEF Elements, Distinct
  <2>2. (ConnectionsConserved <=>
           /\ \A o : o \in held <=> Holding(o)
           /\ Cardinality(held) <= PoolMax
           /\ \A o : o \in Elements(waiting) <=> Queueing(o)
           /\ Distinct(waiting))'
    BY PoolView, PTL
  <2> QED  BY <2>1, <2>2
<1> QED  BY <1>2, <1>3, <1>4

LEMMA RequestMoves ==
    ASSUME NEW r \in Clients, batches' = batches,
           \A q \in Clients : q # r => req'[q].pc = req[q].pc
    PROVE  \A o : o # r => (Holding(o)' <=> Holding(o)) /\ (Queueing(o)' <=> Queueing(o))
  BY DEF Holding, Queueing, BatchIds

LEMMA BatchMoves ==
    ASSUME NEW b, \A r \in Clients : req'[r].pc = req[r].pc,
           \A c : c # b => (c \in BatchIds' <=> c \in BatchIds),
           \A c \in BatchIds : c # b => batches'[c].pc = batches[c].pc
    PROVE  \A o : o # b => (Holding(o)' <=> Holding(o)) /\ (Queueing(o)' <=> Queueing(o))
  BY DEF Holding, Queueing

(* Owners that are in the queue or hold a connection, and no number is a   *)
(* request.                                                                *)
LEMMA OwnersApart ==
    ASSUME ReqTypeOK
    PROVE  /\ BatchIds \subseteq Nat /\ Len(batches) \in Nat
           /\ \A b \in BatchIds : b \notin Clients
           /\ Len(batches) + 1 \notin BatchIds /\ Len(batches) + 1 \notin Clients
<1>1. Len(batches) \in Nat
  BY LenProperties DEF ReqTypeOK
<1> QED  BY <1>1, ReqAssumption DEF BatchIds

LEMMA LeaveQueue ==
    ASSUME ReqTypeOK, ConnectionsConserved, NEW x, Leave(x)
    PROVE  /\ waiting' \in Seq(Clients \cup Nat)
           /\ \A o : o \in Elements(waiting') <=> o \in Elements(waiting) /\ o # x
           /\ Distinct(waiting')
<1>1. waiting \in Seq(Clients \cup Nat) /\ Distinct(waiting)
  BY PoolView DEF ReqTypeOK
<1>2. CASE Places(x) = {}
  <2>1. x \notin Elements(waiting)
    BY <1>2 DEF Places, Elements
  <2> QED  BY <1>1, <1>2, <2>1 DEF Leave
<1>3. CASE Places(x) # {}
  <2>1. PICK k : k = CHOOSE i \in Places(x) : TRUE
    OBVIOUS
  <2>2. k \in Places(x)
    BY <1>3, <2>1
  <2>3. k \in 1..Len(waiting) /\ waiting[k] = x
    BY <2>2 DEF Places
  <2>4. waiting' = RemoveAt(waiting, k)
    BY <1>3, <2>1 DEF Leave
  <2>5. /\ waiting' \in Seq(Clients \cup Nat)
        /\ Elements(waiting') = Elements(waiting) \ {x}
        /\ Distinct(waiting')
    BY <1>1, <2>3, <2>4, RemoveFromQueue
  <2> QED  BY <2>5
<1> QED  BY <1>2, <1>3

(* A batch changes its state and nothing else of it. *)
BatchRecord == [pc : {"acquire", "query", "done", "failed"}, loads : SUBSET LoadRecords]

LEMMA BatchState ==
    ASSUME ReqTypeOK, NEW b \in BatchIds, NEW pc \in {"acquire", "query", "done", "failed"},
           batches' = [batches EXCEPT ![b].pc = pc]
    PROVE  /\ batches' \in Seq(BatchRecord) /\ BatchIds' = BatchIds
           /\ batches'[b].pc = pc /\ batches'[b].loads = batches[b].loads
           /\ \A c \in BatchIds : c # b => batches'[c] = batches[c]
<1>1. batches \in Seq(BatchRecord) /\ b \in 1..Len(batches)
  BY DEF ReqTypeOK, BatchRecord, BatchIds
<1>2. batches[b] \in BatchRecord
  BY <1>1, ElementOfSeq
<1>3. PICK e : e = [batches[b] EXCEPT !.pc = pc]
  OBVIOUS
<1>4. e \in BatchRecord /\ e.pc = pc /\ e.loads = batches[b].loads
  BY <1>2, <1>3 DEF BatchRecord
<1>5. batches' = [batches EXCEPT ![b] = e]
  BY <1>3
<1>6. /\ batches' \in Seq(BatchRecord) /\ Len(batches') = Len(batches)
      /\ \A j \in 1..Len(batches) : batches'[j] = IF j = b THEN e ELSE batches[j]
  BY <1>1, <1>4, <1>5, ExceptSeq
<1> QED  BY <1>1, <1>4, <1>6 DEF BatchIds

(* Steps of a request at the pool's door. *)
LEMMA RequestPool ==
    ASSUME ReqTypeOK, ConnectionsConserved, NEW r \in Clients, RequestStep(r)
    PROVE  ReqTypeOK' /\ ConnectionsConserved'
<1>1. /\ generation \in Nat /\ IsFiniteSet(held)
      /\ req \in [Clients -> [pc : {"new", "acquire", "rls", "run"} \cup Ended, gen : Nat,
                              lock : Fields \cup {NoField}]]
      /\ waiting \in Seq(Clients \cup Nat)
  BY DEF ReqTypeOK
<1>2. /\ \A o : o \in held <=> Holding(o)
      /\ \A o : o \in Elements(waiting) <=> Queueing(o)
      /\ Cardinality(held) <= PoolMax /\ Distinct(waiting)
  BY PoolView
<1>3. r \notin BatchIds
  BY OwnersApart
<1>4. UNCHANGED <<generation, fld, queued, batches>>
  BY DEF RequestStep, graphql_handler, AcquireTimesOut, apply_rls_context, RlsFails, Respond, Disconnect
<1>5. /\ req' \in [Clients -> [pc : {"new", "acquire", "rls", "run"} \cup Ended, gen : Nat,
                               lock : Fields \cup {NoField}]]
      /\ \A q \in Clients : q # r => req'[q] = req[q]
  BY <1>1 DEF RequestStep, graphql_handler, AcquireTimesOut, apply_rls_context, RlsFails, Respond,
              Disconnect, Ended
<1>6. \A o : o # r => (Holding(o)' <=> Holding(o)) /\ (Queueing(o)' <=> Queueing(o))
  BY <1>4, <1>5, RequestMoves
<1>7. /\ Holding(r)' <=> req'[r].pc \in {"rls", "run"}
      /\ Queueing(r)' <=> req'[r].pc = "acquire"
      /\ Holding(r) <=> req[r].pc \in {"rls", "run"}
      /\ Queueing(r) <=> req[r].pc = "acquire"
  BY <1>3, <1>4 DEF Holding, Queueing, BatchIds
<1>8. IsFiniteSet(held \ {r}) /\ Cardinality(held \ {r}) <= PoolMax
  <2>1. /\ IsFiniteSet(held \ {r}) /\ Cardinality(held) \in Nat
        /\ Cardinality(held \ {r}) = IF r \in held THEN Cardinality(held) - 1 ELSE Cardinality(held)
    BY <1>1, FS_RemoveElement, FS_CardinalityType
  <2> QED  BY <1>2, <2>1, ReqAssumption
<1> DEFINE Kept == /\ IsFiniteSet(held') /\ Cardinality(held') <= PoolMax
                   /\ waiting' \in Seq(Clients \cup Nat) /\ Distinct(waiting')
                   /\ \A o : o # r => (o \in held' <=> o \in held)
                   /\ r \in held' <=> req'[r].pc \in {"rls", "run"}
                   /\ \A o : o # r => (o \in Elements(waiting') <=> o \in Elements(waiting))
                   /\ r \in Elements(waiting') <=> req'[r].pc = "acquire"
<1>9. SUFFICES Kept
  <2>1. ReqTypeOK'
    BY <1>4, <1>5, <1>9 DEF ReqTypeOK
  <2>2. ConnectionsConserved'
    BY <1>6, <1>7, <1>9, OwnerMoves
  <2> QED  BY <2>1, <2>2
<1>10. ASSUME NEW valid \in BOOLEAN, graphql_handler(r, valid) PROVE Kept
  <2>1. CASE valid
    <3>1. req[r].pc = "new" /\ req'[r].pc = "acquire" /\ waiting' = Append(waiting, r) /\ held' = held
      BY <1>1, <1>10, <2>1 DEF graphql_handler
    <3>2. r \notin Elements(waiting) /\ r \notin held
      BY <1>2, <1>7, <3>1
    <3>3. /\ waiting' \in Seq(Clients \cup Nat) /\ Distinct(waiting')
          /\ Elements(waiting') = Elements(waiting) \cup {r}
      BY <1>1, <1>2, <3>1, <3>2, AppendQueue
    <3> QED  BY <1>1, <1>2, <3>1, <3>2, <3>3
  <2>2. CASE ~valid
    <3>1. req[r].pc = "new" /\ req'[r].pc = "error" /\ waiting' = waiting /\ held' = held
      BY <1>1, <1>10, <2>2 DEF graphql_handler
    <3> QED  BY <1>1, <1>2, <1>7, <3>1
  <2> QED  BY <2>1, <2>2
<1>11. CASE AcquireTimesOut(r)
  <2>1. req[r].pc = "acquire" /\ req'[r].pc = "error" /\ Leave(r) /\ held' = held
    BY <1>1, <1>11 DEF AcquireTimesOut
  <2>2. /\ waiting' \in Seq(Clients \cup Nat) /\ Distinct(waiting')
        /\ \A o : o \in Elements(waiting') <=> o \in Elements(waiting) /\ o # r
    BY <2>1, LeaveQueue
  <2> QED  BY <1>1, <1>2, <1>7, <2>1, <2>2
<1>12. CASE apply_rls_context(r)
  <2>1. req[r].pc = "rls" /\ req'[r].pc = "run" /\ waiting' = waiting /\ held' = held
    BY <1>1, <1>12 DEF apply_rls_context
  <2> QED  BY <1>1, <1>2, <1>7, <2>1
<1>13. CASE RlsFails(r) \/ Respond(r)
  <2>1. /\ req[r].pc \in {"rls", "run"} /\ req'[r].pc \in {"error", "done"}
        /\ waiting' = waiting /\ held' = held \ {r}
    BY <1>1, <1>13 DEF RlsFails, Respond, Running
  <2> QED  BY <1>1, <1>2, <1>7, <1>8, <2>1
<1>14. CASE Disconnect(r)
  <2>1. req'[r].pc = "gone" /\ Leave(r) /\ held' = held \ {r}
    BY <1>1, <1>14 DEF Disconnect
  <2>2. /\ waiting' \in Seq(Clients \cup Nat) /\ Distinct(waiting')
        /\ \A o : o \in Elements(waiting') <=> o \in Elements(waiting) /\ o # r
    BY <2>1, LeaveQueue
  <2> QED  BY <1>1, <1>2, <1>7, <1>8, <2>1, <2>2
<1> QED
  BY <1>10, <1>11, <1>12, <1>13, <1>14 DEF RequestStep

(* The pool serves the head of its queue. *)
LEMMA GrantPool ==
    ASSUME ReqTypeOK, ConnectionsConserved, Grant
    PROVE  ReqTypeOK' /\ ConnectionsConserved'
<1>0. PICK x : x = Head(waiting)
  OBVIOUS
<1>1. /\ \A o : o \in held <=> Holding(o)
      /\ \A o : o \in Elements(waiting) <=> Queueing(o)
      /\ Distinct(waiting) /\ waiting \in Seq(Clients \cup Nat) /\ waiting # <<>> /\ IsFiniteSet(held)
      /\ req \in [Clients -> [pc : {"new", "acquire", "rls", "run"} \cup Ended, gen : Nat,
                              lock : Fields \cup {NoField}]]
  BY PoolView DEF Grant, ReqTypeOK
<1>2. /\ x \in Elements(waiting) /\ waiting' \in Seq(Clients \cup Nat) /\ Distinct(waiting')
      /\ Elements(waiting') = Elements(waiting) \ {x}
  BY <1>0, <1>1, TailQueue DEF Grant
<1>3. Queueing(x) /\ (x \in Clients <=> x \notin BatchIds)
  BY <1>1, <1>2, OwnersApart DEF Queueing
<1>4. x \notin held
  BY <1>1, <1>3 DEF Holding, Queueing
<1>5. held' = held \cup {x} /\ IsFiniteSet(held') /\ Cardinality(held') <= PoolMax
  <2>1. /\ IsFiniteSet(held \cup {x}) /\ Cardinality(held) \in Nat
        /\ Cardinality(held \cup {x}) = Cardinality(held) + 1
    BY <1>1, <1>4, FS_AddElement, FS_CardinalityType
  <2>2. Cardinality(held) < PoolMax /\ held' = held \cup {x}
    BY <1>0 DEF Grant
  <2> QED  BY <2>1, <2>2, ReqAssumption
<1>6. UNCHANGED <<generation, fld, queued>>
  BY DEF Grant
<1>7. CASE x \in Clients
  <2>1. req' = [req EXCEPT ![x].pc = "rls"] /\ batches' = batches
    BY <1>0, <1>7 DEF Grant
  <2>2. /\ req' \in [Clients -> [pc : {"new", "acquire", "rls", "run"} \cup Ended, gen : Nat,
                                 lock : Fields \cup {NoField}]]
        /\ req'[x].pc = "rls" /\ \A q \in Clients : q # x => req'[q] = req[q]
    BY <1>1, <1>7, <2>1
  <2>3. ReqTypeOK'
    BY <1>2, <1>5, <1>6, <2>1, <2>2 DEF ReqTypeOK
  <2>4. \A o : o # x => (Holding(o)' <=> Holding(o)) /\ (Queueing(o)' <=> Queueing(o))
    BY <1>7, <2>1, <2>2, RequestMoves
  <2>5. Holding(x)' /\ ~Queueing(x)'
    BY <1>3, <1>7, <2>1, <2>2 DEF Holding, Queueing, BatchIds
  <2>6. ConnectionsConserved'
    BY <1>2, <1>5, <2>4, <2>5, OwnerMoves
  <2> QED  BY <2>3, <2>6
<1>8. CASE x \in BatchIds
  <2>1. batches' = [batches EXCEPT ![x].pc = "query"] /\ req' = req
    BY <1>0, <1>3, <1>8 DEF Grant
  <2>2. /\ batches' \in Seq(BatchRecord) /\ BatchIds' = BatchIds /\ batches'[x].pc = "query"
        /\ \A c \in BatchIds : c # x => batches'[c] = batches[c]
    BY <1>8, <2>1, BatchState
  <2>3. ReqTypeOK'
    BY <1>2, <1>5, <1>6, <2>1, <2>2 DEF ReqTypeOK, BatchRecord
  <2>4. \A o : o # x => (Holding(o)' <=> Holding(o)) /\ (Queueing(o)' <=> Queueing(o))
    BY <2>1, <2>2, BatchMoves
  <2>5. Holding(x)' /\ ~Queueing(x)'
    BY <1>3, <1>8, <2>2 DEF Holding, Queueing
  <2>6. ConnectionsConserved'
    BY <1>2, <1>5, <2>4, <2>5, OwnerMoves
  <2> QED  BY <2>3, <2>6
<1> QED  BY <1>3, <1>7, <1>8

(* Steps that neither take nor return a connection. *)
LEMMA PoolFrame ==
    ASSUME ConnectionsConserved, UNCHANGED <<batches, waiting, held>>,
           \A r \in Clients : req'[r].pc = req[r].pc
    PROVE  ConnectionsConserved'
<1>1. /\ \A o : o \in held <=> Holding(o)
      /\ \A o : o \in Elements(waiting) <=> Queueing(o)
      /\ Cardinality(held) <= PoolMax /\ Distinct(waiting)
  BY PoolView
<1>2. \A o : (Holding(o)' <=> Holding(o)) /\ (Queueing(o)' <=> Queueing(o))
  BY DEF Holding, Queueing, BatchIds
<1>3. PICK x : TRUE
  OBVIOUS
<1> QED  BY <1>1, <1>2, <1>3, OwnerMoves

LEMMA FieldPool ==
    ASSUME ReqTypeOK, ConnectionsConserved, NEW r \in Clients, NEW f \in Fields, FieldStep(r, f)
    PROVE  ReqTypeOK' /\ ConnectionsConserved'
<1>1. /\ req \in [Clients -> [pc : {"new", "acquire", "rls", "run"} \cup Ended, gen : Nat,
                              lock : Fields \cup {NoField}]]
      /\ DOMAIN fld = Clients /\ \A q \in Clients : DOMAIN fld[q] = Fields
      /\ \A q \in Clients, g \in Fields :
           /\ DOMAIN fld[q][g] = {"state", "key", "rows"}
           /\ fld[q][g].state \in {"waiting", "loading", "ok", "failed"}
           /\ fld[q][g].key \in Keys
      /\ queued \subseteq LoadRecords
  BY DEF ReqTypeOK
<1>2. UNCHANGED <<generation, batches, waiting, held>>
  BY DEF FieldStep, Lock, QueryFails, Resolve
<1>3. /\ req' \in [Clients -> [pc : {"new", "acquire", "rls", "run"} \cup Ended, gen : Nat,
                               lock : Fields \cup {NoField}]]
      /\ \A q \in Clients : req'[q].pc = req[q].pc
  <2>1. PICK lock \in Fields \cup {NoField} : req' = [req EXCEPT ![r].lock = lock]
    BY DEF FieldStep, Lock, QueryFails, Resolve
  <2> QED  BY <1>1, <2>1
<1>4. ConnectionsConserved'
  BY <1>2, <1>3, PoolFrame
<1> DEFINE FldOK ==
             /\ DOMAIN fld' = Clients /\ \A q \in Clients : DOMAIN fld'[q] = Fields
             /\ \A q \in Clients, g \in Fields :
                  /\ DOMAIN fld'[q][g] = {"state", "key", "rows"}
                  /\ fld'[q][g].state \in {"waiting", "loading", "ok", "failed"}
                  /\ fld'[q][g].key \in Keys
             /\ queued' \subseteq LoadRecords
<1>5. FldOK
  <2>1. CASE Lock(r, f)
    BY <1>1, <2>1 DEF Lock
  <2>2. CASE QueryFails(r, f)
    BY <1>1, <2>2 DEF QueryFails
  <2>3. ASSUME NEW key \in ParentKeys[f], Resolve(r, f, key) PROVE  FldOK
    <3>1. key \in Keys
      BY DEF Keys
    <3>2. [client |-> r, field |-> f, key |-> key, gen |-> req[r].gen] \in LoadRecords
      BY <1>1, <3>1 DEF LoadRecords
    <3>3. queued' \subseteq LoadRecords
      BY <1>1, <2>3, <3>2 DEF Resolve
    <3> QED  BY <1>1, <2>3, <3>1, <3>3 DEF Resolve
  <2> QED  BY <2>1, <2>2, <2>3 DEF FieldStep
<1> QED  BY <1>2, <1>3, <1>4, <1>5 DEF ReqTypeOK

(* A batch enters the queue under the next number. *)
LEMMA DispatchPool ==
    ASSUME ReqTypeOK, ConnectionsConserved, NEW gen \in 0..generation, NEW f \in Fields,
           Dispatch(gen, f)
    PROVE  /\ ReqTypeOK' /\ ConnectionsConserved'
           /\ BatchIds' = BatchIds \cup {Len(batches) + 1}
           /\ \A c \in BatchIds : batches'[c] = batches[c]
           /\ batches'[Len(batches) + 1] =
                [pc |-> "acquire", loads |-> {l \in queued : LoaderOf(l) = <<gen, f>>}]
<1>0. PICK x : x = Len(batches) + 1
  OBVIOUS
<1> DEFINE batch == [pc |-> "acquire", loads |-> {l \in queued : LoaderOf(l) = <<gen, f>>}]
<1>1. /\ \A o : o \in held <=> Holding(o)
      /\ \A o : o \in Elements(waiting) <=> Queueing(o)
      /\ Cardinality(held) <= PoolMax /\ Distinct(waiting)
  BY PoolView
<1>2. /\ batches' = Append(batches, batch) /\ waiting' = Append(waiting, x)
      /\ queued' \subseteq queued /\ UNCHANGED <<generation, req, fld, held>>
  BY <1>0 DEF Dispatch
<1>3. batches \in Seq(BatchRecord) /\ batch \in BatchRecord /\ waiting \in Seq(Clients \cup Nat)
  BY DEF ReqTypeOK, BatchRecord
<1>4. /\ BatchIds \subseteq Nat /\ Len(batches) \in Nat /\ x \notin BatchIds /\ x \notin Clients
      /\ x \in Nat
  BY <1>0, OwnersApart
<1>5. /\ batches' \in Seq(BatchRecord) /\ Len(batches') = Len(batches) + 1
      /\ \A c \in 1..Len(batches) : batches'[c] = batches[c]
      /\ batches'[x] = batch
  BY <1>0, <1>2, <1>3, AppendProperties
<1> HIDE DEF batch
<1>6. BatchIds' = BatchIds \cup {x}
  BY <1>0, <1>4, <1>5 DEF BatchIds
<1>7. x \notin held /\ x \notin Elements(waiting)
  BY <1>1, <1>4 DEF Holding, Queueing
<1>8. /\ waiting' \in Seq(Clients \cup Nat) /\ Distinct(waiting')
      /\ Elements(waiting') = Elements(waiting) \cup {x}
  BY <1>1, <1>2, <1>3, <1>4, <1>7, AppendQueue
<1>9. ReqTypeOK'
  BY <1>2, <1>5, <1>8 DEF ReqTypeOK, BatchRecord
<1>10. \A o : o # x => (Holding(o)' <=> Holding(o)) /\ (Queueing(o)' <=> Queueing(o))
  BY <1>2, <1>5, <1>6, BatchMoves DEF BatchIds
<1>11. ~Holding(x)' /\ Queueing(x)'
  BY <1>4, <1>5, <1>6 DEF Holding, Queueing, batch
<1>12. ConnectionsConserved'
  BY <1>1, <1>2, <1>7, <1>8, <1>10, <1>11, OwnerMoves
<1> QED  BY <1>0, <1>5, <1>6, <1>9, <1>12 DEF BatchIds, batch

(* The end of a batch answers the fields it has loads of, and no other. *)
Asked(b, r, f) == \E l \in batches[b].loads : l.client = r /\ l.field = f

LEMMA BatchAnswers ==
    ASSUME ReqTypeOK, NEW b \in BatchIds, BatchStep(b)
    PROVE  /\ UNCHANGED <<generation, req, queued>> /\ Open(b)
           /\ DOMAIN fld' = Clients /\ \A r \in Clients : DOMAIN fld'[r] = Fields
           /\ \A r \in Clients, f \in Fields :
                /\ DOMAIN fld'[r][f] = {"state", "key", "rows"} /\ fld'[r][f].key = fld[r][f].key
                /\ Asked(b, r, f) => fld'[r][f].state \in {"ok", "failed"}
                /\ ~Asked(b, r, f) => fld'[r][f] = fld[r][f]
           /\ \E pc \in {"done", "failed"} : batches' = [batches EXCEPT ![b].pc = pc]
<1>1. \A r \in Clients, f \in Fields : DOMAIN fld[r][f] = {"state", "key", "rows"}
  BY DEF ReqTypeOK
<1>2. CASE BatchQuery(b)
  <2>0. PICK rows : rows = load((CHOOSE l \in batches[b].loads : TRUE).field,
                               {l.key : l \in batches[b].loads})
    OBVIOUS
  <2>1. fld' = [r \in Clients |-> [f \in Fields |->
          IF Asked(b, r, f) THEN [fld[r][f] EXCEPT !.state = "ok", !.rows = rows[fld[r][f].key]]
          ELSE fld[r][f]]]
    BY <1>2, <2>0 DEF BatchQuery, Answer, Asked
  <2>2. \A r \in Clients, f \in Fields :
          /\ DOMAIN fld'[r][f] = {"state", "key", "rows"} /\ fld'[r][f].key = fld[r][f].key
          /\ Asked(b, r, f) => fld'[r][f].state = "ok"
          /\ ~Asked(b, r, f) => fld'[r][f] = fld[r][f]
    BY <1>1, <2>1
  <2> QED  BY <1>2, <2>1, <2>2 DEF BatchQuery, Open
<1>3. CASE BatchQueryFails(b) \/ BatchTimesOut(b)
  <2>1. fld' = [r \in Clients |-> [f \in Fields |->
          IF Asked(b, r, f) THEN [fld[r][f] EXCEPT !.state = "failed"] ELSE fld[r][f]]]
    BY <1>3 DEF BatchQueryFails, BatchTimesOut, Answer, Asked
  <2>2. \A r \in Clients, f \in Fields :
          /\ DOMAIN fld'[r][f] = {"state", "key", "rows"} /\ fld'[r][f].key = fld[r][f].key
          /\ Asked(b, r, f) => fld'[r][f].state = "failed"
          /\ ~Asked(b, r, f) => fld'[r][f] = fld[r][f]
    BY <1>1, <2>1
  <2> QED  BY <1>3, <2>1, <2>2 DEF BatchQueryFails, BatchTimesOut, Open
<1> QED  BY <1>2, <1>3 DEF BatchStep

LEMMA BatchPool ==
    ASSUME ReqTypeOK, ConnectionsConserved, NEW b \in BatchIds, BatchStep(b)
    PROVE  ReqTypeOK' /\ ConnectionsConserved'
<1>1. /\ \A o : o \in held <=> Holding(o)
      /\ \A o : o \in Elements(waiting) <=> Queueing(o)
      /\ Cardinality(held) <= PoolMax /\ Distinct(waiting)
  BY PoolView
<1>2. b \notin Clients
  BY OwnersApart
<1>3. /\ UNCHANGED <<generation, req, queued>>
      /\ DOMAIN fld' = Clients /\ \A r \in Clients : DOMAIN fld'[r] = Fields
      /\ \A r \in Clients, f \in Fields :
           /\ DOMAIN fld'[r][f] = {"state", "key", "rows"} /\ fld'[r][f].key = fld[r][f].key
           /\ fld'[r][f].state \in {"ok", "failed", fld[r][f].state}
  BY BatchAnswers
<1>4. PICK pc \in {"done", "failed"} : batches' = [batches EXCEPT ![b].pc = pc]
  BY BatchAnswers
<1>5. /\ batches' \in Seq(BatchRecord) /\ BatchIds' = BatchIds /\ batches'[b].pc = pc
      /\ \A c \in BatchIds : c # b => batches'[c] = batches[c]
  BY <1>4, BatchState
<1>6. \A o : o # b => (Holding(o)' <=> Holding(o)) /\ (Queueing(o)' <=> Queueing(o))
  BY <1>3, <1>5, BatchMoves
<1>7. ~Holding(b)' /\ ~Queueing(b)'
  BY <1>2, <1>5 DEF Holding, Queueing
<1>8. /\ IsFiniteSet(held') /\ Cardinality(held') <= PoolMax
      /\ \A o : o \in held' <=> o \in held /\ o # b
      /\ waiting' \in Seq(Clients \cup Nat) /\ Distinct(waiting')
      /\ \A o : o \in Elements(waiting') <=> o \in Elements(waiting) /\ o # b
  <2>1. CASE BatchQuery(b) \/ BatchQueryFails(b)
    <3>1. batches[b].pc = "query" /\ held' = held \ {b} /\ waiting' = waiting
      BY <2>1 DEF BatchQuery, BatchQueryFails
    <3>2. b \notin Elements(waiting)
      BY <1>1, <1>2, <3>1 DEF Queueing
    <3>3. /\ IsFiniteSet(held') /\ Cardinality(held) \in Nat
          /\ Cardinality(held') = IF b \in held THEN Cardinality(held) - 1 ELSE Cardinality(held)
      BY <3>1, FS_RemoveElement, FS_CardinalityType DEF ReqTypeOK
    <3>4. Cardinality(held') <= PoolMax
      BY <1>1, <3>3, ReqAssumption
    <3> QED  BY <1>1, <3>1, <3>2, <3>3, <3>4 DEF ReqTypeOK
  <2>2. CASE BatchTimesOut(b)
    <3>1. batches[b].pc = "acquire" /\ held' = held /\ Leave(b)
      BY <2>2 DEF BatchTimesOut
    <3>2. b \notin held
      BY <1>1, <1>2, <3>1 DEF Holding
    <3>3. /\ waiting' \in Seq(Clients \cup Nat) /\ Distinct(waiting')
          /\ \A o : o \in Elements(waiting') <=> o \in Elements(waiting) /\ o # b
      BY <3>1, LeaveQueue
    <3> QED  BY <1>1, <3>1, <3>2, <3>3 DEF ReqTypeOK
  <2> QED  BY <2>1, <2>2 DEF BatchStep
<1>9. ReqTypeOK'
  BY <1>3, <1>5, <1>8 DEF ReqTypeOK, BatchRecord
<1>10. ConnectionsConserved'
  BY <1>6, <1>7, <1>8, OwnerMoves
<1> QED  BY <1>9, <1>10

LEMMA SwapPool ==
    ASSUME ReqTypeOK, ConnectionsConserved, SwapSchema
    PROVE  ReqTypeOK' /\ ConnectionsConserved'
<1>1. UNCHANGED <<req, fld, queued, batches, waiting, held>> /\ generation' = generation + 1
  BY DEF SwapSchema
<1>2. ConnectionsConserved'
  BY <1>1, PoolFrame
<1> QED  BY <1>1, <1>2 DEF ReqTypeOK

-----------------------------------------------------------------------------
(* The loads *)

LoadInv == FieldsOfRunning /\ LoadsAreCurrent /\ LoadsInOnePlace

LEMMA LoadFacts ==
    ASSUME ReqTypeOK
    PROVE  /\ \A l \in queued : l \in LoadRecords /\ l.client \in Clients /\ l.field \in Fields
           /\ \A b \in BatchIds : \A l \in batches[b].loads :
                l \in LoadRecords /\ l.client \in Clients /\ l.field \in Fields
<1>1. batches \in Seq(BatchRecord)
  BY DEF ReqTypeOK, BatchRecord
<1>2. \A b \in BatchIds : batches[b] \in BatchRecord
  BY <1>1, ElementOfSeq DEF BatchIds
<1> QED  BY <1>2 DEF ReqTypeOK, BatchRecord, LoadRecords

(* Steps that touch neither the fields nor the loads: a request that has   *)
(* loads keeps the schema it started with.                                 *)
LEMMA LoadsFrame ==
    ASSUME ReqTypeOK, LoadsAreCurrent, LoadsInOnePlace, UNCHANGED <<fld, queued>>,
           BatchIds' = BatchIds,
           \A b \in BatchIds : batches'[b].loads = batches[b].loads /\ (Open(b)' <=> Open(b)),
           \A r \in Clients, f \in Fields :
             fld[r][f].state # "waiting" => req'[r].gen = req[r].gen
    PROVE  LoadsAreCurrent' /\ LoadsInOnePlace'
<1>1. \A r \in Clients, f \in Fields : fld[r][f].state # "waiting" => Load(r, f)' = Load(r, f)
  BY DEF Load
<1>2. /\ \A l \in queued : l.client \in Clients /\ l.field \in Fields
      /\ \A b \in BatchIds : \A l \in batches[b].loads : l.client \in Clients /\ l.field \in Fields
  BY LoadFacts
<1>3. \A l : l.client \in Clients /\ l.field \in Fields /\ Current(l) => Current(l)'
  BY <1>1 DEF Current
<1>4. LoadsAreCurrent'
  BY <1>2, <1>3 DEF LoadsAreCurrent
<1>5. LoadsInOnePlace'
  BY <1>1 DEF LoadsInOnePlace
<1> QED  BY <1>4, <1>5

LEMMA GrantLoads ==
    ASSUME ReqTypeOK, ConnectionsConserved, LoadInv, Grant
    PROVE  LoadInv'
<1>0. PICK x : x = Head(waiting)
  OBVIOUS
<1>1. /\ \A o : o \in Elements(waiting) <=> Queueing(o)
      /\ Distinct(waiting) /\ waiting \in Seq(Clients \cup Nat) /\ waiting # <<>>
      /\ req \in [Clients -> [pc : {"new", "acquire", "rls", "run"} \cup Ended, gen : Nat,
                              lock : Fields \cup {NoField}]]
  BY PoolView DEF Grant, ReqTypeOK
<1>2. Queueing(x) /\ (x \in Clients <=> x \notin BatchIds)
  <2>1. Queueing(x)
    BY <1>0, <1>1, TailQueue
  <2> QED  BY <2>1, OwnersApart DEF Queueing
<1>3. UNCHANGED <<fld, queued>>
  BY DEF Grant
<1>4. CASE x \in Clients
  <2>1. req' = [req EXCEPT ![x].pc = "rls"] /\ batches' = batches /\ req[x].pc = "acquire"
    BY <1>0, <1>2, <1>4 DEF Grant, Queueing
  <2>2. \A r \in Clients :
          /\ req'[r].gen = req[r].gen /\ req'[r].lock = req[r].lock
          /\ req'[r].pc = IF r = x THEN "rls" ELSE req[r].pc
    BY <1>1, <1>4, <2>1
  <2>3. FieldsOfRunning'
    BY <1>3, <2>1, <2>2 DEF LoadInv, FieldsOfRunning
  <2>4. LoadsAreCurrent' /\ LoadsInOnePlace'
    BY <1>3, <2>1, <2>2, LoadsFrame DEF LoadInv, Open, BatchIds
  <2> QED  BY <2>3, <2>4 DEF LoadInv
<1>5. CASE x \in BatchIds
  <2>1. batches' = [batches EXCEPT ![x].pc = "query"] /\ req' = req /\ batches[x].pc = "acquire"
    BY <1>0, <1>2, <1>5 DEF Grant, Queueing
  <2>2. /\ BatchIds' = BatchIds /\ batches'[x].pc = "query" /\ batches'[x].loads = batches[x].loads
        /\ \A c \in BatchIds : c # x => batches'[c] = batches[c]
    BY <1>5, <2>1, BatchState
  <2>3. FieldsOfRunning'
    BY <1>3, <2>1 DEF LoadInv, FieldsOfRunning
  <2>4. \A b \in BatchIds : batches'[b].loads = batches[b].loads /\ (Open(b)' <=> Open(b))
    BY <2>1, <2>2 DEF Open
  <2>5. LoadsAreCurrent' /\ LoadsInOnePlace'
    BY <1>3, <2>1, <2>2, <2>4, LoadsFrame DEF LoadInv
  <2> QED  BY <2>3, <2>5 DEF LoadInv
<1> QED  BY <1>2, <1>4, <1>5

(* A request changes its schema only before it has a field under way, and  *)
(* ends only when none of its fields holds its connection -- or takes the  *)
(* lock along.                                                             *)
LEMMA RequestLoads ==
    ASSUME ReqTypeOK, LoadInv, NEW r \in Clients, RequestStep(r)
    PROVE  LoadInv'
<1>1. req \in [Clients -> [pc : {"new", "acquire", "rls", "run"} \cup Ended, gen : Nat,
                          lock : Fields \cup {NoField}]]
  BY DEF ReqTypeOK
<1>2. UNCHANGED <<fld, queued, batches>>
  BY DEF RequestStep, graphql_handler, AcquireTimesOut, apply_rls_context, RlsFails, Respond, Disconnect
<1>3. \A q \in Clients : q # r => req'[q] = req[q]
  BY <1>1 DEF RequestStep, graphql_handler, AcquireTimesOut, apply_rls_context, RlsFails, Respond,
              Disconnect
<1>4. /\ \A f \in Fields : fld[r][f].state # "waiting" =>
           req'[r].gen = req[r].gen /\ req'[r].pc \notin {"new", "acquire", "rls"}
      /\ \A f \in Fields : req'[r].lock = f => req'[r].pc = "run" /\ fld[r][f].state = "waiting"
  <2> DEFINE Kept ==
         /\ \A f \in Fields : fld[r][f].state # "waiting" =>
              req'[r].gen = req[r].gen /\ req'[r].pc \notin {"new", "acquire", "rls"}
         /\ \A f \in Fields : req'[r].lock = f => req'[r].pc = "run" /\ fld[r][f].state = "waiting"
  <2> SUFFICES Kept
    OBVIOUS
  <2>0. \A f \in Fields :
          /\ fld[r][f].state # "waiting" => req[r].pc \notin {"new", "acquire", "rls"}
          /\ req[r].lock = f => req[r].pc = "run" /\ fld[r][f].state = "waiting"
    BY DEF LoadInv, FieldsOfRunning
  <2>1. ASSUME NEW valid \in BOOLEAN, graphql_handler(r, valid) PROVE Kept
    <3>1. req[r].pc = "new" /\ req'[r].lock = req[r].lock
      BY <1>1, <2>1 DEF graphql_handler
    <3> QED  BY <2>0, <3>1
  <2>2. CASE AcquireTimesOut(r) \/ RlsFails(r)
    <3>1. req[r].pc \in {"acquire", "rls"} /\ req'[r].lock = req[r].lock
      BY <1>1, <2>2 DEF AcquireTimesOut, RlsFails
    <3> QED  BY <2>0, <3>1
  <2>3. CASE apply_rls_context(r)
    <3>1. req[r].pc = "rls" /\ req'[r].lock = req[r].lock
      BY <1>1, <2>3 DEF apply_rls_context
    <3> QED  BY <2>0, <3>1
  <2>4. CASE Respond(r)
    <3>1. req'[r].pc = "done" /\ req'[r].gen = req[r].gen /\ req'[r].lock = req[r].lock
      BY <1>1, <2>4 DEF Respond
    <3>2. \A f \in Fields : fld[r][f].state # "waiting"
      BY <2>4 DEF Respond
    <3> QED  BY <2>0, <3>1, <3>2
  <2>5. CASE Disconnect(r)
    <3>1. req'[r].pc = "gone" /\ req'[r].gen = req[r].gen /\ req'[r].lock = NoField
      <4>1. PICK x : x = [req[r] EXCEPT !.pc = "gone"]
        OBVIOUS
      <4>2. req'[r] = [x EXCEPT !.lock = NoField]
        BY <1>1, <2>5, <4>1 DEF Disconnect
      <4> QED  BY <1>1, <4>1, <4>2
    <3> QED  BY <3>1, ReqAssumption
  <2> QED  BY <2>1, <2>2, <2>3, <2>4, <2>5 DEF RequestStep
<1>5. FieldsOfRunning'
  BY <1>2, <1>3, <1>4 DEF LoadInv, FieldsOfRunning
<1>6. \A q \in Clients, f \in Fields : fld[q][f].state # "waiting" => req'[q].gen = req[q].gen
  BY <1>3, <1>4
<1>7. LoadsAreCurrent' /\ LoadsInOnePlace'
  BY <1>2, <1>6, LoadsFrame DEF LoadInv, Open, BatchIds
<1> QED  BY <1>5, <1>7 DEF LoadInv

(* A field that resolves to a key hands its first and only load to the     *)
(* loader: while it was waiting nobody had a load of it.                   *)
LEMMA FieldLoads ==
    ASSUME ReqTypeOK, LoadInv, NEW r \in Clients, NEW f \in Fields, FieldStep(r, f)
    PROVE  LoadInv'
<1>1. /\ req \in [Clients -> [pc : {"new", "acquire", "rls", "run"} \cup Ended, gen : Nat,
                              lock : Fields \cup {NoField}]]
      /\ DOMAIN fld = Clients /\ \A q \in Clients : DOMAIN fld[q] = Fields
      /\ \A q \in Clients, g \in Fields : DOMAIN fld[q][g] = {"state", "key", "rows"}
  BY DEF ReqTypeOK
<1>2. batches' = batches /\ BatchIds' = BatchIds /\ \A b \in BatchIds : Open(b)' <=> Open(b)
  BY DEF FieldStep, Lock, QueryFails, Resolve, BatchIds, Open
<1>3. /\ \A q \in Clients : req'[q].pc = req[q].pc /\ req'[q].gen = req[q].gen
      /\ \A q \in Clients : q # r => req'[q].lock = req[q].lock
  <2>1. PICK lock \in Fields \cup {NoField} : req' = [req EXCEPT ![r].lock = lock]
    BY DEF FieldStep, Lock, QueryFails, Resolve
  <2> QED  BY <1>1, <2>1
<1>4. CASE Lock(r, f)
  <2>1. UNCHANGED <<fld, queued>> /\ req'[r].lock = f /\ req[r].pc = "run" /\ fld[r][f].state = "waiting"
    BY <1>1, <1>4 DEF Lock, Running
  <2>2. FieldsOfRunning'
    BY <1>3, <2>1 DEF LoadInv, FieldsOfRunning
  <2>3. LoadsAreCurrent' /\ LoadsInOnePlace'
    BY <1>2, <1>3, <2>1, LoadsFrame DEF LoadInv
  <2> QED  BY <2>2, <2>3 DEF LoadInv
<1>5. ASSUME NEW own, own = Load(r, f)', req[r].lock = f, req'[r].lock = NoField, fld'[r][f].state # "waiting",
             \A q \in Clients, g \in Fields : <<q, g>> # <<r, f>> => fld'[q][g] = fld[q][g],
             queued' = IF fld'[r][f].state = "loading" THEN queued \cup {own} ELSE queued
      PROVE  LoadInv'
  <2>1. req[r].pc = "run" /\ fld[r][f].state = "waiting"
    BY <1>5 DEF LoadInv, FieldsOfRunning
  <2>2. FieldsOfRunning'
    BY <1>3, <1>5, <2>1, ReqAssumption DEF LoadInv, FieldsOfRunning
  <2>3. \A q \in Clients, g \in Fields : <<q, g>> # <<r, f>> => Load(q, g)' = Load(q, g)
    BY <1>3, <1>5 DEF Load
  <2>4. \A l \in queued : /\ l.client \in Clients /\ l.field \in Fields /\ Current(l)
                          /\ <<l.client, l.field>> # <<r, f>>
    BY <2>1, LoadFacts DEF LoadInv, LoadsAreCurrent, Current
  <2>5. \A b \in BatchIds : \A l \in batches[b].loads :
          l.client \in Clients /\ l.field \in Fields /\ <<l.client, l.field>> # <<r, f>>
    BY <2>1, LoadFacts DEF LoadInv, LoadsAreCurrent
  <2>6. \A l : /\ l.client \in Clients /\ l.field \in Fields /\ Current(l)
               /\ <<l.client, l.field>> # <<r, f>>
             => Current(l)'
    BY <1>5, <2>3 DEF Current
  <2>7. own.client = r /\ own.field = f /\ (fld'[r][f].state = "loading" => Current(own)')
    <3>1. own.client = r /\ own.field = f
      BY <1>5 DEF Load
    <3> QED  BY <1>5, <3>1 DEF Current
  <2>8. LoadsAreCurrent'
    <3>1. \A l \in queued' : Current(l)'
      BY <1>5, <2>4, <2>6, <2>7
    <3>2. \A b \in BatchIds : \A l \in batches[b].loads :
            /\ Open(b) => Current(l)'
            /\ fld'[l.client][l.field].state # "waiting" /\ l.gen = req'[l.client].gen
            /\ \A m \in batches[b].loads : l.gen = m.gen
      BY <1>3, <1>5, <2>5, <2>6 DEF LoadInv, LoadsAreCurrent
    <3> QED  BY <1>2, <3>1, <3>2 DEF LoadsAreCurrent
  <2>9. LoadsInOnePlace'
    <3>1. \A b \in BatchIds : own \notin batches[b].loads
      BY <2>5, <2>7
    <3>2. \A b \in BatchIds : Open(b) => batches[b].loads \cap queued' = {}
      BY <1>5, <3>1 DEF LoadInv, LoadsInOnePlace
    <3>3. ASSUME NEW q \in Clients, NEW g \in Fields, fld'[q][g].state = "loading"
          PROVE  \/ Load(q, g)' \in queued'
                 \/ \E b \in BatchIds : Open(b) /\ Load(q, g)' \in batches[b].loads
      <4>1. CASE <<q, g>> = <<r, f>>
        BY <1>5, <3>3, <4>1
      <4>2. CASE <<q, g>> # <<r, f>>
        BY <1>5, <2>3, <3>3, <4>2 DEF LoadInv, LoadsInOnePlace
      <4> QED  BY <4>1, <4>2
    <3> QED  BY <1>2, <3>2, <3>3 DEF LoadInv, LoadsInOnePlace
  <2> QED  BY <2>2, <2>8, <2>9 DEF LoadInv
<1>6. CASE QueryFails(r, f)
  <2>1. req[r].lock = f /\ req'[r].lock = NoField /\ queued' = queued
    BY <1>1, <1>6 DEF QueryFails
  <2>2. /\ fld'[r][f].state = "failed"
        /\ \A q \in Clients, g \in Fields : <<q, g>> # <<r, f>> => fld'[q][g] = fld[q][g]
    BY <1>1, <1>6 DEF QueryFails
  <2> QED  BY <1>5, <2>1, <2>2
<1>7. ASSUME NEW key \in ParentKeys[f], Resolve(r, f, key) PROVE  LoadInv'
  <2>1. req[r].lock = f /\ req'[r].lock = NoField
    BY <1>1, <1>7 DEF Resolve
  <2>2. /\ fld'[r][f].state = IF key = NoKey THEN "ok" ELSE "loading"
        /\ fld'[r][f].key = key
        /\ \A q \in Clients, g \in Fields : <<q, g>> # <<r, f>> => fld'[q][g] = fld[q][g]
    BY <1>1, <1>7 DEF Resolve
  <2>3. Load(r, f)' = [client |-> r, field |-> f, key |-> key, gen |-> req[r].gen]
    BY <1>3, <2>2 DEF Load
  <2>4. queued' = IF key = NoKey THEN queued ELSE queued \cup {Load(r, f)'}
    BY <1>7, <2>3 DEF Resolve
  <2>5. queued' = IF fld'[r][f].state = "loading" THEN queued \cup {Load(r, f)'} ELSE queued
    BY <2>2, <2>4
  <2> QED  BY <1>5, <2>1, <2>2, <2>5
<1> QED  BY <1>4, <1>6, <1>7 DEF FieldStep

(* A dispatch moves the loads of one loader, all of one schema, from the   *)
(* queue to a new batch.                                                   *)
LEMMA DispatchLoads ==
    ASSUME ReqTypeOK, ConnectionsConserved, LoadInv, NEW gen \in 0..generation, NEW f \in Fields,
           Dispatch(gen, f)
    PROVE  LoadInv'
<1>0. PICK x, mine : x = Len(batches) + 1 /\ mine = {l \in queued : LoaderOf(l) = <<gen, f>>}
  OBVIOUS
<1>1. /\ BatchIds' = BatchIds \cup {x} /\ x \notin BatchIds
      /\ \A c \in BatchIds : batches'[c] = batches[c]
      /\ batches'[x] = [pc |-> "acquire", loads |-> mine]
  BY <1>0, DispatchPool, OwnersApart
<1>2. UNCHANGED <<req, fld>> /\ queued' = queued \ mine /\ mine \subseteq queued
  BY <1>0 DEF Dispatch
<1>3. batches'[x].loads = mine /\ Open(x)' /\ \A c \in BatchIds : Open(c)' <=> Open(c)
  BY <1>1 DEF Open
<1>4. \A l : Current(l)' <=> Current(l)
  BY <1>2 DEF Current, Load
<1>5. \A l, m \in mine : l.gen = m.gen
  BY <1>0 DEF LoaderOf
<1>6. \A l \in mine : /\ Current(l) /\ fld[l.client][l.field].state # "waiting"
                      /\ l.gen = req[l.client].gen
  BY <1>2 DEF LoadInv, LoadsAreCurrent, Current, Load
<1>7. FieldsOfRunning'
  BY <1>2 DEF LoadInv, FieldsOfRunning
<1>8. LoadsAreCurrent'
  BY <1>1, <1>2, <1>3, <1>4, <1>5, <1>6 DEF LoadInv, LoadsAreCurrent
<1>9. LoadsInOnePlace'
  <2>1. \A b \in BatchIds : Open(b) => batches[b].loads \cap queued = {}
    BY DEF LoadInv, LoadsInOnePlace
  <2>2. \A b \in BatchIds' : Open(b)' => batches'[b].loads \cap queued' = {}
    BY <1>1, <1>2, <1>3, <2>1
  <2>3. \A a, b \in BatchIds' : Open(a)' /\ Open(b)' /\ a # b =>
          batches'[a].loads \cap batches'[b].loads = {}
    BY <1>1, <1>2, <1>3, <2>1 DEF LoadInv, LoadsInOnePlace
  <2>4. ASSUME NEW q \in Clients, NEW g \in Fields, fld[q][g].state = "loading"
        PROVE  \/ Load(q, g) \in queued'
               \/ \E b \in BatchIds' : Open(b)' /\ Load(q, g) \in batches'[b].loads
    <3>1. \/ Load(q, g) \in queued
          \/ \E b \in BatchIds : Open(b) /\ Load(q, g) \in batches[b].loads
      BY <2>4 DEF LoadInv, LoadsInOnePlace
    <3> QED  BY <1>1, <1>2, <1>3, <3>1
  <2>5. \A q \in Clients, g \in Fields : Load(q, g)' = Load(q, g)
    BY <1>2 DEF Load
  <2> QED  BY <1>2, <2>2, <2>3, <2>4, <2>5 DEF LoadsInOnePlace
<1> QED  BY <1>7, <1>8, <1>9 DEF LoadInv

(* The end of a batch answers the fields it has loads of; the loads still  *)
(* on their way are others.                                                *)
LEMMA BatchLoads ==
    ASSUME ReqTypeOK, LoadInv, NEW b \in BatchIds, BatchStep(b)
    PROVE  LoadInv'
<1>1. /\ UNCHANGED <<req, queued>> /\ Open(b)
      /\ \A r \in Clients, f \in Fields :
           /\ fld'[r][f].key = fld[r][f].key
           /\ Asked(b, r, f) => fld'[r][f].state \in {"ok", "failed"}
           /\ ~Asked(b, r, f) => fld'[r][f] = fld[r][f]
  BY BatchAnswers
<1>2. PICK pc \in {"done", "failed"} : batches' = [batches EXCEPT ![b].pc = pc]
  BY BatchAnswers
<1>3. /\ BatchIds' = BatchIds /\ ~Open(b)' /\ batches'[b].loads = batches[b].loads
      /\ \A c \in BatchIds : c # b => batches'[c] = batches[c] /\ (Open(c)' <=> Open(c))
  <2>1. /\ BatchIds' = BatchIds /\ batches'[b].pc = pc /\ batches'[b].loads = batches[b].loads
        /\ \A c \in BatchIds : c # b => batches'[c] = batches[c]
    BY <1>2, BatchState
  <2> QED  BY <2>1 DEF Open
<1>4. /\ \A l \in queued : l.client \in Clients /\ l.field \in Fields
      /\ \A c \in BatchIds : \A l \in batches[c].loads : l.client \in Clients /\ l.field \in Fields
  BY LoadFacts
<1>5. \A r \in Clients, f \in Fields : Load(r, f)' = Load(r, f)
  BY <1>1 DEF Load
<1>6. \A r \in Clients, f \in Fields :
        Asked(b, r, f) => fld[r][f].state = "loading" /\ Load(r, f) \in batches[b].loads
  BY <1>1 DEF Asked, LoadInv, LoadsAreCurrent, Current
<1>7. \A l : /\ l.client \in Clients /\ l.field \in Fields /\ Current(l)
             /\ l \notin batches[b].loads
           => Current(l)'
  BY <1>1, <1>5, <1>6 DEF Current
<1>8. FieldsOfRunning'
  BY <1>1, <1>6 DEF LoadInv, FieldsOfRunning
<1>9. LoadsAreCurrent'
  <2>1. \A l \in queued : Current(l)'
    BY <1>1, <1>4, <1>7 DEF LoadInv, LoadsAreCurrent, LoadsInOnePlace
  <2>2. \A c \in BatchIds : c # b /\ Open(c) => \A l \in batches[c].loads : Current(l)'
    BY <1>1, <1>4, <1>7 DEF LoadInv, LoadsAreCurrent, LoadsInOnePlace
  <2>3. \A c \in BatchIds : \A l \in batches[c].loads :
          /\ fld'[l.client][l.field].state # "waiting" /\ l.gen = req[l.client].gen
          /\ \A m \in batches[c].loads : l.gen = m.gen
    BY <1>1, <1>4 DEF LoadInv, LoadsAreCurrent
  <2> QED  BY <1>1, <1>3, <2>1, <2>2, <2>3 DEF LoadsAreCurrent
<1>10. LoadsInOnePlace'
  <2>1. ASSUME NEW r \in Clients, NEW f \in Fields, fld'[r][f].state = "loading"
        PROVE  \/ Load(r, f) \in queued
               \/ \E c \in BatchIds : Open(c)' /\ Load(r, f) \in batches'[c].loads
    <3>1. ~Asked(b, r, f) /\ fld[r][f].state = "loading"
      BY <1>1, <2>1
    <3>2. Load(r, f) \notin batches[b].loads
      BY <3>1 DEF Asked, Load
    <3>3. \/ Load(r, f) \in queued
          \/ \E c \in BatchIds : Open(c) /\ Load(r, f) \in batches[c].loads
      BY <3>1 DEF LoadInv, LoadsInOnePlace
    <3> QED  BY <1>3, <3>2, <3>3
  <2> QED  BY <1>1, <1>3, <1>5, <2>1 DEF LoadInv, LoadsInOnePlace
<1> QED  BY <1>8, <1>9, <1>10 DEF LoadInv

-----------------------------------------------------------------------------
(* The rows *)

(* Rows with a smaller primary key. *)
Before(rows, row) == {other \in rows : other.id < row.id}
Rank(rows, row) == Cardinality(Before(rows, row))

LEMMA RankProperties ==
    ASSUME NEW rows \in SUBSET Table
    PROVE  /\ IsFiniteSet(rows) /\ Cardinality(rows) \in Nat
           /\ \A row \in rows : Rank(rows, row) \in Nat /\ Rank(rows, row) < Cardinality(rows)
           /\ \A row, other \in rows : Rank(rows, row) < Rank(rows, other) <=> row.id < other.id
<1>1. IsFiniteSet(rows) /\ Cardinality(rows) \in Nat
  BY FS_Subset, FS_CardinalityType, ReqAssumption
<1>2. \A row \in rows : row.id \in Nat
  BY ReqAssumption
<1>3. ASSUME NEW S \in SUBSET rows, NEW T \in SUBSET S, NEW x \in S, x \notin T
      PROVE  Cardinality(T) < Cardinality(S) /\ Cardinality(T) \in Nat /\ Cardinality(S) \in Nat
  <2>1. IsFiniteSet(S) /\ IsFiniteSet(T)
    BY <1>1, FS_Subset
  <2>2. Cardinality(S) \in Nat /\ Cardinality(T) \in Nat
    BY <2>1, FS_CardinalityType
  <2>3. Cardinality(T) <= Cardinality(S) /\ Cardinality(S) # Cardinality(T)
    BY <1>3, <2>1, FS_Subset
  <2> QED  BY <2>2, <2>3
<1>4. ASSUME NEW row \in rows
      PROVE  Rank(rows, row) \in Nat /\ Rank(rows, row) < Cardinality(rows)
  <2>1. Before(rows, row) \in SUBSET rows /\ row \notin Before(rows, row)
    BY <1>2 DEF Before
  <2> QED  BY <1>3, <2>1 DEF Rank
<1>5. ASSUME NEW row \in rows, NEW other \in rows, row.id < other.id
      PROVE  Rank(rows, row) < Rank(rows, other)
  <2>1. Before(rows, row) \in SUBSET Before(rows, other) /\ Before(rows, other) \in SUBSET rows
    BY <1>2, <1>5 DEF Before
  <2>2. row \in Before(rows, other) /\ row \notin Before(rows, row)
    BY <1>2, <1>5 DEF Before
  <2> QED  BY <1>3, <2>1, <2>2 DEF Rank
<1>6. ASSUME NEW row \in rows, NEW other \in rows, Rank(rows, row) < Rank(rows, other)
      PROVE  row.id < other.id
  <2>1. CASE other.id < row.id
    BY <1>4, <1>5, <1>6, <2>1
  <2>2. CASE other.id = row.id
    <3>1. Before(rows, row) = Before(rows, other)
      BY <2>2 DEF Before
    <3> QED  BY <1>4, <1>6, <3>1 DEF Rank
  <2> QED  BY <1>2, <2>1, <2>2
<1> QED  BY <1>1, <1>4, <1>5, <1>6

(* Ranks count the rows from zero, so the rows of rank below n are n of    *)
(* them, or all if there are fewer.                                        *)
LEMMA FirstByIdSize ==
    ASSUME NEW rows \in SUBSET Table, NEW n \in Nat
    PROVE  Cardinality(FirstById(rows, n)) = IF Cardinality(rows) < n THEN Cardinality(rows) ELSE n
<1> DEFINE first == FirstById(rows, n)
           size == Cardinality(rows)
<1>1. /\ IsFiniteSet(rows) /\ size \in Nat
      /\ \A row \in rows : Rank(rows, row) \in Nat /\ Rank(rows, row) < size
      /\ \A row, other \in rows : Rank(rows, row) < Rank(rows, other) <=> row.id < other.id
  BY RankProperties
<1>2. first = {row \in rows : Rank(rows, row) < n}
  BY DEF FirstById, Rank, Before
<1>3. CASE size < n
  <2>1. first = rows
    BY <1>1, <1>2, <1>3
  <2> QED  BY <1>3, <2>1
<1>4. CASE ~(size < n)
  <2> DEFINE rank == [row \in rows |-> Rank(rows, row)]
             part == [row \in first |-> Rank(rows, row)]
  <2>1. \A row, other \in rows : Rank(rows, row) = Rank(rows, other) => row = other
    <3>1. \A row, other \in rows : ~(row.id < other.id) /\ ~(other.id < row.id) => row = other
      BY ReqAssumption
    <3> QED  BY <1>1, <3>1
  <2>2. rank \in Injection(rows, 0..(size - 1))
    <3>1. \A row \in rows : Rank(rows, row) \in 0..(size - 1)
      BY <1>1
    <3>2. rank \in [rows -> 0..(size - 1)]
      BY <3>1
    <3>3. IsInjective(rank)
      BY <2>1 DEF IsInjective
    <3> QED  BY <3>2, <3>3 DEF Injection
  <2>3. IsFiniteSet(0..(size - 1)) /\ Cardinality(0..(size - 1)) = size
    <3>1. size - 1 \in Int /\ 0 \in Int
      BY <1>1
    <3>2. /\ IsFiniteSet(0..(size - 1))
          /\ Cardinality(0..(size - 1)) = IF 0 > size - 1 THEN 0 ELSE (size - 1) - 0 + 1
      BY <3>1, FS_Interval
    <3> QED  BY <1>1, <3>2
  <2>4. rank \in Surjection(rows, 0..(size - 1))
    BY <2>2, <2>3, FS_Injection
  <2>5. \A k \in 0..(n - 1) : \E row \in first : Rank(rows, row) = k
    <3> SUFFICES ASSUME NEW k \in 0..(n - 1) PROVE \E row \in first : Rank(rows, row) = k
      OBVIOUS
    <3>1. k \in 0..(size - 1) /\ k < n
      BY <1>1, <1>4
    <3>2. PICK row \in rows : rank[row] = k
      BY <2>4, <3>1 DEF Surjection
    <3> QED  BY <1>2, <3>1, <3>2
  <2>6. part \in Injection(first, 0..(n - 1))
    <3>1. \A row \in first : row \in rows /\ Rank(rows, row) \in 0..(n - 1)
      BY <1>1, <1>2
    <3>2. part \in [first -> 0..(n - 1)]
      BY <3>1
    <3>3. IsInjective(part)
      BY <2>1, <3>1 DEF IsInjective
    <3> QED  BY <3>2, <3>3 DEF Injection
  <2>7. part \in Surjection(first, 0..(n - 1))
    BY <2>5, <2>6 DEF Surjection, Injection
  <2>8. IsFiniteSet(0..(n - 1)) /\ Cardinality(0..(n - 1)) = n
    <3>1. n - 1 \in Int /\ 0 \in Int
      OBVIOUS
    <3>2. /\ IsFiniteSet(0..(n - 1))
          /\ Cardinality(0..(n - 1)) = IF 0 > n - 1 THEN 0 ELSE (n - 1) - 0 + 1
      BY <3>1, FS_Interval
    <3> QED  BY <3>2
  <2>9. Cardinality(first) = n
    BY <2>6, <2>7, <2>8, FS_Injection
  <2> QED  BY <1>4, <2>9
<1> QED  BY <1>3, <1>4

(* The first rows by primary key are one set and no other: what the        *)
(* reference definition chooses is what the statement's LIMIT keeps.       *)
FirstOf(all, some, n) ==
    /\ \A row \in some, other \in all \ some : row.id < other.id
    /\ Cardinality(some) = IF Cardinality(all) < n THEN Cardinality(all) ELSE n

LEMMA FirstByIdUnique ==
    ASSUME NEW all \in SUBSET Table, NEW n \in Nat
    PROVE  /\ FirstById(all, n) \in SUBSET all
           /\ FirstOf(all, FirstById(all, n), n)
           /\ \A some \in SUBSET all : FirstOf(all, some, n) => some = FirstById(all, n)
<1>1. /\ IsFiniteSet(all) /\ Cardinality(all) \in Nat
      /\ \A row \in all : Rank(all, row) \in Nat /\ row.id \in Nat
      /\ \A row, other \in all : Rank(all, row) < Rank(all, other) <=> row.id < other.id
  BY RankProperties, ReqAssumption
<1>2. PICK first : first = FirstById(all, n)
  OBVIOUS
<1>3. first = {row \in all : Rank(all, row) < n}
  BY <1>2 DEF FirstById, Rank, Before
<1>4. FirstOf(all, first, n)
  <2>1. \A row \in first, other \in all \ first : row.id < other.id
    BY <1>1, <1>3
  <2>2. Cardinality(first) = IF Cardinality(all) < n THEN Cardinality(all) ELSE n
    BY <1>2, FirstByIdSize
  <2> QED  BY <2>1, <2>2 DEF FirstOf
<1>5. ASSUME NEW A \in SUBSET all, NEW B \in SUBSET all, FirstOf(all, A, n), FirstOf(all, B, n)
      PROVE  A \subseteq B
  <2> SUFFICES ASSUME NEW x \in A, x \notin B PROVE FALSE
    OBVIOUS
  <2>1. \A y \in B : y \in A
    <3> SUFFICES ASSUME NEW y \in B, y \notin A PROVE FALSE
      OBVIOUS
    <3>1. x.id < y.id /\ y.id < x.id
      BY <1>5 DEF FirstOf
    <3> QED  BY <1>1, <3>1
  <2>2. IsFiniteSet(A) /\ B \in SUBSET A /\ B # A
    BY <1>1, <2>1, FS_Subset
  <2>3. Cardinality(A) # Cardinality(B)
    BY <2>2, FS_Subset
  <2> QED  BY <1>5, <2>3 DEF FirstOf
<1>6. first \in SUBSET all
  BY <1>3
<1>7. \A some \in SUBSET all : FirstOf(all, some, n) => some = first
  BY <1>4, <1>5, <1>6
<1> QED  BY <1>2, <1>4, <1>6, <1>7

LEMMA RelatedRowsFirst ==
    ASSUME NEW f \in Fields, NEW key
    PROVE  RelatedRows(f, key) =
             IF Kind[f] = "belongsTo" THEN {row \in Table : row.id = key}
             ELSE FirstById({row \in Table : row.fk = key}, DefaultLimit)
<1>1. CASE Kind[f] = "belongsTo"
  BY <1>1 DEF RelatedRows
<1>2. CASE Kind[f] # "belongsTo"
  <2>1. PICK all : all = {row \in Table : row.fk = key}
    OBVIOUS
  <2>2. all \in SUBSET Table /\ DefaultLimit \in Nat
    BY <2>1, ReqAssumption
  <2>3. RelatedRows(f, key) = CHOOSE some \in SUBSET all : FirstOf(all, some, DefaultLimit)
    BY <1>2, <2>1 DEF RelatedRows, FirstOf
  <2>4. /\ FirstById(all, DefaultLimit) \in SUBSET all
        /\ FirstOf(all, FirstById(all, DefaultLimit), DefaultLimit)
        /\ \A some \in SUBSET all :
             FirstOf(all, some, DefaultLimit) => some = FirstById(all, DefaultLimit)
    BY <2>2, FirstByIdUnique
  <2>5. RelatedRows(f, key) \in SUBSET all /\ FirstOf(all, RelatedRows(f, key), DefaultLimit)
    BY <2>3, <2>4
  <2> QED  BY <1>2, <2>1, <2>4, <2>5
<1> QED  BY <1>1, <1>2

(* A batch serves each key as if it had been asked for that key alone. *)
LEMMA LoadIsRelated ==
    ASSUME NEW f \in Fields, NEW keys, NEW key \in keys
    PROVE  load(f, keys)[key] = RelatedRows(f, key)
<1>0. RelatedRows(f, key) =
        IF Kind[f] = "belongsTo" THEN {row \in Table : row.id = key}
        ELSE FirstById({row \in Table : row.fk = key}, DefaultLimit)
  BY RelatedRowsFirst
<1>1. CASE Kind[f] = "hasMany"
  <2>1. PICK map : map = select_by_fk_batch(keys)
    OBVIOUS
  <2>2. load(f, keys)[key] = IF key \in DOMAIN map THEN map[key] ELSE {}
    BY <1>1, <2>1 DEF load
  <2> DEFINE tagged == {<<k, row>> : k \in keys, row \in Table}
             hits == {t \in tagged : t[2] \in FirstById({row \in Table : row.fk = t[1]}, DefaultLimit)}
  <2>3. \A t : t \in hits <=> /\ t \in {<<k, row>> : k \in keys, row \in Table}
                            /\ t[2] \in FirstById({row \in Table : row.fk = t[1]}, DefaultLimit)
    OBVIOUS
  <2>4. map = [k \in {t[1] : t \in hits} |-> {t[2] : t \in {u \in hits : u[1] = k}}]
    BY <2>1 DEF select_by_fk_batch
  <2> HIDE DEF hits
  <2>5. PICK first : first = FirstById({row \in Table : row.fk = key}, DefaultLimit)
    OBVIOUS
  <2>6. first \subseteq Table
    BY <2>5 DEF FirstById
  <2>7. \A row : <<key, row>> \in hits <=> row \in first
    <3>1. \A row \in Table : <<key, row>>[1] = key /\ <<key, row>>[2] = row
      OBVIOUS
    <3>2. \A row \in first : <<key, row>> \in {<<k, r>> : k \in keys, r \in Table}
      BY <2>6
    <3>3. \A row : <<key, row>> \in {<<k, r>> : k \in keys, r \in Table} => row \in Table
      OBVIOUS
    <3> QED  BY <2>3, <2>5, <3>1, <3>2, <3>3
  <2>8. \A u \in hits : u = <<u[1], u[2]>>
    <3> SUFFICES ASSUME NEW u \in hits PROVE u = <<u[1], u[2]>>
      OBVIOUS
    <3>1. PICK k \in keys, row \in Table : u = <<k, row>>
      BY DEF hits
    <3> QED  BY <3>1
  <2>9. \A row : row \in {t[2] : t \in {u \in hits : u[1] = key}} <=> row \in first
    <3>1. ASSUME NEW t \in hits, t[1] = key PROVE t[2] \in first
      BY <2>7, <2>8, <3>1
    <3>2. ASSUME NEW row \in first PROVE \E t \in hits : t[1] = key /\ t[2] = row
      <4>1. <<key, row>> \in hits /\ <<key, row>>[1] = key /\ <<key, row>>[2] = row
        BY <2>7
      <4> QED  BY <4>1
    <3> QED  BY <3>1, <3>2
  <2>10. {t[2] : t \in {u \in hits : u[1] = key}} = first
    BY <2>9, Zenon
  <2>11. CASE key \in DOMAIN map
    BY <1>0, <1>1, <2>2, <2>4, <2>5, <2>10, <2>11
  <2>12. CASE key \notin DOMAIN map
    <3>1. first = {}
      <4>1. \A t \in hits : t[1] # key
        BY <2>4, <2>12
      <4>2. \A row : <<key, row>>[1] = key
        OBVIOUS
      <4>3. \A row : row \notin first
        BY <2>7, <4>1, <4>2
      <4> QED  BY <4>3
    <3> QED  BY <1>0, <1>1, <2>2, <2>5, <2>12, <3>1
  <2> QED  BY <2>11, <2>12
<1>2. CASE Kind[f] = "belongsTo"
  <2>1. PICK map, hits : map = select_by_pk_batch(keys) /\ hits = {row \in Table : row.id \in keys}
    OBVIOUS
  <2>2. load(f, keys)[key] = IF key \in DOMAIN map THEN map[key] ELSE {}
    BY <1>2, <2>1 DEF load
  <2>3. map = [k \in {row.id : row \in hits} |-> {row \in hits : row.id = k}]
    BY <2>1 DEF select_by_pk_batch
  <2>4. {row \in hits : row.id = key} = {row \in Table : row.id = key}
    BY <2>1
  <2>5. CASE key \in DOMAIN map
    BY <1>0, <1>2, <2>2, <2>3, <2>4, <2>5
  <2>6. CASE key \notin DOMAIN map
    <3>1. {row \in hits : row.id = key} = {}
      BY <2>3, <2>6
    <3> QED  BY <1>0, <1>2, <2>2, <2>4, <2>6, <3>1
  <2> QED  BY <2>5, <2>6
<1> QED  BY <1>1, <1>2, ReqAssumption

(* A parent without a key has no rows. *)
LEMMA NoKeyNoRows ==
    ASSUME NEW f \in Fields
    PROVE  RelatedRows(f, NoKey) = {}
<1>1. {row \in Table : row.id = NoKey} = {} /\ {row \in Table : row.fk = NoKey} = {}
  BY ReqAssumption
<1>2. FirstById({}, DefaultLimit) = {}
  BY DEF FirstById
<1> QED  BY <1>1, <1>2, RelatedRowsFirst

RowsOK == OwnRows /\ BatchOfOneField /\ NoRowsYet

(* Steps that answer no field. *)
LEMMA RowsFrame ==
    ASSUME RowsOK, fld' = fld, BatchIds' = BatchIds,
           \A b \in BatchIds : /\ batches'[b].loads = batches[b].loads
                               /\ batches'[b].pc = "done" <=> batches[b].pc = "done"
    PROVE  RowsOK'
<1>1. OwnRows'
  BY DEF RowsOK, OwnRows
<1>2. BatchOfOneField' /\ NoRowsYet'
  BY DEF RowsOK, BatchOfOneField, NoRowsYet
<1> QED  BY <1>1, <1>2 DEF RowsOK

LEMMA GrantRows ==
    ASSUME ReqTypeOK, ConnectionsConserved, RowsOK, Grant
    PROVE  RowsOK'
<1>0. PICK x : x = Head(waiting)
  OBVIOUS
<1>1. Queueing(x) /\ (x \in Clients <=> x \notin BatchIds)
  <2>1. /\ \A o : o \in Elements(waiting) <=> Queueing(o)
        /\ Distinct(waiting) /\ waiting \in Seq(Clients \cup Nat) /\ waiting # <<>>
    BY PoolView DEF Grant, ReqTypeOK
  <2>2. Queueing(x)
    BY <1>0, <2>1, TailQueue
  <2> QED  BY <2>2, OwnersApart DEF Queueing
<1>2. fld' = fld
  BY DEF Grant
<1>3. CASE x \in Clients
  <2>1. batches' = batches
    BY <1>0, <1>3 DEF Grant
  <2> QED  BY <1>2, <2>1, RowsFrame DEF BatchIds
<1>4. CASE x \in BatchIds
  <2>1. batches' = [batches EXCEPT ![x].pc = "query"] /\ batches[x].pc = "acquire"
    BY <1>0, <1>1, <1>4 DEF Grant, Queueing
  <2>2. /\ BatchIds' = BatchIds /\ batches'[x].pc = "query" /\ batches'[x].loads = batches[x].loads
        /\ \A c \in BatchIds : c # x => batches'[c] = batches[c]
    BY <1>4, <2>1, BatchState
  <2>3. \A b \in BatchIds : /\ batches'[b].loads = batches[b].loads
                            /\ batches'[b].pc = "done" <=> batches[b].pc = "done"
    BY <2>1, <2>2
  <2> QED  BY <1>2, <2>2, <2>3, RowsFrame
<1> QED  BY <1>1, <1>3, <1>4

(* An empty key is answered at once with what it means: no rows. *)
LEMMA FieldRows ==
    ASSUME ReqTypeOK, LoadInv, RowsOK, NEW r \in Clients, NEW f \in Fields, FieldStep(r, f)
    PROVE  RowsOK'
<1>1. /\ DOMAIN fld = Clients /\ \A q \in Clients : DOMAIN fld[q] = Fields
      /\ \A q \in Clients, g \in Fields : DOMAIN fld[q][g] = {"state", "key", "rows"}
  BY DEF ReqTypeOK
<1>2. batches' = batches /\ BatchIds' = BatchIds
  BY DEF FieldStep, Lock, QueryFails, Resolve, BatchIds
<1>3. CASE Lock(r, f)
  BY <1>2, <1>3, RowsFrame DEF Lock
<1>4. ASSUME req[r].lock = f,
             fld'[r][f].state \in {"loading", "failed"} \/
               (fld'[r][f].state = "ok" /\ fld'[r][f].key = NoKey),
             fld'[r][f].rows = fld[r][f].rows,
             \A q \in Clients, g \in Fields : <<q, g>> # <<r, f>> => fld'[q][g] = fld[q][g]
      PROVE  RowsOK'
  <2>1. fld[r][f].state = "waiting" /\ fld[r][f].rows = {}
    BY <1>4 DEF LoadInv, FieldsOfRunning, RowsOK, NoRowsYet
  <2>2. \A b \in BatchIds : batches[b].pc = "done" =>
          \A l \in batches[b].loads : fld'[l.client][l.field].state = "ok"
    <3>1. \A b \in BatchIds : batches[b].pc = "done" =>
            \A l \in batches[b].loads :
              /\ fld[l.client][l.field].state = "ok" /\ l.client \in Clients /\ l.field \in Fields
              /\ <<l.client, l.field>> # <<r, f>>
      BY <2>1, LoadFacts DEF RowsOK, OwnRows
    <3> QED  BY <1>4, <3>1
  <2>3. ASSUME NEW q \in Clients, NEW g \in Fields, fld'[q][g].state = "ok"
        PROVE  fld'[q][g].rows = RelatedRows(g, fld'[q][g].key)
    <3>1. CASE <<q, g>> = <<r, f>>
      BY <1>4, <2>1, <2>3, <3>1, NoKeyNoRows
    <3>2. CASE <<q, g>> # <<r, f>>
      BY <1>4, <2>3, <3>2 DEF RowsOK, OwnRows
    <3> QED  BY <3>1, <3>2
  <2>4. OwnRows'
    BY <1>2, <2>2, <2>3 DEF OwnRows
  <2>5. BatchOfOneField'
    BY <1>2 DEF RowsOK, BatchOfOneField
  <2>6. NoRowsYet'
    BY <1>4, <2>1 DEF RowsOK, NoRowsYet
  <2> QED  BY <2>4, <2>5, <2>6 DEF RowsOK
<1>5. CASE QueryFails(r, f)
  <2>1. /\ req[r].lock = f /\ fld'[r][f].state = "failed" /\ fld'[r][f].rows = fld[r][f].rows
        /\ \A q \in Clients, g \in Fields : <<q, g>> # <<r, f>> => fld'[q][g] = fld[q][g]
    BY <1>1, <1>5 DEF QueryFails
  <2> QED  BY <1>4, <2>1
<1>6. ASSUME NEW key \in ParentKeys[f], Resolve(r, f, key) PROVE RowsOK'
  <2>1. /\ req[r].lock = f
        /\ fld'[r][f].state = IF key = NoKey THEN "ok" ELSE "loading"
        /\ fld'[r][f].key = key /\ fld'[r][f].rows = fld[r][f].rows
        /\ \A q \in Clients, g \in Fields : <<q, g>> # <<r, f>> => fld'[q][g] = fld[q][g]
    BY <1>1, <1>6 DEF Resolve
  <2> QED  BY <1>4, <2>1
<1> QED  BY <1>3, <1>5, <1>6 DEF FieldStep

LEMMA DispatchRows ==
    ASSUME ReqTypeOK, ConnectionsConserved, RowsOK, NEW gen \in 0..generation, NEW f \in Fields,
           Dispatch(gen, f)
    PROVE  RowsOK'
<1>0. PICK x, mine : x = Len(batches) + 1 /\ mine = {l \in queued : LoaderOf(l) = <<gen, f>>}
  OBVIOUS
<1>1. /\ BatchIds' = BatchIds \cup {x}
      /\ \A c \in BatchIds : batches'[c] = batches[c]
      /\ batches'[x] = [pc |-> "acquire", loads |-> mine]
  BY <1>0, DispatchPool
<1>2. fld' = fld /\ batches'[x].pc = "acquire" /\ batches'[x].loads = mine
  <2>1. fld' = fld
    BY DEF Dispatch
  <2> QED  BY <1>1, <2>1
<1>3. \A l, m \in mine : l.field = m.field
  BY <1>0 DEF LoaderOf
<1>4. OwnRows'
  BY <1>1, <1>2 DEF RowsOK, OwnRows
<1>5. NoRowsYet'
  BY <1>2 DEF RowsOK, NoRowsYet
<1>6. BatchOfOneField'
  <2>1. ASSUME NEW c \in BatchIds', NEW l \in batches'[c].loads, NEW m \in batches'[c].loads
        PROVE  l.field = m.field
    <3>1. CASE c = x
      BY <1>2, <1>3, <3>1
    <3>2. CASE c \in BatchIds
      BY <1>1, <3>2 DEF RowsOK, BatchOfOneField
    <3> QED  BY <1>1, <3>1, <3>2
  <2> QED  BY <2>1 DEF BatchOfOneField
<1> QED  BY <1>4, <1>5, <1>6 DEF RowsOK

(* A batch that succeeds gives each of its fields the rows of its own key. *)
LEMMA BatchRows ==
    ASSUME ReqTypeOK, LoadInv, RowsOK, NEW b \in BatchIds, BatchStep(b)
    PROVE  RowsOK'
<1>1. /\ Open(b)
      /\ \A r \in Clients, f \in Fields :
           /\ DOMAIN fld[r][f] = {"state", "key", "rows"}
           /\ fld'[r][f].key = fld[r][f].key
           /\ Asked(b, r, f) => fld'[r][f].state \in {"ok", "failed"}
           /\ ~Asked(b, r, f) => fld'[r][f] = fld[r][f]
  BY BatchAnswers DEF ReqTypeOK
<1>2. PICK pc \in {"done", "failed"} : batches' = [batches EXCEPT ![b].pc = pc]
  BY BatchAnswers
<1>3. /\ BatchIds' = BatchIds /\ batches'[b].pc = pc /\ batches'[b].loads = batches[b].loads
      /\ \A c \in BatchIds : c # b => batches'[c] = batches[c]
  BY <1>2, BatchState
<1>4. \A c \in BatchIds : \A l \in batches[c].loads : l.client \in Clients /\ l.field \in Fields
  BY LoadFacts
<1>5. \A r \in Clients, f \in Fields : Asked(b, r, f) => fld[r][f].state = "loading"
  BY <1>1 DEF Asked, LoadInv, LoadsAreCurrent, Current
<1>6. ASSUME NEW r \in Clients, NEW f \in Fields, Asked(b, r, f)
      PROVE  \/ fld'[r][f].state = "failed" /\ batches'[b].pc # "done"
             \/ fld'[r][f].state = "ok" /\ fld'[r][f].rows = RelatedRows(f, fld'[r][f].key)
  <2>1. CASE BatchQuery(b)
    <3>1. PICK keys, g, rows :
            /\ keys = {l.key : l \in batches[b].loads}
            /\ g = (CHOOSE l \in batches[b].loads : TRUE).field
            /\ rows = load(g, keys)
      OBVIOUS
    <3>2. fld' = [q \in Clients |-> [h \in Fields |->
            IF Asked(b, q, h) THEN [fld[q][h] EXCEPT !.state = "ok", !.rows = rows[fld[q][h].key]]
            ELSE fld[q][h]]]
      BY <2>1, <3>1 DEF BatchQuery, Answer, Asked
    <3>3. fld'[r][f].state = "ok" /\ fld'[r][f].rows = rows[fld[r][f].key]
      <4>1. PICK y : y = [fld[r][f] EXCEPT !.state = "ok"]
        OBVIOUS
      <4>2. DOMAIN y = {"state", "key", "rows"} /\ y.state = "ok"
        BY <1>1, <4>1
      <4>3. fld'[r][f] = [y EXCEPT !.rows = rows[fld[r][f].key]]
        BY <1>6, <3>2, <4>1
      <4> QED  BY <4>2, <4>3
    <3>4. PICK l \in batches[b].loads : l.client = r /\ l.field = f
      BY <1>6 DEF Asked
    <3>5. l.key = fld[r][f].key
      BY <1>1, <3>4 DEF LoadInv, LoadsAreCurrent, Current, Load
    <3>6. fld[r][f].key \in keys
      BY <3>1, <3>4, <3>5
    <3>7. g = f
      <4>1. (CHOOSE m \in batches[b].loads : TRUE) \in batches[b].loads
        BY <3>4
      <4> QED  BY <3>1, <3>4, <4>1 DEF RowsOK, BatchOfOneField
    <3>8. rows[fld[r][f].key] = RelatedRows(f, fld[r][f].key)
      BY <3>1, <3>6, <3>7, LoadIsRelated
    <3> QED  BY <1>1, <3>3, <3>8
  <2>2. CASE BatchQueryFails(b) \/ BatchTimesOut(b)
    <3>1. fld' = [q \in Clients |-> [h \in Fields |->
            IF Asked(b, q, h) THEN [fld[q][h] EXCEPT !.state = "failed"] ELSE fld[q][h]]]
      BY <2>2 DEF BatchQueryFails, BatchTimesOut, Answer, Asked
    <3>2. fld'[r][f].state = "failed"
      BY <1>1, <1>6, <3>1
    <3>3. batches' = [batches EXCEPT ![b].pc = "failed"]
      BY <2>2 DEF BatchQueryFails, BatchTimesOut
    <3>4. batches'[b].pc = "failed"
      BY <3>3, BatchState
    <3> QED  BY <3>2, <3>4
  <2> QED  BY <2>1, <2>2 DEF BatchStep
<1>7. \A r \in Clients, f \in Fields :
        fld'[r][f].state = "ok" => fld'[r][f].rows = RelatedRows(f, fld'[r][f].key)
  BY <1>1, <1>6 DEF RowsOK, OwnRows
<1>8. ASSUME NEW c \in BatchIds, batches'[c].pc = "done", NEW l \in batches[c].loads
      PROVE  fld'[l.client][l.field].state = "ok"
  <2>1. CASE c = b
    <3>1. Asked(b, l.client, l.field)
      BY <2>1 DEF Asked
    <3> QED  BY <1>4, <1>6, <1>8, <2>1, <3>1
  <2>2. CASE c # b
    <3>1. fld[l.client][l.field].state = "ok"
      BY <1>3, <1>8, <2>2 DEF RowsOK, OwnRows
    <3>2. ~Asked(b, l.client, l.field)
      BY <1>4, <1>5, <3>1
    <3> QED  BY <1>1, <1>4, <3>1, <3>2
  <2> QED  BY <2>1, <2>2
<1>9. OwnRows'
  BY <1>3, <1>7, <1>8 DEF OwnRows
<1>10. BatchOfOneField'
  BY <1>3 DEF RowsOK, BatchOfOneField
<1>11. NoRowsYet'
  BY <1>1 DEF RowsOK, NoRowsYet
<1> QED  BY <1>9, <1>10, <1>11 DEF RowsOK

-----------------------------------------------------------------------------
(* The theorems *)

LEMMA ReqInitInv == ReqInit => ReqInv
<1> SUFFICES ASSUME ReqInit PROVE ReqInv
  OBVIOUS
<1>1. Len(batches) = 0 /\ Len(waiting) = 0 /\ BatchIds = {}
  BY DEF ReqInit, BatchIds
<1>2. IsFiniteSet(held) /\ Cardinality(held) = 0
  BY FS_EmptySet DEF ReqInit
<1>3. ReqTypeOK
  <2>1. \A r \in Clients, f \in Fields :
          /\ DOMAIN fld[r][f] = {"state", "key", "rows"}
          /\ fld[r][f].state = "waiting" /\ fld[r][f].key \in Keys
    <3>1. DOMAIN Waiting = {"state", "key", "rows"} /\ Waiting.state = "waiting" /\ Waiting.key = NoKey
      BY DEF Waiting
    <3>2. NoKey \in Keys
      BY DEF Keys
    <3>3. \A r \in Clients, f \in Fields : fld[r][f] = Waiting
      BY DEF ReqInit
    <3> QED  BY <3>1, <3>2, <3>3
  <2>2. req \in [Clients -> [pc : {"new", "acquire", "rls", "run"} \cup Ended, gen : Nat,
                            lock : Fields \cup {NoField}]]
    BY DEF ReqInit
  <2>3. /\ DOMAIN fld = Clients /\ \A r \in Clients : DOMAIN fld[r] = Fields
        /\ generation \in Nat /\ queued \subseteq LoadRecords
    BY DEF ReqInit
  <2>4. waiting \in Seq(Clients \cup Nat) /\ batches \in Seq(BatchRecord)
    BY EmptySeq DEF ReqInit
  <2> QED  BY <1>2, <2>1, <2>2, <2>3, <2>4 DEF ReqTypeOK, BatchRecord
<1>4. ConnectionsConserved
  BY <1>1, <1>2, ReqAssumption DEF ReqInit, ConnectionsConserved
<1>5. FieldsOfRunning
  BY ReqAssumption DEF ReqInit, FieldsOfRunning, Waiting
<1>6. LoadsAreCurrent /\ LoadsInOnePlace
  BY <1>1 DEF ReqInit, LoadsAreCurrent, LoadsInOnePlace, Waiting
<1> QED  BY <1>3, <1>4, <1>5, <1>6 DEF ReqInv

LEMMA ReqNextInv == ReqInv /\ [ReqNext]_reqVars => ReqInv'
<1> SUFFICES ASSUME ReqInv, [ReqNext]_reqVars PROVE ReqInv'
  OBVIOUS
<1> DEFINE Kept == ReqTypeOK' /\ ConnectionsConserved' /\ LoadInv'
<1>0. ReqTypeOK /\ ConnectionsConserved /\ LoadInv
  BY DEF ReqInv, LoadInv
<1>1. ASSUME Kept PROVE ReqInv'
  BY <1>1 DEF ReqInv, LoadInv
<1>2. CASE Grant
  BY <1>0, <1>1, <1>2, GrantPool, GrantLoads
<1>3. CASE SwapSchema
  <2>1. UNCHANGED <<req, fld, queued, batches>>
    BY <1>3 DEF SwapSchema
  <2>2. LoadInv'
    BY <1>0, <2>1, LoadsFrame DEF LoadInv, FieldsOfRunning, Open, BatchIds
  <2> QED  BY <1>0, <1>1, <1>3, <2>2, SwapPool
<1>4. ASSUME NEW r \in Clients, RequestStep(r) PROVE Kept
  BY <1>0, <1>4, RequestPool, RequestLoads
<1>5. ASSUME NEW r \in Clients, NEW f \in Fields, FieldStep(r, f) PROVE Kept
  BY <1>0, <1>5, FieldPool, FieldLoads
<1>6. ASSUME NEW gen \in 0..generation, NEW f \in Fields, Dispatch(gen, f) PROVE Kept
  BY <1>0, <1>6, DispatchPool, DispatchLoads
<1>7. ASSUME NEW b \in BatchIds, BatchStep(b) PROVE Kept
  BY <1>0, <1>7, BatchPool, BatchLoads
<1>8. CASE UNCHANGED reqVars
  <2>1. ReqTypeOK'
    BY <1>0, <1>8 DEF reqVars, ReqTypeOK
  <2>2. ConnectionsConserved'
    BY <1>0, <1>8, PoolFrame DEF reqVars
  <2>3. LoadInv'
    BY <1>0, <1>8, LoadsFrame DEF LoadInv, FieldsOfRunning, Open, BatchIds, reqVars
  <2> QED  BY <1>1, <2>1, <2>2, <2>3
<1> QED
  BY <1>1, <1>2, <1>3, <1>4, <1>5, <1>6, <1>7, <1>8 DEF ReqNext

(* A field that waits has its load in the queue and in no batch, or in     *)
(* exactly one open batch.                                                 *)
LEMMA InvImpliesLoadsAreServed == ReqInv => LoadsAreServed
<1> SUFFICES ASSUME ReqInv PROVE LoadsAreServed
  OBVIOUS
<1>1. ASSUME NEW r \in Clients, NEW f \in Fields, fld[r][f].state = "loading"
      PROVE  LET open == {b \in BatchIds : batches[b].pc \in {"acquire", "query"}}
                 mine == {b \in open : Load(r, f) \in batches[b].loads}
             IN  IF Load(r, f) \in queued THEN mine = {} ELSE Cardinality(mine) = 1
  <2> DEFINE open == {b \in BatchIds : batches[b].pc \in {"acquire", "query"}}
             mine == {b \in open : Load(r, f) \in batches[b].loads}
  <2>1. \A b : b \in mine <=> b \in BatchIds /\ Open(b) /\ Load(r, f) \in batches[b].loads
    BY DEF Open
  <2> HIDE DEF mine
  <2>2. CASE Load(r, f) \in queued
    BY <2>1, <2>2 DEF ReqInv, LoadsInOnePlace, mine
  <2>3. CASE Load(r, f) \notin queued
    <3>1. PICK b \in mine : TRUE
      BY <1>1, <2>1, <2>3 DEF ReqInv, LoadsInOnePlace
    <3>2. mine = {b}
      BY <2>1 DEF ReqInv, LoadsInOnePlace
    <3>3. Cardinality(mine) = 1
      BY <3>2, FS_Singleton
    <3> QED  BY <2>3, <3>3 DEF mine
  <2> QED  BY <2>2, <2>3
<1>2. \A b \in BatchIds : \A l, m \in batches[b].loads :
        l.gen = m.gen /\ l.gen = req[l.client].gen
  BY DEF ReqInv, LoadsAreCurrent
<1> QED  BY <1>1, <1>2 DEF LoadsAreServed

(* ReqInv is inductive: the pool's bookkeeping and the state of its owners *)
(* agree, fields only work for running requests, and every load on its way *)
(* is a waiting field's, in one place.                                     *)
THEOREM ReqInvariant == ReqSpec => []ReqInv
<1> QED
  BY ReqInitInv, ReqNextInv, PTL DEF ReqSpec

(* Connections are neither leaked nor handed out twice, through timeouts,  *)
(* failed statements and disconnecting clients, for any pool and any       *)
(* number of requests.                                                     *)
THEOREM ReqConnectionsConserved == ReqSpec => []ConnectionsConserved
<1>1. ReqInv => ConnectionsConserved
  BY DEF ReqInv
<1> QED
  BY <1>1, ReqInvariant, PTL

(* Every load a field waits for has exactly one place that will answer it, *)
(* and a batch never mixes loads of different schemas.                     *)
THEOREM ReqLoadsAreServed == ReqSpec => []LoadsAreServed
<1> QED
  BY InvImpliesLoadsAreServed, ReqInvariant, PTL

LEMMA RowsNextInv == RowsInv /\ [ReqNext]_reqVars => RowsInv'
<1> SUFFICES ASSUME RowsInv, [ReqNext]_reqVars PROVE RowsInv'
  OBVIOUS
<1>0. ReqTypeOK /\ ConnectionsConserved /\ LoadInv /\ RowsOK
  BY DEF RowsInv, ReqInv, LoadInv, RowsOK
<1>1. ReqInv'
  BY ReqNextInv DEF RowsInv
<1> SUFFICES RowsOK'
  BY <1>1 DEF RowsInv, RowsOK
<1>2. CASE Grant
  BY <1>0, <1>2, GrantRows
<1>3. ASSUME NEW r \in Clients, NEW f \in Fields, FieldStep(r, f) PROVE RowsOK'
  BY <1>0, <1>3, FieldRows
<1>4. ASSUME NEW gen \in 0..generation, NEW f \in Fields, Dispatch(gen, f) PROVE RowsOK'
  BY <1>0, <1>4, DispatchRows
<1>5. ASSUME NEW b \in BatchIds, BatchStep(b) PROVE RowsOK'
  BY <1>0, <1>5, BatchRows
<1>6. ASSUME UNCHANGED <<fld, batches>> PROVE RowsOK'
  BY <1>0, <1>6, RowsFrame DEF BatchIds
<1>7. ASSUME NEW r \in Clients, RequestStep(r) PROVE RowsOK'
  BY <1>6, <1>7 DEF RequestStep, graphql_handler, AcquireTimesOut, apply_rls_context, RlsFails,
                    Respond, Disconnect
<1>8. CASE SwapSchema \/ UNCHANGED reqVars
  BY <1>6, <1>8 DEF SwapSchema, reqVars
<1> QED
  BY <1>2, <1>3, <1>4, <1>5, <1>7, <1>8 DEF ReqNext

(* A relation field resolves to the rows of its own parent, the first      *)
(* DefaultLimit in primary key order, whichever other keys shared its      *)
(* batch: for any table, any requests and any interleaving.                *)
THEOREM ReqOwnRows == ReqSpec => []OwnRows
<1>1. ReqInit => RowsInv
  <2> SUFFICES ASSUME ReqInit PROVE RowsInv
    OBVIOUS
  <2>1. BatchIds = {}
    BY DEF ReqInit, BatchIds
  <2>2. \A r \in Clients, f \in Fields : fld[r][f].state = "waiting" /\ fld[r][f].rows = {}
    BY DEF ReqInit, Waiting
  <2> QED  BY <2>1, <2>2, ReqInitInv DEF RowsInv, OwnRows, BatchOfOneField, NoRowsYet
<1>2. RowsInv => OwnRows
  BY DEF RowsInv
<1> QED
  BY <1>1, <1>2, RowsNextInv, PTL DEF ReqSpec

=============================================================================
