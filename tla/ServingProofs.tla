---------------------------- MODULE ServingProofs ----------------------------
(***************************************************************************)
(* Proofs about what requests share while they are served: the schema and  *)
(* the plans.                                                              *)
(*                                                                         *)
(* HotReload: a quiet reload path serves the database's schema, for any    *)
(* number of migrations, failures, catalog queries and configured schemas  *)
(* and for every capacity of the broadcast channel.                        *)
(*                                                                         *)
(* PlanCache: the plan cache stays within max_size plus the number of      *)
(* concurrent callers minus one, for every number of callers, operations   *)
(* and every capacity.                                                     *)
(***************************************************************************)
EXTENDS HotReload, PlanCache, FiniteSetTheorems, TLAPS

-----------------------------------------------------------------------------
(* The reload path.                                                        *)

LEMMA ReloadInitInv == ReloadInit => FreshInv
<1> SUFFICES ASSUME ReloadInit PROVE FreshInv
  OBVIOUS
<1>a. 0 \in Versions /\ 0 \in 0..Capacity /\ 0 \in 0..MaxFaults
  BY BoundsAssumption, CapacityAssumption DEF Versions
<1>b. entry \in Found /\ served.found \in Found
  BY <1>a DEF ReloadInit, Found
<1>c. DOMAIN read \subseteq Catalogs /\ read \in [DOMAIN read -> Versions]
  BY DEF ReloadInit, Absent
<1>d. served.generation \in Nat \ {0} /\ served.exposed \subseteq Schemas
  BY DEF ReloadInit
<1>e. notify \in Seq(Targets)
  BY DEF ReloadInit
<1>1. ReloadTypeOK
  BY <1>a, <1>b, <1>c, <1>d, <1>e DEF ReloadInit, ReloadTypeOK
<1>2. QuiescentFresh
  BY DEF ReloadInit, QuiescentFresh, UpToDate
<1> QED  BY <1>1, <1>2
  DEF ReloadInit, FreshInv, MissAfterInvalidate, ReadComplete, ReadSoFar, ReadAll

(* What Postgres and the listener do: a migration is on its way as a       *)
(* signal, or counted as missed.                                           *)
LEMMA MigrateInv ==
    ASSUME FreshInv, NEW target \in Targets, Migrate(target)
    PROVE  FreshInv'
<1>a. db' \in Versions
  BY BoundsAssumption DEF FreshInv, ReloadTypeOK, Migrate, Versions
<1>c. notify' \in Seq(Targets)
  BY DEF FreshInv, ReloadTypeOK, Migrate
<1>d. missed' \in BOOLEAN
  BY Zenon DEF Migrate
<1>1. ReloadTypeOK'
  BY <1>a, <1>c, <1>d DEF FreshInv, Migrate, ReloadTypeOK
<1>e. Connected => notify' # <<>>
  BY DEF FreshInv, ReloadTypeOK, Migrate
<1>f. ~Connected => missed'
  BY Zenon DEF Migrate
<1>2. missed' \/ SignalDue'
  BY <1>e, <1>f DEF SignalDue
<1> QED  BY <1>1, <1>2
  DEF FreshInv, Migrate, MissAfterInvalidate, ReadComplete, QuiescentFresh

LEMMA LoseConnectionInv ==
    ASSUME FreshInv, LoseConnection
    PROVE  FreshInv'
<1>1. ReloadTypeOK'
  BY BoundsAssumption DEF FreshInv, LoseConnection, Fault, ReloadTypeOK
<1>2. ~missed' /\ ~SignalDue' => ~missed /\ ~SignalDue
  BY DEF FreshInv, ReloadTypeOK, LoseConnection, SignalDue
<1> QED  BY <1>1, <1>2
  DEF FreshInv, LoseConnection, MissAfterInvalidate, ReadComplete, ReadSoFar, ReadAll,
      QuiescentFresh, UpToDate

LEMMA ConnectInv ==
    ASSUME FreshInv, Connect
    PROVE  FreshInv'
<1>1. ReloadTypeOK'
  BY BoundsAssumption DEF FreshInv, Connect, Fault, ReloadTypeOK
<1>2. SignalDue' = SignalDue
  BY DEF Connect, SignalDue
<1> QED  BY <1>1, <1>2
  DEF FreshInv, Connect, MissAfterInvalidate, ReadComplete, ReadSoFar, ReadAll,
      QuiescentFresh, UpToDate

LEMMA ReceiveNotificationInv ==
    ASSUME FreshInv, ReceiveNotification
    PROVE  FreshInv'
<1>a. Tail(notify) \in Seq(Targets)
  BY DEF FreshInv, ReceiveNotification, ReloadTypeOK
<1>1. ReloadTypeOK'
  BY <1>a DEF FreshInv, ReceiveNotification, ReloadTypeOK
<1>2. SignalDue'
  BY DEF ReceiveNotification, SignalDue
<1> QED  BY <1>1, <1>2
  DEF FreshInv, ReceiveNotification, MissAfterInvalidate, ReadComplete, QuiescentFresh

LEMMA BroadcastInv ==
    ASSUME FreshInv, Broadcast
    PROVE  FreshInv'
<1>1. ReloadTypeOK'
  BY CapacityAssumption DEF FreshInv, Broadcast, ReloadTypeOK
<1>a. watcher = "start" => missed'
  BY Zenon DEF Broadcast
<1>b. watcher # "start" => backlog' > 0
  BY CapacityAssumption DEF FreshInv, ReloadTypeOK, Broadcast
<1>2. missed' \/ SignalDue'
  BY <1>a, <1>b DEF SignalDue
<1> QED  BY <1>1, <1>2
  DEF FreshInv, Broadcast, MissAfterInvalidate, ReadComplete, QuiescentFresh

LEMMA ExpireInv ==
    ASSUME FreshInv, Expire
    PROVE  FreshInv'
<1>1. ReloadTypeOK'
  BY DEF FreshInv, Expire, ReloadTypeOK
<1>2. SignalDue' = SignalDue
  BY DEF Expire, SignalDue
<1> QED  BY <1>1, <1>2
  DEF FreshInv, Expire, MissAfterInvalidate, ReadComplete, ReadSoFar, ReadAll,
      QuiescentFresh, UpToDate

(* What the watcher does before it reads: it takes a signal, and whatever  *)
(* was cached is gone.                                                     *)
LEMMA ReceiveInv ==
    ASSUME FreshInv, Subscribe \/ RecvLagged \/ Recv \/ InvalidateAll \/ Lookup
    PROVE  FreshInv'
<1>1. CASE Subscribe \/ RecvLagged
  <2>1. ReloadTypeOK'
    BY <1>1 DEF FreshInv, Subscribe, RecvLagged, ReloadTypeOK
  <2>2. SignalDue' = SignalDue
    BY <1>1 DEF Subscribe, RecvLagged, SignalDue
  <2> QED  BY <1>1, <2>1, <2>2
    DEF FreshInv, Subscribe, RecvLagged, MissAfterInvalidate, ReadComplete, ReadSoFar,
        ReadAll, QuiescentFresh, UpToDate
<1>2. CASE Recv
  <2>a. backlog' \in 0..Capacity
    BY <1>2, CapacityAssumption DEF FreshInv, Recv, ReloadTypeOK
  <2>1. ReloadTypeOK'
    BY <1>2, <2>a DEF FreshInv, Recv, ReloadTypeOK
  <2> QED  BY <1>2, <2>1
    DEF FreshInv, Recv, MissAfterInvalidate, ReadComplete, ReadSoFar, ReadAll, QuiescentFresh
<1>3. CASE InvalidateAll
  <2>1. ReloadTypeOK'
    BY <1>3 DEF FreshInv, InvalidateAll, ReloadTypeOK
  <2> QED  BY <1>3, <2>1
    DEF FreshInv, InvalidateAll, MissAfterInvalidate, ReadComplete, ReadSoFar, ReadAll,
        QuiescentFresh
<1>4. CASE Lookup
  <2>1. watcher' = "introspect" /\ read' = Absent
    BY <1>4 DEF FreshInv, Lookup, MissAfterInvalidate
  <2>2. DOMAIN Absent = {}
    BY DEF Absent
  <2>3. ReloadTypeOK'
    BY <1>4, <2>1, <2>2 DEF FreshInv, Lookup, ReloadTypeOK, Absent
  <2> QED  BY <1>4, <2>1, <2>2, <2>3
    DEF FreshInv, Lookup, MissAfterInvalidate, ReadComplete, ReadSoFar, ReadAll, QuiescentFresh
<1> QED  BY <1>1, <1>2, <1>3, <1>4

(* What it does with what it reads. *)
LEMMA QueryInv ==
    ASSUME FreshInv, NEW c \in Catalogs, Query(c)
    PROVE  FreshInv'
<1>1. DOMAIN read' = DOMAIN read \cup {c} /\ read'[c] = db
      /\ \A k \in DOMAIN read : read'[k] = read[k] \/ k = c
  BY DEF Query
<1>2. ReloadTypeOK'
  BY DEF FreshInv, Query, ReloadTypeOK
<1>3. SignalDue' = SignalDue
  BY DEF Query, SignalDue
<1> QED  BY <1>1, <1>2, <1>3
  DEF FreshInv, Query, MissAfterInvalidate, ReadComplete, ReadSoFar, ReadAll, QuiescentFresh

LEMMA InsertEntryInv ==
    ASSUME FreshInv, InsertEntry
    PROVE  FreshInv'
<1>1. read \in Found
  BY DEF FreshInv, InsertEntry, ReloadTypeOK, Found
<1>2. ReloadTypeOK'
  BY <1>1 DEF FreshInv, InsertEntry, ReloadTypeOK
<1>3. SignalDue' = SignalDue
  BY DEF InsertEntry, SignalDue
<1>4. ReadSoFar => UpToDate(read)'
  BY <1>1 DEF InsertEntry, ReadSoFar, UpToDate, Found
<1> QED  BY <1>2, <1>3, <1>4
  DEF FreshInv, InsertEntry, MissAfterInvalidate, ReadComplete, ReadSoFar, ReadAll,
      QuiescentFresh

LEMMA SwapInv ==
    ASSUME FreshInv, Swap
    PROVE  FreshInv'
<1>1. read \in Found
  BY DEF FreshInv, Swap, ReloadTypeOK, ReadComplete, Found
<1>2. ReloadTypeOK'
  BY <1>1 DEF FreshInv, Swap, ReloadTypeOK
<1>3. SignalDue' = SignalDue
  BY DEF Swap, SignalDue
<1>4. served.found' = read
  BY DEF Swap
<1> QED  BY <1>2, <1>3, <1>4
  DEF FreshInv, Swap, MissAfterInvalidate, ReadComplete, ReadSoFar, ReadAll, QuiescentFresh,
      UpToDate

LEMMA ReloadFailsInv ==
    ASSUME FreshInv, ReloadFails
    PROVE  FreshInv'
<1>1. ReloadTypeOK'
  BY BoundsAssumption DEF FreshInv, ReloadFails, Fault, ReloadTypeOK
<1> QED  BY <1>1
  DEF FreshInv, ReloadFails, MissAfterInvalidate, ReadComplete, ReadSoFar, ReadAll,
      QuiescentFresh

LEMMA ReloadNextInv ==
    ASSUME FreshInv, [ReloadNext]_reloadVars
    PROVE  FreshInv'
<1>1. CASE \E target \in Targets : Migrate(target)
  BY <1>1, MigrateInv
<1>2. CASE LoseConnection \/ Expire \/ ReloadFails
  BY <1>2, LoseConnectionInv, ExpireInv, ReloadFailsInv
<1>3. CASE ListenLoop
  BY <1>3, ConnectInv, ReceiveNotificationInv, BroadcastInv DEF ListenLoop
<1>4. CASE WatchForReload
  BY <1>4, ReceiveInv, QueryInv, InsertEntryInv, SwapInv DEF WatchForReload
<1>5. CASE UNCHANGED reloadVars
  BY <1>5
  DEF reloadVars, FreshInv, ReloadTypeOK, MissAfterInvalidate, ReadComplete, ReadSoFar,
      ReadAll, QuiescentFresh, SignalDue, UpToDate
<1> QED  BY <1>1, <1>2, <1>3, <1>4, <1>5 DEF ReloadNext

(* The inductive invariant of the reload path: what the watcher has read   *)
(* is current unless a further signal is due or was missed.                *)
THEOREM ReloadInvariant == ReloadSpec => []FreshInv
<1>1. ReloadInit => FreshInv
  BY ReloadInitInv
<1>2. FreshInv /\ [ReloadNext]_reloadVars => FreshInv'
  BY ReloadNextInv
<1> QED  BY <1>1, <1>2, PTL DEF ReloadSpec

(* A quiet reload path serves the schema the database has. *)
THEOREM ReloadQuiescentFresh == ReloadSpec => []QuiescentFresh
<1>1. FreshInv => QuiescentFresh
  BY DEF FreshInv
<1> QED  BY <1>1, ReloadInvariant, PTL

-----------------------------------------------------------------------------
(* The plan cache.                                                         *)

CacheInv == CacheTypeOK /\ PendingBound

(* The two sets whose sizes are compared. *)
LEMMA Sizes ==
    ASSUME CacheTypeOK
    PROVE  /\ IsFiniteSet(cache) /\ Cardinality(cache) \in Nat
           /\ IsFiniteSet(Pending) /\ Cardinality(Pending) \in Nat
           /\ Cardinality(Pending) <= Cardinality(Callers)
           /\ Cardinality(Callers) \in Nat
<1>1. IsFiniteSet(cache)
  BY HashesAssumption, FS_Subset DEF CacheTypeOK
<1>2. Pending \subseteq Callers
  BY DEF Pending
<1>3. IsFiniteSet(Pending) /\ Cardinality(Pending) <= Cardinality(Callers)
  BY <1>2, CallersAssumption, FS_Subset
<1> QED  BY <1>1, <1>3, CallersAssumption, FS_CardinalityType

(* The pending calls of the next state are callers, too. *)
LEMMA NextPending ==
    /\ Cardinality(Pending') \in Nat
    /\ Cardinality(Pending') <= Cardinality(Callers)
<1>1. Pending' \subseteq Callers
  BY DEF Pending
<1> QED  BY <1>1, CallersAssumption, FS_Subset, FS_CardinalityType

LEMMA CacheInitInv == CacheInit => CacheInv
<1> SUFFICES ASSUME CacheInit PROVE CacheInv
  OBVIOUS
<1>1. CacheTypeOK
  BY DEF CacheInit, CacheTypeOK
<1>2. cache = {} /\ Pending = {}
  BY DEF CacheInit, Pending
<1>3. Cardinality(cache) = 0 /\ Cardinality(Pending) = 0
  BY <1>2, FS_EmptySet
<1> QED  BY <1>1, <1>3, Sizes, MaxSizeAssumption DEF CacheInv, PendingBound

LEMMA MissInv ==
    ASSUME CacheInv, NEW c \in Callers, NEW h \in Hashes, Miss(c, h)
    PROVE  CacheInv'
<1>1. CacheTypeOK' /\ Pending' = Pending /\ cache' = cache
  BY DEF CacheInv, CacheTypeOK, Miss, Pending
<1> QED  BY <1>1 DEF CacheInv, PendingBound

(* The check finds room only while the cache is below max_size; then even  *)
(* all callers pending at once stay within the bound.                      *)
LEMMA CheckLenInv ==
    ASSUME CacheInv, NEW c \in Callers, CheckLen(c)
    PROVE  CacheInv'
<1>1. CacheTypeOK' /\ cache' = cache
  BY DEF CacheInv, CacheTypeOK, CheckLen
<1>2. CASE Cardinality(cache) >= MaxSize /\ MaxSize > 0
  <2>1. Pending' = Pending
    BY <1>2 DEF CacheInv, CacheTypeOK, CheckLen, Pending
  <2> QED  BY <1>1, <2>1 DEF CacheInv, PendingBound
<1>3. CASE ~(Cardinality(cache) >= MaxSize /\ MaxSize > 0)
  <2>1. MaxSize > 0 => Cardinality(cache) < MaxSize
    BY <1>3, Sizes, MaxSizeAssumption DEF CacheInv
  <2>2. MaxSize > 0 => Cardinality(cache') + Cardinality(Pending') < MaxSize + Cardinality(Callers)
    BY <1>1, <2>1, NextPending, Sizes, MaxSizeAssumption DEF CacheInv
  <2> QED  BY <1>1, <2>2 DEF CacheInv, PendingBound
<1> QED  BY <1>2, <1>3

(* An eviction trades an entry for a pending insert; on an empty cache     *)
(* there are at most as many inserts pending as there are callers.         *)
LEMMA EvictInv ==
    ASSUME CacheInv, NEW c \in Callers, Evict(c)
    PROVE  CacheInv'
<1>1. CacheTypeOK'
  BY DEF CacheInv, CacheTypeOK, Evict
<1>2. CASE \E victim \in cache : cache' = cache \ {victim}
  <2>1. Pending' = Pending \cup {c} /\ c \notin Pending
    BY DEF CacheInv, CacheTypeOK, Evict, Pending
  <2>2. Cardinality(Pending') = Cardinality(Pending) + 1
    BY <2>1, Sizes, FS_AddElement DEF CacheInv
  <2>3. Cardinality(cache') = Cardinality(cache) - 1
    BY <1>2, Sizes, FS_RemoveElement DEF CacheInv
  <2>4. MaxSize > 0 => Cardinality(cache') + Cardinality(Pending') < MaxSize + Cardinality(Callers)
    BY <2>2, <2>3, Sizes DEF CacheInv, PendingBound
  <2> QED  BY <1>1, <2>4 DEF CacheInv, PendingBound
<1>3. CASE cache = {} /\ cache' = {}
  <2>1. Cardinality(cache') = 0
    BY <1>3, FS_EmptySet
  <2>2. MaxSize > 0 => Cardinality(cache') + Cardinality(Pending') < MaxSize + Cardinality(Callers)
    BY <2>1, NextPending, Sizes, MaxSizeAssumption DEF CacheInv
  <2> QED  BY <1>1, <2>2 DEF CacheInv, PendingBound
<1> QED  BY <1>2, <1>3 DEF Evict

(* An insert turns a pending one into an entry, at most. *)
LEMMA InsertInv ==
    ASSUME CacheInv, NEW c \in Callers, Insert(c)
    PROVE  CacheInv'
<1>1. CacheTypeOK'
  BY DEF CacheInv, CacheTypeOK, Insert
<1>2. Pending' = Pending \ {c} /\ c \in Pending
  BY DEF CacheInv, CacheTypeOK, Insert, Pending
<1>3. Cardinality(Pending') = Cardinality(Pending) - 1
  BY <1>2, Sizes, FS_RemoveElement DEF CacheInv
<1>4. Cardinality(cache') <= Cardinality(cache) + 1 /\ Cardinality(cache') \in Nat
  <2>1. CASE hash[c] \in cache
    <3>1. cache' = cache
      BY <2>1 DEF Insert
    <3> QED  BY <3>1, Sizes DEF CacheInv
  <2>2. CASE hash[c] \notin cache
    <3>1. cache' = cache \cup {hash[c]}
      BY DEF Insert
    <3>2. Cardinality(cache') = Cardinality(cache) + 1
      BY <2>2, <3>1, Sizes, FS_AddElement DEF CacheInv
    <3> QED  BY <3>2, Sizes DEF CacheInv
  <2> QED  BY <2>1, <2>2
<1>5. MaxSize > 0 => Cardinality(cache') + Cardinality(Pending') < MaxSize + Cardinality(Callers)
  BY <1>3, <1>4, Sizes, MaxSizeAssumption DEF CacheInv, PendingBound
<1> QED  BY <1>1, <1>5 DEF CacheInv, PendingBound

LEMMA ClearInv ==
    ASSUME CacheInv, Clear
    PROVE  CacheInv'
<1>1. CacheTypeOK' /\ Pending' = Pending
  BY DEF CacheInv, CacheTypeOK, Clear, Pending
<1>2. Cardinality(cache') = 0
  BY FS_EmptySet DEF Clear
<1>3. MaxSize > 0 => Cardinality(cache') + Cardinality(Pending') < MaxSize + Cardinality(Callers)
  BY <1>1, <1>2, Sizes, MaxSizeAssumption DEF CacheInv
<1> QED  BY <1>1, <1>3 DEF CacheInv, PendingBound

LEMMA CacheNextInv ==
    ASSUME CacheInv, [CacheNext]_cacheVars
    PROVE  CacheInv'
<1>1. CASE \E c \in Callers, h \in Hashes : Miss(c, h)
  BY <1>1, MissInv
<1>2. CASE \E c \in Callers : CheckLen(c)
  BY <1>2, CheckLenInv
<1>3. CASE \E c \in Callers : Evict(c)
  BY <1>3, EvictInv
<1>4. CASE \E c \in Callers : Insert(c)
  BY <1>4, InsertInv
<1>5. CASE Clear
  BY <1>5, ClearInv
<1>6. CASE UNCHANGED cacheVars
  BY <1>6 DEF cacheVars, CacheInv, CacheTypeOK, PendingBound, Pending
<1> QED  BY <1>1, <1>2, <1>3, <1>4, <1>5, <1>6 DEF CacheNext

(* Type correctness and the bound with pending inserts, for every          *)
(* interleaving of the calls of get_or_plan and clear.                     *)
THEOREM CacheInvariant == CacheSpec => []CacheInv
<1>1. CacheInit => CacheInv
  BY CacheInitInv
<1>2. CacheInv /\ [CacheNext]_cacheVars => CacheInv'
  BY CacheNextInv
<1> QED  BY <1>1, <1>2, PTL DEF CacheSpec

(* The cache never outgrows max_size by as much as the number of callers. *)
THEOREM CacheSizeBound == CacheSpec => []SizeBound
<1>1. CacheInv => SizeBound
  BY Sizes, MaxSizeAssumption DEF CacheInv, PendingBound, SizeBound
<1> QED  BY <1>1, CacheInvariant, PTL
=============================================================================
