----------------------------- MODULE PlanCache -----------------------------
(***************************************************************************)
(* The cache of compiled plans, shared by all requests                     *)
(* (crates/magna-serv/src/plan_cache.rs).                                  *)
(*                                                                         *)
(* get_or_plan makes up to four separate calls on the shared DashMap: get, *)
(* len, retain and insert.  Each is atomic here; between them other        *)
(* callers, and clear() on a schema reload, may run.  A plan is a function *)
(* of its operation hash, so the map is the set of its keys.               *)
(***************************************************************************)
EXTENDS Naturals, FiniteSets

CONSTANTS
    Callers,        \* concurrent calls of get_or_plan
    Hashes,         \* OperationHash values
    MaxSize         \* PlanCache.max_size; 0 means no limit

ASSUME CallersAssumption == IsFiniteSet(Callers) /\ Callers # {}
ASSUME HashesAssumption == IsFiniteSet(Hashes)
ASSUME MaxSizeAssumption == MaxSize \in Nat

VARIABLES
    cache,          \* PlanCache.inner: the keys
    pc,             \* caller -> where its call is
    hash            \* caller -> the hash of its current or last call

cacheVars == <<cache, pc, hash>>

CacheTypeOK ==
    /\ cache \subseteq Hashes
    /\ pc \in [Callers -> {"idle", "check", "evict", "build"}]
    /\ hash \in [Callers -> Hashes]

CacheInit ==
    /\ cache = {}
    /\ pc = [c \in Callers |-> "idle"]
    /\ hash \in [Callers -> Hashes]

(* inner.get(&hash) finds nothing; if it finds the plan, the call returns  *)
(* it and nothing changes.                                                 *)
Miss(c, h) ==
    /\ pc[c] = "idle"
    /\ h \notin cache
    /\ pc' = [pc EXCEPT ![c] = "check"]
    /\ hash' = [hash EXCEPT ![c] = h]
    /\ UNCHANGED cache

(* A bug: one entry too many before the cache counts as full. *)
CheckLenOffByOne(c) ==
    /\ pc[c] = "check"
    /\ pc' = [pc EXCEPT ![c] =
                 IF Cardinality(cache) > MaxSize /\ MaxSize > 0 THEN "evict" ELSE "build"]
    /\ UNCHANGED <<cache, hash>>

(* len() >= max_size && max_size > 0 *)
CheckLen(c) ==
    /\ pc[c] = "check"
    /\ pc' = [pc EXCEPT ![c] =
                 IF Cardinality(cache) >= MaxSize /\ MaxSize > 0 THEN "evict" ELSE "build"]
    /\ UNCHANGED <<cache, hash>>

(* retain() drops the first entry it meets, in whatever order the map is   *)
(* iterated; the map may have been emptied in the meantime.                *)
Evict(c) ==
    /\ pc[c] = "evict"
    /\ \/ \E victim \in cache : cache' = cache \ {victim}
       \/ cache = {} /\ cache' = {}
    /\ pc' = [pc EXCEPT ![c] = "build"]
    /\ UNCHANGED hash

(* build(), then insert(): a plan that another caller has inserted for the *)
(* same hash is replaced.                                                  *)
Insert(c) ==
    /\ pc[c] = "build"
    /\ cache' = cache \cup {hash[c]}
    /\ pc' = [pc EXCEPT ![c] = "idle"]
    /\ UNCHANGED hash

(* clear(), on a schema reload. *)
Clear ==
    /\ cache' = {}
    /\ UNCHANGED <<pc, hash>>

CacheNext ==
    \/ \E c \in Callers, h \in Hashes : Miss(c, h)
    \/ \E c \in Callers : CheckLen(c) \/ Evict(c) \/ Insert(c)
    \/ Clear

CacheSpec == CacheInit /\ [][CacheNext]_cacheVars

-----------------------------------------------------------------------------
(* Properties *)

(* Calls that passed the capacity check and have not inserted yet. *)
Pending == {c \in Callers : pc[c] = "build"}

(* What the checks of get_or_plan guarantee however its calls interleave:  *)
(* the cache outgrows max_size by less than the number of concurrent       *)
(* callers.                                                                *)
SizeBound ==
    MaxSize > 0 => Cardinality(cache) < MaxSize + Cardinality(Callers)

(* The same with the inserts that are already decided: the inductive form, *)
(* which a check that passes late or an eviction that finds the map empty  *)
(* must keep too.                                                          *)
PendingBound ==
    MaxSize > 0 => Cardinality(cache) + Cardinality(Pending) < MaxSize + Cardinality(Callers)
=============================================================================
