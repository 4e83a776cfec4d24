----------------------------- MODULE MCServing -----------------------------
(***************************************************************************)
(* The state that all requests share, AppState: the plan cache and the     *)
(* schema with the tasks that replace it.  The one thing that joins them   *)
(* is the clear() after a swap (main.rs:197), which PlanCache allows at    *)
(* any time; they share no variable, so an invariant of either is checked  *)
(* with the other at rest.                                                 *)
(***************************************************************************)
EXTENDS HotReload, PlanCache

VARIABLE part       \* the half of AppState that is watched

servingVars == <<reloadVars, cacheVars, part>>

(* While the schema is watched, no caller is in get_or_plan and the hash   *)
(* of its last call is immaterial: one is enough.                          *)
ServingInit ==
    /\ ReloadInit
    /\ CacheInit
    /\ part \in {"schema", "plans"}
    /\ part = "schema" => hash = [c \in Callers |-> CHOOSE h \in Hashes : TRUE]

ServingNext ==
    \/ part = "schema" /\ ReloadNext /\ UNCHANGED <<cacheVars, part>>
    \/ part = "plans" /\ CacheNext /\ UNCHANGED <<reloadVars, part>>

(* The fairness of ReloadSpec. *)
ServingSpec ==
    /\ ServingInit /\ [][ServingNext]_servingVars
    /\ WF_servingVars(part = "schema" /\ ListenLoop /\ UNCHANGED <<cacheVars, part>>)
    /\ WF_servingVars(part = "schema" /\ WatchForReload /\ UNCHANGED <<cacheVars, part>>)
=============================================================================
