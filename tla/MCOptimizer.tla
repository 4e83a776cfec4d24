---------------------------- MODULE MCOptimizer ----------------------------
(* Instance for TLC: every plan over the given ids, kinds and dependency   *)
(* lists, cyclic and dangling ones included.                               *)
EXTENDS Optimizer

(* Chains and trees of up to four steps, and joins of up to three. *)
ChainsAndJoins ==
    { s \in StepIds \X Step :
        \/ Len(s[2].deps) <= 1
        \/ s[1] <= 3 /\ \A k \in DOMAIN s[2].deps : s[2].deps[k] <= 3 }
=============================================================================
