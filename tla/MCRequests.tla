----------------------------- MODULE MCRequests -----------------------------
(* Two requests with two relation fields each (one hasMany, one belongsTo)  *)
(* over a pool of two connections: both may hold one and need another.      *)
EXTENDS Requests

MCKind  == [f \in Fields |-> IF f = "posts" THEN "hasMany" ELSE "belongsTo"]
MCParentKeys == [f \in Fields |-> IF f = "posts" THEN {2, 3, NoKey} ELSE {2}]
MCTable == {[id |-> 1, fk |-> 2], [id |-> 2, fk |-> 2], [id |-> 4, fk |-> 2], [id |-> 5, fk |-> 1]}
=============================================================================
