------------------------------ MODULE MCPools -------------------------------
(* Arrays of 1, 3 and 8 elements (`+ 8` scaled to `+ 1`); a node is twice  *)
(* the size of a type or of a pointer to a node.                           *)
EXTENDS Pools

MCPoolArrays == {"node_pool", "type_pool"}

MCListArrays == {"args", "stmts"}

MCElemSize == [a \in Arrays |-> IF a = "node_pool" THEN 2 ELSE 1]

(* What the arrays ask for (the sizes of `Next` of the arena alone). *)
MCSizes == {1, 3, 8} \cup {2, 6, 16}
=============================================================================
