----------------------------- MODULE MCHashMap ------------------------------
(* Three keys whose probes run into each other and around the end of the   *)
(* arrays of 1, 3 and 8 entries that the scaled-down sizes lead to.        *)
EXTENDS HashMap, TLC

CONSTANTS k1, k2, k3

MCKeys == {k1, k2, k3}
MCHash == k1 :> 7 @@ k2 :> 7 @@ k3 :> 8
=============================================================================
