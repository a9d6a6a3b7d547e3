------------------------------- MODULE KeyMap -------------------------------
(* What a StringMap promises its users: put, get and remove of a map.  A   *)
(* put is called and takes effect, once, when it returns.                  *)
CONSTANTS Keys, Vals, NoKey, NoVal

VARIABLES
    map,    \* the values by key; a key that is not in the map has none
    arg     \* the key and the value of the put that runs, if one does

NoArg == [key |-> NoKey, val |-> NoVal]

CallPut(k, v) ==
    arg = NoArg /\ arg' = [key |-> k, val |-> v] /\ UNCHANGED map

ReturnPut ==
    /\ arg # NoArg
    /\ map' = [x \in DOMAIN map \cup {arg.key} |->
                  IF x = arg.key THEN arg.val ELSE map[x]]
    /\ arg' = NoArg

Remove(k) ==
    /\ arg = NoArg
    /\ map' = [x \in DOMAIN map \ {k} |-> map[x]]
    /\ UNCHANGED arg

Init == map = << >> /\ arg = NoArg

Next ==
    \/ \E k \in Keys : Remove(k) \/ \E v \in Vals : CallPut(k, v)
    \/ ReturnPut

Spec == Init /\ [][Next]_<<map, arg>>
=============================================================================
