----------------------------- MODULE ScopedView -----------------------------
(* What nested scopes promise, with no scope in sight: a stack of views,   *)
(* each saying what every name means.  A scope starts from the view around *)
(* it, a declaration changes one name in the innermost view, and the end   *)
(* of a scope brings back the view that was there before it.               *)
EXTENDS Integers, Sequences

CONSTANTS Names, Symbols

VARIABLES
    views,      \* each name's Option<Symbol>: {} or {its symbol}
    call        \* the call made last: no call may go without its effect

Init == views = <<[n \in Names |-> {}]>> /\ call = <<"enter_scope">>

Enter ==
    /\ views' = Append(views, views[Len(views)])
    /\ call' = <<"enter_scope">>

(* The view of the global scope stays.                                     *)
Exit ==
    /\ views' = IF Len(views) > 1 THEN SubSeq(views, 1, Len(views) - 1) ELSE views
    /\ call' = <<"exit_scope">>

Declare(n, s) ==
    /\ views' = [views EXCEPT ![Len(views)] = [@ EXCEPT ![n] = {s}]]
    /\ call' = <<"declare", n, s>>

Next == Enter \/ Exit \/ \E n \in Names, s \in Symbols : Declare(n, s)

Spec == Init /\ [][Next]_<<views, call>>
=============================================================================
