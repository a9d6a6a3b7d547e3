-------------------------------- MODULE Text --------------------------------
(* What a String promises its users: variables that hold texts of their    *)
(* own.  The call made last is part of the state, so that a call without   *)
(* its effect is no stuttering step.                                       *)
EXTENDS Sequences

CONSTANTS
    Strs,
    Pieces  \* the texts that calls are made with

VARIABLES
    text,   \* the text of each variable
    call    \* the call made last

Called(op, s, arg) == call' = <<op, s, arg>>

Extend(s, x) ==
    text' = [text EXCEPT ![s] = @ \o x] /\ Called("append", s, x)

AppendText(s, t) ==
    text' = [text EXCEPT ![s] = @ \o text[t]] /\ Called("append_string", s, t)

Copy(s, t) ==
    text' = [text EXCEPT ![s] = text[t]] /\ Called("copy", s, t)

Move(s, t) ==
    /\ s # t
    /\ text' = [text EXCEPT ![s] = text[t], ![t] = <<>>]
    /\ Called("move", s, t)

Concat(s, t, x) ==
    text' = [text EXCEPT ![s] = text[t] \o x] /\ Called("concat", s, <<t, x>>)

Clear(s) ==
    text' = [text EXCEPT ![s] = <<>>] /\ Called("clear", s, s)

Init == text = [s \in Strs |-> <<>>] /\ call = <<>>

Next ==
    \E s \in Strs :
        \/ \E x \in Pieces : Extend(s, x)
        \/ \E t \in Strs : AppendText(s, t) \/ Copy(s, t) \/ Move(s, t)
        \/ \E t \in Strs : \E x \in Pieces : Concat(s, t, x)
        \/ Clear(s)

Spec == Init /\ [][Next]_<<text, call>>
=============================================================================
