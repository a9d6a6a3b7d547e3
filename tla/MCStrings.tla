------------------------------ MODULE MCStrings ------------------------------
(* Two Strings in blocks of 2 and 7 bytes. *)
EXTENDS Strings

MCLiterals == {<<>>, <<"a">>, <<"b", "a">>}
=============================================================================
