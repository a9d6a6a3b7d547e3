--------------------------- MODULE MCSymbolStack ----------------------------
(* Two names, two symbols, three scopes.                                   *)
EXTENDS SymbolStack
=============================================================================
