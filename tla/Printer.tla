------------------------------- MODULE Printer -------------------------------
(***************************************************************************)
(* pp_node (pretty_print.cpp), which prints a tree as indented lines.      *)
(* What a line says is left out: a line is the node it is about.           *)
(***************************************************************************)
EXTENDS Declarations

DeclTags == {"AST_VAR_DECL", "AST_CONST_DECL", "AST_INFERRED_VAR_DECL"}

(* The cases of the switch.  The others print nothing, not even what is    *)
(* below them: `int x = -1 ;` has no line for its initializer.             *)
PrintedTags ==
    (LeafTags \ {"AST_NULL_LITERAL"}) \cup (BinaryTags \ {"AST_ASSIGN"}) \cup DeclTags
        \cup {"AST_CALL", "AST_STRUCT", "AST_BLOCK", "AST_IF", "AST_WHILE"}

Below_slip(n) ==
    CASE pool[n].tag = "AST_CALL" -> Tail(pool[n].kids)
      [] pool[n].tag = "AST_STRUCT" -> pool[n].sub_decls \o pool[n].kids
      [] OTHER -> pool[n].kids

(* The pointers that pp_node follows, in its order: of a call only the     *)
(* arguments, of a struct the fields before the structs inside.            *)
Below(n) ==
    CASE pool[n].tag = "AST_CALL" -> Tail(pool[n].kids)
      [] pool[n].tag = "AST_STRUCT" -> pool[n].kids \o pool[n].sub_decls
      [] OTHER -> pool[n].kids

pp_node[n \in 0 .. Len(pool)] ==
    IF n = NULL THEN <<>>
    ELSE IF pool[n].tag \notin PrintedTags THEN <<>>
    ELSE LET below == Below(n)
         IN  <<n>> \o FlattenSeq([k \in DOMAIN below |-> pp_node[below[k]]])

(* `n->type->to_str()` reads the type of a declaration.                    *)
Untyped(n) == pool[n].tag = "AST_VAR_DECL" /\ pool[n].type = NULL

pp_node_crashes(n) == \E k \in DOMAIN pp_node[n] : Untyped(pp_node[n][k])
=============================================================================
