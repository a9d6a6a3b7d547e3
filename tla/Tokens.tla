------------------------------- MODULE Tokens -------------------------------
(***************************************************************************)
(* The tables of the parser: which token is an operator, how tightly it    *)
(* binds and which tree node it builds (parser.cpp 270-392, the enums of   *)
(* cortex.h).  Tags are strings with the names of the C++ enumerators.     *)
(***************************************************************************)
EXTENDS Integers, Sequences

PREC_NONE == 0
PREC_ASSIGN == 1
PREC_UNARY == 12

(* The operators of each level, PREC_ASSIGN first and PREC_FACTOR last. *)
PrecedenceLevels == <<
    {"TOK_EQUAL", "TOK_PLUS_EQ", "TOK_MINUS_EQ", "TOK_ASTERISK_EQ",
     "TOK_SLASH_EQ", "TOK_PERCENT_EQ", "TOK_PIPE_EQ", "TOK_AMPERSAND_EQ",
     "TOK_CARET_EQ", "TOK_SHL_EQ", "TOK_SHR_EQ"},
    {"TOK_PIPE_PIPE"},
    {"TOK_AMPERSAND_AMPERSAND"},
    {"TOK_PIPE"},
    {"TOK_CARET"},
    {"TOK_AMPERSAND"},
    {"TOK_EQUAL_EQ", "TOK_BANG_EQ"},
    {"TOK_LESS_THAN", "TOK_LESS_EQ", "TOK_GREATER_THAN", "TOK_GREATER_EQ"},
    {"TOK_SHL", "TOK_SHR"},
    {"TOK_PLUS", "TOK_MINUS"},
    {"TOK_ASTERISK", "TOK_SLASH", "TOK_PERCENT"} >>

Levels == 1 .. 11

get_precedence(kind) ==
    IF \E p \in Levels : kind \in PrecedenceLevels[p]
    THEN CHOOSE p \in Levels : kind \in PrecedenceLevels[p]
    ELSE PREC_NONE

is_right_associative(kind) == get_precedence(kind) = PREC_ASSIGN

(* The smallest precedence the right operand of an operator may have. *)
next_prec(kind) ==
    get_precedence(kind) + (IF is_right_associative(kind) THEN 0 ELSE 1)

(* The node a prefix operator builds; TOK_ASTERISK is not in the switch. *)
UnaryAst ==
    [TOK_MINUS |-> "AST_NEG", TOK_TILDE |-> "AST_BIT_NOT",
     TOK_BANG |-> "AST_BOOL_NOT", TOK_AMPERSAND |-> "AST_ADDRESS_OF"]

BinaryAst(kind) ==
    CASE kind = "TOK_PLUS" -> "AST_ADD"
      [] kind = "TOK_MINUS" -> "AST_SUB"
      [] kind = "TOK_ASTERISK" -> "AST_MUL"
      [] kind = "TOK_SLASH" -> "AST_DIV"
      [] kind = "TOK_PERCENT" -> "AST_MOD"
      [] kind = "TOK_LESS_THAN" -> "AST_LT"
      [] kind = "TOK_GREATER_THAN" -> "AST_GT"
      [] kind = "TOK_LESS_EQ" -> "AST_LT_EQ"
      [] kind = "TOK_GREATER_EQ" -> "AST_GT_EQ"
      [] kind = "TOK_EQUAL_EQ" -> "AST_EQ_EQ"
      [] kind = "TOK_BANG_EQ" -> "AST_NOT_EQ"
      [] kind = "TOK_AMPERSAND_AMPERSAND" -> "AST_BOOL_AND"
      [] kind = "TOK_PIPE_PIPE" -> "AST_BOOL_OR"
      [] kind = "TOK_PIPE" -> "AST_BIT_OR"
      [] kind = "TOK_AMPERSAND" -> "AST_BIT_AND"
      [] kind = "TOK_CARET" -> "AST_BIT_XOR"
      [] kind = "TOK_SHL" -> "AST_SHL"
      [] kind = "TOK_SHR" -> "AST_SHR"
      [] kind \in PrecedenceLevels[PREC_ASSIGN] -> "AST_ASSIGN"

BinaryTags ==
    {"AST_ADD", "AST_SUB", "AST_MUL", "AST_DIV", "AST_MOD", "AST_LT",
     "AST_GT", "AST_LT_EQ", "AST_GT_EQ", "AST_EQ_EQ", "AST_NOT_EQ",
     "AST_BOOL_AND", "AST_BOOL_OR", "AST_BIT_OR", "AST_BIT_AND",
     "AST_BIT_XOR", "AST_SHL", "AST_SHR", "AST_ASSIGN"}

UnaryTags == {"AST_NEG", "AST_BIT_NOT", "AST_BOOL_NOT", "AST_ADDRESS_OF"}

LiteralAst_slip ==
    [TOK_STRING_LITERAL |-> "AST_STRING_LITERAL",
     TOK_NUMBER_LITERAL |-> "AST_NUMBER_LITERAL",
     TOK_TRUE |-> "AST_BOOL_LITERAL", TOK_FALSE |-> "AST_BOOL_LITERAL",
     TOK_NULL |-> "TOK_NULL"]

(* The node a one-token primary expression builds. *)
LiteralAst ==
    [TOK_STRING_LITERAL |-> "AST_STRING_LITERAL",
     TOK_NUMBER_LITERAL |-> "AST_NUMBER_LITERAL",
     TOK_TRUE |-> "AST_BOOL_LITERAL", TOK_FALSE |-> "AST_BOOL_LITERAL",
     TOK_NULL |-> "AST_NULL_LITERAL"]

LeafTags ==
    {"AST_IDENTIFIER", "AST_STRING_LITERAL", "AST_NUMBER_LITERAL",
     "AST_BOOL_LITERAL", "AST_NULL_LITERAL", "AST_ENUM_LITERAL"}

PostfixTags == {"AST_MEMBER", "AST_CALL", "AST_ARRAY_ACCESS", "AST_GROUPED_EXPR"}
=============================================================================
