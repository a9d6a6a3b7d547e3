---------------------------- MODULE Declarations ----------------------------
(***************************************************************************)
(* Variable declarations: declspec and parse_var_decl (parser.cpp          *)
(* 416-597) on top of the expression parser.  Every parser that meets a    *)
(* declaration (FrontEnd) takes the actions of this module as they are.    *)
(*                                                                         *)
(* A declaration is one activation: its frame has the locals of            *)
(* parse_var_decl and of the declspec it calls.  The enum values TYPE_...  *)
(* are sets of flags, `|` is \cup.                                         *)
(***************************************************************************)
EXTENDS ExprParser

VARIABLE types      \* Ast::type_pool

declVars == <<vars, types>>

(* The flags of a primitive type; `void` has those of `unsigned` (420).    *)
tag_to_primitive ==
    [TOK_SIGNED |-> {"SIGNED"}, TOK_UNSIGNED |-> {"UNSIGNED"},
     TOK_VOID |-> {"UNSIGNED"},
     TOK_INT |-> {"INT"}, TOK_CHAR |-> {"CHAR"}, TOK_SHORT |-> {"SHORT"},
     TOK_LONG |-> {"LONG"}, TOK_DOUBLE |-> {"DOUBLE"}, TOK_FLOAT |-> {"FLOAT"},
     TOK_I8 |-> {"SIGNED", "BITS8"}, TOK_U8 |-> {"UNSIGNED", "BITS8"},
     TOK_I16 |-> {"SIGNED", "BITS16"}, TOK_U16 |-> {"UNSIGNED", "BITS16"},
     TOK_I32 |-> {"SIGNED", "BITS32"}, TOK_U32 |-> {"UNSIGNED", "BITS32"},
     TOK_I64 |-> {"SIGNED", "BITS64"}, TOK_U64 |-> {"UNSIGNED", "BITS64"}]

TypeFlags == UNION {tag_to_primitive[t] : t \in DOMAIN tag_to_primitive}

new_type(id, base, len, is_const, is_static) ==
    types' = Append(types, [id |-> id, base |-> base, len |-> len,
                            is_const |-> is_const, is_static |-> is_static])

NewType == Len(types) + 1

(* The locals of an activation of parse_var_decl. *)
DeclFrame(at, tag, tok, name) ==
    [at |-> at, tag |-> tag, tok |-> tok, name |-> name, id |-> {},
     type |-> NULL, is_const |-> FALSE, is_static |-> FALSE]

Become(frame) == stack' = Append(Front(stack), frame)
Resume(at) == Become([Caller EXCEPT !.at = at])

(* Suspend the activation at `at` in a call of parse_expr. *)
AwaitExpr(at) ==
    /\ stack' = Front(stack) \o <<[Caller EXCEPT !.at = at], PrecedenceFrame(0)>>
    /\ pc' = "unary"

(* ast.new_node, with the name and the type of the declaration. *)
new_var_decl(init) ==
    /\ pool' = Append(pool, [tag |-> Caller.tag, tok |-> Caller.tok, kids |-> <<init>>,
                             name |-> Caller.name, type |-> Caller.type])
    /\ ret' = Len(pool) + 1
    /\ Pop
    /\ pc' = "return"

(***************************************************************************)
(* Declarations without a type.                                            *)
(***************************************************************************)

Inferred(kw, tag) ==
    /\ pc = "var_decl"
    /\ match(<<kw, "TOK_IDENTIFIER", "TOK_EQUAL">>)
    /\ advance(3)
    /\ stack' = stack \o <<DeclFrame("initializer", tag, toki, toki + 1),
                           PrecedenceFrame(0)>>
    /\ pc' = "unary"
    /\ UNCHANGED <<tokens, pool, ret, reported, types>>

parse_inferred_var_decl == Inferred("TOK_LET", "AST_INFERRED_VAR_DECL")

(* The test for a semicolon in parse_const_var_decl never succeeds: it is  *)
(* called when the token behind the name is TOK_EQUAL.                     *)
parse_const_var_decl == Inferred("TOK_CONST", "AST_CONST_DECL")

(***************************************************************************)
(* Declarations with one.                                                  *)
(***************************************************************************)

Count(condition) == IF condition THEN 1 ELSE 0

Typed ==
    /\ pc = "var_decl"
    /\ current # "TOK_LET"
    /\ ~match(<<"TOK_CONST", "TOK_IDENTIFIER", "TOK_EQUAL">>)

(* `const` and then `static`, each optional, before the type. *)
Qualifiers ==
    LET is_const == current = "TOK_CONST"
        is_static == Tok(toki + Count(is_const)) = "TOK_STATIC"
    IN  /\ Typed
        /\ advance(Count(is_const) + Count(is_static))
        /\ stack' = Append(stack, [DeclFrame("declaration", "AST_VAR_DECL", NULL, NULL)
                                   EXCEPT !.is_const = is_const, !.is_static = is_static])
        /\ pc' = "declspec"
        /\ UNCHANGED <<tokens, pool, ret, reported, types>>

SpecPrimitive ==
    /\ pc = "declspec"
    /\ current \in DOMAIN tag_to_primitive
    /\ Become([Caller EXCEPT !.id = @ \cup tag_to_primitive[current]])
    /\ advance(1)
    /\ UNCHANGED <<tokens, pool, ret, reported, pc, types>>

(* A type name, unless a primitive was seen: then it is the variable's.    *)
TakesName == current = "TOK_IDENTIFIER" /\ Caller.id = {}

SpecName ==
    /\ pc = "declspec"
    /\ TakesName
    /\ Become([Caller EXCEPT !.id = {"NAME"}])
    /\ advance(1)
    /\ pc' = "qualified"
    /\ UNCHANGED <<tokens, pool, ret, reported, types>>

Separators == {"TOK_PERIOD", "TOK_COLON_COLON"}

SpecMember ==
    /\ pc = "qualified"
    /\ current \in Separators
    /\ Tok(toki + 1) = "TOK_IDENTIFIER"
    /\ advance(2)
    /\ UNCHANGED <<tokens, pool, stack, ret, reported, pc, types>>

SpecEnd ==
    /\ \/ pc = "declspec" /\ current \notin DOMAIN tag_to_primitive /\ ~TakesName
       \/ pc = "qualified" /\ current \notin Separators
    /\ new_type(Caller.id, NULL, NULL, FALSE, FALSE)
    /\ Become([Caller EXCEPT !.type = NewType])
    /\ pc' = "pointers"
    /\ UNCHANGED <<tokens, toki, current, pool, ret, reported>>

PointerType_slip ==
    /\ pc = "pointers"
    /\ Tok(toki) = "TOK_ASTERISK"
    /\ new_type({"POINTER"}, Caller.type, NULL, FALSE, FALSE)
    /\ Become([Caller EXCEPT !.type = NewType])
    /\ advance(1)
    /\ UNCHANGED <<tokens, pool, ret, reported, pc>>

(* The qualifiers end up in the pointer types only.                        *)
PointerType ==
    /\ pc = "pointers"
    /\ Tok(toki) = "TOK_ASTERISK"
    /\ new_type({"POINTER"}, Caller.type, NULL, Caller.is_const, Caller.is_static)
    /\ Become([Caller EXCEPT !.type = NewType])
    /\ advance(1)
    /\ UNCHANGED <<tokens, pool, ret, reported, pc>>

DeclaratorName ==
    /\ pc = "pointers"
    /\ current = "TOK_IDENTIFIER"
    /\ Become([Caller EXCEPT !.tok = toki, !.name = toki])
    /\ advance(1)
    /\ pc' = "arrays"
    /\ UNCHANGED <<tokens, pool, ret, reported, types>>

ArrayUnsized ==
    /\ pc = "arrays"
    /\ match(<<"TOK_LBRACKET", "TOK_RBRACKET">>)
    /\ new_type({"ARRAY"}, Caller.type, NULL, FALSE, FALSE)
    /\ Become([Caller EXCEPT !.type = NewType])
    /\ advance(2)
    /\ UNCHANGED <<tokens, pool, ret, reported, pc>>

ArrayLength ==
    /\ pc = "arrays"
    /\ current = "TOK_LBRACKET"
    /\ ~match(<<"TOK_LBRACKET", "TOK_RBRACKET">>)
    /\ advance(1)
    /\ AwaitExpr("array_len")
    /\ UNCHANGED <<tokens, pool, ret, reported, types>>

CloseArray_slip ==
    /\ ReturnTo("array_len")
    /\ current = "TOK_RBRACKET"
    /\ new_type({"ARRAY"}, NewType, ret, FALSE, FALSE)
    /\ Become([Caller EXCEPT !.at = "declaration", !.type = NewType])
    /\ advance(1)
    /\ pc' = "arrays"
    /\ UNCHANGED <<tokens, pool, ret, reported>>

CloseArray ==
    /\ ReturnTo("array_len")
    /\ current = "TOK_RBRACKET"
    /\ new_type({"ARRAY"}, Caller.type, ret, FALSE, FALSE)
    /\ Become([Caller EXCEPT !.at = "declaration", !.type = NewType])
    /\ advance(1)
    /\ pc' = "arrays"
    /\ UNCHANGED <<tokens, pool, ret, reported>>

Initializer ==
    /\ pc = "arrays"
    /\ current = "TOK_EQUAL"
    /\ advance(1)
    /\ AwaitExpr("initializer")
    /\ UNCHANGED <<tokens, pool, ret, reported, types>>

(* The initializer is what parse_expr returns, nullptr included.           *)
Initialized ==
    /\ ReturnTo("initializer")
    /\ new_var_decl(ret)
    /\ UNCHANGED <<tokens, toki, current, reported, types>>

NoInitializer ==
    /\ pc = "arrays"
    /\ current \notin {"TOK_LBRACKET", "TOK_EQUAL"}
    /\ new_var_decl(NULL)
    /\ UNCHANGED <<tokens, toki, current, reported, types>>

Exit ==
    /\ reported' = TRUE
    /\ pc' = "exit"
    /\ UNCHANGED <<tokens, toki, current, pool, stack, ret>>

(* An expect_token of the functions above finds another token.             *)
DeclarationFails ==
    /\ \/ pc = "var_decl" /\ ~Typed /\ ~match(<<current, "TOK_IDENTIFIER", "TOK_EQUAL">>)
       \/ pc = "qualified" /\ current \in Separators /\ Tok(toki + 1) # "TOK_IDENTIFIER"
       \/ pc = "pointers" /\ current \notin {"TOK_ASTERISK", "TOK_IDENTIFIER"}
       \/ ReturnTo("array_len") /\ current # "TOK_RBRACKET"
    /\ Exit
    /\ UNCHANGED types

parse_var_decl ==
    \/ parse_inferred_var_decl \/ parse_const_var_decl
    \/ Qualifiers
    \/ SpecPrimitive \/ SpecName \/ SpecMember \/ SpecEnd
    \/ PointerType \/ DeclaratorName
    \/ ArrayUnsized \/ ArrayLength \/ CloseArray
    \/ Initializer \/ Initialized \/ NoInitializer
    \/ DeclarationFails

parse_expr ==
    /\ \/ PrefixOperator \/ new_unary
       \/ Primary
       \/ TakeOperator \/ LeaveLoop \/ new_binary
    /\ UNCHANGED types

-----------------------------------------------------------------------------

VarDecls == {n \in 1 .. Len(pool) : pool[n].tag = "AST_VAR_DECL" /\ pool[n].type # NULL}

(* The type of a declaration, outermost part first.                        *)
Layers[t \in 0 .. Len(types)] ==
    IF t = NULL THEN <<>> ELSE <<types[t]>> \o Layers[types[t].base]

(* Where the tokens with one of these tags that stand before token i begin. *)
RunStart(tags, i) ==
    CHOOSE k \in 0 .. i :
        /\ \A j \in k .. i - 1 : Tok(j) \in tags
        /\ k > 0 => Tok(k - 1) \notin tags

(* Where the identifiers and separators begin that end with token i.       *)
NameStart[i \in Nat] ==
    IF i > 1 /\ Tok(i - 1) \in Separators /\ Tok(i - 2) = "TOK_IDENTIFIER"
    THEN NameStart[i - 2]
    ELSE i

(* The type written before token i, and where it begins: primitive types,  *)
(* a name, or nothing.  A name behind `struct` is not a type but the head  *)
(* of a struct without a body, which ends in front of a declaration.       *)
Specifier(i) ==
    LET primitives == RunStart(DOMAIN tag_to_primitive, i)
        name == NameStart[i - 1]
    IN  IF primitives < i
        THEN [start |-> primitives,
              id |-> UNION {tag_to_primitive[Tok(j)] : j \in primitives .. i - 1}]
        ELSE IF Tok(i - 1) = "TOK_IDENTIFIER" /\ Tok(name - 1) \notin {"TOK_STRUCT", "TOK_UNION"}
        THEN [start |-> name, id |-> {"NAME"}]
        ELSE [start |-> i, id |-> {}]

(* The index of the bracket that closes the one at i.                      *)
Closing(i) ==
    LET Occurrences(tag, k) == Cardinality({j \in i .. k : Tok(j) = tag})
    IN  CHOOSE k \in i .. Len(tokens) - 1 :
            /\ Tok(k) = "TOK_RBRACKET"
            /\ Occurrences("TOK_LBRACKET", k) = Occurrences("TOK_RBRACKET", k)
            /\ \A j \in i .. k - 1 :
                   Occurrences("TOK_LBRACKET", j) > Occurrences("TOK_RBRACKET", j)

(* The tokens between the brackets of each dimension from token i on.      *)
Dimensions[i \in Nat] ==
    IF Tok(i) # "TOK_LBRACKET" THEN <<>>
    ELSE <<i + 1 .. Closing(i) - 1>> \o Dimensions[Closing(i) + 1]

(* Layer by layer, the type of a declaration is what is written around its *)
(* name, read inwards from the outermost layer: the dimensions from the    *)
(* last to the first, each with the length that stands between its own     *)
(* brackets; the stars, each with the `const` and `static` in front of the *)
(* type; and the type as declspec read it, all flags of its words or a     *)
(* name, without them.  An array has no length where none is written, or   *)
(* where what is written is no expression (`x[a.]`): the parser has said so*)
(* then, and goes on.  Lengths are parsed by nested activations, and the   *)
(* loops wrap `base_ty` in place (parser.cpp 455-502, 537-583).            *)
DeclaratorShape ==
    \A n \in VarDecls :
        LET layers == Layers[pool[n].type]
            dims == Dimensions[pool[n].name + 1]
            first == RunStart({"TOK_ASTERISK"}, pool[n].name)
            stars == pool[n].name - first
            spec == Specifier(first)
            is_static == Tok(spec.start - 1) = "TOK_STATIC"
            is_const == Tok(spec.start - 1 - Count(is_static)) = "TOK_CONST"
        IN  /\ Len(layers) = Len(dims) + stars + 1
            /\ \A k \in 1 .. Len(dims) :
                   LET written == dims[Len(dims) + 1 - k]
                       len == layers[k].len
                   IN  /\ layers[k].id = {"ARRAY"}
                       /\ ~layers[k].is_const /\ ~layers[k].is_static
                       /\ IF len = NULL THEN written = {} \/ reported
                                        ELSE pool[len].tok \in written
            /\ \A k \in Len(dims) + 1 .. Len(dims) + stars :
                   /\ layers[k].id = {"POINTER"} /\ layers[k].len = NULL
                   /\ layers[k].is_const = is_const /\ layers[k].is_static = is_static
            /\ Last(layers) = [id |-> spec.id, base |-> NULL, len |-> NULL,
                               is_const |-> FALSE, is_static |-> FALSE]
=============================================================================
