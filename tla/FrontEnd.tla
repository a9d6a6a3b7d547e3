------------------------------ MODULE FrontEnd ------------------------------
(***************************************************************************)
(* The front end that main drives (new_ast in ast.cpp 6-19, main.cpp       *)
(* 18-37, parser.cpp 685-803): pass 1 (record_types) registers the names   *)
(* of the struct types, the cursor goes back to the first token, and pass  *)
(* 2 (parse_struct_decl) builds the tree of the first declaration.         *)
(*                                                                         *)
(* A name of a type is the sequence of what is written in it: indices of   *)
(* identifier tokens, and Dot.                                             *)
(***************************************************************************)
EXTENDS Printer

VARIABLES
    known_types,    \* Ast::known_types; the keys of Ast::symbols are the same
    pass            \* 1 under new_ast, 2 under main's parse_struct_decl

frontVars == <<declVars, known_types, pass>>

Dot == -1

Records == {"TOK_STRUCT", "TOK_UNION"}

(* String::empty() asks for the capacity, and a String made from "" has 8. *)
empty(name) == FALSE

next_prefix_slip(name) == IF empty(name) THEN <<>> ELSE name

next_prefix(name) == IF empty(name) THEN <<>> ELSE Append(name, Dot)

(* The keyword of a struct is at the cursor: is there a name, is there a   *)
(* body, and how many tokens are they?                                     *)
Named == Tok(toki + 1) = "TOK_IDENTIFIER"
HasBody == Tok(toki + 1 + Count(Named)) = "TOK_LBRACE"
advance_head == advance(1 + Count(Named) + Count(HasBody))

RecordFrame(at, name) == [at |-> at, name |-> name]
StructFrame(at, node, child, field) ==
    [at |-> at, node |-> node, child |-> child, field |-> field]

(***************************************************************************)
(* Pass 1: record_types and record_struct_decl.                            *)
(***************************************************************************)

record_types ==
    /\ pc = "record_types"
    /\ current = "TOK_STRUCT"
    /\ stack' = <<RecordFrame("record", <<>>)>>
    /\ pc' = "record_struct"
    /\ UNCHANGED <<tokens, toki, current, pool, ret, reported, types, known_types, pass>>

record_types_default_slip ==
    /\ pc = "record_types"
    /\ current # "TOK_STRUCT"
    /\ UNCHANGED frontVars

(* The default of the switch skips a token, TOK_EOF too: `current` is then *)
(* whatever lies behind the last token in memory.                          *)
record_types_default ==
    /\ pc = "record_types"
    /\ current # "TOK_STRUCT"
    /\ toki' = toki + 1
    /\ current' = IF toki + 1 < Len(tokens) THEN Tok(toki + 1) ELSE "garbage"
    /\ pc' = "recorded"
    /\ UNCHANGED <<tokens, pool, stack, ret, reported, types, known_types, pass>>

(* new_ast puts the cursor back, and main starts pass 2.                   *)
new_ast ==
    /\ pc = "recorded"
    /\ toki' = 0
    /\ current' = tokens[1]
    /\ pass' = 2
    /\ pc' = "struct_decl"
    /\ UNCHANGED <<tokens, pool, stack, ret, reported, types, known_types>>

(* The frame holds parent_prefix until full_type_name takes its place: an  *)
(* anonymous struct starts from "" and forgets the prefix.                 *)
record_struct_decl ==
    LET full_type_name == IF Named THEN Append(Caller.name, toki + 1) ELSE <<>>
    IN  /\ pc = "record_struct"
        /\ current = "TOK_STRUCT"
        /\ known_types' =
               IF Named THEN Append(known_types, full_type_name) ELSE known_types
        /\ advance_head
        /\ IF HasBody
           THEN Become([Caller EXCEPT !.name = full_type_name]) /\ pc' = "record_body"
           ELSE Pop /\ pc' = "return"
        /\ UNCHANGED <<tokens, pool, ret, reported, types, pass>>

RecordNested ==
    /\ pc = "record_body"
    /\ current \in Records
    /\ stack' = Front(stack) \o <<[Caller EXCEPT !.at = "record_nested"],
                                  RecordFrame("record", next_prefix(Caller.name))>>
    /\ pc' = "record_struct"
    /\ UNCHANGED <<tokens, toki, current, pool, ret, reported, types, known_types, pass>>

RecordNestedEnd_slip ==
    /\ ReturnTo("record_nested")
    /\ current = "TOK_IDENTIFIER" => Tok(toki + 1) \in {"TOK_SEMICOLON", "TOK_EQUAL"}
    /\ advance(IF current = "TOK_IDENTIFIER" THEN 2 ELSE 0)
    /\ Resume("record")
    /\ pc' = "record_body"
    /\ UNCHANGED <<tokens, pool, ret, reported, types, known_types, pass>>

RecordNestedEnd ==
    /\ ReturnTo("record_nested")
    /\ current = "TOK_IDENTIFIER" => Tok(toki + 1) = "TOK_SEMICOLON"
    /\ advance(IF current = "TOK_IDENTIFIER" THEN 2 ELSE 0)
    /\ Resume("record")
    /\ pc' = "record_body"
    /\ UNCHANGED <<tokens, pool, ret, reported, types, known_types, pass>>

RecordField ==
    /\ pc = "record_body"
    /\ current \notin Records \cup {"TOK_RBRACE", "TOK_EOF"}
    /\ Resume("record_field")
    /\ pc' = "var_decl"
    /\ UNCHANGED <<tokens, toki, current, pool, ret, reported, types, known_types, pass>>

RecordFieldEnd ==
    /\ ReturnTo("record_field")
    /\ current = "TOK_SEMICOLON"
    /\ advance(1)
    /\ Resume("record")
    /\ pc' = "record_body"
    /\ UNCHANGED <<tokens, pool, ret, reported, types, known_types, pass>>

RecordClose ==
    /\ pc = "record_body"
    /\ current = "TOK_RBRACE"
    /\ advance(1)
    /\ Pop
    /\ pc' = "return"
    /\ UNCHANGED <<tokens, pool, ret, reported, types, known_types, pass>>

(* goto blk *)
RecordAgain ==
    /\ pc = "return" /\ stack = <<>> /\ pass = 1
    /\ pc' = "record_types"
    /\ UNCHANGED <<tokens, toki, current, pool, stack, ret, reported, types,
                   known_types, pass>>

(***************************************************************************)
(* Pass 2: parse_struct_decl.  parent_prefix is nullptr in every call.     *)
(***************************************************************************)

parse_struct_decl ==
    /\ pc = "struct_decl"
    /\ current = "TOK_STRUCT"
    /\ pool' = Append(pool, [tag |-> "AST_STRUCT", tok |-> toki + Count(Named),
                             kids |-> <<>>, sub_decls |-> <<>>])
    /\ advance_head
    /\ IF HasBody
       THEN /\ stack' = Append(stack, StructFrame("struct", Len(pool) + 1, NULL, NULL))
            /\ pc' = "struct_body"
            /\ UNCHANGED ret
       ELSE /\ ret' = Len(pool) + 1
            /\ pc' = "return"
            /\ UNCHANGED stack
    /\ UNCHANGED <<tokens, reported, types, known_types, pass>>

StructField ==
    /\ pc = "struct_body"
    /\ current \notin Records \cup {"TOK_RBRACE", "TOK_EOF"}
    /\ Resume("struct_field")
    /\ pc' = "var_decl"
    /\ UNCHANGED <<tokens, toki, current, pool, ret, reported, types, known_types, pass>>

StructFieldEnd ==
    /\ ReturnTo("struct_field")
    /\ current = "TOK_SEMICOLON"
    /\ pool' = [pool EXCEPT ![Caller.node].kids = Append(@, ret)]
    /\ advance(1)
    /\ Resume("struct")
    /\ pc' = "struct_body"
    /\ UNCHANGED <<tokens, ret, reported, types, known_types, pass>>

StructNested ==
    /\ pc = "struct_body"
    /\ current \in Records
    /\ Resume("struct_nested")
    /\ pc' = "struct_decl"
    /\ UNCHANGED <<tokens, toki, current, pool, ret, reported, types, known_types, pass>>

(* `return n` inside the loop: the struct ends with its first nested one.  *)
ReturnEarly(nodes) ==
    /\ pool' = nodes
    /\ ret' = Caller.node
    /\ Pop
    /\ pc' = "return"

StructNestedEnd ==
    /\ ReturnTo("struct_nested")
    /\ current # "TOK_IDENTIFIER"
    /\ ReturnEarly([pool EXCEPT ![Caller.node].sub_decls = Append(@, ret)])
    /\ UNCHANGED <<tokens, toki, current, reported, types, known_types, pass>>

(* The field named behind a nested struct.  Its type is a symbol looked up *)
(* by the name of the struct around it, declared with the type nullptr.    *)
(* The branch that parses an initializer (783-786) is left out: pass 1 has *)
(* refused every text that would take it (PassesAgree).                    *)
NestedField ==
    /\ ReturnTo("struct_nested")
    /\ current = "TOK_IDENTIFIER"
    /\ known_types # <<>>
    /\ pool' = Append(pool, [tag |-> "AST_VAR_DECL", tok |-> toki, kids |-> <<NULL>>,
                             name |-> toki, type |-> NULL])
    /\ advance(1)
    /\ Become(StructFrame("nested_field", Caller.node, ret, Len(pool) + 1))
    /\ UNCHANGED <<tokens, ret, reported, pc, types, known_types, pass>>

NestedFieldEnd ==
    /\ ReturnTo("nested_field")
    /\ current = "TOK_SEMICOLON"
    /\ advance(1)
    /\ ReturnEarly([pool EXCEPT ![Caller.node].kids = Append(@, Caller.field),
                                ![Caller.node].sub_decls = Append(@, Caller.child)])
    /\ UNCHANGED <<tokens, reported, types, known_types, pass>>

StructClose_slip ==
    /\ pc = "struct_body"
    /\ current = "TOK_RBRACE"
    /\ ret' = Caller.node
    /\ Pop
    /\ pc' = "return"
    /\ UNCHANGED <<tokens, toki, current, pool, reported, types, known_types, pass>>

StructClose ==
    /\ pc = "struct_body"
    /\ current = "TOK_RBRACE"
    /\ advance(1)
    /\ ret' = Caller.node
    /\ Pop
    /\ pc' = "return"
    /\ UNCHANGED <<tokens, pool, reported, types, known_types, pass>>

(* symbols.lookup.  The keys of the table point into Strings that were     *)
(* freed when record_struct_decl returned, so a name may or may not be     *)
(* found (unwrap of nothing exits); and Option(T) copies the symbol it     *)
(* found over memory that malloc did not initialise, whose String frees    *)
(* the pointer it seems to hold.                                           *)
LookupFails ==
    /\ \/ pc = "struct_decl" /\ current = "TOK_STRUCT" /\ Named /\ known_types # <<>>
       \/ ReturnTo("struct_nested") /\ current = "TOK_IDENTIFIER"
    /\ pc' = "crash"
    /\ UNCHANGED <<tokens, toki, current, pool, stack, ret, reported, types,
                   known_types, pass>>

(* An expect_token of the functions above finds another token.             *)
StructFails ==
    /\ \/ pc \in {"record_struct", "struct_decl"} /\ current # "TOK_STRUCT"
       \/ pc \in {"record_body", "struct_body"} /\ current = "TOK_EOF"
       \/ ReturnTo("record_nested") /\ current = "TOK_IDENTIFIER"
              /\ Tok(toki + 1) # "TOK_SEMICOLON"
       \/ /\ ReturnTo("record_field") \/ ReturnTo("struct_field") \/ ReturnTo("nested_field")
          /\ current # "TOK_SEMICOLON"
    /\ Exit
    /\ UNCHANGED <<types, known_types, pass>>

(* main prints the tree and the known types.                               *)
main ==
    /\ pc = "return" /\ stack = <<>> /\ pass = 2
    /\ pc' = IF pp_node_crashes(ret) THEN "crash" ELSE "done"
    /\ UNCHANGED <<tokens, toki, current, pool, stack, ret, reported, types,
                   known_types, pass>>

-----------------------------------------------------------------------------

FrontInit ==
    /\ tokens \in Inputs
    /\ toki = 0
    /\ current = tokens[1]
    /\ pool = <<>> /\ types = <<>> /\ known_types = <<>>
    /\ stack = <<>>
    /\ ret = NULL
    /\ reported = FALSE
    /\ pc = "record_types"
    /\ pass = 1

RecordTypes ==
    \/ record_types \/ record_types_default \/ new_ast
    \/ record_struct_decl \/ RecordAgain
    \/ RecordNested \/ RecordNestedEnd
    \/ RecordField \/ RecordFieldEnd \/ RecordClose

ParseStruct ==
    \/ parse_struct_decl
    \/ StructField \/ StructFieldEnd \/ StructClose
    \/ StructNested \/ StructNestedEnd
    \/ NestedField \/ NestedFieldEnd
    \/ LookupFails \/ main

FrontNext ==
    \/ RecordTypes \/ ParseStruct \/ StructFails
    \/ (parse_expr \/ parse_var_decl) /\ UNCHANGED <<known_types, pass>>

FrontSpec == FrontInit /\ [][FrontNext]_frontVars /\ WF_frontVars(FrontNext)
-----------------------------------------------------------------------------

FrontPc ==
    {"record_types", "recorded", "record_struct", "record_body", "struct_decl",
     "struct_body", "var_decl", "declspec", "qualified", "pointers", "arrays",
     "unary", "primary", "postfix", "return", "done", "exit", "crash"}

(* The type invariant.  The cached token is the one under the cursor, also *)
(* across the two passes, and the cursor is on a token except where        *)
(* record_types has just skipped the last one; a type is older than the    *)
(* types derived from it, so Type::to_str, which follows `base`, ends.     *)
FrontTypeOK ==
    /\ tokens \in Inputs
    /\ toki \in 0 .. Len(tokens)
    /\ current \in {tokens[i] : i \in 1 .. Len(tokens)} \cup {"garbage"}
    /\ pc # "recorded" => CursorSound
    /\ \A n \in 1 .. Len(pool) :
           pool[n].tok \in Nat /\ pool[n].kids \in Seq(0 .. Len(pool))
    /\ \A t \in 1 .. Len(types) :
           types[t] \in [id : SUBSET (TypeFlags \cup {"NAME", "POINTER", "ARRAY"}),
                         base : 0 .. t - 1, len : 0 .. Len(pool),
                         is_const : BOOLEAN, is_static : BOOLEAN]
    /\ known_types \in Seq(Seq(Int))
    /\ ret \in 0 .. Len(pool)
    /\ pass \in {1, 2}
    /\ pc \in FrontPc

CountTag(tag, from, to) == Cardinality({i \in from .. to : Tok(i) = tag})

(* The full name of the struct whose name is token i, within these scopes. *)
FullName(scopes, i) ==
    IF scopes = <<>> THEN <<i>> ELSE Last(scopes) \o <<Dot, i>>

(* The structs whose braces are open before token n, by their full names,  *)
(* outermost first.  That of a struct without a name is empty.             *)
Scopes[n \in Nat] ==
    IF n = 0 THEN <<>>
    ELSE LET outer == Scopes[n - 1]
         IN  IF Tok(n - 1) = "TOK_LBRACE"
             THEN Append(outer, IF n > 1 /\ Tok(n - 2) = "TOK_IDENTIFIER"
                                THEN FullName(outer, n - 2) ELSE <<>>)
             ELSE IF Tok(n - 1) = "TOK_RBRACE" /\ outer # <<>> THEN Front(outer)
             ELSE outer

(* The full names of the structs before token n, in order.                 *)
StructNames[n \in Nat] ==
    IF n = 0 THEN <<>>
    ELSE IF n > 1 /\ Tok(n - 1) = "TOK_IDENTIFIER" /\ Tok(n - 2) = "TOK_STRUCT"
    THEN Append(StructNames[n - 1], FullName(Scopes[n - 1], n - 1))
    ELSE StructNames[n - 1]

(* At every moment of pass 1 the known types are the structs whose names   *)
(* were read so far, nested ones under the names of the structs around     *)
(* them, each once, in the order of the text and before its own body is    *)
(* parsed (parser.cpp 698-699), through any nesting of record_struct_decl. *)
RegisteredNames == pass = 1 => known_types = StructNames[toki]

(* "If the parent has a name, pass it down with a dot. Otherwise, pass     *)
(* nothing." (parser.cpp 715-716): no name starts with a dot.              *)
NoNameStartsWithDot ==
    \A k \in DOMAIN known_types : known_types[k][1] # Dot

NoNesting ==
    \A i \in 0 .. Len(tokens) - 1 : Tok(i) \in Records => Scopes[i] = <<>>

(* Where the struct at the first token ends, if it has no struct inside.   *)
FirstStructEnd ==
    LET head == 1 + Count(Tok(1) = "TOK_IDENTIFIER")
    IN  IF Tok(head) = "TOK_LBRACE"
        THEN 1 + Min({i \in 0 .. Len(tokens) - 1 : Tok(i) = "TOK_RBRACE"})
        ELSE head

(* The two passes read the same language: a text that starts with a struct *)
(* and that pass 1 has accepted is not refused by pass 2, which ends right *)
(* behind the struct.  Nested structs are left out: pass 2 returns early   *)
(* from the struct around one.  The initializer that pass 2 would take for *)
(* a field named behind a nested struct has always been refused by pass 1. *)
PassesAgree ==
    pass = 2 /\ Tok(0) = "TOK_STRUCT" =>
        /\ NoNesting => pc # "exit" /\ (pc = "done" => toki = FirstStructEnd)
        /\ ReturnTo("struct_nested") => ~match(<<"TOK_IDENTIFIER", "TOK_EQUAL">>)

(* The lines of the output that name a declaration.                        *)
FieldLines ==
    SelectSeq(pp_node[ret], LAMBDA n : pool[n].tag \in DeclTags)

StructLines ==
    SelectSeq(pp_node[ret], LAMBDA n : pool[n].tag = "AST_STRUCT")

(* What main prints is the text that pass 2 has read: one line for each    *)
(* struct, in order, and one for each field, in order and without a gap,   *)
(* through the nodes that parse_struct_decl collects in two lists and      *)
(* pp_node walks one after the other.  It never gets to a field named      *)
(* behind a nested struct, which has no type: printing that one crashes.   *)
FieldsPrinted ==
    pc = "done" =>
        /\ \A k \in DOMAIN FieldLines :
               CountTag("TOK_SEMICOLON", 0, pool[FieldLines[k]].name) = k - 1
        /\ Len(FieldLines) = CountTag("TOK_SEMICOLON", 0, toki - 1)
        /\ \A k \in DOMAIN StructLines :
               CountTag("TOK_STRUCT", 0, pool[StructLines[k]].tok) = k
        /\ Len(StructLines) = CountTag("TOK_STRUCT", 0, toki - 1)

(* Both passes end, except in the argument list the expression parser      *)
(* cannot leave.                                                           *)
FrontEndStops == <>(Stopped \/ ArgumentsStuck)
=============================================================================
