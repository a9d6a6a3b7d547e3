------------------------------ MODULE Statements ------------------------------
(***************************************************************************)
(* The statement parser: parse_stmt and what it calls (parser.cpp 599-683, *)
(* 805-868), on top of the declaration and the expression parser.  main    *)
(* does not reach parse_stmt yet; ast.h declares it for the functions that *)
(* will, and a text is entered here at its first token.                    *)
(*                                                                         *)
(* The kids of an AST_IF are its condition, its body and its else body,    *)
(* those of an AST_WHILE its condition and its body, those of an AST_BLOCK *)
(* the statements of the list.                                             *)
(***************************************************************************)
EXTENDS Declarations

(* An activation of parse_if or parse_while keeps its node, one of         *)
(* parse_block its brace and its list, the return case its keyword.        *)
StmtFrame(at, tok, node, stmts) ==
    [at |-> at, tok |-> tok, node |-> node, stmts |-> stmts]

Link(k) == pool' = [pool EXCEPT ![Caller.node].kids[k] = ret]

Return(node) == ret' = node /\ Pop /\ pc' = "return"

(***************************************************************************)
(* parse_if and parse_while.                                               *)
(***************************************************************************)

(* The keyword, the node with all its pointers null, and the condition.    *)
Conditional(kw, tag, at, kids) ==
    /\ pc = "stmt"
    /\ current = kw
    /\ Tok(toki + 1) = "TOK_LPAREN"
    /\ pool' = Append(pool, [tag |-> tag, tok |-> toki, kids |-> kids])
    /\ advance(2)
    /\ stack' = stack \o <<StmtFrame(at, toki, Len(pool) + 1, <<>>), PrecedenceFrame(0)>>
    /\ pc' = "unary"
    /\ UNCHANGED <<tokens, ret, reported, types>>

parse_if_slip == Conditional("TOK_IF", "AST_IF", "while_cond", <<NULL, NULL, NULL>>)

parse_if == Conditional("TOK_IF", "AST_IF", "if_cond", <<NULL, NULL, NULL>>)

parse_while == Conditional("TOK_WHILE", "AST_WHILE", "while_cond", <<NULL, NULL>>)

Condition(at, body) ==
    /\ ReturnTo(at)
    /\ current = "TOK_RPAREN"
    /\ Link(1)
    /\ advance(1)
    /\ Resume(body)
    /\ pc' = "stmt"
    /\ UNCHANGED <<tokens, ret, reported, types>>

IfCondition == Condition("if_cond", "then_body")
WhileCondition == Condition("while_cond", "while_body")

Else_slip ==
    /\ ReturnTo("then_body")
    /\ current = "TOK_ELSE"
    /\ Link(3)
    /\ advance(1)
    /\ Resume("else_body")
    /\ pc' = "stmt"
    /\ UNCHANGED <<tokens, ret, reported, types>>

Else ==
    /\ ReturnTo("then_body")
    /\ current = "TOK_ELSE"
    /\ Link(2)
    /\ advance(1)
    /\ Resume("else_body")
    /\ pc' = "stmt"
    /\ UNCHANGED <<tokens, ret, reported, types>>

BodyEnd(at, k) ==
    /\ ReturnTo(at)
    /\ Link(k)
    /\ Return(Caller.node)
    /\ UNCHANGED <<tokens, toki, current, reported, types>>

NoElse_slip == BodyEnd("then_body", 2)

NoElse == current # "TOK_ELSE" /\ BodyEnd("then_body", 2)
ElseEnd == BodyEnd("else_body", 3)
WhileEnd == BodyEnd("while_body", 2)

(* parse_for and parse_switch return nullptr and consume nothing.          *)
Unfinished == {"TOK_FOR", "TOK_SWITCH"}

parse_for_or_switch ==
    /\ pc = "stmt"
    /\ current \in Unfinished
    /\ ret' = NULL
    /\ pc' = "return"
    /\ UNCHANGED <<tokens, toki, current, pool, stack, reported, types>>

(***************************************************************************)
(* parse_block.                                                            *)
(***************************************************************************)

parse_block ==
    /\ pc = "stmt"
    /\ current = "TOK_LBRACE"
    /\ advance(1)
    /\ stack' = Append(stack, StmtFrame("block", toki, NULL, <<>>))
    /\ pc' = "block"
    /\ UNCHANGED <<tokens, pool, ret, reported, types>>

BlockStatement ==
    /\ pc = "block"
    /\ Tok(toki) # "TOK_RBRACE"
    /\ pc' = "stmt"
    /\ UNCHANGED <<tokens, toki, current, pool, stack, ret, reported, types>>

(* stmts.append(statement), null or not.  A statement list that makes      *)
(* progress is never longer than the text; past that the list is left as   *)
(* it is, so that the endless loop at a `for` comes back to its state.     *)
BlockAppend ==
    /\ ReturnTo("block")
    /\ Become([Caller EXCEPT !.stmts = IF Len(@) < Len(tokens) THEN Append(@, ret) ELSE @])
    /\ pc' = "block"
    /\ UNCHANGED <<tokens, toki, current, pool, ret, reported, types>>

BlockEnd ==
    /\ pc = "block"
    /\ Tok(toki) = "TOK_RBRACE"
    /\ advance(1)
    /\ new_node("AST_BLOCK", Caller.tok, Caller.stmts)
    /\ Pop
    /\ pc' = "return"
    /\ UNCHANGED <<tokens, reported, types>>

(***************************************************************************)
(* Declarations, expressions and returns.                                  *)
(***************************************************************************)

(* Behind the identifiers and separators that start at token i.            *)
AfterTypeName[i \in Nat] ==
    IF Tok(i) # "TOK_IDENTIFIER" THEN i
    ELSE IF Tok(i + 1) \in Separators THEN AfterTypeName[i + 2]
    ELSE i + 1

is_declaration_slip(start) ==
    LET i == AfterTypeName[start]
    IN  \/ Tok(i) = "TOK_IDENTIFIER"
        \/ Tok(i) = "TOK_ASTERISK"

is_declaration(start) ==
    LET i == AfterTypeName[start]
    IN  \/ Tok(i) = "TOK_IDENTIFIER"
        \/ Tok(i) = "TOK_ASTERISK" /\ Tok(i + 1) = "TOK_IDENTIFIER"

DeclarationKeywords ==
    DOMAIN tag_to_primitive \cup {"TOK_STATIC", "TOK_LET", "TOK_CONST"}

KeywordDeclaration ==
    /\ pc = "stmt"
    /\ current \in DeclarationKeywords
    /\ stack' = Append(stack, StmtFrame("semicolon", toki, NULL, <<>>))
    /\ pc' = "var_decl"
    /\ UNCHANGED <<tokens, toki, current, pool, ret, reported, types>>

(* `return parse_var_decl(ast)`: nobody asks for the semicolon.            *)
NamedDeclaration ==
    /\ pc = "stmt"
    /\ current = "TOK_IDENTIFIER" /\ is_declaration(toki)
    /\ pc' = "var_decl"
    /\ UNCHANGED <<tokens, toki, current, pool, stack, ret, reported, types>>

StatementKeywords ==
    {"TOK_IF", "TOK_WHILE", "TOK_LBRACE", "TOK_RETURN", "TOK_ELSE"}
        \cup Unfinished \cup DeclarationKeywords

ExpressionStatement ==
    /\ pc = "stmt"
    /\ current \notin StatementKeywords
    /\ ~(current = "TOK_IDENTIFIER" /\ is_declaration(toki))
    /\ stack' = stack \o <<StmtFrame("semicolon", toki, NULL, <<>>), PrecedenceFrame(0)>>
    /\ pc' = "unary"
    /\ UNCHANGED <<tokens, toki, current, pool, ret, reported, types>>

Semicolon_slip ==
    /\ ReturnTo("semicolon")
    /\ current = "TOK_SEMICOLON"
    /\ Pop
    /\ UNCHANGED <<tokens, toki, current, pool, ret, reported, pc, types>>

(* Declarations and expressions are returned as they are.                  *)
Semicolon ==
    /\ ReturnTo("semicolon")
    /\ current = "TOK_SEMICOLON"
    /\ advance(1)
    /\ Pop
    /\ UNCHANGED <<tokens, pool, ret, reported, pc, types>>

ReturnStatement ==
    /\ pc = "stmt"
    /\ current = "TOK_RETURN"
    /\ advance(1)
    /\ stack' = stack \o <<StmtFrame("return_expr", toki, NULL, <<>>), PrecedenceFrame(0)>>
    /\ pc' = "unary"
    /\ UNCHANGED <<tokens, pool, ret, reported, types>>

ReturnEnd ==
    /\ ReturnTo("return_expr")
    /\ current = "TOK_SEMICOLON"
    /\ advance(1)
    /\ new_node("AST_RETURN", Caller.tok, <<ret>>)
    /\ Pop
    /\ UNCHANGED <<tokens, reported, pc, types>>

(* An else without an if, or an expect_token finds another token.          *)
StatementFails ==
    /\ \/ pc = "stmt" /\ current = "TOK_ELSE"
       \/ pc = "stmt" /\ current \in {"TOK_IF", "TOK_WHILE"} /\ Tok(toki + 1) # "TOK_LPAREN"
       \/ (ReturnTo("if_cond") \/ ReturnTo("while_cond")) /\ current # "TOK_RPAREN"
       \/ (ReturnTo("semicolon") \/ ReturnTo("return_expr")) /\ current # "TOK_SEMICOLON"
    /\ Exit
    /\ UNCHANGED types

-----------------------------------------------------------------------------

StmtInit ==
    /\ tokens \in Inputs
    /\ toki = 0
    /\ current = tokens[1]
    /\ pool = <<>> /\ types = <<>>
    /\ stack = <<>>
    /\ ret = NULL
    /\ reported = FALSE
    /\ pc = "stmt"

parse_stmt ==
    \/ parse_if \/ IfCondition \/ Else \/ NoElse \/ ElseEnd
    \/ parse_while \/ WhileCondition \/ WhileEnd
    \/ parse_for_or_switch
    \/ parse_block \/ BlockStatement \/ BlockAppend \/ BlockEnd
    \/ KeywordDeclaration \/ NamedDeclaration
    \/ ExpressionStatement \/ Semicolon
    \/ ReturnStatement \/ ReturnEnd
    \/ StatementFails

StmtNext ==
    \/ parse_stmt \/ parse_var_decl \/ parse_expr
    \/ Finish /\ UNCHANGED types

StmtSpec == StmtInit /\ [][StmtNext]_declVars /\ WF_declVars(StmtNext)
-----------------------------------------------------------------------------

StmtPc ==
    {"stmt", "block", "var_decl", "declspec", "qualified", "pointers", "arrays",
     "unary", "primary", "postfix", "return", "done", "exit", "crash"}

Owner ==
    [if_cond |-> "AST_IF", then_body |-> "AST_IF", else_body |-> "AST_IF",
     while_cond |-> "AST_WHILE", while_body |-> "AST_WHILE"]

(* The type invariant: the cached token is the one under the cursor, the   *)
(* pointers are nodes of the pool, and an activation of parse_if or        *)
(* parse_while fills a node of its kind.                                   *)
StmtTypeOK ==
    /\ CursorSound
    /\ \A n \in 1 .. Len(pool) :
           pool[n].tok \in Nat /\ pool[n].kids \in Seq(0 .. Len(pool))
    /\ ret \in 0 .. Len(pool)
    /\ \A k \in DOMAIN stack : stack[k].at \in DOMAIN Owner =>
           /\ stack[k].node \in 1 .. Len(pool)
           /\ pool[stack[k].node].tag = Owner[stack[k].at]
    /\ pc \in StmtPc

(* The literals below a node, left to right; those of the lengths of an    *)
(* array stand before the initializer, in its type.                        *)
Literals[n \in 0 .. Len(pool)] ==
    IF n = NULL THEN <<>>
    ELSE IF pool[n].tag = "AST_NUMBER_LITERAL" THEN <<pool[n].tok>>
    ELSE LET layers == IF pool[n].tag = "AST_VAR_DECL"
                       THEN Reverse(Layers[pool[n].type]) ELSE <<>>
         IN  FlattenSeq([k \in DOMAIN layers |-> Literals[layers[k].len]])
                \o FlattenSeq([k \in DOMAIN pool[n].kids |-> Literals[pool[n].kids[k]]])

(* The tree of a statement has every part of the text, at its place:       *)
(* conditions, bodies, statements of a block, lengths, initializers and    *)
(* arguments are collected by calls that return in another order than they *)
(* are linked, and still the literals read in the order of the source.     *)
TreeKeepsLiterals ==
    pc = "done" /\ ~reported =>
        Literals[ret] = SelectSeq([i \in 1 .. toki |-> i - 1],
                                  LAMBDA i : Tok(i) = "TOK_NUMBER_LITERAL")

(* The tokens with this tag from token i to token j that are in no block   *)
(* inside.                                                                 *)
Beside(tag, i, j) ==
    {k \in i .. j : Tok(k) = tag
        /\ Cardinality({m \in i .. k : Tok(m) = "TOK_LBRACE"})
              = Cardinality({m \in i .. k : Tok(m) = "TOK_RBRACE"})}

Balanced(i, j) ==
    Cardinality(Beside("TOK_IF", i, j)) = Cardinality(Beside("TOK_ELSE", i, j))

(* A dangling else belongs to the nearest if that has none, through any    *)
(* nesting of if, while and blocks: the activation that has just taken the *)
(* else is the last one from whose keyword on ifs and elses balance.       *)
ElseToNearestIf ==
    pc = "stmt" /\ stack # <<>> /\ Caller.at = "else_body" =>
        LET else == toki - 1
            if == pool[Caller.node].tok
        IN  /\ Balanced(if, else)
            /\ \A k \in Beside("TOK_IF", if + 1, else) : ~Balanced(k, else)

(* The declared type starts with the name of a type.                       *)
NamedType(n) ==
    pool[n].tag = "AST_VAR_DECL" /\ Last(Layers[pool[n].type]).id = {"NAME"}

(* Where a statement of a block ends: with a semicolon, unless it ends     *)
(* with the end of another statement, or is a declaration that starts with *)
(* the name of a type, whose semicolon parse_stmt does not ask for (855)   *)
(* and takes for a statement of its own next time.                         *)
StatementsTerminated ==
    ReturnTo("block") =>
        \/ Tok(toki - 1) \in {"TOK_SEMICOLON", "TOK_RBRACE"}
        \/ current \in Unfinished
        \/ ret # NULL /\ (pool[ret].tag \in {"AST_IF", "AST_WHILE"} \/ NamedType(ret))

(* Where the guess of is_declaration is wrong: a declaration it let through *)
(* (one that starts with the name of a type) is refused before the name of *)
(* the variable is read only if its type ends in a separator with a star   *)
(* and an identifier behind it, as in `a.*b;`.  is_declaration skips the   *)
(* separator with the identifier before it (661-668), declspec wants       *)
(* another identifier there (489).  All others have a declarator where the *)
(* lookahead saw it, through all parts of the name and all stars.          *)
LookaheadAgrees ==
    [][pc' = "exit" /\ pc \in {"qualified", "pointers"}
       /\ Caller.id = {"NAME"} /\ ~Caller.is_const /\ ~Caller.is_static
           => /\ pc = "qualified" /\ current \in Separators
              /\ Tok(toki + 1) = "TOK_ASTERISK" /\ Tok(toki + 2) = "TOK_IDENTIFIER"]_declVars

(* The unfinished parsers consume nothing, so a block never gets past them.*)
BlockStuck == pc = "block" /\ Tok(toki) \in Unfinished

(* Parsing a statement ends, also for a block cut off by the end of the    *)
(* text, except in a block at a `for` or `switch` and in the argument list *)
(* that the expression parser cannot leave.                                *)
StatementsStop == <>(Stopped \/ ArgumentsStuck \/ BlockStuck)
=============================================================================
