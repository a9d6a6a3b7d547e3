----------------------------- MODULE ExprParser -----------------------------
(***************************************************************************)
(* The expression parser: parse_precedence, parse_unary and primary        *)
(* (parser.cpp 155-414) over the token cursor of Ast (ast.h 403-446).      *)
(*                                                                         *)
(* The recursion of the C++ functions is an explicit stack of frames: a    *)
(* frame says where its function resumes when the call above it returns,   *)
(* and keeps the locals that are still needed there.  `ret` is the Node*   *)
(* the last call returned, and the `lhs` local of the function running.    *)
(* Node pointers are indices of `pool`; NULL is nullptr.                   *)
(***************************************************************************)
EXTENDS Tokens, SequencesExt

CONSTANT
    Inputs      \* the token sequences a source text may lex to

ASSUME InputsAssumption ==
    \A s \in Inputs :
        /\ s \in Seq(STRING)
        /\ s # <<>>
        /\ \A i \in 1 .. Len(s) : (s[i] = "TOK_EOF") <=> (i = Len(s))

VARIABLES
    tokens,     \* Ast::tokens, the tags only
    toki,       \* Ast::toki, from 0
    current,    \* Ast::current, the cached copy of tokens[toki]
    pool,       \* Ast::node_pool
    stack,      \* the C++ call stack, innermost activation last
    ret,        \* the Node* returned last
    reported,   \* whether a diagnostic was printed
    pc          \* what the innermost activation is about to do

vars == <<tokens, toki, current, pool, stack, ret, reported, pc>>

NULL == 0

Tok(i) == tokens[i + 1]

Stopped == pc \in {"done", "exit", "crash"}

(***************************************************************************)
(* The cursor, the pool and the stack.                                     *)
(***************************************************************************)

(* Names ending in _slip are wrong on purpose: each is the definition that *)
(* follows with a plausible mistake in it, and the checks of README.md     *)
(* replace one by the other to see that a property notices.                *)
advance_slip(n) == toki' = toki + n /\ current' = current

(* next_token, skip_token and advance: move, then refresh the cached copy. *)
advance(n) ==
    /\ toki' = toki + n
    /\ current' = Tok(toki + n)

(* Ast::match: are the next tokens these? *)
match(items) ==
    /\ Len(tokens) - toki >= Len(items)
    /\ \A i \in 1 .. Len(items) : items[i] = Tok(toki + i - 1)

new_node(tag, main_token, kids) ==
    /\ pool' = Append(pool, [tag |-> tag, tok |-> main_token, kids |-> kids])
    /\ ret' = Len(pool) + 1

(* What is left to do in an activation whose callee returns. *)
Frame(at, min_prec, tok, lhs, args) ==
    [at |-> at, min |-> min_prec, tok |-> tok, lhs |-> lhs, args |-> args]

(* A call of parse_precedence(min_prec): it first calls parse_unary. *)
PrecedenceFrame(min_prec) == Frame("precedence", min_prec, NULL, NULL, <<>>)

Caller == Last(stack)
Pop == stack' = Front(stack)

(***************************************************************************)
(* parse_unary and primary.                                                *)
(***************************************************************************)

PrefixOperator ==
    /\ pc = "unary"
    /\ Tok(toki) \in DOMAIN UnaryAst
    /\ advance(1)
    /\ stack' = stack \o <<Frame("operand", 0, toki, NULL, <<>>),
                           PrecedenceFrame(PREC_UNARY)>>
    /\ UNCHANGED <<tokens, pool, ret, reported, pc>>

(* primary is entered from the default of parse_unary, or after a period. *)
AtPrimary ==
    \/ pc = "unary" /\ Tok(toki) \notin DOMAIN UnaryAst
    \/ pc = "primary"

new_literal(tag) ==
    /\ new_node(tag, toki, <<>>)
    /\ advance(1)

PrimaryIdentifier ==
    /\ AtPrimary
    /\ Tok(toki) = "TOK_IDENTIFIER"
    /\ new_literal("AST_IDENTIFIER")
    /\ pc' = "postfix"
    /\ UNCHANGED <<tokens, stack, reported>>

PrimaryLiteral ==
    /\ AtPrimary
    /\ Tok(toki) \in DOMAIN LiteralAst
    /\ new_literal(LiteralAst[Tok(toki)])
    /\ pc' = "return"
    /\ UNCHANGED <<tokens, stack, reported>>

PrimaryEnumLiteral ==
    /\ AtPrimary
    /\ match(<<"TOK_PERIOD", "TOK_IDENTIFIER">>)
    /\ new_node("AST_ENUM_LITERAL", toki + 1, <<>>)
    /\ advance(2)
    /\ pc' = "return"
    /\ UNCHANGED <<tokens, stack, reported>>

PrimaryGroup_slip ==
    /\ AtPrimary
    /\ Tok(toki) = "TOK_LPAREN"
    /\ stack' = stack \o <<Frame("group", 0, toki, NULL, <<>>),
                           PrecedenceFrame(0)>>
    /\ pc' = "unary"
    /\ UNCHANGED <<tokens, toki, current, pool, ret, reported>>

PrimaryGroup ==
    /\ AtPrimary
    /\ Tok(toki) = "TOK_LPAREN"
    /\ advance(1)
    /\ stack' = stack \o <<Frame("group", 0, toki, NULL, <<>>),
                           PrecedenceFrame(0)>>
    /\ pc' = "unary"
    /\ UNCHANGED <<tokens, pool, ret, reported>>

(* The default branch, and a period no identifier follows: return nullptr. *)
PrimaryNone ==
    /\ AtPrimary
    /\ Tok(toki) \notin {"TOK_IDENTIFIER", "TOK_LPAREN"} \cup DOMAIN LiteralAst
    /\ ~match(<<"TOK_PERIOD", "TOK_IDENTIFIER">>)
    /\ ret' = NULL
    /\ pc' = "return"
    /\ UNCHANGED <<tokens, toki, current, pool, stack, reported>>

(***************************************************************************)
(* The loop of primary after an identifier: members, calls and indices.    *)
(***************************************************************************)

PostfixMember ==
    /\ pc = "postfix"
    /\ current = "TOK_PERIOD"
    /\ advance(1)
    /\ stack' = Append(stack, Frame("member", 0, toki, ret, <<>>))
    /\ pc' = "primary"
    /\ UNCHANGED <<tokens, pool, ret, reported>>

PostfixEmptyCall ==
    /\ pc = "postfix"
    /\ match(<<"TOK_LPAREN", "TOK_RPAREN">>)
    /\ advance(2)
    /\ new_node("AST_CALL", pool[ret].tok, <<ret>>)
    /\ UNCHANGED <<tokens, stack, reported, pc>>

PostfixCall ==
    /\ pc = "postfix"
    /\ ~match(<<"TOK_LPAREN", "TOK_RPAREN">>)
    /\ current = "TOK_LPAREN"
    /\ advance(1)
    /\ stack' = stack \o <<Frame("args", 0, toki, ret, <<>>), PrecedenceFrame(0)>>
    /\ pc' = "unary"
    /\ UNCHANGED <<tokens, pool, ret, reported>>

PostfixIndex ==
    /\ pc = "postfix"
    /\ current = "TOK_LBRACKET"
    /\ advance(1)
    /\ stack' = stack \o <<Frame("index", 0, toki, ret, <<>>), PrecedenceFrame(0)>>
    /\ pc' = "unary"
    /\ UNCHANGED <<tokens, pool, ret, reported>>

PostfixEnd ==
    /\ pc = "postfix"
    /\ current \notin {"TOK_PERIOD", "TOK_LPAREN", "TOK_LBRACKET"}
    /\ pc' = "return"
    /\ UNCHANGED <<tokens, toki, current, pool, stack, ret, reported>>

(***************************************************************************)
(* A call has returned `ret` to the activation on top of the stack.        *)
(***************************************************************************)

ReturnTo(at) ==
    /\ pc = "return"
    /\ stack # <<>>
    /\ Caller.at = at

TakesOperator_slip(min_prec) ==
    LET prec == get_precedence(Tok(toki))
    IN  prec > min_prec /\ prec # PREC_NONE

(* The loop condition of parse_precedence. *)
TakesOperator(min_prec) ==
    LET prec == get_precedence(Tok(toki))
    IN  prec >= min_prec /\ prec # PREC_NONE

TakeOperator_slip ==
    /\ ReturnTo("precedence")
    /\ TakesOperator(Caller.min)
    /\ advance(1)
    /\ stack' = stack \o <<Frame("rhs", 0, toki, ret, <<>>),
                           PrecedenceFrame(get_precedence(Tok(toki)))>>
    /\ pc' = "unary"
    /\ UNCHANGED <<tokens, pool, ret, reported>>

TakeOperator ==
    /\ ReturnTo("precedence")
    /\ TakesOperator(Caller.min)
    /\ advance(1)
    /\ stack' = stack \o <<Frame("rhs", 0, toki, ret, <<>>),
                           PrecedenceFrame(next_prec(Tok(toki)))>>
    /\ pc' = "unary"
    /\ UNCHANGED <<tokens, pool, ret, reported>>

LeaveLoop ==
    /\ ReturnTo("precedence")
    /\ ~TakesOperator(Caller.min)
    /\ Pop
    /\ UNCHANGED <<tokens, toki, current, pool, ret, reported, pc>>

new_binary_slip ==
    /\ ReturnTo("rhs")
    /\ new_node(BinaryAst(Tok(Caller.tok)), Caller.tok, <<ret, Caller.lhs>>)
    /\ Pop
    /\ UNCHANGED <<tokens, toki, current, reported, pc>>

new_binary ==
    /\ ReturnTo("rhs")
    /\ new_node(BinaryAst(Tok(Caller.tok)), Caller.tok, <<Caller.lhs, ret>>)
    /\ Pop
    /\ UNCHANGED <<tokens, toki, current, reported, pc>>

new_unary ==
    /\ ReturnTo("operand")
    /\ new_node(UnaryAst[Tok(Caller.tok)], Caller.tok, <<ret>>)
    /\ Pop
    /\ UNCHANGED <<tokens, toki, current, reported, pc>>

CloseGroup ==
    /\ ReturnTo("group")
    /\ current = "TOK_RPAREN"
    /\ advance(1)
    /\ new_node("AST_GROUPED_EXPR", Caller.tok, <<ret>>)
    /\ Pop
    /\ UNCHANGED <<tokens, reported, pc>>

MemberField_slip ==
    /\ ReturnTo("member")
    /\ ret # NULL
    /\ new_node("AST_MEMBER", Caller.tok, <<Caller.lhs, Caller.lhs>>)
    /\ Pop
    /\ pc' = "postfix"
    /\ UNCHANGED <<tokens, toki, current, reported>>

MemberField ==
    /\ ReturnTo("member")
    /\ ret # NULL
    /\ new_node("AST_MEMBER", Caller.tok, <<Caller.lhs, ret>>)
    /\ Pop
    /\ pc' = "postfix"
    /\ UNCHANGED <<tokens, toki, current, reported>>

(* expect_primary prints, and primary returns nullptr: lhs is dropped. *)
MemberMissing ==
    /\ ReturnTo("member")
    /\ ret = NULL
    /\ Pop
    /\ reported' = TRUE
    /\ UNCHANGED <<tokens, toki, current, pool, ret, pc>>

(* args.append(expr), a null expr included.  An argument list that makes   *)
(* progress never holds more than Len(tokens) arguments: past that bound   *)
(* the array is left as it is, so that the endless loop of RepeatArgument  *)
(* comes back to the same state.                                           *)
ArgsAppended ==
    IF Len(Caller.args) < Len(tokens) THEN Append(Caller.args, ret) ELSE Caller.args

ParseNextArgument ==
    stack' = Front(stack) \o <<[Caller EXCEPT !.args = ArgsAppended],
                               PrecedenceFrame(0)>>

NextArgument_slip ==
    /\ ReturnTo("args")
    /\ current = "TOK_COMMA"
    /\ ParseNextArgument
    /\ pc' = "unary"
    /\ UNCHANGED <<tokens, toki, current, pool, ret, reported>>

NextArgument ==
    /\ ReturnTo("args")
    /\ current = "TOK_COMMA"
    /\ advance(1)
    /\ ParseNextArgument
    /\ pc' = "unary"
    /\ UNCHANGED <<tokens, pool, ret, reported>>

(* Neither a comma nor a parenthesis: the loop runs again where it is. *)
RepeatArgument ==
    /\ ReturnTo("args")
    /\ current \notin {"TOK_COMMA", "TOK_RPAREN"}
    /\ ParseNextArgument
    /\ pc' = "unary"
    /\ UNCHANGED <<tokens, toki, current, pool, ret, reported>>

CloseCall ==
    /\ ReturnTo("args")
    /\ current = "TOK_RPAREN"
    /\ advance(1)
    /\ new_node("AST_CALL", pool[Caller.lhs].tok, <<Caller.lhs>> \o ArgsAppended)
    /\ Pop
    /\ pc' = "postfix"
    /\ UNCHANGED <<tokens, reported>>

CloseIndex ==
    /\ ReturnTo("index")
    /\ ret # NULL
    /\ current = "TOK_RBRACKET"
    /\ advance(1)
    /\ new_node("AST_ARRAY_ACCESS", pool[Caller.lhs].tok, <<Caller.lhs, ret>>)
    /\ Pop
    /\ pc' = "postfix"
    /\ UNCHANGED <<tokens, reported>>

(* expect_expr reads expr->main_token of the null expr it reports. *)
IndexMissing ==
    /\ ReturnTo("index")
    /\ ret = NULL
    /\ pc' = "crash"
    /\ UNCHANGED <<tokens, toki, current, pool, stack, ret, reported>>

(* expect_token finds another token: it prints and calls exit(1). *)
ExpectTokenFails ==
    /\ \/ ReturnTo("group") /\ current # "TOK_RPAREN"
       \/ ReturnTo("index") /\ ret # NULL /\ current # "TOK_RBRACKET"
    /\ reported' = TRUE
    /\ pc' = "exit"
    /\ UNCHANGED <<tokens, toki, current, pool, stack, ret>>

Finish ==
    /\ pc = "return"
    /\ stack = <<>>
    /\ pc' = "done"
    /\ UNCHANGED <<tokens, toki, current, pool, stack, ret, reported>>

-----------------------------------------------------------------------------

(* parse_expr(ast), which is parse_precedence(ast, 0). *)
Init ==
    /\ tokens \in Inputs
    /\ toki = 0
    /\ current = tokens[1]
    /\ pool = <<>>
    /\ stack = <<PrecedenceFrame(0)>>
    /\ ret = NULL
    /\ reported = FALSE
    /\ pc = "unary"

Primary ==
    \/ PrimaryIdentifier \/ PrimaryLiteral \/ PrimaryEnumLiteral
    \/ PrimaryGroup \/ PrimaryNone
    \/ PostfixMember \/ PostfixEmptyCall \/ PostfixCall \/ PostfixIndex
    \/ PostfixEnd
    \/ MemberField \/ MemberMissing
    \/ NextArgument \/ RepeatArgument \/ CloseCall
    \/ CloseIndex \/ IndexMissing \/ CloseGroup \/ ExpectTokenFails

Next ==
    \/ PrefixOperator \/ new_unary
    \/ Primary
    \/ TakeOperator \/ LeaveLoop \/ new_binary
    \/ Finish

Spec == Init /\ [][Next]_vars

(* The parser is a sequential program: it runs as long as it can. *)
FairSpec == Spec /\ WF_vars(Next)

-----------------------------------------------------------------------------

FrameAt == {"precedence", "operand", "rhs", "member", "group", "args", "index"}

FrameType ==
    [at : FrameAt, min : 0 .. PREC_UNARY, tok : Nat, lhs : Nat, args : Seq(Nat)]

NodeType ==
    [tag : BinaryTags \cup UnaryTags \cup LeafTags \cup PostfixTags,
     tok : Nat, kids : Seq(Nat)]

(* The type invariant: every token of the source is a string, pointers and *)
(* cursors are natural numbers, and the frames and nodes have their shape. *)
TypeOK ==
    /\ tokens \in Inputs
    /\ toki \in Nat
    /\ current \in STRING
    /\ pool \in Seq(NodeType)
    /\ stack \in Seq(FrameType)
    /\ ret \in Nat
    /\ reported \in BOOLEAN
    /\ pc \in {"unary", "primary", "postfix", "return", "done", "exit", "crash"}

(* The cached token is the one under the cursor and the cursor never runs  *)
(* past TOK_EOF: parser.cpp reads ast.current at some places and           *)
(* ast.tokens[ast.toki] at others, with no bounds check at either.         *)
CursorSound ==
    /\ toki < Len(tokens)
    /\ current = Tok(toki)

(* The call stack is bounded by the tokens consumed: no cycle of calls     *)
(* comes back to parse_precedence without having moved the cursor.         *)
DepthBounded ==
    Len(stack) + (IF stack # <<>> /\ Caller.at # "precedence" THEN 1 ELSE 0)
        <= 2 * toki + 1

IsBinary(n) == n # NULL /\ pool[n].tag \in BinaryTags
Operator(n) == Tok(pool[n].tok)
LeftOperand(n) == pool[n].kids[1]
RightOperand(n) == pool[n].kids[2]

(* Operators bind by precedence and associate to the left, assignments to  *)
(* the right, however deeply the calls of parse_precedence nested: the     *)
(* left operand of an operator binds at least as tightly as it does (more  *)
(* tightly for an assignment), the right operand more tightly (at least as *)
(* tightly for an assignment).                                             *)
PrecedenceRespected ==
    \A n \in 1 .. Len(pool) : IsBinary(n) =>
        /\ IsBinary(LeftOperand(n)) =>
               get_precedence(Operator(n)) < next_prec(Operator(LeftOperand(n)))
        /\ IsBinary(RightOperand(n)) =>
               get_precedence(Operator(RightOperand(n))) >= next_prec(Operator(n))

(* Prefix operators bind tighter than every binary one: the operand of a   *)
(* unary node is never a binary node (PREC_UNARY in parse_unary).          *)
UnaryBindsTightest ==
    \A n \in 1 .. Len(pool) :
        pool[n].tag \in UnaryTags => ~IsBinary(pool[n].kids[1])

(* Every operator has the operands that the table of precedences gives it. *)
OperatorsBind == PrecedenceRespected /\ UnaryBindsTightest

-----------------------------------------------------------------------------
(* What makes precedence inductive: the shape of the call stack.           *)

(* The min_prec an activation passes to the parse_precedence it calls.     *)
CalleeMin(f) ==
    CASE f.at = "rhs" -> next_prec(Tok(f.tok))
      [] f.at = "operand" -> PREC_UNARY
      [] OTHER -> 0

(* Can the activation g have been called from where f is suspended?        *)
Calls(f, g) ==
    CASE g.at = "precedence" ->
            /\ f.at \in {"operand", "rhs", "group", "args", "index"}
            /\ g.min = CalleeMin(f)
      [] g.at = "rhs" ->
            f.at = "precedence" /\ get_precedence(Tok(g.tok)) >= f.min
      [] g.at = "operand" -> f.at = "precedence"
      [] OTHER -> f.at \in {"precedence", "member"}

(* A chain of calls that starts at parse_expr.                             *)
IsCallChain(s) ==
    /\ s # <<>> => s[1].at = "precedence"
    /\ \A i \in 1 .. Len(s) - 1 : Calls(s[i], s[i + 1])

StackShape ==
    /\ IsCallChain(stack)
    /\ pc \in {"unary", "primary", "postfix"} => stack # <<>>
    /\ pc = "unary" => Caller.at = "precedence"
    /\ pc \in {"primary", "postfix"} => Caller.at \in {"precedence", "member"}

(* Could op have taken lhs as its left operand?                            *)
BindsLooser(op, lhs) == IsBinary(lhs) => get_precedence(op) < next_prec(Operator(lhs))

FrameSound(f) ==
    /\ f.lhs <= Len(pool)
    /\ \A i \in 1 .. Len(f.args) : f.args[i] <= Len(pool)
    /\ f.at = "rhs" => get_precedence(Tok(f.tok)) # PREC_NONE /\ BindsLooser(Tok(f.tok), f.lhs)
    /\ f.at = "operand" => Tok(f.tok) \in DOMAIN UnaryAst
    /\ f.at \in {"args", "index", "member"} => f.lhs # NULL

NodeSound(n) ==
    /\ \A i \in 1 .. Len(pool[n].kids) : pool[n].kids[i] < n
    /\ pool[n].tag \in BinaryTags => Len(pool[n].kids) = 2
    /\ pool[n].tag \in UnaryTags => Len(pool[n].kids) = 1

(* What a returned expression guarantees to the loop that called for it:   *)
(* if it is a binary node, its operator is one this loop may take and the  *)
(* next token is none that the node's right operand could have taken.      *)
ReturnSound ==
    /\ ret <= Len(pool)
    /\ pc = "postfix" => ret # NULL /\ ~IsBinary(ret)
    /\ pc = "return" /\ stack # <<>> =>
        /\ Caller.at = "precedence" /\ IsBinary(ret) =>
              /\ get_precedence(Operator(ret)) >= Caller.min
              /\ ~TakesOperator(next_prec(Operator(ret)))
        /\ Caller.at = "rhs" =>
              /\ IsBinary(ret) =>
                    get_precedence(Operator(ret)) >= next_prec(Tok(Caller.tok))
              /\ ~TakesOperator(next_prec(Tok(Caller.tok)))
        /\ Caller.at = "operand" => ~IsBinary(ret)

(* The inductive invariant behind PrecedenceRespected and                  *)
(* UnaryBindsTightest: every call of the chain was made with the min_prec  *)
(* of its operator, and what a call returns fits where its caller puts it. *)
CallChain ==
    /\ StackShape
    /\ \A i \in 1 .. Len(stack) : FrameSound(stack[i])
    /\ \A n \in 1 .. Len(pool) : NodeSound(n)
    /\ ReturnSound

(* The places that hold a Node*: the children of a node, the locals of a   *)
(* suspended activation, and the value that is being built or returned.    *)
NodePlaces == UNION {{<<"node", n, i>> : i \in 1 .. Len(pool[n].kids)} : n \in 1 .. Len(pool)}

FramePlaces == UNION {{<<"frame", k, i>> : i \in 0 .. Len(stack[k].args)} : k \in 1 .. Len(stack)}

Places ==
    NodePlaces \cup FramePlaces
        \cup (IF pc \in {"postfix", "return", "done"} THEN {<<"ret", 0, 0>>} ELSE {})

Pointer(p) ==
    CASE p[1] = "node" -> pool[p[2]].kids[p[3]]
      [] p[1] = "frame" /\ p[3] = 0 -> stack[p[2]].lhs
      [] p[1] = "frame" /\ p[3] # 0 -> stack[p[2]].args[p[3]]
      [] p[1] = "ret" -> ret

(* The nodes form trees: a node is older than its parent, and is the child *)
(* of one node at one place or is held by one activation, never both, so   *)
(* that pp_node and Node::deinit visit every node once.                    *)
SingleOwner ==
    /\ \A n \in 1 .. Len(pool) : \A i \in 1 .. Len(pool[n].kids) : pool[n].kids[i] < n
    /\ \A p, q \in Places : Pointer(p) = Pointer(q) /\ Pointer(p) # NULL => p = q

(* The operands and operators of a tree, left to right, as token indices.  *)
Yield[n \in 0 .. Len(pool)] ==
    IF n = NULL THEN <<>>
    ELSE LET node == pool[n]
             kids == FlattenSeq([i \in 1 .. Len(node.kids) |-> Yield[node.kids[i]]])
         IN  CASE node.tag \in LeafTags -> <<node.tok>>
               [] node.tag \in UnaryTags -> <<node.tok>> \o kids
               [] node.tag \in BinaryTags ->
                    Yield[node.kids[1]] \o <<node.tok>> \o Yield[node.kids[2]]
               [] OTHER -> kids

Punctuation ==
    {"TOK_LPAREN", "TOK_RPAREN", "TOK_LBRACKET", "TOK_RBRACKET", "TOK_COMMA",
     "TOK_PERIOD"}

(* The operands and operators among the first n tokens, in order.          *)
Operands[n \in Nat] ==
    IF n = 0 THEN <<>>
    ELSE IF Tok(n - 1) \in Punctuation THEN Operands[n - 1]
    ELSE Append(Operands[n - 1], n - 1)

(* The tree says what the text said: unless a diagnostic was printed, its  *)
(* operands and operators are those of the consumed tokens, each once and  *)
(* in the order of the source.                                             *)
TreeKeepsTokens == pc = "done" /\ ~reported => Yield[ret] = Operands[toki]

(* An argument list that met a token which is neither a comma nor a        *)
(* parenthesis and starts no expression.                                   *)
ArgumentsStuck ==
    /\ ReturnTo("args")
    /\ ret = NULL
    /\ current \notin {"TOK_COMMA", "TOK_RPAREN"}

(* The parser always stops, except in the one loop above: the             *)
(* expect_token(ast, TOK_RPAREN) behind that loop (parser.cpp 194), which   *)
(* would end the program, is never reached then.                           *)
StopsOrStuckInArguments == <>(Stopped \/ ArgumentsStuck)
=============================================================================
