---------------------------- MODULE ParserProofs ----------------------------
(***************************************************************************)
(* Proofs about the parsers that share Declarations and ExprParser, for    *)
(* every set of token sequences.  The activations of the statement parser  *)
(* and of the two passes of the front end lie on one stack, and an         *)
(* invariant about frames of every kind serves both.  What it says of the  *)
(* passes is in FrontEndProofs.                                            *)
(***************************************************************************)
EXTENDS Statements, FrontEnd, ExprParserProofs, FiniteSetTheorems, MinMax

(***************************************************************************)
(* What the parsers keep: nodes, types and activations.                    *)
(***************************************************************************)

DeclAt == {"declaration", "array_len", "initializer"}

StmtAt ==
    {"if_cond", "then_body", "else_body", "while_cond", "while_body", "block",
     "semicolon", "return_expr"}

RecordAt == {"record", "record_nested", "record_field"}

StructAt == {"struct", "struct_field", "struct_nested", "nested_field"}

Flags == TypeFlags \cup {"NAME", "POINTER", "ARRAY"}

(* The activations, with a pool of n nodes and m types.                    *)
ExprFrames(n) ==
    [at : FrameAt, min : 0 .. PREC_UNARY, tok : Nat, lhs : 0 .. n, args : Seq(0 .. n)]

DeclFrames(m) ==
    [at : DeclAt, tag : DeclTags, tok : Nat, name : Nat, id : SUBSET Flags,
     type : 0 .. m, is_const : BOOLEAN, is_static : BOOLEAN]

StmtFrames(n) == [at : StmtAt, tok : Nat, node : 0 .. n, stmts : Seq(0 .. n)]

RecordFrames == [at : RecordAt, name : Seq(Int)]

StructFrames(n) == [at : StructAt, node : 1 .. n, child : 0 .. n, field : 0 .. n]

Frames(n, m) ==
    ExprFrames(n) \cup DeclFrames(m) \cup StmtFrames(n) \cup RecordFrames \cup StructFrames(n)

PlainTags ==
    BinaryTags \cup UnaryTags \cup LeafTags \cup PostfixTags
        \cup {"AST_IF", "AST_WHILE", "AST_BLOCK", "AST_RETURN"}

(* The nodes: only those of a declaration have a name and a type, only     *)
(* those of a struct a second list.                                        *)
Nodes(n) ==
    [tag : PlainTags, tok : Nat, kids : Seq(0 .. n)]
        \cup [tag : DeclTags, tok : Nat, kids : Seq(0 .. n), name : Nat, type : Nat]
        \cup [tag : {"AST_STRUCT"}, tok : Nat, kids : Seq(0 .. n), sub_decls : Seq(0 .. n)]

TypesBelow(t, n) ==
    [id : SUBSET Flags, base : 0 .. t - 1, len : 0 .. n, is_const : BOOLEAN, is_static : BOOLEAN]

(* Where an activation can have been called from.                          *)
Bodies == {"block", "then_body", "else_body", "while_body"}

CallersOf(at) ==
    CASE at = "precedence" ->
            {"operand", "rhs", "group", "args", "index", "array_len", "initializer",
             "if_cond", "while_cond", "semicolon", "return_expr"}
      [] at \in {"rhs", "operand"} -> {"precedence"}
      [] at \in {"member", "group", "args", "index"} -> {"precedence", "member"}
      [] at \in DeclAt -> Bodies \cup {"semicolon", "record_field", "struct_field"}
      [] at \in StmtAt -> Bodies
      [] at \in RecordAt -> {"record_nested"}
      [] at \in StructAt -> {"struct_nested"}

(* What an activation relies on: its operator is one, the node it extends  *)
(* is there, the node it fills is of its kind.                             *)
HeldFor(f, p, toks) ==
    /\ f.at = "rhs" => get_precedence(toks[f.tok + 1]) # PREC_NONE
    /\ f.at = "operand" => toks[f.tok + 1] \in DOMAIN UnaryAst
    /\ f.at \in {"args", "index", "member"} => f.lhs # NULL
    /\ f.at \in DOMAIN Owner => f.node \in 1 .. Len(p) /\ p[f.node].tag = Owner[f.at]
    /\ f.at \in StructAt => p[f.node].tag = "AST_STRUCT"

StackOK(s, p, m, toks) ==
    /\ s \in Seq(Frames(Len(p), m))
    /\ \A k \in 1 .. Len(s) : HeldFor(s[k], p, toks)
    /\ s # <<>> => s[1].at \notin FrameAt
    /\ \A k \in 1 .. Len(s) - 1 : s[k].at \in CallersOf(s[k + 1].at)

(* What is to be done belongs to the activation on top.                    *)
TopOK(s, next) ==
    /\ next = "unary" => s # <<>> /\ Last(s).at = "precedence"
    /\ next \in {"primary", "postfix"} => s # <<>> /\ Last(s).at \in {"precedence", "member"}
    /\ next \in {"declspec", "qualified", "pointers", "arrays"} =>
           s # <<>> /\ Last(s).at = "declaration"
    /\ next = "block" => s # <<>> /\ Last(s).at = "block"
    /\ next \in {"record_struct", "record_body"} => s # <<>> /\ Last(s).at = "record"
    /\ next = "struct_body" => s # <<>> /\ Last(s).at = "struct"
    /\ next = "stmt" => s = <<>> \/ Last(s).at \in Bodies
    /\ next = "var_decl" =>
           s = <<>> \/ Last(s).at \in Bodies \cup {"semicolon", "record_field", "struct_field"}
    /\ next = "struct_decl" => s = <<>> \/ Last(s).at = "struct_nested"
    /\ next \in {"record_types", "recorded"} => s = <<>>

ParserInv ==
    /\ tokens \in Inputs
    /\ toki \in Nat
    /\ reported \in BOOLEAN
    /\ pool \in Seq(Nodes(Len(pool)))
    /\ types \in Seq(TypesBelow(Len(types) + 1, Len(pool)))
    /\ \A t \in 1 .. Len(types) : types[t].base < t
    /\ StackOK(stack, pool, Len(types), tokens)
    /\ ret \in 0 .. Len(pool)
    /\ pc = "postfix" => ret # NULL
    /\ TopOK(stack, pc)

-----------------------------------------------------------------------------
(* Stacks.                                                                 *)

(* Sequences over a smaller set are sequences over a larger one.           *)
LEMMA WiderSeq ==
    ASSUME NEW S, NEW T, S \subseteq T
    PROVE  Seq(S) \subseteq Seq(T)
    BY SMT

(* A larger pool has room for the same frames and nodes.                   *)
LEMMA FramesGrow ==
    ASSUME NEW n \in Nat, NEW m \in Nat, NEW n2 \in Nat, NEW m2 \in Nat, n <= n2, m <= m2
    PROVE  Frames(n, m) \subseteq Frames(n2, m2)
<1>1. 0 .. n \subseteq 0 .. n2 /\ 0 .. m \subseteq 0 .. m2 /\ 1 .. n \subseteq 1 .. n2
    OBVIOUS
<1>2. Seq(0 .. n) \subseteq Seq(0 .. n2)
    BY <1>1, WiderSeq
<1>3. ExprFrames(n) \subseteq ExprFrames(n2)
    BY <1>1, <1>2, Zenon DEF ExprFrames
<1>4. DeclFrames(m) \subseteq DeclFrames(m2)
    BY <1>1, Zenon DEF DeclFrames
<1>5. StmtFrames(n) \subseteq StmtFrames(n2)
    BY <1>1, <1>2, Zenon DEF StmtFrames
<1>6. StructFrames(n) \subseteq StructFrames(n2)
    BY <1>1, Zenon DEF StructFrames
<1> QED
    BY <1>3, <1>4, <1>5, <1>6, Zenon DEF Frames

(* And for the same nodes.                                                 *)
LEMMA NodesGrow ==
    ASSUME NEW n \in Nat, NEW n2 \in Nat, n <= n2
    PROVE  Nodes(n) \subseteq Nodes(n2)
<1>1. 0 .. n \subseteq 0 .. n2
    OBVIOUS
<1>2. Seq(0 .. n) \subseteq Seq(0 .. n2)
    BY <1>1, WiderSeq
<1> QED
    BY <1>2, Zenon DEF Nodes

(* A frame is of the kind that its place says.                             *)
LEMMA FrameKinds ==
    ASSUME NEW n \in Nat, NEW m \in Nat, NEW f \in Frames(n, m)
    PROVE  /\ f.at \in FrameAt => f \in ExprFrames(n)
           /\ f.at \in DeclAt => f \in DeclFrames(m)
           /\ f.at \in StmtAt => f \in StmtFrames(n)
           /\ f.at \in RecordAt => f \in RecordFrames
           /\ f.at \in StructAt => f \in StructFrames(n)
<1>1. /\ f \in ExprFrames(n) => f.at \in FrameAt
      /\ f \in DeclFrames(m) => f.at \in DeclAt
      /\ f \in StmtFrames(n) => f.at \in StmtAt
      /\ f \in RecordFrames => f.at \in RecordAt
      /\ f \in StructFrames(n) => f.at \in StructAt
    BY DEF ExprFrames, DeclFrames, StmtFrames, RecordFrames, StructFrames
<1>2. \/ f \in ExprFrames(n) \/ f \in DeclFrames(m) \/ f \in StmtFrames(n)
      \/ f \in RecordFrames \/ f \in StructFrames(n)
    BY DEF Frames
<1>3. /\ FrameAt \cap DeclAt = {} /\ FrameAt \cap StmtAt = {} /\ FrameAt \cap RecordAt = {}
      /\ FrameAt \cap StructAt = {} /\ DeclAt \cap StmtAt = {} /\ DeclAt \cap RecordAt = {}
      /\ DeclAt \cap StructAt = {} /\ StmtAt \cap RecordAt = {} /\ StmtAt \cap StructAt = {}
      /\ RecordAt \cap StructAt = {}
    BY DEF FrameAt, DeclAt, StmtAt, RecordAt, StructAt
<1> QED
    BY <1>1, <1>2, <1>3, Zenon

(* A call.                                                                 *)
LEMMA StackPush ==
    ASSUME NEW p, NEW m \in Nat, NEW toks, NEW s, StackOK(s, p, m, toks), Len(p) \in Nat,
           NEW f \in Frames(Len(p), m), HeldFor(f, p, toks),
           s = <<>> => f.at \notin FrameAt,
           s # <<>> => Last(s).at \in CallersOf(f.at)
    PROVE  StackOK(Append(s, f), p, m, toks) /\ Last(Append(s, f)) = f /\ Append(s, f) # <<>>
<1>1. s \in Seq(Frames(Len(p), m))
    BY DEF StackOK
<1>2. /\ Append(s, f) \in Seq(Frames(Len(p), m)) /\ Append(s, f) # <<>>
      /\ Len(Append(s, f)) = Len(s) + 1 /\ Len(s) \in Nat
      /\ \A i \in 1 .. Len(s) : Append(s, f)[i] = s[i]
      /\ Append(s, f)[Len(s) + 1] = f
      /\ Last(Append(s, f)) = f
    BY <1>1, PushOne
<1>3. ASSUME NEW k \in 1 .. Len(Append(s, f))
      PROVE  HeldFor(Append(s, f)[k], p, toks)
    <2>1. k = Len(s) + 1 \/ k \in 1 .. Len(s)
        BY <1>2
    <2> QED
        BY <1>2, <2>1 DEF StackOK
<1>4. Append(s, f)[1].at \notin FrameAt
    <2>1. CASE s = <<>>
        BY <1>2, <2>1
    <2>2. CASE s # <<>>
        <3>1. 1 \in 1 .. Len(s)
            BY <1>1, <2>2
        <3> QED
            BY <1>2, <2>2, <3>1 DEF StackOK
    <2> QED
        BY <2>1, <2>2
<1>5. ASSUME NEW k \in 1 .. Len(Append(s, f)) - 1
      PROVE  Append(s, f)[k].at \in CallersOf(Append(s, f)[k + 1].at)
    <2>1. CASE k = Len(s)
        <3>1. s # <<>> /\ Last(s) = s[Len(s)] /\ k \in 1 .. Len(s)
            BY <1>1, <1>2, <2>1 DEF Last
        <3>2. Append(s, f)[k] = Last(s) /\ Append(s, f)[k + 1] = f
            BY <1>2, <2>1, <3>1
        <3> QED
            BY <3>1, <3>2
    <2>2. CASE k # Len(s)
        <3>1. k \in 1 .. Len(s) /\ k + 1 \in 1 .. Len(s) /\ k \in 1 .. Len(s) - 1
            BY <1>2, <2>2
        <3>2. Append(s, f)[k] = s[k] /\ Append(s, f)[k + 1] = s[k + 1]
            BY <1>2, <3>1
        <3> QED
            BY <3>1, <3>2 DEF StackOK
    <2> QED
        BY <2>1, <2>2
<1> QED
    BY <1>2, <1>3, <1>4, <1>5 DEF StackOK

(* Two calls, one within the other.                                        *)
LEMMA TwoPushes ==
    ASSUME NEW S, NEW s \in Seq(S), NEW f \in S, NEW g \in S
    PROVE  s \o <<f, g>> = Append(Append(s, f), g)
<1>1. /\ s \o <<f, g>> \in Seq(S) /\ Len(s \o <<f, g>>) = Len(s) + 2
      /\ \A i \in 1 .. Len(s) : (s \o <<f, g>>)[i] = s[i]
      /\ (s \o <<f, g>>)[Len(s) + 1] = f /\ (s \o <<f, g>>)[Len(s) + 2] = g
    BY PushTwo
<1>2. /\ Append(s, f) \in Seq(S) /\ Len(Append(s, f)) = Len(s) + 1
      /\ \A i \in 1 .. Len(s) : Append(s, f)[i] = s[i]
      /\ Append(s, f)[Len(s) + 1] = f
    BY PushOne
<1>3. PICK t \in Seq(S) : t = Append(s, f)
    BY <1>2
<1>4. /\ Append(t, g) \in Seq(S) /\ Len(Append(t, g)) = Len(t) + 1
      /\ \A i \in 1 .. Len(t) : Append(t, g)[i] = t[i]
      /\ Append(t, g)[Len(t) + 1] = g
    BY PushOne
<1>5. Len(s) \in Nat
    OBVIOUS
<1>6. PICK u \in Seq(S) : u = Append(t, g)
    BY <1>4
<1>7. PICK v \in Seq(S) : v = s \o <<f, g>>
    BY <1>1
<1>8. Len(u) = Len(v) /\ Len(u) = Len(s) + 2
    BY <1>1, <1>2, <1>3, <1>4, <1>5, <1>6, <1>7
<1>9. ASSUME NEW i \in 1 .. Len(u) PROVE u[i] = v[i]
    <2>1. i \in 1 .. Len(s) \/ i = Len(s) + 1 \/ i = Len(s) + 2
        BY <1>5, <1>8
    <2>2. CASE i \in 1 .. Len(s)
        BY <1>1, <1>2, <1>3, <1>4, <1>5, <1>6, <1>7, <2>2
    <2>3. CASE i = Len(s) + 1
        BY <1>1, <1>2, <1>3, <1>4, <1>5, <1>6, <1>7, <2>3
    <2>4. CASE i = Len(s) + 2
        BY <1>1, <1>2, <1>3, <1>4, <1>5, <1>6, <1>7, <2>4
    <2> QED
        BY <2>1, <2>2, <2>3, <2>4
<1>10. u = v
    BY <1>8, <1>9, SeqEqual
<1> QED
    BY <1>3, <1>6, <1>7, <1>10

(* A return.                                                               *)
LEMMA StackPop ==
    ASSUME NEW p, NEW m, NEW toks, NEW s, StackOK(s, p, m, toks), s # <<>>
    PROVE  /\ StackOK(Front(s), p, m, toks)
           /\ Last(s) \in Frames(Len(p), m) /\ HeldFor(Last(s), p, toks)
           /\ Front(s) = <<>> => Last(s).at \notin FrameAt
           /\ Front(s) # <<>> => Last(Front(s)).at \in CallersOf(Last(s).at)
<1>1. s \in Seq(Frames(Len(p), m))
    BY DEF StackOK
<1>2. /\ Front(s) \in Seq(Frames(Len(p), m))
      /\ Len(Front(s)) = Len(s) - 1
      /\ \A i \in 1 .. Len(s) - 1 : Front(s)[i] = s[i]
      /\ Last(s) \in Frames(Len(p), m)
      /\ Last(s) = s[Len(s)]
      /\ Len(s) \in Nat /\ Len(s) >= 1
    BY <1>1, PopOne
<1>3. HeldFor(Last(s), p, toks)
    BY <1>2 DEF StackOK
<1>4. CASE Front(s) = <<>>
    <2>0. Len(Front(s)) = 0
        BY <1>4
    <2>1. Len(s) = 1
        BY <1>2, <2>0
    <2>3. 1 .. Len(Front(s)) = {} /\ 1 .. Len(Front(s)) - 1 = {}
        BY <2>0
    <2>2. Last(s).at \notin FrameAt
        BY <1>2, <2>1 DEF StackOK
    <2> QED
        BY <1>2, <1>3, <1>4, <2>2, <2>3 DEF StackOK
<1>5. CASE Front(s) # <<>>
    <2>1. PICK n \in Nat : n = Len(s) - 1
        BY <1>2
    <2>2. n >= 1 /\ Len(Front(s)) = n /\ Len(s) = n + 1
        BY <1>2, <1>5, <2>1
    <2>3. Last(Front(s)) = s[n] /\ Last(s) = s[n + 1]
        BY <1>2, <2>1, <2>2 DEF Last
    <2>4. s[n].at \in CallersOf(s[n + 1].at)
        BY <2>1, <2>2 DEF StackOK
    <2>5. \A k \in 1 .. n : HeldFor(Front(s)[k], p, toks)
        BY <1>2, <2>1, <2>2 DEF StackOK
    <2>6. Front(s)[1].at \notin FrameAt
        BY <1>2, <2>1, <2>2 DEF StackOK
    <2>7. \A k \in 1 .. n - 1 : Front(s)[k].at \in CallersOf(Front(s)[k + 1].at)
        BY <1>2, <2>1, <2>2 DEF StackOK
    <2> QED
        BY <1>2, <1>3, <1>5, <2>2, <2>3, <2>4, <2>5, <2>6, <2>7 DEF StackOK
<1> QED
    BY <1>4, <1>5

(* An activation that goes on at another place.                            *)
LEMMA StackBecome ==
    ASSUME NEW p, NEW m \in Nat, NEW toks, NEW s, StackOK(s, p, m, toks), s # <<>>, Len(p) \in Nat,
           NEW f \in Frames(Len(p), m), HeldFor(f, p, toks),
           CallersOf(f.at) = CallersOf(Last(s).at), f.at \notin FrameAt
    PROVE  /\ StackOK(Append(Front(s), f), p, m, toks) /\ Append(Front(s), f) # <<>>
           /\ Last(Append(Front(s), f)) = f
<1>1. /\ StackOK(Front(s), p, m, toks)
      /\ Front(s) # <<>> => Last(Front(s)).at \in CallersOf(f.at)
    BY StackPop
<1> QED
    BY <1>1, StackPush

(* A pool that grows, and keeps the tags it has.                           *)
Extends(p, q) ==
    /\ Len(p) \in Nat /\ Len(q) \in Nat /\ Len(p) <= Len(q)
    /\ \A n \in 1 .. Len(p) : q[n].tag = p[n].tag

(* The activations go on with it as before.                                *)
LEMMA StackKept ==
    ASSUME NEW p, NEW q, Extends(p, q), NEW m \in Nat, NEW m2 \in Nat, m <= m2,
           NEW toks, NEW s, StackOK(s, p, m, toks)
    PROVE  StackOK(s, q, m2, toks)
<1>1. Seq(Frames(Len(p), m)) \subseteq Seq(Frames(Len(q), m2))
    BY FramesGrow, WiderSeq DEF Extends
<1>2. ASSUME NEW k \in 1 .. Len(s)
      PROVE  HeldFor(s[k], q, toks)
    <2>1. HeldFor(s[k], p, toks) /\ s[k] \in Frames(Len(p), m)
        BY DEF StackOK
    <2>2. s[k].at \in StructAt => s[k].node \in 1 .. Len(p)
        BY <2>1, FrameKinds DEF StructFrames, Extends
    <2> QED
        BY <2>1, <2>2 DEF HeldFor, Extends
<1> QED
    BY <1>1, <1>2 DEF StackOK

-----------------------------------------------------------------------------
(* Nodes.                                                                  *)

(* A node at the end of the pool leaves the others as they are.            *)
LEMMA PoolNew ==
    ASSUME NEW p, p \in Seq(Nodes(Len(p))), NEW x \in Nodes(Len(p))
    PROVE  /\ Append(p, x) \in Seq(Nodes(Len(Append(p, x)))) /\ Extends(p, Append(p, x))
           /\ Len(Append(p, x)) = Len(p) + 1 /\ Append(p, x)[Len(p) + 1] = x
<1>1. /\ Append(p, x) \in Seq(Nodes(Len(p)))
      /\ Len(Append(p, x)) = Len(p) + 1
      /\ \A i \in 1 .. Len(p) : Append(p, x)[i] = p[i]
      /\ Append(p, x)[Len(p) + 1] = x
      /\ Len(p) \in Nat
    BY PushOne
<1>2. Nodes(Len(p)) \subseteq Nodes(Len(Append(p, x)))
    BY <1>1, NodesGrow
<1>3. Append(p, x) \in Seq(Nodes(Len(Append(p, x))))
    BY <1>1, <1>2, WiderSeq
<1> QED
    BY <1>1, <1>3 DEF Extends

(* A node that changes stays a node of its kind.                           *)
LEMMA PoolChange ==
    ASSUME NEW p, p \in Seq(Nodes(Len(p))), NEW n \in 1 .. Len(p), NEW x \in Nodes(Len(p)),
           x.tag = p[n].tag
    PROVE  /\ [p EXCEPT ![n] = x] \in Seq(Nodes(Len([p EXCEPT ![n] = x])))
           /\ Extends(p, [p EXCEPT ![n] = x])
           /\ Len([p EXCEPT ![n] = x]) = Len(p)
    BY DEF Extends

-----------------------------------------------------------------------------
(* Steps.                                                                  *)

(* What a step has to keep when the tokens and the types stay.             *)
LEMMA Kept ==
    ASSUME ParserInv, tokens' = tokens, types' = types,
           toki' \in Nat, reported' \in BOOLEAN,
           pool' \in Seq(Nodes(Len(pool'))), Extends(pool, pool'),
           StackOK(stack', pool', Len(types), tokens),
           ret' \in 0 .. Len(pool'), pc' = "postfix" => ret' # NULL,
           TopOK(stack', pc')
    PROVE  ParserInv'
<1>1. Len(pool) \in Nat /\ Len(pool') \in Nat /\ Len(pool) <= Len(pool') /\ Len(types) \in Nat
    BY DEF Extends, ParserInv
<1>2. TypesBelow(Len(types) + 1, Len(pool)) \subseteq TypesBelow(Len(types) + 1, Len(pool'))
    <2>1. 0 .. Len(pool) \subseteq 0 .. Len(pool')
        BY <1>1
    <2> QED
        BY <2>1, Zenon DEF TypesBelow
<1>3. types' \in Seq(TypesBelow(Len(types) + 1, Len(pool')))
    BY <1>2, WiderSeq DEF ParserInv
<1> QED
    BY <1>3, Zenon DEF ParserInv

(* The cursor and the tokens before the end of the text.                   *)
LEMMA TokenFacts ==
    ASSUME tokens \in Inputs, toki \in Nat, CursorSound
    PROVE  /\ tokens \in Seq(STRING)
           /\ Len(tokens) \in Nat
           /\ Tok(toki) \in STRING /\ current = Tok(toki)
           /\ Tok(toki) # "TOK_EOF" => toki + 1 < Len(tokens) /\ Tok(toki + 1) \in STRING
           /\ Tok(toki) # "TOK_EOF" /\ Tok(toki + 1) # "TOK_EOF" =>
                 toki + 2 < Len(tokens) /\ Tok(toki + 2) \in STRING
           /\ Tok(toki) # "TOK_EOF" /\ Tok(toki + 1) # "TOK_EOF" /\ Tok(toki + 2) # "TOK_EOF" =>
                 toki + 3 < Len(tokens) /\ Tok(toki + 3) \in STRING
    BY InputsAssumption DEF CursorSound, Tok

(* Ast::match compares from the cursor on: two tokens.                     *)
LEMMA MatchTwo ==
    ASSUME tokens \in Inputs, toki \in Nat, CursorSound, NEW x, NEW y, match(<<x, y>>)
    PROVE  x = Tok(toki) /\ y = Tok(toki + 1)
<1>1. Len(<<x, y>>) = 2 /\ <<x, y>>[1] = x /\ <<x, y>>[2] = y
    OBVIOUS
<1>2. x = Tok(toki + 1 - 1) /\ y = Tok(toki + 2 - 1)
    BY <1>1 DEF match
<1> QED
    BY <1>2

(* Three tokens.                                                           *)
LEMMA MatchThree ==
    ASSUME tokens \in Inputs, toki \in Nat, CursorSound, NEW x, NEW y, NEW z, match(<<x, y, z>>)
    PROVE  x = Tok(toki) /\ y = Tok(toki + 1) /\ z = Tok(toki + 2)
<1>1. Len(<<x, y, z>>) = 3 /\ <<x, y, z>>[1] = x /\ <<x, y, z>>[2] = y /\ <<x, y, z>>[3] = z
    OBVIOUS
<1>2. x = Tok(toki + 1 - 1) /\ y = Tok(toki + 2 - 1) /\ z = Tok(toki + 3 - 1)
    BY <1>1 DEF match
<1> QED
    BY <1>2

(* The cursor moves over tokens that are not the last.                     *)
LEMMA CursorMoves ==
    ASSUME tokens \in Inputs, toki \in Nat, CursorSound, tokens' = tokens
    PROVE  /\ advance(0) => toki' \in Nat /\ CursorSound'
           /\ advance(1) /\ Tok(toki) # "TOK_EOF" => toki' \in Nat /\ CursorSound'
           /\ advance(2) /\ Tok(toki) # "TOK_EOF" /\ Tok(toki + 1) # "TOK_EOF" =>
                 toki' \in Nat /\ CursorSound'
           /\ advance(3) /\ Tok(toki) # "TOK_EOF" /\ Tok(toki + 1) # "TOK_EOF"
                 /\ Tok(toki + 2) # "TOK_EOF" => toki' \in Nat /\ CursorSound'
           /\ toki' = toki /\ current' = current => toki' \in Nat /\ CursorSound'
    BY TokenFacts DEF advance, CursorSound, Tok

(* A pool that stays is one that grows by nothing.                         *)
LEMMA PoolUnchanged ==
    ASSUME ParserInv, pool' = pool
    PROVE  pool' \in Seq(Nodes(Len(pool'))) /\ Extends(pool, pool') /\ ret \in 0 .. Len(pool')
    BY DEF ParserInv, Extends

(* The pools have lengths.                                                 *)
LEMMA PoolSize ==
    ASSUME ParserInv
    PROVE  Len(pool) \in Nat /\ Len(types) \in Nat
    BY DEF ParserInv

(* A new node.                                                             *)
LEMMA NodeMade2 ==
    ASSUME ParserInv, NEW tag \in PlainTags,
           NEW tok \in Nat, NEW kids \in Seq(0 .. Len(pool)), new_node(tag, tok, kids)
    PROVE  /\ pool' \in Seq(Nodes(Len(pool'))) /\ Extends(pool, pool')
           /\ ret' \in 0 .. Len(pool') /\ ret' # NULL
           /\ ret' = Len(pool') /\ pool'[ret'].tag = tag
<1>1. [tag |-> tag, tok |-> tok, kids |-> kids] \in Nodes(Len(pool))
    BY DEF Nodes
<1>2. pool \in Seq(Nodes(Len(pool))) /\ Len(pool) \in Nat
    BY DEF ParserInv
<1>3. PICK x \in Nodes(Len(pool)) :
          x = [tag |-> tag, tok |-> tok, kids |-> kids] /\ x.tag = tag
    BY <1>1
<1>4. pool' = Append(pool, x) /\ ret' = Len(pool) + 1
    BY <1>3 DEF new_node
<1>5. /\ pool' \in Seq(Nodes(Len(pool'))) /\ Extends(pool, pool')
      /\ Len(pool') = Len(pool) + 1 /\ pool'[Len(pool) + 1] = x
    BY <1>2, <1>4, PoolNew
<1> QED
    BY <1>2, <1>3, <1>4, <1>5 DEF NULL

(* A call of parse_precedence from a frame that goes on the stack.         *)
LEMMA CallExpr ==
    ASSUME NEW p, NEW m \in Nat, NEW toks, NEW s, StackOK(s, p, m, toks), Len(p) \in Nat,
           NEW f \in Frames(Len(p), m), HeldFor(f, p, toks),
           s = <<>> => f.at \notin FrameAt,
           s # <<>> => Last(s).at \in CallersOf(f.at),
           f.at \in CallersOf("precedence"), NEW min \in 0 .. 12
    PROVE  /\ StackOK(s \o <<f, PrecedenceFrame(min)>>, p, m, toks)
           /\ TopOK(s \o <<f, PrecedenceFrame(min)>>, "unary")
<1> DEFINE g == PrecedenceFrame(min)
<1>1. g \in ExprFrames(Len(p)) /\ g.at = "precedence"
    BY DEF PrecedenceFrame, Frame, ExprFrames, FrameAt, NULL, PREC_UNARY
<1>2. g \in Frames(Len(p), m)
    BY <1>1, Zenon DEF Frames
<1> HIDE DEF g
<1>3. HeldFor(g, p, toks)
    <2>1. g.at \notin DOMAIN Owner /\ g.at \notin StructAt
        BY <1>1 DEF Owner, StructAt
    <2> QED
        BY <1>1, <2>1 DEF HeldFor
<1>4. StackOK(Append(s, f), p, m, toks) /\ Last(Append(s, f)) = f /\ Append(s, f) # <<>>
    BY StackPush
<1>5. PICK t : t = Append(s, f)
    OBVIOUS
<1>6. StackOK(t, p, m, toks) /\ t # <<>> /\ Last(t).at \in CallersOf(g.at)
    BY <1>1, <1>4, <1>5
<1>7. StackOK(Append(t, g), p, m, toks) /\ Last(Append(t, g)) = g /\ Append(t, g) # <<>>
    BY <1>2, <1>3, <1>6, StackPush
<1>8. s \o <<f, g>> = Append(t, g)
    <2>1. s \in Seq(Frames(Len(p), m))
        BY DEF StackOK
    <2> QED
        BY <1>2, <1>5, <2>1, TwoPushes
<1>9. TopOK(Append(t, g), "unary")
    BY <1>1, <1>7 DEF TopOK
<1> QED
    BY <1>7, <1>8, <1>9 DEF g

(* Who calls whom, place by place.                                         *)
LEMMA CallersAre ==
    /\ CallersOf("precedence") =
           {"operand", "rhs", "group", "args", "index", "array_len", "initializer",
            "if_cond", "while_cond", "semicolon", "return_expr"}
    /\ CallersOf("rhs") = {"precedence"} /\ CallersOf("operand") = {"precedence"}
    /\ \A at \in {"member", "group", "args", "index"} : CallersOf(at) = {"precedence", "member"}
    /\ \A at \in DeclAt : CallersOf(at) = Bodies \cup {"semicolon", "record_field", "struct_field"}
    /\ \A at \in StmtAt : CallersOf(at) = Bodies
    /\ \A at \in RecordAt : CallersOf(at) = {"record_nested"}
    /\ \A at \in StructAt : CallersOf(at) = {"struct_nested"}
    BY DEF CallersOf, DeclAt, StmtAt, RecordAt, StructAt

(* The frames of the expression parser, as they are pushed.                *)
LEMMA ExprFrameMade ==
    ASSUME NEW n \in Nat, NEW m \in Nat, NEW at \in FrameAt, NEW t \in Nat,
           NEW l \in 0 .. n, NEW args \in Seq(0 .. n)
    PROVE  Frame(at, 0, t, l, args) \in Frames(n, m)
<1>1. Frame(at, 0, t, l, args) \in ExprFrames(n)
    BY DEF Frame, ExprFrames, PREC_UNARY
<1> QED
    BY <1>1, Zenon DEF Frames

(* A suspended activation of the expression parser, called from where it   *)
(* may be, and the call that it makes.                                     *)
LEMMA PushExpr ==
    ASSUME ParserInv, NEW at \in FrameAt \ {"precedence", "member"}, NEW l \in 0 .. Len(pool),
           NEW args \in Seq(0 .. Len(pool)), NEW min \in 0 .. 12,
           stack # <<>>, Caller.at \in CallersOf(at),
           at = "rhs" => get_precedence(Tok(toki)) # PREC_NONE,
           at = "operand" => Tok(toki) \in DOMAIN UnaryAst,
           at \in {"args", "index", "member"} => l # NULL,
           stack' = stack \o <<Frame(at, 0, toki, l, args), PrecedenceFrame(min)>>
    PROVE  StackOK(stack', pool, Len(types), tokens) /\ TopOK(stack', "unary")
<1>1. /\ StackOK(stack, pool, Len(types), tokens) /\ Len(pool) \in Nat /\ Len(types) \in Nat
      /\ toki \in Nat
    BY PoolSize DEF ParserInv
<1>2. PICK f : f = Frame(at, 0, toki, l, args)
    OBVIOUS
<1>3. /\ f \in Frames(Len(pool), Len(types)) /\ HeldFor(f, pool, tokens) /\ f.at = at
      /\ at \in CallersOf("precedence")
    <2>1. f \in Frames(Len(pool), Len(types))
        BY <1>1, <1>2, ExprFrameMade
    <2>2. f.at = at /\ f.tok = toki /\ f.lhs = l
        BY <1>2 DEF Frame
    <2>3. at \notin DOMAIN Owner /\ at \notin StructAt
        BY DEF FrameAt, Owner, StructAt
    <2>4. HeldFor(f, pool, tokens)
        BY <2>2, <2>3 DEF HeldFor, Tok
    <2>5. at \in CallersOf("precedence")
        BY CallersAre DEF FrameAt
    <2> QED
        BY <2>1, <2>2, <2>4, <2>5
<1>4. Last(stack).at \in CallersOf(f.at) /\ f.at \in CallersOf("precedence")
    BY <1>3 DEF Caller
<1> QED
    BY <1>1, <1>2, <1>3, <1>4, CallExpr

(* What an activation of the expression parser holds when it is resumed.   *)
LEMMA ResumedExpr ==
    ASSUME ParserInv, NEW at \in FrameAt, ReturnTo(at)
    PROVE  /\ Caller \in ExprFrames(Len(pool)) /\ Caller.at = at /\ HeldFor(Caller, pool, tokens)
           /\ StackOK(Front(stack), pool, Len(types), tokens)
           /\ Front(stack) # <<>> /\ Last(Front(stack)).at \in CallersOf(at)
           /\ stack # <<>>
<1>1. /\ StackOK(stack, pool, Len(types), tokens) /\ Len(pool) \in Nat /\ Len(types) \in Nat
    BY PoolSize DEF ParserInv
<1>2. stack # <<>> /\ Caller.at = at
    BY DEF ReturnTo
<1>3. /\ StackOK(Front(stack), pool, Len(types), tokens)
      /\ Caller \in Frames(Len(pool), Len(types)) /\ HeldFor(Caller, pool, tokens)
      /\ Front(stack) = <<>> => Caller.at \notin FrameAt
      /\ Front(stack) # <<>> => Last(Front(stack)).at \in CallersOf(Caller.at)
    BY <1>1, <1>2, StackPop DEF Caller
<1> QED
    BY <1>1, <1>2, <1>3, FrameKinds

(* The expression parser makes a node: nothing else about it matters.      *)
LEMMA MakesExpr ==
    ASSUME ParserInv, CursorSound, tokens' = tokens, types' = types, reported' = reported,
           toki' \in Nat,
           NEW tag \in PlainTags,
           NEW tok \in Nat, NEW kids \in Seq(0 .. Len(pool)), new_node(tag, tok, kids),
           StackOK(stack', pool, Len(types), tokens), TopOK(stack', pc')
    PROVE  ParserInv'
<1>1. /\ pool' \in Seq(Nodes(Len(pool'))) /\ Extends(pool, pool')
      /\ ret' \in 0 .. Len(pool') /\ ret' # NULL
    BY NodeMade2
<1>2. StackOK(stack', pool', Len(types), tokens)
    BY <1>1, StackKept, PoolSize
<1>3. toki' \in Nat /\ reported' \in BOOLEAN
    BY DEF ParserInv
<1> QED
    BY <1>1, <1>2, <1>3, Kept

(* It moves on without one.                                                *)
LEMMA MakesNone ==
    ASSUME ParserInv, CursorSound, tokens' = tokens, types' = types, reported' \in BOOLEAN,
           toki' \in Nat, pool' = pool, ret' \in 0 .. Len(pool),
           pc' = "postfix" => ret' # NULL,
           StackOK(stack', pool, Len(types), tokens), TopOK(stack', pc')
    PROVE  ParserInv'
<1>1. pool' \in Seq(Nodes(Len(pool'))) /\ Extends(pool, pool')
    BY PoolUnchanged
<1> QED
    BY <1>1, Kept

(* The tags of the expression parser are not those of declarations.        *)
LEMMA ExprTags ==
    /\ \A tag \in BinaryTags \cup UnaryTags \cup LeafTags \cup PostfixTags : tag \in PlainTags
    /\ \A t \in DOMAIN LiteralAst : LiteralAst[t] \in LeafTags
    /\ \A t \in DOMAIN UnaryAst : UnaryAst[t] \in UnaryTags
<1>1. \A t \in DOMAIN LiteralAst : LiteralAst[t] \in LeafTags
    BY DEF LeafTags, LiteralAst
<1>2. \A t \in DOMAIN UnaryAst : UnaryAst[t] \in UnaryTags
    BY DEF UnaryTags, UnaryAst
<1> QED
    BY <1>1, <1>2, Zenon DEF PlainTags

(* The fields of a node of the pool.                                       *)
LEMMA NodeAt ==
    ASSUME ParserInv, NEW n \in 0 .. Len(pool), n # NULL
    PROVE  pool[n].tok \in Nat /\ pool[n].kids \in Seq(0 .. Len(pool)) /\ pool[n] \in Nodes(Len(pool))
<1>1. pool[n] \in Nodes(Len(pool))
    BY DEF ParserInv, NULL
<1>2. PICK x : x = pool[n]
    OBVIOUS
<1>3. x.tok \in Nat /\ x.kids \in Seq(0 .. Len(pool))
    BY <1>1, <1>2 DEF Nodes
<1> QED
    BY <1>1, <1>2, <1>3

(* The places that return nothing to do keep the top.                      *)
LEMMA TopReturn == \A s : TopOK(s, "return") /\ TopOK(s, "exit") /\ TopOK(s, "crash") /\ TopOK(s, "done")
    BY DEF TopOK

(* The start of a primary expression and a prefix operator.                *)
LEMMA PrimaryStep ==
    ASSUME ParserInv, CursorSound, UNCHANGED types,
           \/ PrimaryIdentifier \/ PrimaryLiteral \/ PrimaryEnumLiteral
           \/ PrimaryGroup \/ PrimaryNone \/ PrefixOperator
    PROVE  ParserInv' /\ CursorSound'
<1>0. /\ StackOK(stack, pool, Len(types), tokens) /\ Len(pool) \in Nat /\ Len(types) \in Nat
      /\ toki \in Nat /\ toki + 1 \in Nat /\ tokens \in Inputs /\ types' = types
      /\ reported \in BOOLEAN /\ NULL \in 0 .. Len(pool) /\ <<>> \in Seq(0 .. Len(pool))
    BY PoolSize DEF ParserInv, NULL
<1>1. AtPrimary => stack # <<>> /\ Caller.at \in {"precedence", "member"}
    BY DEF AtPrimary, ParserInv, TopOK, Caller
<1>2. pc = "unary" => stack # <<>> /\ Caller.at = "precedence"
    BY DEF ParserInv, TopOK, Caller
<1>3. CASE PrimaryIdentifier
    <2>1. /\ new_node("AST_IDENTIFIER", toki, <<>>) /\ advance(1) /\ tokens' = tokens
          /\ Tok(toki) # "TOK_EOF" /\ stack' = stack /\ reported' = reported /\ pc' = "postfix"
        BY <1>3 DEF PrimaryIdentifier, new_literal
    <2>2. toki' \in Nat /\ CursorSound'
        BY <1>0, <2>1, CursorMoves
    <2>3. TopOK(stack', pc')
        BY <1>1, <1>3, <2>1 DEF PrimaryIdentifier, TopOK, Caller
    <2>4. PICK tag \in PlainTags : tag = "AST_IDENTIFIER"
        BY DEF PlainTags, LeafTags
    <2> QED
        BY <1>0, <2>1, <2>2, <2>3, <2>4, MakesExpr
<1>4. CASE PrimaryLiteral
    <2>1. /\ new_node(LiteralAst[Tok(toki)], toki, <<>>) /\ advance(1) /\ tokens' = tokens
          /\ stack' = stack /\ reported' = reported /\ pc' = "return"
          /\ Tok(toki) \in DOMAIN LiteralAst
        BY <1>4 DEF PrimaryLiteral, new_literal
    <2>2. Tok(toki) # "TOK_EOF"
        BY <2>1 DEF LiteralAst
    <2>3. toki' \in Nat /\ CursorSound'
        BY <1>0, <2>1, <2>2, CursorMoves
    <2>4. PICK tag \in PlainTags : tag = LiteralAst[Tok(toki)]
        BY <2>1, ExprTags
    <2> QED
        BY <1>0, <2>1, <2>3, <2>4, MakesExpr, TopReturn
<1>5. CASE PrimaryEnumLiteral
    <2>1. /\ new_node("AST_ENUM_LITERAL", toki + 1, <<>>) /\ advance(2) /\ tokens' = tokens
          /\ stack' = stack /\ reported' = reported /\ pc' = "return"
          /\ match(<<"TOK_PERIOD", "TOK_IDENTIFIER">>)
        BY <1>5 DEF PrimaryEnumLiteral
    <2>2. Tok(toki) = "TOK_PERIOD" /\ Tok(toki + 1) = "TOK_IDENTIFIER"
        BY <1>0, <2>1, MatchTwo, Zenon
    <2>3. toki' \in Nat /\ CursorSound'
        BY <1>0, <2>1, <2>2, CursorMoves
    <2>4. PICK tag \in PlainTags : tag = "AST_ENUM_LITERAL"
        BY DEF PlainTags, LeafTags
    <2>5. PICK tok \in Nat : tok = toki + 1
        BY <1>0
    <2> QED
        BY <1>0, <2>1, <2>3, <2>4, <2>5, MakesExpr, TopReturn
<1>6. CASE PrimaryGroup
    <2>1. /\ advance(1) /\ tokens' = tokens /\ pool' = pool /\ ret' = ret /\ reported' = reported
          /\ stack' = stack \o <<Frame("group", 0, toki, NULL, <<>>), PrecedenceFrame(0)>>
          /\ pc' = "unary" /\ Tok(toki) # "TOK_EOF" /\ AtPrimary
        BY <1>6 DEF PrimaryGroup
    <2>2. toki' \in Nat /\ CursorSound'
        BY <1>0, <2>1, CursorMoves
    <2>3. StackOK(stack', pool, Len(types), tokens) /\ TopOK(stack', "unary")
        <3>1. PICK at \in FrameAt \ {"precedence", "member"}, min \in 0 .. 12 :
                  at = "group" /\ min = 0
            BY DEF FrameAt
        <3>2. stack # <<>> /\ Caller.at \in CallersOf(at)
            BY <1>1, <2>1, <3>1, CallersAre
        <3> QED
            BY <1>0, <2>1, <3>1, <3>2, PushExpr
    <2> QED
        BY <1>0, <2>1, <2>2, <2>3, MakesNone DEF ParserInv
<1>7. CASE PrimaryNone
    <2>1. /\ toki' = toki /\ current' = current /\ tokens' = tokens /\ pool' = pool /\ ret' = NULL
          /\ reported' = reported /\ stack' = stack /\ pc' = "return"
        BY <1>7 DEF PrimaryNone
    <2>2. toki' \in Nat /\ CursorSound'
        BY <1>0, <2>1, CursorMoves
    <2> QED
        BY <1>0, <2>1, <2>2, MakesNone, TopReturn
<1>8. CASE PrefixOperator
    <2>1. /\ advance(1) /\ tokens' = tokens /\ pool' = pool /\ ret' = ret /\ reported' = reported
          /\ stack' = stack \o <<Frame("operand", 0, toki, NULL, <<>>), PrecedenceFrame(PREC_UNARY)>>
          /\ pc' = "unary" /\ Tok(toki) \in DOMAIN UnaryAst /\ pc = "unary"
        BY <1>8 DEF PrefixOperator
    <2>2. Tok(toki) # "TOK_EOF"
        BY <2>1 DEF UnaryAst
    <2>3. toki' \in Nat /\ CursorSound'
        BY <1>0, <2>1, <2>2, CursorMoves
    <2>4. StackOK(stack', pool, Len(types), tokens) /\ TopOK(stack', "unary")
        <3>1. PICK at \in FrameAt \ {"precedence", "member"}, min \in 0 .. 12 :
                  at = "operand" /\ min = PREC_UNARY
            BY DEF FrameAt, PREC_UNARY
        <3>2. stack # <<>> /\ Caller.at \in CallersOf(at)
            BY <1>2, <2>1, <3>1, CallersAre
        <3> QED
            BY <1>0, <2>1, <3>1, <3>2, PushExpr
    <2> QED
        BY <1>0, <2>1, <2>3, <2>4, MakesNone DEF ParserInv
<1> QED
    BY <1>3, <1>4, <1>5, <1>6, <1>7, <1>8

(* The loop of primary.                                                    *)
LEMMA PostfixStep ==
    ASSUME ParserInv, CursorSound, UNCHANGED types,
           \/ PostfixMember \/ PostfixEmptyCall \/ PostfixCall \/ PostfixIndex \/ PostfixEnd
    PROVE  ParserInv' /\ CursorSound'
<1>0. /\ StackOK(stack, pool, Len(types), tokens) /\ Len(pool) \in Nat /\ Len(types) \in Nat
      /\ toki \in Nat /\ tokens \in Inputs /\ types' = types
      /\ reported \in BOOLEAN /\ <<>> \in Seq(0 .. Len(pool)) /\ ret \in 0 .. Len(pool)
    BY PoolSize DEF ParserInv
<1>1. pc = "postfix" => /\ stack # <<>> /\ Caller.at \in {"precedence", "member"}
                        /\ ret # NULL
    BY DEF ParserInv, TopOK, Caller
<1>2. current = Tok(toki)
    BY DEF CursorSound
<1>3. CASE PostfixMember
    <2>1. /\ advance(1) /\ tokens' = tokens /\ pool' = pool /\ ret' = ret /\ reported' = reported
          /\ stack' = Append(stack, Frame("member", 0, toki, ret, <<>>))
          /\ pc' = "primary" /\ Tok(toki) # "TOK_EOF" /\ pc = "postfix"
        BY <1>2, <1>3 DEF PostfixMember
    <2>2. toki' \in Nat /\ CursorSound'
        BY <1>0, <2>1, CursorMoves
    <2>3. PICK at \in FrameAt : at = "member"
        BY DEF FrameAt
    <2>4. PICK f : f = Frame(at, 0, toki, ret, <<>>)
        OBVIOUS
    <2>5. f \in Frames(Len(pool), Len(types))
        BY <1>0, <2>4, ExprFrameMade
    <2>6. f.at = "member" /\ f.lhs # NULL
        BY <1>1, <2>1, <2>3, <2>4 DEF Frame
    <2>7. HeldFor(f, pool, tokens)
        BY <2>6 DEF HeldFor, Owner, StructAt
    <2>8. stack # <<>> /\ Last(stack).at \in CallersOf(f.at)
        BY <1>1, <2>1, <2>6, CallersAre DEF Caller
    <2>9. /\ StackOK(Append(stack, f), pool, Len(types), tokens)
          /\ Last(Append(stack, f)) = f /\ Append(stack, f) # <<>>
        BY <1>0, <2>5, <2>7, <2>8, StackPush
    <2>10. stack' = Append(stack, f)
        BY <2>1, <2>3, <2>4
    <2>11. StackOK(stack', pool, Len(types), tokens) /\ TopOK(stack', "primary")
        BY <2>6, <2>9, <2>10 DEF TopOK
    <2> QED
        BY <1>0, <2>1, <2>2, <2>11, MakesNone
<1>4. CASE PostfixEmptyCall
    <2>1. /\ new_node("AST_CALL", pool[ret].tok, <<ret>>) /\ advance(2) /\ tokens' = tokens
          /\ stack' = stack /\ reported' = reported /\ pc' = pc /\ pc = "postfix"
          /\ match(<<"TOK_LPAREN", "TOK_RPAREN">>)
        BY <1>4 DEF PostfixEmptyCall
    <2>2. Tok(toki) = "TOK_LPAREN" /\ Tok(toki + 1) = "TOK_RPAREN"
        BY <1>0, <2>1, MatchTwo, Zenon
    <2>3. toki' \in Nat /\ CursorSound'
        BY <1>0, <2>1, <2>2, CursorMoves
    <2>4. PICK tag \in PlainTags : tag = "AST_CALL"
        BY DEF PlainTags, PostfixTags
    <2>5. PICK tok \in Nat : tok = pool[ret].tok
        BY <1>0, <1>1, <2>1, NodeAt
    <2>6. <<ret>> \in Seq(0 .. Len(pool))
        BY <1>0
    <2>7. TopOK(stack', pc')
        BY <2>1 DEF ParserInv
    <2> QED
        BY <1>0, <2>1, <2>3, <2>4, <2>5, <2>6, <2>7, MakesExpr
<1>5. ASSUME NEW at \in {"args", "index"}, pc = "postfix", Tok(toki) # "TOK_EOF",
             advance(1), UNCHANGED <<tokens, pool, ret, reported>>, pc' = "unary",
             stack' = stack \o <<Frame(at, 0, toki, ret, <<>>), PrecedenceFrame(0)>>
      PROVE  ParserInv' /\ CursorSound'
    <2>1. toki' \in Nat /\ CursorSound'
        BY <1>0, <1>5, CursorMoves
    <2>2. PICK min \in 0 .. 12 : min = 0
        OBVIOUS
    <2>3. at \in FrameAt \ {"precedence", "member"} /\ at # "rhs" /\ at # "operand"
        BY DEF FrameAt
    <2>4. stack # <<>> /\ Caller.at \in CallersOf(at)
        BY <1>1, <1>5, CallersAre
    <2>5. StackOK(stack', pool, Len(types), tokens) /\ TopOK(stack', "unary")
        BY <1>0, <1>1, <1>5, <2>2, <2>3, <2>4, PushExpr
    <2> QED
        BY <1>0, <1>5, <2>1, <2>5, MakesNone
<1>6. CASE PostfixCall
    BY <1>2, <1>5, <1>6 DEF PostfixCall
<1>7. CASE PostfixIndex
    BY <1>2, <1>5, <1>7 DEF PostfixIndex
<1>8. CASE PostfixEnd
    <2>1. /\ toki' = toki /\ current' = current /\ tokens' = tokens /\ pool' = pool /\ ret' = ret
          /\ reported' = reported /\ stack' = stack /\ pc' = "return"
        BY <1>8 DEF PostfixEnd
    <2>2. toki' \in Nat /\ CursorSound'
        BY <1>0, <2>1, CursorMoves
    <2> QED
        BY <1>0, <2>1, <2>2, MakesNone, TopReturn
<1> QED
    BY <1>3, <1>4, <1>6, <1>7, <1>8

(* What is returned to the expression parser.                              *)
LEMMA OperatorStep ==
    ASSUME ParserInv, CursorSound, UNCHANGED types,
           TakeOperator \/ LeaveLoop \/ new_binary \/ new_unary
    PROVE  ParserInv' /\ CursorSound'
<1>0. /\ StackOK(stack, pool, Len(types), tokens) /\ Len(pool) \in Nat /\ Len(types) \in Nat
      /\ toki \in Nat /\ tokens \in Inputs /\ types' = types
      /\ reported \in BOOLEAN /\ <<>> \in Seq(0 .. Len(pool)) /\ ret \in 0 .. Len(pool)
    BY PoolSize DEF ParserInv
<1>1. CASE TakeOperator
    <2>1. /\ advance(1) /\ tokens' = tokens /\ pool' = pool /\ ret' = ret /\ reported' = reported
          /\ stack' = stack \o <<Frame("rhs", 0, toki, ret, <<>>),
                                 PrecedenceFrame(next_prec(Tok(toki)))>>
          /\ pc' = "unary" /\ ReturnTo("precedence")
          /\ get_precedence(Tok(toki)) # PREC_NONE
        BY <1>1 DEF TakeOperator, TakesOperator
    <2>2. Tok(toki) # "TOK_EOF"
        BY <2>1, EofIsNoOperator
    <2>3. toki' \in Nat /\ CursorSound'
        BY <1>0, <2>1, <2>2, CursorMoves
    <2>4. PICK at \in FrameAt \ {"precedence", "member"} : at = "rhs"
        BY DEF FrameAt
    <2>5. PICK min \in 0 .. 12 : min = next_prec(Tok(toki))
        BY NextPrecRange, PrecedenceRange
    <2>6. stack # <<>> /\ Caller.at \in CallersOf(at)
        BY <2>1, <2>4, CallersAre DEF ReturnTo
    <2>7. StackOK(stack', pool, Len(types), tokens) /\ TopOK(stack', "unary")
        BY <1>0, <2>1, <2>4, <2>5, <2>6, PushExpr
    <2> QED
        BY <1>0, <2>1, <2>3, <2>7, MakesNone
<1>2. CASE LeaveLoop
    <2>1. /\ toki' = toki /\ current' = current /\ tokens' = tokens /\ pool' = pool /\ ret' = ret
          /\ reported' = reported /\ stack' = Front(stack) /\ pc' = "return"
          /\ ReturnTo("precedence")
        BY <1>2 DEF LeaveLoop, Pop, ReturnTo
    <2>2. toki' \in Nat /\ CursorSound'
        BY <1>0, <2>1, CursorMoves
    <2>3. StackOK(stack', pool, Len(types), tokens)
        BY <2>1, ResumedExpr DEF FrameAt
    <2> QED
        BY <1>0, <2>1, <2>2, <2>3, MakesNone, TopReturn
<1>3. CASE new_binary
    <2>1. /\ toki' = toki /\ current' = current /\ tokens' = tokens
          /\ reported' = reported /\ stack' = Front(stack) /\ pc' = "return"
          /\ ReturnTo("rhs")
          /\ new_node(BinaryAst(Tok(Caller.tok)), Caller.tok, <<Caller.lhs, ret>>)
        BY <1>3 DEF new_binary, Pop, ReturnTo
    <2>2. toki' \in Nat /\ CursorSound'
        BY <1>0, <2>1, CursorMoves
    <2>3. /\ StackOK(stack', pool, Len(types), tokens) /\ Caller.tok \in Nat
          /\ Caller.lhs \in 0 .. Len(pool) /\ get_precedence(Tok(Caller.tok)) # PREC_NONE
        BY <2>1, ResumedExpr DEF FrameAt, ExprFrames, HeldFor, Tok
    <2>4. PICK tag \in PlainTags : tag = BinaryAst(Tok(Caller.tok))
        BY <2>3, OperatorsHaveNodes, ExprTags
    <2>5. <<Caller.lhs, ret>> \in Seq(0 .. Len(pool))
        BY <1>0, <2>3
    <2> QED
        BY <1>0, <2>1, <2>2, <2>3, <2>4, <2>5, MakesExpr, TopReturn
<1>4. CASE new_unary
    <2>1. /\ toki' = toki /\ current' = current /\ tokens' = tokens
          /\ reported' = reported /\ stack' = Front(stack) /\ pc' = "return"
          /\ ReturnTo("operand")
          /\ new_node(UnaryAst[Tok(Caller.tok)], Caller.tok, <<ret>>)
        BY <1>4 DEF new_unary, Pop, ReturnTo
    <2>2. toki' \in Nat /\ CursorSound'
        BY <1>0, <2>1, CursorMoves
    <2>3. /\ StackOK(stack', pool, Len(types), tokens) /\ Caller.tok \in Nat
          /\ Tok(Caller.tok) \in DOMAIN UnaryAst
        BY <2>1, ResumedExpr DEF FrameAt, ExprFrames, HeldFor, Tok
    <2>4. PICK tag \in PlainTags : tag = UnaryAst[Tok(Caller.tok)]
        BY <2>3, ExprTags
    <2>5. <<ret>> \in Seq(0 .. Len(pool))
        BY <1>0, <2>3
    <2> QED
        BY <1>0, <2>1, <2>2, <2>3, <2>4, <2>5, MakesExpr, TopReturn
<1> QED
    BY <1>1, <1>2, <1>3, <1>4

(* The arguments of a call are nodes.                                      *)
LEMMA ArgsInPool ==
    ASSUME Caller.args \in Seq(0 .. Len(pool)), ret \in 0 .. Len(pool)
    PROVE  ArgsAppended \in Seq(0 .. Len(pool))
<1>1. PICK S, a, x : a \in Seq(S) /\ x \in S /\ S = 0 .. Len(pool) /\ a = Caller.args /\ x = ret
    OBVIOUS
<1>2. Append(a, x) \in Seq(S)
    BY <1>1
<1> QED
    BY <1>1, <1>2 DEF ArgsAppended

(* What primary and its loop do when a call returns to them.               *)
LEMMA PrimaryResumed ==
    ASSUME ParserInv, CursorSound, UNCHANGED types,
           \/ CloseGroup \/ MemberField \/ MemberMissing \/ CloseCall \/ CloseIndex
           \/ IndexMissing \/ ExpectTokenFails
    PROVE  ParserInv' /\ CursorSound'
<1>0. /\ StackOK(stack, pool, Len(types), tokens) /\ Len(pool) \in Nat /\ Len(types) \in Nat
      /\ toki \in Nat /\ tokens \in Inputs /\ types' = types /\ current = Tok(toki)
      /\ reported \in BOOLEAN /\ ret \in 0 .. Len(pool)
    BY PoolSize DEF ParserInv, CursorSound
<1>1. ASSUME NEW at \in {"member", "group", "args", "index"}, ReturnTo(at), stack' = Front(stack)
      PROVE  /\ StackOK(stack', pool, Len(types), tokens) /\ TopOK(stack', "postfix")
             /\ Caller.tok \in Nat /\ Caller.lhs \in 0 .. Len(pool)
             /\ Caller.args \in Seq(0 .. Len(pool))
             /\ at # "group" => Caller.lhs # NULL
    <2>1. at \in FrameAt
        BY DEF FrameAt
    <2>2. /\ Caller \in ExprFrames(Len(pool)) /\ Caller.at = at /\ HeldFor(Caller, pool, tokens)
          /\ StackOK(Front(stack), pool, Len(types), tokens)
          /\ Front(stack) # <<>> /\ Last(Front(stack)).at \in CallersOf(at)
        BY <1>1, <2>1, ResumedExpr
    <2>3. Last(stack').at \in {"precedence", "member"}
        BY <1>1, <2>2, CallersAre
    <2>4. TopOK(stack', "postfix")
        BY <1>1, <2>2, <2>3 DEF TopOK
    <2>5. Caller.tok \in Nat /\ Caller.lhs \in 0 .. Len(pool) /\ Caller.args \in Seq(0 .. Len(pool))
        BY <2>2 DEF ExprFrames
    <2>6. at # "group" => Caller.lhs # NULL
        BY <2>2 DEF HeldFor
    <2> QED
        BY <1>1, <2>2, <2>4, <2>5, <2>6
<1>2. CASE CloseGroup
    <2>1. /\ advance(1) /\ tokens' = tokens /\ reported' = reported /\ stack' = Front(stack)
          /\ pc' = "return" /\ ReturnTo("group") /\ Tok(toki) # "TOK_EOF"
          /\ new_node("AST_GROUPED_EXPR", Caller.tok, <<ret>>)
        BY <1>0, <1>2 DEF CloseGroup, Pop, ReturnTo
    <2>2. toki' \in Nat /\ CursorSound'
        BY <1>0, <2>1, CursorMoves
    <2>3. PICK tag \in PlainTags : tag = "AST_GROUPED_EXPR"
        BY DEF PlainTags, PostfixTags
    <2>4. StackOK(stack', pool, Len(types), tokens) /\ Caller.tok \in Nat
        BY <1>1, <2>1
    <2>5. <<ret>> \in Seq(0 .. Len(pool))
        BY <1>0
    <2> QED
        BY <1>0, <2>1, <2>2, <2>3, <2>4, <2>5, MakesExpr, TopReturn
<1>3. CASE MemberField
    <2>1. /\ toki' = toki /\ current' = current /\ tokens' = tokens /\ reported' = reported
          /\ stack' = Front(stack) /\ pc' = "postfix" /\ ReturnTo("member")
          /\ new_node("AST_MEMBER", Caller.tok, <<Caller.lhs, ret>>)
        BY <1>3 DEF MemberField, Pop
    <2>2. toki' \in Nat /\ CursorSound'
        BY <1>0, <2>1, CursorMoves
    <2>3. PICK tag \in PlainTags : tag = "AST_MEMBER"
        BY DEF PlainTags, PostfixTags
    <2>4. /\ StackOK(stack', pool, Len(types), tokens) /\ TopOK(stack', "postfix")
          /\ Caller.tok \in Nat /\ Caller.lhs \in 0 .. Len(pool)
        BY <1>1, <2>1
    <2>5. <<Caller.lhs, ret>> \in Seq(0 .. Len(pool))
        BY <1>0, <2>4
    <2> QED
        BY <1>0, <2>1, <2>2, <2>3, <2>4, <2>5, MakesExpr
<1>4. CASE MemberMissing
    <2>1. /\ toki' = toki /\ current' = current /\ tokens' = tokens /\ reported' = TRUE
          /\ stack' = Front(stack) /\ pc' = "return" /\ ReturnTo("member")
          /\ pool' = pool /\ ret' = ret
        BY <1>4 DEF MemberMissing, Pop, ReturnTo
    <2>2. toki' \in Nat /\ CursorSound'
        BY <1>0, <2>1, CursorMoves
    <2>3. StackOK(stack', pool, Len(types), tokens)
        BY <1>1, <2>1
    <2> QED
        BY <1>0, <2>1, <2>2, <2>3, MakesNone, TopReturn
<1>5. CASE CloseCall
    <2>1. /\ advance(1) /\ tokens' = tokens /\ reported' = reported /\ stack' = Front(stack)
          /\ pc' = "postfix" /\ ReturnTo("args") /\ Tok(toki) # "TOK_EOF"
          /\ new_node("AST_CALL", pool[Caller.lhs].tok, <<Caller.lhs>> \o ArgsAppended)
        BY <1>0, <1>5 DEF CloseCall, Pop
    <2>2. toki' \in Nat /\ CursorSound'
        BY <1>0, <2>1, CursorMoves
    <2>3. PICK tag \in PlainTags : tag = "AST_CALL"
        BY DEF PlainTags, PostfixTags
    <2>4. /\ StackOK(stack', pool, Len(types), tokens) /\ TopOK(stack', "postfix")
          /\ Caller.lhs \in 0 .. Len(pool) /\ Caller.args \in Seq(0 .. Len(pool))
          /\ Caller.lhs # NULL
        BY <1>1, <2>1
    <2>5. ArgsAppended \in Seq(0 .. Len(pool))
        BY <1>0, <2>4, ArgsInPool
    <2>6. PICK kids \in Seq(0 .. Len(pool)) : kids = <<Caller.lhs>> \o ArgsAppended
        <3>1. PICK S, a, l : a \in Seq(S) /\ l \in S /\ S = 0 .. Len(pool) /\ a = ArgsAppended /\ l = Caller.lhs
            BY <2>4, <2>5
        <3>2. <<l>> \in Seq(S)
            BY <3>1
        <3>3. <<l>> \o a \in Seq(S)
            BY <3>1, <3>2, ConcatProperties
        <3> QED
            BY <3>1, <3>3
    <2>7. PICK tok \in Nat : tok = pool[Caller.lhs].tok
        BY <2>4, NodeAt
    <2> QED
        BY <1>0, <2>1, <2>2, <2>3, <2>4, <2>6, <2>7, MakesExpr
<1>6. CASE CloseIndex
    <2>1. /\ advance(1) /\ tokens' = tokens /\ reported' = reported /\ stack' = Front(stack)
          /\ pc' = "postfix" /\ ReturnTo("index") /\ Tok(toki) # "TOK_EOF"
          /\ new_node("AST_ARRAY_ACCESS", pool[Caller.lhs].tok, <<Caller.lhs, ret>>)
        BY <1>0, <1>6 DEF CloseIndex, Pop
    <2>2. toki' \in Nat /\ CursorSound'
        BY <1>0, <2>1, CursorMoves
    <2>3. PICK tag \in PlainTags : tag = "AST_ARRAY_ACCESS"
        BY DEF PlainTags, PostfixTags
    <2>4. /\ StackOK(stack', pool, Len(types), tokens) /\ TopOK(stack', "postfix")
          /\ Caller.lhs \in 0 .. Len(pool) /\ Caller.lhs # NULL
        BY <1>1, <2>1
    <2>5. <<Caller.lhs, ret>> \in Seq(0 .. Len(pool))
        BY <1>0, <2>4
    <2>6. PICK tok \in Nat : tok = pool[Caller.lhs].tok
        BY <2>4, NodeAt
    <2> QED
        BY <1>0, <2>1, <2>2, <2>3, <2>4, <2>5, <2>6, MakesExpr
<1>7. CASE IndexMissing \/ ExpectTokenFails
    <2>1. /\ toki' = toki /\ current' = current /\ tokens' = tokens /\ reported' \in BOOLEAN
          /\ stack' = stack /\ pc' \in {"crash", "exit"} /\ pool' = pool /\ ret' = ret
        BY <1>0, <1>7 DEF IndexMissing, ExpectTokenFails
    <2>2. toki' \in Nat /\ CursorSound'
        BY <1>0, <2>1, CursorMoves
    <2> QED
        BY <1>0, <2>1, <2>2, MakesNone, TopReturn
<1> QED
    BY <1>2, <1>3, <1>4, <1>5, <1>6, <1>7

(* The loop over the arguments of a call.                                  *)
LEMMA ArgumentStep ==
    ASSUME ParserInv, CursorSound, UNCHANGED types, NextArgument \/ RepeatArgument
    PROVE  ParserInv' /\ CursorSound'
<1>0. /\ StackOK(stack, pool, Len(types), tokens) /\ Len(pool) \in Nat /\ Len(types) \in Nat
      /\ toki \in Nat /\ tokens \in Inputs /\ types' = types /\ current = Tok(toki)
      /\ reported \in BOOLEAN /\ ret \in 0 .. Len(pool)
    BY PoolSize DEF ParserInv, CursorSound
<1>1. /\ tokens' = tokens /\ reported' = reported /\ pool' = pool /\ ret' = ret
      /\ pc' = "unary" /\ ReturnTo("args") /\ ParseNextArgument
      /\ \/ advance(1) /\ Tok(toki) # "TOK_EOF"
         \/ toki' = toki /\ current' = current
    BY <1>0 DEF NextArgument, RepeatArgument
<1>2. toki' \in Nat /\ CursorSound'
    BY <1>0, <1>1, CursorMoves
<1>3. /\ Caller \in ExprFrames(Len(pool)) /\ Caller.at = "args" /\ HeldFor(Caller, pool, tokens)
      /\ StackOK(Front(stack), pool, Len(types), tokens)
      /\ Front(stack) # <<>> /\ Last(Front(stack)).at \in CallersOf("args")
    BY <1>1, ResumedExpr DEF FrameAt
<1>4. PICK args \in Seq(0 .. Len(pool)) : args = ArgsAppended
    BY <1>0, <1>3, ArgsInPool DEF ExprFrames
<1>5. PICK f : f = [Caller EXCEPT !.args = args]
    OBVIOUS
<1>6. f \in ExprFrames(Len(pool)) /\ f.at = "args" /\ f.lhs = Caller.lhs
    BY <1>3, <1>5 DEF ExprFrames
<1>7. f \in Frames(Len(pool), Len(types))
    BY <1>6, Zenon DEF Frames
<1>8. HeldFor(f, pool, tokens)
    BY <1>3, <1>6 DEF HeldFor, Owner, StructAt
<1>9. PICK min \in 0 .. 12 : min = 0
    OBVIOUS
<1>10. "args" \in CallersOf("precedence")
    BY CallersAre
<1>11. PICK s : s = Front(stack)
    OBVIOUS
<1>12. /\ StackOK(s, pool, Len(types), tokens) /\ s # <<>> /\ Last(s).at \in CallersOf(f.at)
       /\ f.at \in CallersOf("precedence")
    BY <1>3, <1>6, <1>10, <1>11
<1>13. stack' = s \o <<f, PrecedenceFrame(min)>>
    BY <1>1, <1>4, <1>5, <1>9, <1>11 DEF ParseNextArgument
<1>14. StackOK(stack', pool, Len(types), tokens) /\ TopOK(stack', "unary")
    BY <1>0, <1>7, <1>8, <1>12, <1>13, CallExpr
<1> QED
    BY <1>0, <1>1, <1>2, <1>14, MakesNone

(* A step of the expression parser, whoever called it.                     *)
LEMMA ExprStep ==
    ASSUME ParserInv, CursorSound, parse_expr
    PROVE  ParserInv' /\ CursorSound'
    BY PrimaryStep, PostfixStep, OperatorStep, PrimaryResumed, ArgumentStep, Zenon
       DEF parse_expr, Primary

-----------------------------------------------------------------------------
(* Declarations.                                                           *)

(* A step that makes a type.                                               *)
LEMMA MakesType ==
    ASSUME ParserInv, tokens' = tokens, pool' = pool, ret' = ret, reported' = reported,
           toki' \in Nat, NEW id \in SUBSET Flags, NEW base \in 0 .. Len(types),
           NEW len \in 0 .. Len(pool), NEW c \in BOOLEAN, NEW s \in BOOLEAN,
           new_type(id, base, len, c, s),
           StackOK(stack', pool, Len(types) + 1, tokens), TopOK(stack', pc'), pc' # "postfix"
    PROVE  ParserInv'
<1>0. /\ Len(pool) \in Nat /\ Len(types) \in Nat
      /\ types \in Seq(TypesBelow(Len(types) + 1, Len(pool)))
      /\ \A t \in 1 .. Len(types) : types[t].base < t
    BY PoolSize DEF ParserInv
<1>1. PICK n \in Nat : n = Len(types) + 1
    BY <1>0
<1>2. PICK x : x = [id |-> id, base |-> base, len |-> len, is_const |-> c, is_static |-> s]
    OBVIOUS
<1>3. x \in TypesBelow(n + 1, Len(pool)) /\ x.base < n
    BY <1>0, <1>1, <1>2 DEF TypesBelow
<1>4. TypesBelow(n, Len(pool)) \subseteq TypesBelow(n + 1, Len(pool))
    <2>1. PICK a, b : a = 0 .. n - 1 /\ b = 0 .. n + 1 - 1 /\ a \subseteq b
        OBVIOUS
    <2>2. \A y \in [id : SUBSET Flags, base : a, len : 0 .. Len(pool), is_const : BOOLEAN,
                     is_static : BOOLEAN] :
              y \in [id : SUBSET Flags, base : b, len : 0 .. Len(pool), is_const : BOOLEAN,
                     is_static : BOOLEAN]
        BY <2>1, Zenon
    <2> QED
        BY <2>1, <2>2 DEF TypesBelow
<1>5. types \in Seq(TypesBelow(n + 1, Len(pool)))
    BY <1>0, <1>1, <1>4, WiderSeq
<1>6. types' = Append(types, x)
    BY <1>2 DEF new_type
<1>7. /\ types' \in Seq(TypesBelow(n + 1, Len(pool))) /\ Len(types') = n
      /\ \A t \in 1 .. Len(types) : types'[t] = types[t]
      /\ types'[n] = x
    BY <1>0, <1>1, <1>3, <1>5, <1>6, PushOne
<1>8. \A t \in 1 .. Len(types') : types'[t].base < t
    <2> SUFFICES ASSUME NEW t \in 1 .. Len(types') PROVE types'[t].base < t
        OBVIOUS
    <2>1. t = n \/ t \in 1 .. Len(types)
        BY <1>0, <1>1, <1>7
    <2> QED
        BY <1>0, <1>3, <1>7, <2>1
<1>9. types' \in Seq(TypesBelow(Len(types') + 1, Len(pool')))
    BY <1>7
<1>10. StackOK(stack', pool', Len(types'), tokens')
    BY <1>1, <1>7
<1>11. tokens' \in Inputs /\ reported' \in BOOLEAN /\ ret' \in 0 .. Len(pool')
       /\ pool' \in Seq(Nodes(Len(pool')))
    BY DEF ParserInv
<1> QED
    BY <1>8, <1>9, <1>10, <1>11, Zenon DEF ParserInv

(* A declaration that goes on.                                             *)
LEMMA DeclBecomes ==
    ASSUME ParserInv, stack # <<>>, Caller.at \in DeclAt, NEW m \in Nat, Len(types) <= m,
           NEW f \in DeclFrames(m), stack' = Append(Front(stack), f)
    PROVE  /\ StackOK(stack', pool, m, tokens)
           /\ stack' # <<>> /\ Last(stack') = f
<1>1. StackOK(stack, pool, Len(types), tokens) /\ Len(pool) \in Nat /\ Len(types) \in Nat
    BY PoolSize DEF ParserInv
<1>2. StackOK(stack, pool, m, tokens)
    <2>1. Extends(pool, pool)
        BY <1>1 DEF Extends
    <2> QED
        BY <1>1, <2>1, StackKept
<1>3. f \in Frames(Len(pool), m) /\ f.at \in DeclAt
    BY Zenon DEF Frames, DeclFrames
<1>4. f.at \notin FrameAt /\ f.at \notin DOMAIN Owner /\ f.at \notin StructAt
    BY <1>3 DEF FrameAt, DeclAt, Owner, StructAt
<1>5. HeldFor(f, pool, tokens)
    BY <1>4 DEF HeldFor, FrameAt
<1>6. CallersOf(f.at) = CallersOf(Last(stack).at)
    BY <1>3, CallersAre DEF Caller
<1> QED
    BY <1>1, <1>2, <1>3, <1>4, <1>5, <1>6, StackBecome

(* The activation of parse_var_decl on top of the stack.                   *)
LEMMA DeclCaller ==
    ASSUME ParserInv, stack # <<>>, Caller.at \in DeclAt
    PROVE  /\ Caller \in DeclFrames(Len(types))
           /\ StackOK(Front(stack), pool, Len(types), tokens)
<1>1. StackOK(stack, pool, Len(types), tokens) /\ Len(pool) \in Nat /\ Len(types) \in Nat
    BY PoolSize DEF ParserInv
<1>2. Caller \in Frames(Len(pool), Len(types)) /\ StackOK(Front(stack), pool, Len(types), tokens)
    BY <1>1, StackPop DEF Caller
<1> QED
    BY <1>1, <1>2, FrameKinds

(* A declaration is made.                                                  *)
LEMMA DeclMade ==
    ASSUME ParserInv, tokens' = tokens, types' = types, reported' = reported, toki' = toki,
           stack # <<>>, Caller.at \in DeclAt, NEW init \in 0 .. Len(pool), new_var_decl(init)
    PROVE  /\ ParserInv'
           /\ ret' = Len(pool) + 1 /\ pool'[ret'].tag = Caller.tag /\ pool'[ret'].type = Caller.type
           /\ Extends(pool, pool') /\ Len(pool') = Len(pool) + 1
<1>0. /\ pool \in Seq(Nodes(Len(pool))) /\ Len(pool) \in Nat /\ toki \in Nat
      /\ Len(types) \in Nat /\ reported \in BOOLEAN
    BY PoolSize DEF ParserInv
<1>1. PICK x : x = [tag |-> Caller.tag, tok |-> Caller.tok, kids |-> <<init>>,
                    name |-> Caller.name, type |-> Caller.type]
    OBVIOUS
<1>2. Caller \in DeclFrames(Len(types)) /\ StackOK(Front(stack), pool, Len(types), tokens)
    BY DeclCaller
<1>3. <<init>> \in Seq(0 .. Len(pool))
    BY <1>0
<1>4. x \in Nodes(Len(pool)) /\ x.tag = Caller.tag /\ x.type = Caller.type
    <2>1. /\ Caller.tag \in DeclTags /\ Caller.tok \in Nat /\ Caller.name \in Nat
          /\ Caller.type \in Nat
        BY <1>0, <1>2 DEF DeclFrames
    <2> QED
        BY <1>1, <1>3, <2>1 DEF Nodes
<1>5. pool' = Append(pool, x) /\ ret' = Len(pool) + 1 /\ stack' = Front(stack) /\ pc' = "return"
    BY <1>1 DEF new_var_decl, Pop
<1>6. /\ pool' \in Seq(Nodes(Len(pool'))) /\ Extends(pool, pool')
      /\ Len(pool') = Len(pool) + 1 /\ pool'[Len(pool) + 1] = x
    BY <1>0, <1>4, <1>5, PoolNew
<1>7. StackOK(stack', pool', Len(types), tokens)
    BY <1>0, <1>2, <1>5, <1>6, StackKept
<1>8. ParserInv'
    BY <1>0, <1>5, <1>6, <1>7, Kept, TopReturn
<1> QED
    BY <1>4, <1>5, <1>6, <1>8

(* The flags of the primitive types are flags.                             *)
LEMMA FlagsAre ==
    /\ \A t \in DOMAIN tag_to_primitive : tag_to_primitive[t] \subseteq TypeFlags
    /\ TypeFlags \subseteq Flags
    BY Zenon DEF TypeFlags, Flags

(* A declaration begins.                                                   *)
LEMMA DeclBegins ==
    ASSUME ParserInv, pc = "var_decl", NEW f \in DeclFrames(Len(types))
    PROVE  /\ f \in Frames(Len(pool), Len(types)) /\ f.at \notin FrameAt
           /\ HeldFor(f, pool, tokens)
           /\ stack # <<>> => Last(stack).at \in CallersOf(f.at)
<1>1. f \in Frames(Len(pool), Len(types)) /\ f.at \in DeclAt
    BY Zenon DEF Frames, DeclFrames
<1>2. f.at \notin FrameAt /\ f.at \notin DOMAIN Owner /\ f.at \notin StructAt
    BY <1>1 DEF FrameAt, DeclAt, Owner, StructAt
<1>3. HeldFor(f, pool, tokens)
    BY <1>2 DEF HeldFor, FrameAt
<1>4. stack # <<>> => Last(stack).at \in CallersOf(f.at)
    BY <1>1, CallersAre DEF ParserInv, TopOK
<1> QED
    BY <1>1, <1>2, <1>3, <1>4

(* A step of parse_var_decl that makes no node.                            *)
LEMMA DeclGoesOn ==
    ASSUME ParserInv, tokens' = tokens, types' = types, reported' = reported, toki' \in Nat,
           pool' = pool, ret' = ret, stack # <<>>, Caller.at \in DeclAt,
           NEW f \in DeclFrames(Len(types)), stack' = Append(Front(stack), f),
           f.at = "declaration", pc' \in {"declspec", "qualified", "pointers", "arrays"}
    PROVE  ParserInv'
<1>1. StackOK(stack', pool, Len(types), tokens) /\ stack' # <<>> /\ Last(stack') = f
    BY DeclBecomes, PoolSize
<1>2. TopOK(stack', pc')
    BY <1>1 DEF TopOK
<1>3. reported \in BOOLEAN /\ ret \in 0 .. Len(pool) /\ pc' # "postfix"
    BY DEF ParserInv
<1>4. pool' \in Seq(Nodes(Len(pool'))) /\ Extends(pool, pool')
    BY PoolUnchanged
<1> QED
    BY <1>1, <1>2, <1>3, <1>4, Kept

(* Every step of parse_var_decl keeps the invariant, whoever called it.    *)
LEMMA DeclStep ==
    ASSUME ParserInv, CursorSound, parse_var_decl
    PROVE  ParserInv' /\ CursorSound'
<1>0. /\ StackOK(stack, pool, Len(types), tokens) /\ Len(pool) \in Nat /\ Len(types) \in Nat
      /\ toki \in Nat /\ tokens \in Inputs /\ current = Tok(toki)
      /\ reported \in BOOLEAN /\ ret \in 0 .. Len(pool)
    BY PoolSize DEF ParserInv, CursorSound
<1>1. pc \in {"declspec", "qualified", "pointers", "arrays"} =>
          /\ stack # <<>> /\ Caller.at = "declaration" /\ Caller.at \in DeclAt
          /\ Caller \in DeclFrames(Len(types))
    <2>1. pc \in {"declspec", "qualified", "pointers", "arrays"} =>
              stack # <<>> /\ Caller.at = "declaration"
        BY DEF ParserInv, TopOK, Caller
    <2> QED
        BY <2>1, DeclCaller DEF DeclAt
<1>2. ASSUME NEW kw \in {"TOK_LET", "TOK_CONST"}, NEW tag \in DeclTags, Inferred(kw, tag)
      PROVE  ParserInv' /\ CursorSound'
    <2>1. /\ advance(3) /\ tokens' = tokens /\ types' = types /\ pool' = pool /\ ret' = ret
          /\ reported' = reported /\ pc' = "unary" /\ pc = "var_decl"
          /\ match(<<kw, "TOK_IDENTIFIER", "TOK_EQUAL">>)
          /\ stack' = stack \o <<DeclFrame("initializer", tag, toki, toki + 1), PrecedenceFrame(0)>>
        BY <1>2 DEF Inferred
    <2>2. Tok(toki) = kw /\ Tok(toki + 1) = "TOK_IDENTIFIER" /\ Tok(toki + 2) = "TOK_EQUAL"
        <3>1. PICK y, z : y = "TOK_IDENTIFIER" /\ z = "TOK_EQUAL"
            OBVIOUS
        <3>2. match(<<kw, y, z>>)
            BY <2>1, <3>1
        <3>3. kw = Tok(toki) /\ y = Tok(toki + 1) /\ z = Tok(toki + 2)
            BY <1>0, <3>2, MatchThree
        <3> QED
            BY <3>1, <3>3
    <2>3. Tok(toki) # "TOK_EOF" /\ Tok(toki + 1) # "TOK_EOF" /\ Tok(toki + 2) # "TOK_EOF"
        BY <2>2
    <2>4. toki' \in Nat /\ CursorSound'
        BY <1>0, <2>1, <2>3, CursorMoves
    <2>5. PICK f : f = DeclFrame("initializer", tag, toki, toki + 1)
        OBVIOUS
    <2>6. f \in DeclFrames(Len(types)) /\ f.at = "initializer"
        BY <1>0, <2>5 DEF DeclFrame, DeclFrames, DeclAt, NULL
    <2>7. /\ f \in Frames(Len(pool), Len(types)) /\ f.at \notin FrameAt
          /\ HeldFor(f, pool, tokens)
          /\ stack # <<>> => Last(stack).at \in CallersOf(f.at)
        BY <2>1, <2>6, DeclBegins
    <2>8. PICK min \in 0 .. 12 : min = 0
        OBVIOUS
    <2>9. f.at \in CallersOf("precedence")
        BY <2>6, CallersAre
    <2>10. StackOK(stack', pool, Len(types), tokens) /\ TopOK(stack', "unary")
        BY <1>0, <2>1, <2>5, <2>7, <2>8, <2>9, CallExpr
    <2> QED
        BY <1>0, <2>1, <2>4, <2>10, MakesNone
<1>3. CASE parse_inferred_var_decl \/ parse_const_var_decl
    BY <1>2, <1>3 DEF parse_inferred_var_decl, parse_const_var_decl, DeclTags
<1>4. CASE Qualifiers
    <2> DEFINE c == current = "TOK_CONST"
               s == Tok(toki + Count(c)) = "TOK_STATIC"
               f == [DeclFrame("declaration", "AST_VAR_DECL", NULL, NULL)
                     EXCEPT !.is_const = c, !.is_static = s]
    <2>1. /\ advance(Count(c) + Count(s)) /\ tokens' = tokens /\ types' = types /\ pool' = pool
          /\ ret' = ret /\ reported' = reported /\ pc' = "declspec" /\ pc = "var_decl"
          /\ stack' = Append(stack, f)
        BY <1>4 DEF Qualifiers, Typed
    <2>2. f \in DeclFrames(Len(types)) /\ f.at = "declaration"
        <3>1. PICK g : g = DeclFrame("declaration", "AST_VAR_DECL", NULL, NULL)
            OBVIOUS
        <3>2. g \in DeclFrames(Len(types)) /\ g.at = "declaration"
            BY <1>0, <3>1 DEF DeclFrame, DeclFrames, DeclAt, DeclTags, NULL
        <3>3. \A b, d \in BOOLEAN : /\ [g EXCEPT !.is_const = b, !.is_static = d] \in DeclFrames(Len(types))
                                    /\ [g EXCEPT !.is_const = b, !.is_static = d].at = g.at
            BY <3>2 DEF DeclFrames
        <3>4. c \in BOOLEAN /\ s \in BOOLEAN
            OBVIOUS
        <3> QED
            BY <3>1, <3>2, <3>3, <3>4
    <2>3. toki' \in Nat /\ CursorSound'
        <3>1. CASE c /\ s
            <4>1. Count(c) + Count(s) = 2 /\ Tok(toki) = "TOK_CONST" /\ Tok(toki + 1) = "TOK_STATIC"
                BY <1>0, <3>1 DEF Count
            <4> HIDE DEF c, s
            <4> QED
                BY <1>0, <2>1, <4>1, CursorMoves
        <3>2. CASE c /\ ~s
            <4>1. Count(c) + Count(s) = 1 /\ Tok(toki) = "TOK_CONST"
                BY <1>0, <3>2 DEF Count
            <4> HIDE DEF c, s
            <4> QED
                BY <1>0, <2>1, <4>1, CursorMoves
        <3>3. CASE ~c /\ s
            <4>1. Count(c) + Count(s) = 1 /\ Tok(toki) = "TOK_STATIC"
                BY <1>0, <3>3 DEF Count
            <4> HIDE DEF c, s
            <4> QED
                BY <1>0, <2>1, <4>1, CursorMoves
        <3>4. CASE ~c /\ ~s
            <4>1. Count(c) + Count(s) = 0
                BY <3>4 DEF Count
            <4> HIDE DEF c, s
            <4> QED
                BY <1>0, <2>1, <4>1, CursorMoves
        <3> QED
            BY <3>1, <3>2, <3>3, <3>4
    <2> HIDE DEF f, c, s
    <2>4. /\ f \in Frames(Len(pool), Len(types)) /\ f.at \notin FrameAt
          /\ HeldFor(f, pool, tokens)
          /\ stack # <<>> => Last(stack).at \in CallersOf(f.at)
        BY <2>1, <2>2, DeclBegins
    <2>5. StackOK(stack', pool, Len(types), tokens) /\ Last(stack') = f /\ stack' # <<>>
        BY <1>0, <2>1, <2>4, StackPush
    <2>6. TopOK(stack', pc')
        BY <2>1, <2>2, <2>5 DEF TopOK
    <2> QED
        BY <1>0, <2>1, <2>3, <2>5, <2>6, MakesNone
<1>5. CASE SpecPrimitive
    <2>1. PICK f : f = [Caller EXCEPT !.id = @ \cup tag_to_primitive[current]]
        OBVIOUS
    <2>2. /\ advance(1) /\ tokens' = tokens /\ types' = types /\ pool' = pool
          /\ ret' = ret /\ reported' = reported /\ pc' = "declspec" /\ pc = "declspec"
          /\ stack' = Append(Front(stack), f) /\ Tok(toki) \in DOMAIN tag_to_primitive
        BY <1>0, <1>5, <2>1 DEF SpecPrimitive, Become
    <2>3. Tok(toki) # "TOK_EOF"
        BY <2>2 DEF tag_to_primitive
    <2>4. toki' \in Nat /\ CursorSound'
        BY <1>0, <2>2, <2>3, CursorMoves
    <2>5. PICK flags \in SUBSET Flags : flags = tag_to_primitive[current]
        BY <1>0, <2>2, FlagsAre
    <2>6. f \in DeclFrames(Len(types)) /\ f.at = "declaration"
        BY <1>1, <2>1, <2>2, <2>5 DEF DeclFrames
    <2> QED
        BY <1>1, <2>2, <2>4, <2>6, DeclGoesOn
<1>6. CASE SpecName
    <2>1. PICK f : f = [Caller EXCEPT !.id = {"NAME"}]
        OBVIOUS
    <2>2. /\ advance(1) /\ tokens' = tokens /\ types' = types /\ pool' = pool
          /\ ret' = ret /\ reported' = reported /\ pc' = "qualified" /\ pc = "declspec"
          /\ stack' = Append(Front(stack), f) /\ Tok(toki) # "TOK_EOF"
        BY <1>0, <1>6, <2>1 DEF SpecName, Become, TakesName
    <2>3. toki' \in Nat /\ CursorSound'
        BY <1>0, <2>2, CursorMoves
    <2>4. {"NAME"} \in SUBSET Flags
        BY DEF Flags
    <2>5. f \in DeclFrames(Len(types)) /\ f.at = "declaration"
        BY <1>1, <2>1, <2>2, <2>4 DEF DeclFrames
    <2> QED
        BY <1>1, <2>2, <2>3, <2>5, DeclGoesOn
<1>7. CASE SpecMember
    <2>1. /\ advance(2) /\ tokens' = tokens /\ types' = types /\ pool' = pool
          /\ ret' = ret /\ reported' = reported /\ pc' = pc /\ pc = "qualified"
          /\ stack' = stack /\ Tok(toki) # "TOK_EOF" /\ Tok(toki + 1) # "TOK_EOF"
        BY <1>0, <1>7 DEF SpecMember, Separators
    <2>2. toki' \in Nat /\ CursorSound'
        BY <1>0, <2>1, CursorMoves
    <2>3. TopOK(stack', pc')
        BY <2>1 DEF ParserInv
    <2> QED
        BY <1>0, <2>1, <2>2, <2>3, MakesNone
<1>8. ASSUME NEW id \in SUBSET Flags, NEW base \in 0 .. Len(types), NEW len \in 0 .. Len(pool),
             NEW c \in BOOLEAN, NEW s \in BOOLEAN, new_type(id, base, len, c, s),
             stack # <<>>, Caller.at \in DeclAt, NEW f \in DeclFrames(Len(types) + 1),
             f.at = "declaration", Become(f), pc' \in {"pointers", "arrays"},
             UNCHANGED <<tokens, pool, ret, reported>>, toki' \in Nat
      PROVE  ParserInv'
    <2>1. PICK m \in Nat : m = Len(types) + 1
        BY <1>0
    <2>2. stack' = Append(Front(stack), f) /\ f \in DeclFrames(m)
        BY <1>8, <2>1 DEF Become
    <2>3. StackOK(stack', pool, m, tokens) /\ stack' # <<>> /\ Last(stack') = f
        BY <1>0, <1>8, <2>1, <2>2, DeclBecomes
    <2>4. TopOK(stack', pc') /\ pc' # "postfix"
        BY <1>8, <2>3 DEF TopOK
    <2>5. StackOK(stack', pool, Len(types) + 1, tokens)
        BY <2>1, <2>3
    <2> QED
        BY <1>8, <2>4, <2>5, MakesType
<1>9. ASSUME stack # <<>>, Caller.at \in DeclAt
      PROVE  /\ [Caller EXCEPT !.type = NewType] \in DeclFrames(Len(types) + 1)
             /\ [Caller EXCEPT !.type = NewType].at = Caller.at
             /\ [Caller EXCEPT !.at = "declaration", !.type = NewType] \in DeclFrames(Len(types) + 1)
             /\ [Caller EXCEPT !.at = "declaration", !.type = NewType].at = "declaration"
    <2>1. PICK m \in Nat : m = Len(types) + 1
        BY <1>0
    <2>2. PICK g : g = Caller
        OBVIOUS
    <2>3. g \in DeclFrames(m)
        <3>1. \A k \in 0 .. Len(types) : k \in 0 .. m
            BY <1>0, <2>1
        <3>2. g \in DeclFrames(Len(types))
            BY <1>9, <2>2, DeclCaller
        <3> QED
            BY <3>1, <3>2, Zenon DEF DeclFrames
    <2>4. "declaration" \in DeclAt /\ m \in 0 .. m
        BY DEF DeclAt
    <2>5. /\ [g EXCEPT !.type = m] \in DeclFrames(m) /\ [g EXCEPT !.type = m].at = g.at
          /\ [g EXCEPT !.at = "declaration", !.type = m] \in DeclFrames(m)
          /\ [g EXCEPT !.at = "declaration", !.type = m].at = "declaration"
        BY <2>3, <2>4 DEF DeclFrames
    <2> QED
        BY <2>1, <2>2, <2>5 DEF NewType
<1>10. CASE SpecEnd
    <2>1. /\ new_type(Caller.id, NULL, NULL, FALSE, FALSE) /\ pc' = "pointers"
          /\ Become([Caller EXCEPT !.type = NewType]) /\ toki' = toki /\ current' = current
          /\ UNCHANGED <<tokens, pool, ret, reported>> /\ pc \in {"declspec", "qualified"}
        BY <1>10 DEF SpecEnd
    <2>2. toki' \in Nat /\ CursorSound'
        BY <1>0, <2>1, CursorMoves
    <2>3. PICK id \in SUBSET Flags : id = Caller.id
        BY <1>1, <2>1 DEF DeclFrames
    <2>4. NULL \in 0 .. Len(types) /\ NULL \in 0 .. Len(pool)
        BY <1>0 DEF NULL
    <2>5. PICK f \in DeclFrames(Len(types) + 1) :
              f = [Caller EXCEPT !.type = NewType] /\ f.at = "declaration"
        BY <1>1, <1>9, <2>1
    <2> QED
        BY <1>1, <1>8, <2>1, <2>2, <2>3, <2>4, <2>5
<1>11. CASE PointerType
    <2>1. /\ new_type({"POINTER"}, Caller.type, NULL, Caller.is_const, Caller.is_static)
          /\ pc' = "pointers" /\ pc = "pointers" /\ Tok(toki) # "TOK_EOF"
          /\ Become([Caller EXCEPT !.type = NewType]) /\ advance(1)
          /\ UNCHANGED <<tokens, pool, ret, reported>>
        BY <1>11 DEF PointerType
    <2>2. toki' \in Nat /\ CursorSound'
        BY <1>0, <2>1, CursorMoves
    <2>3. PICK id \in SUBSET Flags : id = {"POINTER"}
        BY DEF Flags
    <2>4. /\ Caller.type \in 0 .. Len(types) /\ NULL \in 0 .. Len(pool)
          /\ Caller.is_const \in BOOLEAN /\ Caller.is_static \in BOOLEAN
        BY <1>0, <1>1, <2>1 DEF NULL, DeclFrames
    <2>5. PICK f \in DeclFrames(Len(types) + 1) :
              f = [Caller EXCEPT !.type = NewType] /\ f.at = "declaration"
        BY <1>1, <1>9, <2>1
    <2> QED
        BY <1>1, <1>8, <2>1, <2>2, <2>3, <2>4, <2>5
<1>12. CASE DeclaratorName
    <2>1. PICK f : f = [Caller EXCEPT !.tok = toki, !.name = toki]
        OBVIOUS
    <2>2. /\ advance(1) /\ tokens' = tokens /\ types' = types /\ pool' = pool
          /\ ret' = ret /\ reported' = reported /\ pc' = "arrays" /\ pc = "pointers"
          /\ stack' = Append(Front(stack), f) /\ Tok(toki) # "TOK_EOF"
        BY <1>0, <1>12, <2>1 DEF DeclaratorName, Become
    <2>3. toki' \in Nat /\ CursorSound'
        BY <1>0, <2>2, CursorMoves
    <2>4. PICK g : g = Caller
        OBVIOUS
    <2>5. g \in DeclFrames(Len(types)) /\ g.at = "declaration"
        BY <1>1, <2>2, <2>4
    <2>6. f \in DeclFrames(Len(types)) /\ f.at = "declaration"
        BY <1>0, <2>1, <2>4, <2>5 DEF DeclFrames
    <2> QED
        BY <1>1, <2>2, <2>3, <2>6, DeclGoesOn
<1>13. CASE ArrayUnsized
    <2>1. /\ new_type({"ARRAY"}, Caller.type, NULL, FALSE, FALSE)
          /\ pc' = "arrays" /\ pc = "arrays" /\ match(<<"TOK_LBRACKET", "TOK_RBRACKET">>)
          /\ Become([Caller EXCEPT !.type = NewType]) /\ advance(2)
          /\ UNCHANGED <<tokens, pool, ret, reported>>
        BY <1>13 DEF ArrayUnsized
    <2>2. Tok(toki) = "TOK_LBRACKET" /\ Tok(toki + 1) = "TOK_RBRACKET"
        BY <1>0, <2>1, MatchTwo, Zenon
    <2>3. toki' \in Nat /\ CursorSound'
        BY <1>0, <2>1, <2>2, CursorMoves
    <2>4. PICK id \in SUBSET Flags : id = {"ARRAY"}
        BY DEF Flags
    <2>5. Caller.type \in 0 .. Len(types) /\ NULL \in 0 .. Len(pool)
        BY <1>0, <1>1, <2>1 DEF NULL, DeclFrames
    <2>6. PICK f \in DeclFrames(Len(types) + 1) :
              f = [Caller EXCEPT !.type = NewType] /\ f.at = "declaration"
        BY <1>1, <1>9, <2>1
    <2> QED
        BY <1>1, <1>8, <2>1, <2>3, <2>4, <2>5, <2>6
<1>14. CASE CloseArray
    <2>1. /\ new_type({"ARRAY"}, Caller.type, ret, FALSE, FALSE)
          /\ pc' = "arrays" /\ ReturnTo("array_len") /\ Tok(toki) # "TOK_EOF"
          /\ Become([Caller EXCEPT !.at = "declaration", !.type = NewType]) /\ advance(1)
          /\ UNCHANGED <<tokens, pool, ret, reported>>
        BY <1>0, <1>14 DEF CloseArray
    <2>2. toki' \in Nat /\ CursorSound'
        BY <1>0, <2>1, CursorMoves
    <2>3. PICK id \in SUBSET Flags : id = {"ARRAY"}
        BY DEF Flags
    <2>4. stack # <<>> /\ Caller.at \in DeclAt
        BY <2>1 DEF ReturnTo, DeclAt
    <2>5. Caller.type \in 0 .. Len(types)
        BY <2>4, DeclCaller DEF DeclFrames
    <2>6. PICK f \in DeclFrames(Len(types) + 1) :
              f = [Caller EXCEPT !.at = "declaration", !.type = NewType] /\ f.at = "declaration"
        BY <1>9, <2>4
    <2> QED
        BY <1>0, <1>8, <2>1, <2>2, <2>3, <2>4, <2>5, <2>6
<1>15. ASSUME NEW at \in {"array_len", "initializer"}, pc = "arrays", Tok(toki) # "TOK_EOF",
              advance(1), AwaitExpr(at), UNCHANGED <<tokens, pool, ret, reported, types>>
       PROVE  ParserInv' /\ CursorSound'
    <2>1. toki' \in Nat /\ CursorSound'
        BY <1>0, <1>15, CursorMoves
    <2>2. PICK f : f = [Caller EXCEPT !.at = at]
        OBVIOUS
    <2>3. f \in DeclFrames(Len(types)) /\ f.at = at
        BY <1>1, <1>15, <2>2 DEF DeclFrames, DeclAt
    <2>4. PICK s : s = Front(stack)
        OBVIOUS
    <2>5. PICK min \in 0 .. 12 : min = 0
        OBVIOUS
    <2>6. stack' = s \o <<f, PrecedenceFrame(min)>> /\ pc' = "unary"
        BY <1>15, <2>2, <2>4, <2>5 DEF AwaitExpr
    <2>7. /\ StackOK(s, pool, Len(types), tokens)
          /\ s # <<>> => Last(s).at \in CallersOf(Caller.at)
        BY <1>0, <1>1, <1>15, <2>4, StackPop DEF Caller
    <2>8. CallersOf(Caller.at) = CallersOf(f.at) /\ f.at \in CallersOf("precedence")
        BY <1>1, <1>15, <2>3, CallersAre DEF DeclAt
    <2>9. f \in Frames(Len(pool), Len(types))
        BY <2>3, Zenon DEF Frames
    <2>10. f.at \notin FrameAt /\ f.at \notin DOMAIN Owner /\ f.at \notin StructAt
        BY <2>3 DEF FrameAt, Owner, StructAt
    <2>11. HeldFor(f, pool, tokens)
        BY <2>10 DEF HeldFor, FrameAt
    <2>12. s # <<>> => Last(s).at \in CallersOf(f.at)
        BY <2>7, <2>8
    <2>13. StackOK(stack', pool, Len(types), tokens) /\ TopOK(stack', "unary")
        BY <1>0, <2>5, <2>6, <2>7, <2>8, <2>9, <2>10, <2>11, <2>12, CallExpr
    <2> QED
        BY <1>0, <1>15, <2>1, <2>6, <2>13, MakesNone
<1>16. CASE ArrayLength \/ Initializer
    BY <1>0, <1>15, <1>16 DEF ArrayLength, Initializer
<1>17. CASE Initialized
    <2>1. /\ new_var_decl(ret) /\ toki' = toki /\ current' = current
          /\ UNCHANGED <<tokens, reported, types>> /\ ReturnTo("initializer")
        BY <1>17 DEF Initialized
    <2>2. CursorSound'
        BY <1>0, <2>1, CursorMoves
    <2>3. stack # <<>> /\ Caller.at \in DeclAt
        BY <2>1 DEF ReturnTo, DeclAt
    <2> QED
        BY <1>0, <2>1, <2>2, <2>3, DeclMade
<1>18. CASE NoInitializer
    <2>1. /\ new_var_decl(NULL) /\ toki' = toki /\ current' = current
          /\ UNCHANGED <<tokens, reported, types>> /\ pc = "arrays"
        BY <1>18 DEF NoInitializer
    <2>2. CursorSound'
        BY <1>0, <2>1, CursorMoves
    <2>3. NULL \in 0 .. Len(pool)
        BY <1>0 DEF NULL
    <2> QED
        BY <1>1, <2>1, <2>2, <2>3, DeclMade
<1>19. CASE DeclarationFails
    <2>1. /\ toki' = toki /\ current' = current /\ tokens' = tokens /\ reported' = TRUE
          /\ types' = types /\ stack' = stack /\ pc' = "exit" /\ pool' = pool /\ ret' = ret
        BY <1>19 DEF DeclarationFails, Exit
    <2>2. toki' \in Nat /\ CursorSound'
        BY <1>0, <2>1, CursorMoves
    <2> QED
        BY <1>0, <2>1, <2>2, MakesNone, TopReturn
<1> QED
    BY <1>3, <1>4, <1>5, <1>6, <1>7, <1>10, <1>11, <1>12, <1>13, <1>14, <1>16, <1>17, <1>18, <1>19
       DEF parse_var_decl

-----------------------------------------------------------------------------
(* Statements.                                                             *)

(* Those that fill no node rely on nothing.                                *)
LEMMA HoldsNothing ==
    ASSUME NEW f, NEW p, NEW toks, f.at \in {"block", "semicolon", "return_expr"}
    PROVE  HeldFor(f, p, toks) /\ f.at \notin FrameAt
<1>1. f.at \notin FrameAt /\ f.at \notin DOMAIN Owner /\ f.at \notin StructAt
    BY DEF FrameAt, Owner, StructAt
<1> QED
    BY <1>1 DEF HeldFor, FrameAt

(* Those that do rely on its tag.                                          *)
LEMMA HoldsNode ==
    ASSUME NEW f, NEW p, NEW toks, f.at \in DOMAIN Owner,
           f.node \in 1 .. Len(p), p[f.node].tag = Owner[f.at]
    PROVE  HeldFor(f, p, toks) /\ f.at \notin FrameAt /\ f.at \in StmtAt
<1>1. f.at \notin FrameAt /\ f.at \notin StructAt /\ f.at \in StmtAt
    BY DEF FrameAt, Owner, StructAt, StmtAt
<1> QED
    BY <1>1 DEF HeldFor, FrameAt

(* An activation of the statement parser that is resumed.                  *)
LEMMA StmtCaller ==
    ASSUME ParserInv, stack # <<>>, Caller.at \in StmtAt
    PROVE  /\ Caller \in StmtFrames(Len(pool)) /\ HeldFor(Caller, pool, tokens)
           /\ StackOK(Front(stack), pool, Len(types), tokens)
           /\ Front(stack) # <<>> => Last(Front(stack)).at \in Bodies
<1>1. StackOK(stack, pool, Len(types), tokens) /\ Len(pool) \in Nat /\ Len(types) \in Nat
    BY PoolSize DEF ParserInv
<1>2. /\ Caller \in Frames(Len(pool), Len(types)) /\ StackOK(Front(stack), pool, Len(types), tokens)
      /\ HeldFor(Caller, pool, tokens)
      /\ Front(stack) # <<>> => Last(Front(stack)).at \in CallersOf(Caller.at)
    BY <1>1, StackPop DEF Caller
<1> QED
    BY <1>1, <1>2, FrameKinds, CallersAre

(* A child of the node of an activation is set.                            *)
LEMMA Linked ==
    ASSUME ParserInv, NEW at \in DOMAIN Owner, ReturnTo(at), NEW k \in 1 .. 3, Link(k)
    PROVE  /\ pool' \in Seq(Nodes(Len(pool'))) /\ Extends(pool, pool')
           /\ Len(pool') = Len(pool) /\ ret \in 0 .. Len(pool')
           /\ StackOK(stack, pool', Len(types), tokens)
           /\ Caller.node \in 1 .. Len(pool) /\ pool'[Caller.node].tag = Owner[at]
           /\ Caller \in StmtFrames(Len(pool))
<1>0. /\ StackOK(stack, pool, Len(types), tokens) /\ Len(pool) \in Nat /\ Len(types) \in Nat
      /\ ret \in 0 .. Len(pool) /\ pool \in Seq(Nodes(Len(pool)))
    BY PoolSize DEF ParserInv
<1>1. stack # <<>> /\ Caller.at = at /\ Caller.at \in StmtAt /\ Caller.at \in DOMAIN Owner
    BY DEF ReturnTo, Owner, StmtAt
<1>2. /\ Caller \in StmtFrames(Len(pool))
      /\ Caller.node \in 1 .. Len(pool) /\ pool[Caller.node].tag = Owner[at]
    BY <1>1, StmtCaller DEF HeldFor
<1>3. PICK n \in 1 .. Len(pool) : n = Caller.node
    BY <1>2
<1>4. PICK y \in Nodes(Len(pool)) : y = pool[n]
    BY <1>0
<1>5. PICK x : x = [y EXCEPT !.kids[k] = ret]
    OBVIOUS
<1>6. x \in Nodes(Len(pool)) /\ x.tag = y.tag
    <2>1. y.kids \in Seq(0 .. Len(pool))
        BY DEF Nodes
    <2>2. PICK kids \in Seq(0 .. Len(pool)) : kids = [y.kids EXCEPT ![k] = ret]
        <3>1. ASSUME NEW S, NEW a \in Seq(S), NEW r \in S
              PROVE  [a EXCEPT ![k] = r] \in Seq(S)
            <4>1. CASE k \in 1 .. Len(a)
                BY <4>1, ExceptSeq
            <4>2. CASE k \notin 1 .. Len(a)
                <5>1. [a EXCEPT ![k] = r] = a
                    BY <4>2
                <5> QED
                    BY <5>1
            <4> QED
                BY <4>1, <4>2
        <3>2. PICK S, a, r : S = 0 .. Len(pool) /\ a = y.kids /\ r = ret /\ a \in Seq(S) /\ r \in S
            BY <1>0, <2>1
        <3>3. [a EXCEPT ![k] = r] \in Seq(S)
            BY <3>1, <3>2
        <3> QED
            BY <3>2, <3>3
    <2>3. x = [y EXCEPT !.kids = kids]
        BY <1>5, <2>2
    <2> QED
        BY <2>3 DEF Nodes
<1>7. pool' = [pool EXCEPT ![n] = x]
    BY <1>3, <1>4, <1>5 DEF Link
<1>8. /\ pool' \in Seq(Nodes(Len(pool'))) /\ Extends(pool, pool')
      /\ Len(pool') = Len(pool)
    BY <1>0, <1>4, <1>6, <1>7, PoolChange
<1>9. StackOK(stack, pool', Len(types), tokens)
    BY <1>0, <1>8, StackKept
<1>10. pool'[n].tag = Owner[at]
    BY <1>2, <1>3, <1>8 DEF Extends
<1> QED
    BY <1>0, <1>2, <1>3, <1>8, <1>9, <1>10

(* parse_if and parse_while begin: the node, the activation that fills it  *)
(* and the call for the condition.                                         *)
LEMMA ConditionalStep ==
    ASSUME ParserInv, CursorSound, parse_if \/ parse_while
    PROVE  ParserInv' /\ CursorSound'
<1>0. /\ StackOK(stack, pool, Len(types), tokens) /\ Len(pool) \in Nat /\ Len(types) \in Nat
      /\ toki \in Nat /\ tokens \in Inputs /\ current = Tok(toki)
      /\ reported \in BOOLEAN /\ ret \in 0 .. Len(pool) /\ pool \in Seq(Nodes(Len(pool)))
    BY PoolSize DEF ParserInv, CursorSound
<1>1. ASSUME NEW kw \in {"TOK_IF", "TOK_WHILE"}, NEW at \in {"if_cond", "while_cond"},
             NEW kids \in Seq(0 .. Len(pool)), Conditional(kw, Owner[at], at, kids)
      PROVE  ParserInv' /\ CursorSound'
    <2>1. PICK x : x = [tag |-> Owner[at], tok |-> toki, kids |-> kids]
        OBVIOUS
    <2>2. PICK n : n = Len(pool) + 1
        OBVIOUS
    <2>3. PICK f : f = StmtFrame(at, toki, n, <<>>)
        OBVIOUS
    <2>4. PICK min \in 0 .. 12 : min = 0
        OBVIOUS
    <2>5. /\ pc = "stmt" /\ Tok(toki) # "TOK_EOF" /\ Tok(toki + 1) # "TOK_EOF"
          /\ pool' = Append(pool, x) /\ advance(2) /\ pc' = "unary"
          /\ stack' = stack \o <<f, PrecedenceFrame(min)>>
          /\ tokens' = tokens /\ ret' = ret /\ reported' = reported /\ types' = types
        BY <1>0, <1>1, <2>1, <2>2, <2>3, <2>4 DEF Conditional
    <2>6. toki' \in Nat /\ CursorSound'
        BY <1>0, <2>5, CursorMoves
    <2>7. x \in Nodes(Len(pool)) /\ x.tag = Owner[at]
        <3>1. PICK tag \in PlainTags : tag = Owner[at]
            BY DEF PlainTags, Owner
        <3> QED
            BY <1>0, <2>1, <3>1 DEF Nodes
    <2>8. /\ pool' \in Seq(Nodes(Len(pool'))) /\ Extends(pool, pool')
          /\ Len(pool') = n /\ pool'[n] = x /\ n \in Nat /\ n = Len(pool) + 1
        BY <1>0, <2>2, <2>5, <2>7, PoolNew
    <2>9. StackOK(stack, pool', Len(types), tokens)
        BY <1>0, <2>8, StackKept
    <2>10. /\ f \in Frames(Len(pool'), Len(types)) /\ f.at = at /\ f.node = n
        <3>1. at \in StmtAt /\ n \in 0 .. n
            BY <2>8 DEF StmtAt
        <3>2. <<>> \in Seq(0 .. n)
            OBVIOUS
        <3>3. f \in StmtFrames(n) /\ f.at = at /\ f.node = n
            BY <1>0, <2>3, <3>1, <3>2 DEF StmtFrame, StmtFrames
        <3> QED
            BY <2>8, <3>3, Zenon DEF Frames
    <2>11. HeldFor(f, pool', tokens) /\ f.at \notin FrameAt /\ f.at \in StmtAt
        <3>1. at \in DOMAIN Owner
            BY DEF Owner
        <3>2. f.node \in 1 .. Len(pool') /\ pool'[f.node].tag = Owner[f.at]
            BY <2>7, <2>8, <2>10
        <3> QED
            BY <2>10, <3>1, <3>2, HoldsNode
    <2>12. stack # <<>> => Last(stack).at \in CallersOf(f.at)
        BY <2>5, <2>11, CallersAre DEF ParserInv, TopOK
    <2>13. f.at \in CallersOf("precedence")
        BY <2>10, CallersAre
    <2>14. StackOK(stack', pool', Len(types), tokens) /\ TopOK(stack', "unary")
        BY <1>0, <2>5, <2>8, <2>9, <2>10, <2>11, <2>12, <2>13, CallExpr
    <2>15. ret' \in 0 .. Len(pool')
        BY <1>0, <2>5, <2>8
    <2> QED
        BY <1>0, <2>5, <2>6, <2>8, <2>14, <2>15, Kept
<1>2. <<NULL, NULL, NULL>> \in Seq(0 .. Len(pool)) /\ <<NULL, NULL>> \in Seq(0 .. Len(pool))
    BY <1>0 DEF NULL
<1>3. Owner["if_cond"] = "AST_IF" /\ Owner["while_cond"] = "AST_WHILE"
    BY DEF Owner
<1>4. CASE parse_if
    BY <1>1, <1>2, <1>3, <1>4 DEF parse_if
<1>5. CASE parse_while
    BY <1>1, <1>2, <1>3, <1>5 DEF parse_while
<1> QED
    BY <1>4, <1>5

(* A condition or a body is linked, and the next one is asked for, or the  *)
(* statement is returned.                                                  *)
LEMMA LinkStep ==
    ASSUME ParserInv, CursorSound,
           \/ IfCondition \/ WhileCondition \/ Else \/ NoElse \/ ElseEnd \/ WhileEnd
    PROVE  ParserInv' /\ CursorSound'
<1>0. /\ StackOK(stack, pool, Len(types), tokens) /\ Len(pool) \in Nat /\ Len(types) \in Nat
      /\ toki \in Nat /\ tokens \in Inputs /\ current = Tok(toki)
      /\ reported \in BOOLEAN /\ ret \in 0 .. Len(pool)
    BY PoolSize DEF ParserInv, CursorSound
<1>1. ASSUME NEW at \in DOMAIN Owner, NEW body \in Bodies \cap DOMAIN Owner,
             Owner[body] = Owner[at], NEW k \in 1 .. 3,
             ReturnTo(at), Link(k), advance(1), Tok(toki) # "TOK_EOF", Resume(body),
             pc' = "stmt", UNCHANGED <<tokens, ret, reported, types>>
      PROVE  ParserInv' /\ CursorSound'
    <2>1. toki' \in Nat /\ CursorSound'
        BY <1>0, <1>1, CursorMoves
    <2>2. /\ pool' \in Seq(Nodes(Len(pool'))) /\ Extends(pool, pool')
          /\ Len(pool') = Len(pool) /\ ret \in 0 .. Len(pool')
          /\ StackOK(stack, pool', Len(types), tokens)
          /\ Caller.node \in 1 .. Len(pool) /\ pool'[Caller.node].tag = Owner[at]
          /\ Caller \in StmtFrames(Len(pool))
        BY <1>1, Linked
    <2>3. PICK g : g = Caller
        OBVIOUS
    <2>4. PICK f : f = [g EXCEPT !.at = body]
        OBVIOUS
    <2>5. f \in StmtFrames(Len(pool)) /\ f.at = body /\ f.node = g.node
        <3>1. body \in StmtAt
            BY DEF Bodies, StmtAt
        <3> QED
            BY <2>2, <2>3, <2>4, <3>1 DEF StmtFrames
    <2>6. f \in Frames(Len(pool'), Len(types))
        BY <2>2, <2>5, Zenon DEF Frames
    <2>7. HeldFor(f, pool', tokens) /\ f.at \notin FrameAt /\ f.at \in StmtAt
        <3>1. f.node \in 1 .. Len(pool') /\ pool'[f.node].tag = Owner[f.at]
            BY <1>1, <2>2, <2>3, <2>5
        <3> QED
            BY <2>5, <3>1, HoldsNode
    <2>8. stack # <<>> /\ Last(stack).at \in StmtAt
        BY <1>1 DEF ReturnTo, Caller, Owner, StmtAt
    <2>9. CallersOf(f.at) = CallersOf(Last(stack).at)
        BY <2>7, <2>8, CallersAre
    <2>10. stack' = Append(Front(stack), f)
        BY <1>1, <2>3, <2>4 DEF Resume, Become
    <2>11. StackOK(stack', pool', Len(types), tokens) /\ Last(stack') = f
        BY <1>0, <2>2, <2>6, <2>7, <2>8, <2>9, <2>10, StackBecome
    <2>12. TopOK(stack', "stmt")
        BY <2>5, <2>11 DEF TopOK
    <2> QED
        BY <1>0, <1>1, <2>1, <2>2, <2>11, <2>12, Kept
<1>2. ASSUME NEW at \in DOMAIN Owner, NEW k \in 1 .. 3, BodyEnd(at, k)
      PROVE  ParserInv' /\ CursorSound'
    <2>1. /\ ReturnTo(at) /\ Link(k) /\ toki' = toki /\ current' = current /\ tokens' = tokens
          /\ reported' = reported /\ types' = types /\ ret' = Caller.node
          /\ stack' = Front(stack) /\ pc' = "return"
        BY <1>2 DEF BodyEnd, Return, Pop
    <2>2. toki' \in Nat /\ CursorSound'
        BY <1>0, <2>1, CursorMoves
    <2>3. /\ pool' \in Seq(Nodes(Len(pool'))) /\ Extends(pool, pool')
          /\ Len(pool') = Len(pool)
          /\ StackOK(stack, pool', Len(types), tokens)
          /\ Caller.node \in 1 .. Len(pool)
        BY <2>1, Linked
    <2>4. StackOK(stack', pool', Len(types), tokens)
        BY <2>1, <2>3, StackPop DEF ReturnTo
    <2>5. ret' \in 0 .. Len(pool')
        BY <2>1, <2>3
    <2> QED
        BY <1>0, <2>1, <2>2, <2>3, <2>4, <2>5, Kept, TopReturn
<1>3. /\ \A at \in {"if_cond", "then_body", "else_body", "while_cond", "while_body"} :
             at \in DOMAIN Owner
      /\ \A body \in {"then_body", "else_body", "while_body"} : body \in Bodies \cap DOMAIN Owner
      /\ Owner["then_body"] = Owner["if_cond"] /\ Owner["while_body"] = Owner["while_cond"]
      /\ Owner["else_body"] = Owner["then_body"]
    BY DEF Owner, Bodies
<1>4. CASE IfCondition
    BY <1>0, <1>1, <1>3, <1>4 DEF IfCondition, Condition
<1>5. CASE WhileCondition
    BY <1>0, <1>1, <1>3, <1>5 DEF WhileCondition, Condition
<1>6. CASE Else
    BY <1>0, <1>1, <1>3, <1>6 DEF Else
<1>7. CASE NoElse \/ ElseEnd \/ WhileEnd
    BY <1>2, <1>3, <1>7 DEF NoElse, ElseEnd, WhileEnd
<1> QED
    BY <1>4, <1>5, <1>6, <1>7

(* An activation that fills no node begins.                                *)
LEMMA StmtBegins ==
    ASSUME ParserInv, pc = "stmt", NEW at \in {"block", "semicolon", "return_expr"}
    PROVE  \E f \in Frames(Len(pool), Len(types)) :
               /\ f = StmtFrame(at, toki, NULL, <<>>)
               /\ f.at = at /\ f.at \notin FrameAt /\ HeldFor(f, pool, tokens)
               /\ stack # <<>> => Last(stack).at \in CallersOf(f.at)
<1>0. Len(pool) \in Nat /\ toki \in Nat
    BY PoolSize DEF ParserInv
<1>1. PICK f : f = StmtFrame(at, toki, NULL, <<>>)
    OBVIOUS
<1>2. f \in StmtFrames(Len(pool)) /\ f.at = at
    <2>1. at \in StmtAt /\ NULL \in 0 .. Len(pool) /\ <<>> \in Seq(0 .. Len(pool))
        BY <1>0 DEF StmtAt, NULL
    <2> QED
        BY <1>0, <1>1, <2>1 DEF StmtFrame, StmtFrames
<1>3. f \in Frames(Len(pool), Len(types))
    BY <1>2, Zenon DEF Frames
<1>4. HeldFor(f, pool, tokens) /\ f.at \notin FrameAt
    BY <1>2, HoldsNothing
<1>5. stack # <<>> => Last(stack).at \in CallersOf(f.at)
    <2>1. f.at \in StmtAt
        BY <1>2 DEF StmtAt
    <2> QED
        BY <2>1, CallersAre DEF ParserInv, TopOK
<1> QED
    BY <1>1, <1>2, <1>3, <1>4, <1>5

(* It calls parse_expr.                                                    *)
LEMMA StmtAsks ==
    ASSUME ParserInv, pc = "stmt", NEW at \in {"semicolon", "return_expr"},
           stack' = stack \o <<StmtFrame(at, toki, NULL, <<>>), PrecedenceFrame(0)>>
    PROVE  StackOK(stack', pool, Len(types), tokens) /\ TopOK(stack', "unary")
<1>0. StackOK(stack, pool, Len(types), tokens) /\ Len(pool) \in Nat /\ Len(types) \in Nat
    BY PoolSize DEF ParserInv
<1>1. PICK f \in Frames(Len(pool), Len(types)) :
          /\ f = StmtFrame(at, toki, NULL, <<>>)
          /\ f.at = at /\ f.at \notin FrameAt /\ HeldFor(f, pool, tokens)
          /\ stack # <<>> => Last(stack).at \in CallersOf(f.at)
    BY StmtBegins
<1>2. PICK min \in 0 .. 12 : min = 0
    OBVIOUS
<1>3. f.at \in CallersOf("precedence")
    BY <1>1, CallersAre
<1>4. stack' = stack \o <<f, PrecedenceFrame(min)>>
    BY <1>1, <1>2
<1> QED
    BY <1>0, <1>1, <1>3, <1>4, CallExpr

(* It calls something else.                                                *)
LEMMA StmtWaits ==
    ASSUME ParserInv, pc = "stmt", NEW at \in {"block", "semicolon"},
           stack' = Append(stack, StmtFrame(at, toki, NULL, <<>>))
    PROVE  StackOK(stack', pool, Len(types), tokens) /\ stack' # <<>> /\ Last(stack').at = at
<1>0. StackOK(stack, pool, Len(types), tokens) /\ Len(pool) \in Nat /\ Len(types) \in Nat
    BY PoolSize DEF ParserInv
<1>1. PICK f \in Frames(Len(pool), Len(types)) :
          /\ f = StmtFrame(at, toki, NULL, <<>>)
          /\ f.at = at /\ f.at \notin FrameAt /\ HeldFor(f, pool, tokens)
          /\ stack # <<>> => Last(stack).at \in CallersOf(f.at)
    BY StmtBegins
<1>2. stack' = Append(stack, f)
    BY <1>1
<1> QED
    BY <1>0, <1>1, <1>2, StackPush

(* The statements that are not an if or a while.                           *)
LEMMA PlainStmtStep ==
    ASSUME ParserInv, CursorSound, pc = "stmt",
           \/ parse_for_or_switch \/ parse_block \/ KeywordDeclaration \/ NamedDeclaration
           \/ ExpressionStatement \/ ReturnStatement
    PROVE  ParserInv' /\ CursorSound'
<1>0. /\ StackOK(stack, pool, Len(types), tokens) /\ Len(pool) \in Nat /\ Len(types) \in Nat
      /\ toki \in Nat /\ tokens \in Inputs /\ current = Tok(toki)
      /\ reported \in BOOLEAN /\ ret \in 0 .. Len(pool) /\ NULL \in 0 .. Len(pool)
    BY PoolSize DEF ParserInv, CursorSound, NULL
<1>1. CASE parse_for_or_switch
    <2>1. /\ toki' = toki /\ current' = current /\ tokens' = tokens /\ pool' = pool /\ ret' = NULL
          /\ reported' = reported /\ types' = types /\ stack' = stack /\ pc' = "return"
        BY <1>1 DEF parse_for_or_switch
    <2>2. toki' \in Nat /\ CursorSound'
        BY <1>0, <2>1, CursorMoves
    <2> QED
        BY <1>0, <2>1, <2>2, MakesNone, TopReturn
<1>2. CASE parse_block
    <2>1. /\ advance(1) /\ tokens' = tokens /\ pool' = pool /\ ret' = ret /\ reported' = reported
          /\ types' = types /\ pc' = "block" /\ Tok(toki) # "TOK_EOF"
          /\ stack' = Append(stack, StmtFrame("block", toki, NULL, <<>>))
        BY <1>0, <1>2 DEF parse_block
    <2>2. toki' \in Nat /\ CursorSound'
        BY <1>0, <2>1, CursorMoves
    <2>3. PICK at \in {"block", "semicolon"} : at = "block"
        OBVIOUS
    <2>4. StackOK(stack', pool, Len(types), tokens) /\ stack' # <<>> /\ Last(stack').at = at
        BY <2>1, <2>3, StmtWaits
    <2>5. TopOK(stack', "block")
        BY <2>3, <2>4 DEF TopOK
    <2> QED
        BY <1>0, <2>1, <2>2, <2>4, <2>5, MakesNone
<1>3. CASE KeywordDeclaration
    <2>1. /\ toki' = toki /\ current' = current /\ tokens' = tokens /\ pool' = pool /\ ret' = ret
          /\ reported' = reported /\ types' = types /\ pc' = "var_decl"
          /\ stack' = Append(stack, StmtFrame("semicolon", toki, NULL, <<>>))
        BY <1>3 DEF KeywordDeclaration
    <2>2. toki' \in Nat /\ CursorSound'
        BY <1>0, <2>1, CursorMoves
    <2>3. PICK at \in {"block", "semicolon"} : at = "semicolon"
        OBVIOUS
    <2>4. StackOK(stack', pool, Len(types), tokens) /\ stack' # <<>> /\ Last(stack').at = at
        BY <2>1, <2>3, StmtWaits
    <2>5. TopOK(stack', "var_decl")
        BY <2>3, <2>4 DEF TopOK
    <2> QED
        BY <1>0, <2>1, <2>2, <2>4, <2>5, MakesNone
<1>4. CASE NamedDeclaration
    <2>1. /\ toki' = toki /\ current' = current /\ tokens' = tokens /\ pool' = pool /\ ret' = ret
          /\ reported' = reported /\ types' = types /\ pc' = "var_decl" /\ stack' = stack
        BY <1>4 DEF NamedDeclaration
    <2>2. toki' \in Nat /\ CursorSound'
        BY <1>0, <2>1, CursorMoves
    <2>3. TopOK(stack', "var_decl")
        BY <2>1 DEF ParserInv, TopOK
    <2> QED
        BY <1>0, <2>1, <2>2, <2>3, MakesNone
<1>5. CASE ExpressionStatement
    <2>1. /\ toki' = toki /\ current' = current /\ tokens' = tokens /\ pool' = pool /\ ret' = ret
          /\ reported' = reported /\ types' = types /\ pc' = "unary"
          /\ stack' = stack \o <<StmtFrame("semicolon", toki, NULL, <<>>), PrecedenceFrame(0)>>
        BY <1>5 DEF ExpressionStatement
    <2>2. toki' \in Nat /\ CursorSound'
        BY <1>0, <2>1, CursorMoves
    <2>3. PICK at \in {"semicolon", "return_expr"} : at = "semicolon"
        OBVIOUS
    <2>4. StackOK(stack', pool, Len(types), tokens) /\ TopOK(stack', "unary")
        BY <2>1, <2>3, StmtAsks
    <2> QED
        BY <1>0, <2>1, <2>2, <2>4, MakesNone
<1>6. CASE ReturnStatement
    <2>1. /\ advance(1) /\ tokens' = tokens /\ pool' = pool /\ ret' = ret
          /\ reported' = reported /\ types' = types /\ pc' = "unary" /\ Tok(toki) # "TOK_EOF"
          /\ stack' = stack \o <<StmtFrame("return_expr", toki, NULL, <<>>), PrecedenceFrame(0)>>
        BY <1>0, <1>6 DEF ReturnStatement
    <2>2. toki' \in Nat /\ CursorSound'
        BY <1>0, <2>1, CursorMoves
    <2>3. PICK at \in {"semicolon", "return_expr"} : at = "return_expr"
        OBVIOUS
    <2>4. StackOK(stack', pool, Len(types), tokens) /\ TopOK(stack', "unary")
        BY <2>1, <2>3, StmtAsks
    <2> QED
        BY <1>0, <2>1, <2>2, <2>4, MakesNone
<1> QED
    BY <1>1, <1>2, <1>3, <1>4, <1>5, <1>6

(* The rest of parse_block and what ends with a semicolon.                 *)
LEMMA EndStmtStep ==
    ASSUME ParserInv, CursorSound,
           \/ BlockStatement \/ BlockAppend \/ BlockEnd \/ Semicolon \/ ReturnEnd \/ StatementFails
    PROVE  ParserInv' /\ CursorSound'
<1>0. /\ StackOK(stack, pool, Len(types), tokens) /\ Len(pool) \in Nat /\ Len(types) \in Nat
      /\ toki \in Nat /\ tokens \in Inputs /\ current = Tok(toki)
      /\ reported \in BOOLEAN /\ ret \in 0 .. Len(pool)
    BY PoolSize DEF ParserInv, CursorSound
<1>1. pc = "block" \/ ReturnTo("block") \/ ReturnTo("semicolon") \/ ReturnTo("return_expr") =>
          /\ stack # <<>> /\ Caller \in StmtFrames(Len(pool))
          /\ Caller.tok \in Nat /\ Caller.stmts \in Seq(0 .. Len(pool))
          /\ StackOK(Front(stack), pool, Len(types), tokens)
    <2> SUFFICES ASSUME \/ pc = "block" \/ ReturnTo("block") \/ ReturnTo("semicolon")
                        \/ ReturnTo("return_expr")
                 PROVE  /\ stack # <<>> /\ Caller \in StmtFrames(Len(pool))
                        /\ Caller.tok \in Nat /\ Caller.stmts \in Seq(0 .. Len(pool))
                        /\ StackOK(Front(stack), pool, Len(types), tokens)
        OBVIOUS
    <2>1. stack # <<>> /\ Caller.at \in StmtAt
        BY DEF ParserInv, TopOK, ReturnTo, Caller, StmtAt
    <2>2. Caller \in StmtFrames(Len(pool)) /\ StackOK(Front(stack), pool, Len(types), tokens)
        BY <2>1, StmtCaller
    <2> QED
        BY <2>1, <2>2 DEF StmtFrames
<1>2. CASE BlockStatement
    <2>1. /\ toki' = toki /\ current' = current /\ tokens' = tokens /\ pool' = pool /\ ret' = ret
          /\ reported' = reported /\ types' = types /\ pc' = "stmt" /\ stack' = stack
          /\ pc = "block"
        BY <1>2 DEF BlockStatement
    <2>2. toki' \in Nat /\ CursorSound'
        BY <1>0, <2>1, CursorMoves
    <2>3. TopOK(stack', "stmt")
        BY <2>1 DEF ParserInv, TopOK, Bodies
    <2> QED
        BY <1>0, <2>1, <2>2, <2>3, MakesNone
<1>3. CASE BlockAppend
    <2>1. PICK g : g = Caller
        OBVIOUS
    <2>2. PICK stmts : stmts = IF Len(g.stmts) < Len(tokens) THEN Append(g.stmts, ret) ELSE g.stmts
        OBVIOUS
    <2>3. PICK f : f = [g EXCEPT !.stmts = stmts]
        OBVIOUS
    <2>4. /\ toki' = toki /\ current' = current /\ tokens' = tokens /\ pool' = pool /\ ret' = ret
          /\ reported' = reported /\ types' = types /\ pc' = "block" /\ ReturnTo("block")
          /\ stack' = Append(Front(stack), f)
        BY <1>3, <2>1, <2>2, <2>3 DEF BlockAppend, Become
    <2>5. toki' \in Nat /\ CursorSound'
        BY <1>0, <2>4, CursorMoves
    <2>6. g \in StmtFrames(Len(pool)) /\ g.at = "block" /\ g.stmts \in Seq(0 .. Len(pool))
        BY <1>1, <2>1, <2>4 DEF ReturnTo
    <2>7. stmts \in Seq(0 .. Len(pool))
        <3>1. ASSUME NEW S, NEW a \in Seq(S), NEW r \in S
              PROVE  Append(a, r) \in Seq(S)
            OBVIOUS
        <3>2. Append(g.stmts, ret) \in Seq(0 .. Len(pool))
            BY <1>0, <2>6, <3>1
        <3> QED
            BY <2>2, <2>6, <3>2
    <2>8. f \in StmtFrames(Len(pool)) /\ f.at = "block"
        BY <2>3, <2>6, <2>7 DEF StmtFrames
    <2>9. f \in Frames(Len(pool), Len(types))
        BY <2>8, Zenon DEF Frames
    <2>10. HeldFor(f, pool, tokens) /\ f.at \notin FrameAt
        BY <2>8, HoldsNothing
    <2>11. stack # <<>> /\ CallersOf(f.at) = CallersOf(Last(stack).at)
        BY <2>1, <2>4, <2>6, <2>8 DEF Caller, ReturnTo
    <2>12. StackOK(stack', pool, Len(types), tokens) /\ stack' # <<>> /\ Last(stack') = f
        BY <1>0, <2>4, <2>9, <2>10, <2>11, StackBecome
    <2>13. TopOK(stack', "block")
        BY <2>8, <2>12 DEF TopOK
    <2> QED
        BY <1>0, <2>4, <2>5, <2>12, <2>13, MakesNone
<1>4. CASE BlockEnd
    <2>1. /\ advance(1) /\ tokens' = tokens /\ reported' = reported /\ types' = types
          /\ stack' = Front(stack) /\ pc' = "return" /\ pc = "block" /\ Tok(toki) # "TOK_EOF"
          /\ new_node("AST_BLOCK", Caller.tok, Caller.stmts)
        BY <1>4 DEF BlockEnd, Pop
    <2>2. toki' \in Nat /\ CursorSound'
        BY <1>0, <2>1, CursorMoves
    <2>3. PICK tag \in PlainTags : tag = "AST_BLOCK"
        BY DEF PlainTags
    <2> QED
        BY <1>0, <1>1, <2>1, <2>2, <2>3, MakesExpr, TopReturn
<1>5. CASE ReturnEnd
    <2>1. /\ advance(1) /\ tokens' = tokens /\ reported' = reported /\ types' = types
          /\ stack' = Front(stack) /\ pc' = "return" /\ ReturnTo("return_expr")
          /\ Tok(toki) # "TOK_EOF" /\ new_node("AST_RETURN", Caller.tok, <<ret>>)
        BY <1>0, <1>5 DEF ReturnEnd, Pop, ReturnTo
    <2>2. toki' \in Nat /\ CursorSound'
        BY <1>0, <2>1, CursorMoves
    <2>3. PICK tag \in PlainTags : tag = "AST_RETURN"
        BY DEF PlainTags
    <2>4. <<ret>> \in Seq(0 .. Len(pool))
        BY <1>0
    <2> QED
        BY <1>0, <1>1, <2>1, <2>2, <2>3, <2>4, MakesExpr, TopReturn
<1>6. CASE Semicolon
    <2>1. /\ advance(1) /\ tokens' = tokens /\ reported' = reported /\ types' = types
          /\ stack' = Front(stack) /\ pc' = "return" /\ ReturnTo("semicolon")
          /\ Tok(toki) # "TOK_EOF" /\ pool' = pool /\ ret' = ret
        BY <1>0, <1>6 DEF Semicolon, Pop, ReturnTo
    <2>2. toki' \in Nat /\ CursorSound'
        BY <1>0, <2>1, CursorMoves
    <2> QED
        BY <1>0, <1>1, <2>1, <2>2, MakesNone, TopReturn
<1>7. CASE StatementFails
    <2>1. /\ toki' = toki /\ current' = current /\ tokens' = tokens /\ reported' = TRUE
          /\ types' = types /\ stack' = stack /\ pc' = "exit" /\ pool' = pool /\ ret' = ret
        BY <1>7 DEF StatementFails, Exit
    <2>2. toki' \in Nat /\ CursorSound'
        BY <1>0, <2>1, CursorMoves
    <2> QED
        BY <1>0, <2>1, <2>2, MakesNone, TopReturn
<1> QED
    BY <1>2, <1>3, <1>4, <1>5, <1>6, <1>7

(* Every step of the statement parser keeps the invariant.                 *)
LEMMA StmtStep ==
    ASSUME ParserInv, CursorSound, [StmtNext]_declVars
    PROVE  ParserInv' /\ CursorSound'
<1>1. CASE parse_stmt
    <2>1. parse_for_or_switch \/ parse_block \/ KeywordDeclaration \/ NamedDeclaration
              \/ ExpressionStatement \/ ReturnStatement => pc = "stmt"
        BY DEF parse_for_or_switch, parse_block, KeywordDeclaration, NamedDeclaration,
               ExpressionStatement, ReturnStatement
    <2> QED
        BY <1>1, <2>1, ConditionalStep, LinkStep, PlainStmtStep, EndStmtStep, Zenon
           DEF parse_stmt
<1>2. CASE parse_var_decl
    BY <1>2, DeclStep
<1>3. CASE parse_expr
    BY <1>3, ExprStep
<1>4. CASE Finish /\ UNCHANGED types
    <2>0. /\ StackOK(stack, pool, Len(types), tokens) /\ toki \in Nat /\ tokens \in Inputs
          /\ reported \in BOOLEAN /\ ret \in 0 .. Len(pool)
        BY DEF ParserInv
    <2>1. /\ toki' = toki /\ current' = current /\ tokens' = tokens /\ reported' = reported
          /\ types' = types /\ stack' = stack /\ pc' = "done" /\ pool' = pool /\ ret' = ret
        BY <1>4 DEF Finish
    <2>2. toki' \in Nat /\ CursorSound'
        BY <2>0, <2>1, CursorMoves
    <2> QED
        BY <2>0, <2>1, <2>2, MakesNone, TopReturn
<1>5. CASE UNCHANGED declVars
    BY <1>5 DEF declVars, vars, ParserInv, CursorSound, Tok
<1> QED
    BY <1>1, <1>2, <1>3, <1>4, <1>5 DEF StmtNext

(* The places in the code that the statement parser gets to.               *)
LEMMA StmtPlaces ==
    ASSUME pc \in StmtPc, [StmtNext]_declVars
    PROVE  pc' \in StmtPc
<1>1. CASE parse_stmt
    <2>1. CASE parse_if \/ parse_while \/ IfCondition \/ WhileCondition
        BY <2>1 DEF parse_if, parse_while, Conditional, IfCondition, WhileCondition, Condition, StmtPc
    <2>2. CASE Else \/ NoElse \/ ElseEnd \/ WhileEnd
        BY <2>2 DEF Else, NoElse, ElseEnd, WhileEnd, BodyEnd, Return, StmtPc
    <2>3. CASE parse_for_or_switch \/ parse_block \/ BlockStatement \/ BlockAppend \/ BlockEnd
        BY <2>3 DEF parse_for_or_switch, parse_block, BlockStatement, BlockAppend, BlockEnd, StmtPc
    <2>4. CASE KeywordDeclaration \/ NamedDeclaration \/ ExpressionStatement
        BY <2>4 DEF KeywordDeclaration, NamedDeclaration, ExpressionStatement, StmtPc
    <2>5. CASE Semicolon \/ ReturnStatement \/ ReturnEnd \/ StatementFails
        BY <2>5 DEF Semicolon, ReturnStatement, ReturnEnd, StatementFails, Exit, StmtPc
    <2> QED
        BY <1>1, <2>1, <2>2, <2>3, <2>4, <2>5, Zenon DEF parse_stmt
<1>2. CASE parse_var_decl
    BY <1>2 DEF parse_var_decl, StmtPc, parse_inferred_var_decl, parse_const_var_decl, Inferred,
                Qualifiers, SpecPrimitive, SpecName, SpecMember, SpecEnd, PointerType,
                DeclaratorName, ArrayUnsized, ArrayLength, AwaitExpr, CloseArray, Initializer,
                Initialized, NoInitializer, new_var_decl, DeclarationFails, Exit
<1>3. CASE parse_expr
    BY <1>3 DEF parse_expr, StmtPc, PrefixOperator, new_unary, Primary, PrimaryIdentifier,
                PrimaryLiteral, PrimaryEnumLiteral, PrimaryGroup, PrimaryNone, CloseGroup,
                PostfixMember, MemberField, MemberMissing, PostfixEmptyCall, PostfixCall,
                NextArgument, RepeatArgument, ParseNextArgument, CloseCall, PostfixIndex,
                IndexMissing, CloseIndex, ExpectTokenFails, PostfixEnd, TakeOperator, LeaveLoop,
                new_binary
<1>4. CASE Finish \/ UNCHANGED declVars
    BY <1>4 DEF Finish, StmtPc, declVars, vars
<1> QED
    BY <1>1, <1>2, <1>3, <1>4 DEF StmtNext

(* It starts at the first token, with nothing made yet.                    *)
LEMMA NothingYet ==
    ASSUME tokens \in Inputs, toki = 0, current = tokens[1], pool = <<>>, types = <<>>,
           stack = <<>>, ret = NULL, reported = FALSE, pc \in {"stmt", "record_types"}
    PROVE  ParserInv /\ CursorSound
<1>1. CursorSound
    BY InputsAssumption DEF CursorSound, Tok
<1>2. pool \in Seq(Nodes(Len(pool))) /\ types \in Seq(TypesBelow(Len(types) + 1, Len(pool)))
    OBVIOUS
<1>3. 1 .. Len(types) = {} /\ ret \in 0 .. Len(pool) /\ Len(stack) = 0
    BY DEF NULL
<1>4. StackOK(stack, pool, Len(types), tokens)
    BY <1>3 DEF StackOK
<1>5. TopOK(stack, pc)
    BY DEF TopOK
<1> QED
    BY <1>1, <1>2, <1>3, <1>4, <1>5 DEF ParserInv

(* What the invariant says of the state of the statement parser.           *)
LEMMA StmtShape ==
    ASSUME ParserInv, CursorSound, pc \in StmtPc
    PROVE  StmtTypeOK
<1>0. StackOK(stack, pool, Len(types), tokens) /\ ret \in 0 .. Len(pool) /\ Len(pool) \in Nat
    BY PoolSize DEF ParserInv
<1>1. ASSUME NEW n \in 1 .. Len(pool)
      PROVE  pool[n].tok \in Nat /\ pool[n].kids \in Seq(0 .. Len(pool))
    <2>1. n \in 0 .. Len(pool) /\ n # NULL
        BY <1>0 DEF NULL
    <2> QED
        BY <2>1, NodeAt
<1>2. ASSUME NEW k \in DOMAIN stack, stack[k].at \in DOMAIN Owner
      PROVE  stack[k].node \in 1 .. Len(pool) /\ pool[stack[k].node].tag = Owner[stack[k].at]
    <2>1. k \in 1 .. Len(stack)
        BY <1>0 DEF StackOK
    <2>2. HeldFor(stack[k], pool, tokens)
        BY <1>0, <2>1 DEF StackOK
    <2> QED
        BY <1>2, <2>2 DEF HeldFor
<1> QED
    BY <1>0, <1>1, <1>2, Zenon DEF StmtTypeOK

(* In every reachable state of the statement parser, for every set of      *)
(* texts, the cached token is the one under the cursor, the pointers of    *)
(* the tree are nodes of the pool, and an activation of parse_if or        *)
(* parse_while that is suspended in the parsers of a condition or a body   *)
(* comes back to a node of its kind.                                       *)
THEOREM StatementTypeCorrect == StmtSpec => []StmtTypeOK
<1> DEFINE StmtInv == ParserInv /\ CursorSound /\ pc \in StmtPc
<1>1. StmtInit => StmtInv
    BY NothingYet DEF StmtInit, StmtPc
<1>2. StmtInv /\ [StmtNext]_declVars => StmtInv'
    BY StmtStep, StmtPlaces
<1>3. StmtInv => StmtTypeOK
    BY StmtShape
<1> HIDE DEF StmtInv
<1> QED
    BY <1>1, <1>2, <1>3, PTL DEF StmtSpec

-----------------------------------------------------------------------------
(* What is_declaration saw.                                                *)

(* AfterTypeName as a function of the text.                                *)
NameEnds(t) ==
    CHOOSE g : g = [i \in Nat |->
        IF t[i + 1] # "TOK_IDENTIFIER" THEN i
        ELSE IF t[i + 1 + 1] \in Separators THEN g[i + 2]
        ELSE i + 1]

(* It is what the model means by it, in this state and the next one.       *)
LEMMA NameEndsNow ==
    /\ AfterTypeName = NameEnds(tokens)
    /\ AfterTypeName' = NameEnds(tokens')
<1>1. AfterTypeName = NameEnds(tokens)
    BY Zenon DEF AfterTypeName, NameEnds, Tok
<1>2. AfterTypeName' = NameEnds(tokens')
    BY Zenon DEF AfterTypeName, NameEnds, Tok
<1> QED
    BY <1>1, <1>2

(* A function with these values exists: the names that start at i end at   *)
(* the first of i, i + 2, ... that is no identifier with a separator       *)
(* behind it.                                                              *)
LEMMA NameEndStep ==
    ASSUME NEW t
    PROVE  \A i \in Nat :
               NameEnds(t)[i] =
                   IF t[i + 1] # "TOK_IDENTIFIER" THEN i
                   ELSE IF t[i + 1 + 1] \in Separators THEN NameEnds(t)[i + 2]
                   ELSE i + 1
<1> DEFINE Body(g) == [i \in Nat |->
               IF t[i + 1] # "TOK_IDENTIFIER" THEN i
               ELSE IF t[i + 1 + 1] \in Separators THEN g[i + 2]
               ELSE i + 1]
           Goes(i) == t[i + 1] = "TOK_IDENTIFIER" /\ t[i + 1 + 1] \in Separators
           Stops(i) == {j \in Nat : ~Goes(j) /\ \E k \in Nat : j = i + 2 * k}
           end == [i \in Nat |->
               IF Stops(i) = {} THEN 0
               ELSE IF t[Min(Stops(i)) + 1] # "TOK_IDENTIFIER" THEN Min(Stops(i))
               ELSE Min(Stops(i)) + 1]
           g0 == CHOOSE g : g = Body(g)
<1>1. \A i \in Nat : end[i] = Body(end)[i]
    <2> SUFFICES ASSUME NEW i \in Nat
                 PROVE  end[i] = IF t[i + 1] # "TOK_IDENTIFIER" THEN i
                                 ELSE IF t[i + 1 + 1] \in Separators THEN end[i + 2]
                                 ELSE i + 1
        OBVIOUS
    <2>1. CASE Goes(i)
        <3>1. ASSUME NEW j \in Nat, ~Goes(j)
              PROVE  (\E k \in Nat : j = i + 2 * k) <=> (\E k \in Nat : j = (i + 2) + 2 * k)
            <4>1. ASSUME NEW k \in Nat, j = i + 2 * k PROVE \E l \in Nat : j = (i + 2) + 2 * l
                <5>1. k # 0
                    <6> SUFFICES ASSUME k = 0 PROVE FALSE
                        OBVIOUS
                    <6>1. j = i
                        BY <4>1
                    <6> QED
                        BY <2>1, <3>1, <6>1
                <5>2. k - 1 \in Nat /\ j = (i + 2) + 2 * (k - 1)
                    BY <4>1, <5>1
                <5> QED
                    BY <5>2
            <4>2. ASSUME NEW k \in Nat, j = (i + 2) + 2 * k PROVE \E l \in Nat : j = i + 2 * l
                <5>1. k + 1 \in Nat /\ j = i + 2 * (k + 1)
                    BY <4>2
                <5> QED
                    BY <5>1
            <4> QED
                BY <4>1, <4>2
        <3>2. Stops(i) = Stops(i + 2)
            <4> HIDE DEF Goes
            <4> QED
                BY <3>1
        <3>3. end[i] = end[i + 2]
            <4> HIDE DEF Stops
            <4> QED
                BY <3>2
        <3> HIDE DEF end
        <3> QED
            BY <2>1, <3>3
    <2>2. CASE ~Goes(i)
        <3>1. i \in Stops(i) /\ \A j \in Stops(i) : i <= j
            <4>1. i = i + 2 * 0 /\ 0 \in Nat
                OBVIOUS
            <4> HIDE DEF Goes
            <4>2. i \in Stops(i)
                BY <2>2, <4>1
            <4> QED
                BY <4>2
        <3>2. Stops(i) \subseteq Nat
            OBVIOUS
        <3> HIDE DEF Stops
        <3>3. Min(Stops(i)) \in Stops(i) /\ \A j \in Stops(i) : Min(Stops(i)) <= j
            BY <3>1, <3>2, MinIsLeast
        <3>4. Min(Stops(i)) = i
            BY <3>1, <3>2, <3>3
        <3> QED
            BY <2>2, <3>1, <3>4
    <2> QED
        BY <2>1, <2>2
<1>2. end = Body(end)
    BY <1>1
<1>3. g0 = Body(g0)
    BY <1>2
<1>4. g0 = NameEnds(t)
    BY DEF NameEnds
<1> HIDE DEF g0, end
<1> QED
    BY <1>3, <1>4

(* A declarator starts at token i of text t.                               *)
DeclaratorAt(t, i) ==
    \/ t[i + 1] = "TOK_IDENTIFIER"
    \/ t[i + 1] = "TOK_ASTERISK" /\ t[i + 1 + 1] = "TOK_IDENTIFIER"

(* A declaration without `const` and `static`.                             *)
Unqualified(f) == ~f.is_const /\ ~f.is_static

(* What is_declaration saw stays ahead of the cursor until the declarator. *)
NameInv ==
    /\ pc = "var_decl" =>
           current \in DeclarationKeywords \/ DeclaratorAt(tokens, NameEnds(tokens)[toki])
    /\ pc = "declspec" =>
           /\ Caller.id \subseteq TypeFlags
           /\ Caller.id = {} /\ Unqualified(Caller) /\ current = "TOK_IDENTIFIER" =>
                  DeclaratorAt(tokens, NameEnds(tokens)[toki])
    /\ pc = "qualified" =>
           (Unqualified(Caller) =>
               DeclaratorAt(tokens, IF current \in Separators THEN NameEnds(tokens)[toki + 1] ELSE toki))
    /\ pc = "pointers" =>
           (Unqualified(Caller) /\ Caller.id = {"NAME"} => DeclaratorAt(tokens, toki))

(* Where parse_var_decl has not reached the name yet.                      *)
LookaheadPc == {"var_decl", "declspec", "qualified", "pointers"}

(* Elsewhere it says nothing.                                              *)
LEMMA NoLookahead ==
    ASSUME pc' \notin LookaheadPc
    PROVE  NameInv'
    BY DEF NameInv, LookaheadPc

(* Expressions have nothing to do with declarations.                       *)
LEMMA ExprLooksNot ==
    ASSUME parse_expr
    PROVE  pc' \notin LookaheadPc
    BY DEF parse_expr, LookaheadPc, PrefixOperator, new_unary, Primary, PrimaryIdentifier,
                PrimaryLiteral, PrimaryEnumLiteral, PrimaryGroup, PrimaryNone, CloseGroup,
                PostfixMember, MemberField, MemberMissing, PostfixEmptyCall, PostfixCall,
                NextArgument, RepeatArgument, ParseNextArgument, CloseCall, PostfixIndex,
                IndexMissing, CloseIndex, ExpectTokenFails, PostfixEnd, TakeOperator, LeaveLoop,
                new_binary, ReturnTo

(* A statement becomes a declaration by a keyword or by the lookahead.     *)
LEMMA StmtLooks ==
    ASSUME CursorSound, parse_stmt
    PROVE  NameInv'
<1>1. CASE parse_if \/ parse_while \/ IfCondition \/ WhileCondition
    <2>1. pc' \notin LookaheadPc
        BY <1>1 DEF parse_if, parse_while, Conditional, IfCondition, WhileCondition, Condition, LookaheadPc
    <2> QED
        BY <2>1, NoLookahead
<1>2. CASE Else \/ NoElse \/ ElseEnd \/ WhileEnd
    <2>1. pc' \notin LookaheadPc
        BY <1>2 DEF Else, NoElse, ElseEnd, WhileEnd, BodyEnd, Return, LookaheadPc
    <2> QED
        BY <2>1, NoLookahead
<1>3. CASE parse_for_or_switch \/ parse_block \/ BlockStatement \/ BlockAppend \/ BlockEnd
    <2>1. pc' \notin LookaheadPc
        BY <1>3 DEF parse_for_or_switch, parse_block, BlockStatement, BlockAppend, BlockEnd, LookaheadPc
    <2> QED
        BY <2>1, NoLookahead
<1>4. CASE ExpressionStatement \/ Semicolon \/ ReturnStatement \/ ReturnEnd \/ StatementFails
    <2>1. pc' \notin LookaheadPc
        BY <1>4 DEF ExpressionStatement, Semicolon, ReturnStatement, ReturnEnd, ReturnTo, StatementFails,
                    Exit, LookaheadPc
    <2> QED
        BY <2>1, NoLookahead
<1>5. CASE KeywordDeclaration
    <2>1. pc' = "var_decl" /\ current' \in DeclarationKeywords
        BY <1>5 DEF KeywordDeclaration
    <2> QED
        BY <2>1 DEF NameInv
<1>6. CASE NamedDeclaration
    <2>1. /\ pc' = "var_decl" /\ tokens' = tokens /\ toki' = toki
          /\ is_declaration(toki)
        BY <1>6 DEF NamedDeclaration
    <2>2. DeclaratorAt(tokens, AfterTypeName[toki])
        <3>1. PICK i : i = AfterTypeName[toki]
            OBVIOUS
        <3>2. \/ Tok(i) = "TOK_IDENTIFIER"
              \/ Tok(i) = "TOK_ASTERISK" /\ Tok(i + 1) = "TOK_IDENTIFIER"
            BY <2>1, <3>1, Zenon DEF is_declaration
        <3> QED
            BY <3>1, <3>2, Zenon DEF DeclaratorAt, Tok
    <2>3. DeclaratorAt(tokens, NameEnds(tokens)[toki])
        BY <2>2, NameEndsNow
    <2>4. DeclaratorAt(tokens', NameEnds(tokens')[toki'])
        BY <2>1, <2>3
    <2> QED
        BY <2>1, <2>4 DEF NameInv
<1> QED
    BY <1>1, <1>2, <1>3, <1>4, <1>5, <1>6, Zenon DEF parse_stmt

(* A word for a primitive type leaves a flag.                              *)
LEMMA PrimitivesHaveFlags ==
    \A t \in DOMAIN tag_to_primitive : tag_to_primitive[t] # {}
    BY DEF tag_to_primitive

(* The loops of declspec walk over what AfterTypeName walked over.         *)
LEMMA DeclLooks ==
    ASSUME ParserInv, CursorSound, NameInv, parse_var_decl
    PROVE  NameInv'
<1>0. /\ Len(types) \in Nat /\ Len(types) + 1 \in Nat /\ Len(types) <= Len(types) + 1
      /\ toki \in Nat /\ current = Tok(toki) /\ Tok(toki) = tokens[toki + 1]
      /\ StackOK(stack, pool, Len(types), tokens) /\ Len(pool) \in Nat
    BY PoolSize DEF ParserInv, CursorSound, Tok
<1>1. pc \in {"declspec", "qualified", "pointers"} =>
          /\ stack # <<>> /\ Caller.at \in DeclAt /\ Caller.at = "declaration"
          /\ Caller \in DeclFrames(Len(types))
    <2>1. pc \in {"declspec", "qualified", "pointers"} => stack # <<>> /\ Caller.at = "declaration"
        BY DEF ParserInv, TopOK, Caller
    <2> QED
        BY <2>1, DeclCaller DEF DeclAt
<1>2. Caller' = Last(stack')
    BY DEF Caller
<1>3. ASSUME pc \in {"declspec", "qualified", "pointers"},
               NEW f, f = [Caller EXCEPT !.type = NewType]
      PROVE  /\ f \in DeclFrames(Len(types) + 1)
             /\ f.id = Caller.id /\ f.is_const = Caller.is_const /\ f.is_static = Caller.is_static
    <2>1. PICK n \in Nat : n = Len(types) + 1
        BY <1>0
    <2>2. Caller \in DeclFrames(n)
        <3>1. 0 .. Len(types) \subseteq 0 .. n
            BY <1>0, <2>1
        <3>2. Caller \in DeclFrames(Len(types))
            BY <1>1, <1>3
        <3> QED
            BY <3>1, <3>2 DEF DeclFrames
    <2>3. f = [Caller EXCEPT !.type = n] /\ n \in 0 .. n
        BY <1>3, <2>1 DEF NewType
    <2>4. f \in DeclFrames(n) /\ f.id = Caller.id /\ f.is_const = Caller.is_const
          /\ f.is_static = Caller.is_static
        BY <2>2, <2>3 DEF DeclFrames
    <2> QED
        BY <2>1, <2>4
<1>4. CASE Qualifiers
    <2> DEFINE c == current = "TOK_CONST"
               s == Tok(toki + Count(c)) = "TOK_STATIC"
               f == [DeclFrame("declaration", "AST_VAR_DECL", NULL, NULL)
                     EXCEPT !.is_const = c, !.is_static = s]
    <2>1. /\ advance(Count(c) + Count(s)) /\ tokens' = tokens
          /\ pc' = "declspec" /\ pc = "var_decl" /\ stack' = Append(stack, f)
        BY <1>4 DEF Qualifiers, Typed
    <2>2. f \in DeclFrames(Len(types)) /\ f.id = {} /\ f.is_const = c /\ f.is_static = s
        <3>1. PICK g : g = DeclFrame("declaration", "AST_VAR_DECL", NULL, NULL)
            OBVIOUS
        <3>2. g \in DeclFrames(Len(types)) /\ g.id = {}
            BY <1>0, <3>1 DEF DeclFrame, DeclFrames, DeclAt, DeclTags, NULL
        <3>3. \A b, d \in BOOLEAN : [g EXCEPT !.is_const = b, !.is_static = d] \in DeclFrames(Len(types))
            BY <3>2 DEF DeclFrames
        <3>4. \A b, d \in BOOLEAN :
                  /\ [g EXCEPT !.is_const = b, !.is_static = d].id = {}
                  /\ [g EXCEPT !.is_const = b, !.is_static = d].is_const = b
                  /\ [g EXCEPT !.is_const = b, !.is_static = d].is_static = d
            BY <3>2 DEF DeclFrames
        <3>5. c \in BOOLEAN /\ s \in BOOLEAN
            OBVIOUS
        <3> QED
            BY <3>1, <3>3, <3>4, <3>5
    <2>3. CASE c \/ s
        <3> HIDE DEF f, c, s
        <3>1. /\ f \in Frames(Len(pool), Len(types)) /\ HeldFor(f, pool, tokens) /\ f.at \notin FrameAt
              /\ stack # <<>> => Last(stack).at \in CallersOf(f.at)
            BY <2>1, <2>2, DeclBegins
        <3>2. Last(stack') = f
            BY <1>0, <2>1, <3>1, StackPush
        <3>3. ~Unqualified(f)
            BY <2>2, <2>3 DEF Unqualified
        <3> QED
            BY <1>2, <2>1, <2>2, <3>2, <3>3 DEF NameInv
    <2>4. CASE ~c /\ ~s
        <3>1. Count(c) + Count(s) = 0
            BY <2>4 DEF Count
        <3> HIDE DEF f, c, s
        <3>2. toki' = toki /\ current' = current
            BY <1>0, <2>1, <3>1 DEF advance
        <3>3. /\ f \in Frames(Len(pool), Len(types)) /\ HeldFor(f, pool, tokens) /\ f.at \notin FrameAt
              /\ stack # <<>> => Last(stack).at \in CallersOf(f.at)
            BY <2>1, <2>2, DeclBegins
        <3>4. Last(stack') = f
            BY <1>0, <2>1, <3>3, StackPush
        <3>5. current = "TOK_IDENTIFIER" => DeclaratorAt(tokens, NameEnds(tokens)[toki])
            <4>1. "TOK_IDENTIFIER" \notin DeclarationKeywords
                BY DEF DeclarationKeywords, tag_to_primitive
            <4> QED
                BY <2>1, <4>1 DEF NameInv
        <3>6. current' = "TOK_IDENTIFIER" => DeclaratorAt(tokens', NameEnds(tokens')[toki'])
            BY <2>1, <3>2, <3>5
        <3> QED
            BY <1>2, <2>1, <2>2, <3>4, <3>6 DEF NameInv
    <2> QED
        BY <2>3, <2>4
<1>5. CASE SpecPrimitive
    <2>1. PICK f : f = [Caller EXCEPT !.id = @ \cup tag_to_primitive[current]]
        OBVIOUS
    <2>2. /\ pc' = "declspec" /\ pc = "declspec"
          /\ stack' = Append(Front(stack), f) /\ current \in DOMAIN tag_to_primitive
        BY <1>5, <2>1 DEF SpecPrimitive, Become
    <2>3. PICK flags \in SUBSET Flags : flags = tag_to_primitive[current]
        BY <2>2, FlagsAre
    <2>4. f \in DeclFrames(Len(types)) /\ f.id = Caller.id \cup flags
        BY <1>1, <2>1, <2>2, <2>3 DEF DeclFrames
    <2>5. Last(stack') = f
        BY <1>0, <1>1, <2>2, <2>4, DeclBecomes
    <2>6. f.id \subseteq TypeFlags /\ f.id # {}
        BY <2>2, <2>3, <2>4, FlagsAre, PrimitivesHaveFlags DEF NameInv
    <2> QED
        BY <1>2, <2>2, <2>5, <2>6 DEF NameInv
<1>6. CASE SpecName
    <2>1. PICK f : f = [Caller EXCEPT !.id = {"NAME"}]
        OBVIOUS
    <2>2. /\ advance(1) /\ tokens' = tokens /\ pc' = "qualified" /\ pc = "declspec"
          /\ stack' = Append(Front(stack), f) /\ current = "TOK_IDENTIFIER" /\ Caller.id = {}
        BY <1>6, <2>1 DEF SpecName, Become, TakesName
    <2>3. {"NAME"} \in SUBSET Flags
        BY DEF Flags
    <2>4. /\ f \in DeclFrames(Len(types)) /\ f.is_const = Caller.is_const
          /\ f.is_static = Caller.is_static
        BY <1>1, <2>1, <2>2, <2>3 DEF DeclFrames
    <2>5. Last(stack') = f
        BY <1>0, <1>1, <2>2, <2>4, DeclBecomes
    <2>6. toki' = toki + 1 /\ current' = tokens[toki + 1 + 1]
        BY <2>2 DEF advance, Tok
    <2>7. Unqualified(f) => DeclaratorAt(tokens, NameEnds(tokens)[toki])
        BY <2>2, <2>4 DEF NameInv, Unqualified
    <2>8. NameEnds(tokens)[toki] = IF current' \in Separators THEN NameEnds(tokens)[toki + 2] ELSE toki + 1
        BY <1>0, <2>2, <2>6, NameEndStep
    <2>9. toki' + 1 = toki + 2
        BY <1>0, <2>6
    <2>10. Unqualified(f) =>
               DeclaratorAt(tokens', IF current' \in Separators THEN NameEnds(tokens')[toki' + 1] ELSE toki')
        BY <2>2, <2>6, <2>7, <2>8, <2>9
    <2> QED
        BY <1>2, <2>2, <2>5, <2>10 DEF NameInv
<1>7. CASE SpecMember
    <2>1. /\ advance(2) /\ tokens' = tokens /\ pc' = pc /\ pc = "qualified" /\ stack' = stack
          /\ current \in Separators /\ Tok(toki + 1) = "TOK_IDENTIFIER"
        BY <1>7 DEF SpecMember
    <2>2. toki' = toki + 2 /\ current' = tokens[toki + 2 + 1]
        BY <2>1 DEF advance, Tok
    <2>3. Unqualified(Caller) => DeclaratorAt(tokens, NameEnds(tokens)[toki + 1])
        BY <2>1 DEF NameInv
    <2>4. toki + 1 \in Nat /\ toki + 1 + 2 = toki + 3 /\ toki + 1 + 1 = toki + 2
          /\ toki + 1 + 1 + 1 = toki + 2 + 1 /\ toki' + 1 = toki + 3
        BY <1>0, <2>2
    <2>5. tokens[toki + 1 + 1] = "TOK_IDENTIFIER"
        BY <2>1 DEF Tok
    <2>6. NameEnds(tokens)[toki + 1] =
              IF current' \in Separators THEN NameEnds(tokens)[toki + 3] ELSE toki + 2
        BY <2>2, <2>4, <2>5, NameEndStep
    <2>7. Unqualified(Caller) =>
              DeclaratorAt(tokens', IF current' \in Separators THEN NameEnds(tokens')[toki' + 1] ELSE toki')
        BY <2>1, <2>2, <2>3, <2>4, <2>6
    <2>8. Caller' = Caller
        BY <2>1 DEF Caller
    <2> QED
        BY <2>1, <2>7, <2>8 DEF NameInv
<1>8. CASE SpecEnd
    <2>1. PICK f : f = [Caller EXCEPT !.type = NewType]
        OBVIOUS
    <2>2. /\ tokens' = tokens /\ toki' = toki /\ pc' = "pointers" /\ stack' = Append(Front(stack), f)
          /\ (pc = "declspec" \/ (pc = "qualified" /\ current \notin Separators))
        BY <1>8, <2>1, Zenon DEF SpecEnd, Become
    <2>3. f \in DeclFrames(Len(types) + 1)
          /\ f.id = Caller.id /\ f.is_const = Caller.is_const /\ f.is_static = Caller.is_static
        BY <1>3, <2>1, <2>2
    <2>4. Last(stack') = f
        BY <1>0, <1>1, <2>2, <2>3, DeclBecomes
    <2>5. Unqualified(f) /\ f.id = {"NAME"} => DeclaratorAt(tokens, toki)
        <3>1. CASE pc = "declspec"
            <4>1. "NAME" \notin TypeFlags
                BY DEF TypeFlags, tag_to_primitive
            <4> QED
                BY <2>3, <3>1, <4>1 DEF NameInv
        <3>2. CASE pc = "qualified" /\ current \notin Separators
            BY <2>3, <3>2 DEF NameInv, Unqualified
        <3> QED
            BY <2>2, <3>1, <3>2
    <2> QED
        BY <1>2, <2>2, <2>4, <2>5 DEF NameInv
<1>9. CASE PointerType
    <2>1. PICK f : f = [Caller EXCEPT !.type = NewType]
        OBVIOUS
    <2>2. /\ tokens' = tokens /\ advance(1) /\ pc' = pc /\ pc = "pointers"
          /\ stack' = Append(Front(stack), f) /\ Tok(toki) = "TOK_ASTERISK"
        BY <1>9, <2>1 DEF PointerType, Become
    <2>3. f \in DeclFrames(Len(types) + 1)
          /\ f.id = Caller.id /\ f.is_const = Caller.is_const /\ f.is_static = Caller.is_static
        BY <1>3, <2>1, <2>2
    <2>4. Last(stack') = f
        BY <1>0, <1>1, <2>2, <2>3, DeclBecomes
    <2>5. Unqualified(f) /\ f.id = {"NAME"} => DeclaratorAt(tokens, toki)
        BY <2>2, <2>3 DEF NameInv, Unqualified
    <2>6. toki' = toki + 1
        BY <2>2 DEF advance
    <2>7. Unqualified(f) /\ f.id = {"NAME"} => tokens[toki + 1 + 1] = "TOK_IDENTIFIER"
        <3>1. tokens[toki + 1] = "TOK_ASTERISK"
            BY <1>0, <2>2
        <3> QED
            BY <2>5, <3>1 DEF DeclaratorAt
    <2>8. Unqualified(f) /\ f.id = {"NAME"} => DeclaratorAt(tokens', toki')
        BY <2>2, <2>6, <2>7 DEF DeclaratorAt
    <2> QED
        BY <1>2, <2>2, <2>4, <2>8 DEF NameInv
<1>10. CASE \/ parse_inferred_var_decl \/ parse_const_var_decl \/ DeclaratorName \/ ArrayUnsized
           \/ ArrayLength \/ CloseArray \/ Initializer \/ Initialized \/ NoInitializer
           \/ DeclarationFails
    <2>1. pc' \notin LookaheadPc
        BY <1>10 DEF parse_inferred_var_decl, parse_const_var_decl, Inferred, DeclaratorName,
                    ArrayUnsized, ArrayLength, AwaitExpr, CloseArray, Initializer, Initialized,
                    NoInitializer, new_var_decl, DeclarationFails, Exit, LookaheadPc
    <2> QED
        BY <2>1, NoLookahead
<1> QED
    BY <1>4, <1>5, <1>6, <1>7, <1>8, <1>9, <1>10, Zenon DEF parse_var_decl

(* Every step of the statement parser keeps it.                            *)
LEMMA NameStep ==
    ASSUME ParserInv, CursorSound, NameInv, [StmtNext]_declVars
    PROVE  NameInv'
<1>1. CASE Finish /\ UNCHANGED types
    <2>1. pc' \notin LookaheadPc
        BY <1>1 DEF Finish, LookaheadPc
    <2> QED
        BY <2>1, NoLookahead
<1>2. CASE UNCHANGED declVars
    <2>1. /\ tokens' = tokens /\ toki' = toki /\ current' = current /\ stack' = stack /\ pc' = pc
        BY <1>2 DEF declVars, vars
    <2>2. Caller' = Caller
        BY <2>1 DEF Caller
    <2> QED
        BY <2>1, <2>2 DEF NameInv
<1> QED
    BY <1>1, <1>2, StmtLooks, DeclLooks, ExprLooksNot, NoLookahead, Zenon DEF StmtNext

(* A declaration that is_declaration let through is refused before its     *)
(* name only behind a separator, with a star and an identifier there.      *)
LEMMA NameMissing ==
    ASSUME ParserInv, CursorSound, NameInv, [StmtNext]_declVars,
           pc' = "exit", pc \in {"qualified", "pointers"}, Caller.id = {"NAME"}, Unqualified(Caller)
    PROVE  /\ pc = "qualified" /\ current \in Separators
           /\ Tok(toki + 1) = "TOK_ASTERISK" /\ Tok(toki + 2) = "TOK_IDENTIFIER"
<1>1. /\ current = tokens[toki + 1] /\ toki \in Nat
      /\ toki + 1 + 1 = toki + 2 /\ toki + 1 + 1 + 1 = toki + 2 + 1
    <2>1. toki \in Nat /\ current = tokens[toki + 1]
        BY DEF ParserInv, CursorSound, Tok
    <2> QED
        BY <2>1
<1>2. \/ pc = "qualified" /\ current \in Separators /\ Tok(toki + 1) # "TOK_IDENTIFIER"
      \/ pc = "pointers" /\ current \notin {"TOK_ASTERISK", "TOK_IDENTIFIER"}
    <2>1. CASE parse_stmt
        BY <2>1 DEF parse_stmt, parse_if, parse_while, Conditional, IfCondition, WhileCondition, Condition,
                    Else, NoElse, ElseEnd, WhileEnd, BodyEnd, ReturnTo,
                    parse_for_or_switch, parse_block, BlockStatement, BlockAppend, BlockEnd,
                    KeywordDeclaration, NamedDeclaration, ExpressionStatement, Semicolon,
                    ReturnStatement, ReturnEnd, StatementFails
    <2>2. CASE parse_var_decl
        BY <2>2 DEF parse_var_decl, parse_inferred_var_decl, parse_const_var_decl, Inferred,
                Qualifiers, SpecPrimitive, SpecName, SpecMember, SpecEnd, PointerType, Typed,
                DeclaratorName, ArrayUnsized, ArrayLength, AwaitExpr, CloseArray, Initializer,
                Initialized, NoInitializer, new_var_decl, DeclarationFails, ReturnTo
    <2>3. CASE parse_expr
        BY <2>3 DEF parse_expr, PrefixOperator, new_unary, Primary, PrimaryIdentifier,
                PrimaryLiteral, PrimaryEnumLiteral, PrimaryGroup, PrimaryNone, CloseGroup,
                PostfixMember, MemberField, MemberMissing, PostfixEmptyCall, PostfixCall,
                NextArgument, RepeatArgument, ParseNextArgument, CloseCall, PostfixIndex,
                IndexMissing, CloseIndex, ExpectTokenFails, PostfixEnd, TakeOperator, LeaveLoop,
                new_binary, ReturnTo
    <2>4. CASE Finish \/ UNCHANGED declVars
        BY <2>4 DEF Finish, declVars, vars
    <2> QED
        BY <2>1, <2>2, <2>3, <2>4 DEF StmtNext
<1>3. pc # "pointers"
    BY <1>1, <1>2 DEF NameInv, DeclaratorAt
<1>4. pc = "qualified" /\ current \in Separators /\ tokens[toki + 1 + 1] # "TOK_IDENTIFIER"
    BY <1>2, <1>3 DEF Tok
<1>5. DeclaratorAt(tokens, NameEnds(tokens)[toki + 1])
    BY <1>4 DEF NameInv
<1>6. NameEnds(tokens)[toki + 1] = toki + 1
    BY <1>1, <1>4, NameEndStep
<1>7. tokens[toki + 1 + 1] = "TOK_ASTERISK" /\ tokens[toki + 1 + 1 + 1] = "TOK_IDENTIFIER"
    BY <1>4, <1>5, <1>6 DEF DeclaratorAt
<1> QED
    BY <1>1, <1>4, <1>7 DEF Tok

(* For every set of texts: of the declarations that start with the name of *)
(* a type and that is_declaration (parser.cpp 657-683) let through,        *)
(* declspec and parse_var_decl find the name of the variable in every one  *)
(* but those whose type ends in `.` or `::` with a star and an identifier  *)
(* behind it: where the two disagree, and what they do then, is LookaheadAgrees. *)
THEOREM LookaheadAndParserAgree == StmtSpec => LookaheadAgrees
<1> DEFINE Inv == ParserInv /\ CursorSound /\ NameInv
           Act == pc' = "exit" /\ pc \in {"qualified", "pointers"}
                  /\ Caller.id = {"NAME"} /\ ~Caller.is_const /\ ~Caller.is_static
                      => /\ pc = "qualified" /\ current \in Separators
                         /\ Tok(toki + 1) = "TOK_ASTERISK" /\ Tok(toki + 2) = "TOK_IDENTIFIER"
<1>1. StmtInit => Inv
    BY NothingYet DEF StmtInit, NameInv
<1>2. Inv /\ [StmtNext]_declVars => Inv'
    BY StmtStep, NameStep
<1>3. Inv /\ [StmtNext]_declVars => [Act]_declVars
    BY NameMissing DEF Unqualified
<1> HIDE DEF Inv
<1> QED
    BY <1>1, <1>2, <1>3, PTL DEF StmtSpec, LookaheadAgrees

-----------------------------------------------------------------------------
(* Where a statement ends.                                                 *)

(* The stack s2 has the first m activations of s, and others only in A.    *)
Above(s, s2, m, A) ==
    /\ Len(s) \in Nat /\ Len(s2) \in Nat /\ m \in 0 .. Len(s) /\ m <= Len(s2)
    /\ \A k \in 1 .. m : s2[k] = s[k]
    /\ \A k \in m + 1 .. Len(s2) : s2[k].at \in A

(* Calls, returns and activations that go on have this form.               *)
LEMMA AbovePush ==
    ASSUME NEW S, NEW s \in Seq(S), NEW A, NEW f, f.at \in A
    PROVE  Above(s, Append(s, f), Len(s), A)
<1>1. s \in Seq(S \cup {f}) /\ f \in S \cup {f}
    BY WiderSeq
<1>2. /\ Len(Append(s, f)) = Len(s) + 1 /\ Len(s) \in Nat
      /\ \A i \in 1 .. Len(s) : Append(s, f)[i] = s[i]
      /\ Append(s, f)[Len(s) + 1] = f
    BY <1>1, PushOne
<1> QED
    BY <1>2 DEF Above

(* A call that waits for another one pushes both.                          *)
LEMMA AboveTwo ==
    ASSUME NEW S, NEW s \in Seq(S), NEW A, NEW f, NEW g, f.at \in A, g.at \in A
    PROVE  /\ Above(s, s \o <<f, g>>, Len(s), A)
           /\ Len(s \o <<f, g>>) = Len(s) + 2 /\ (s \o <<f, g>>)[Len(s) + 1] = f
<1>1. s \in Seq(S \cup {f, g}) /\ f \in S \cup {f, g} /\ g \in S \cup {f, g}
    BY WiderSeq
<1>2. /\ Len(s \o <<f, g>>) = Len(s) + 2 /\ Len(s) \in Nat
      /\ \A i \in 1 .. Len(s) : (s \o <<f, g>>)[i] = s[i]
      /\ (s \o <<f, g>>)[Len(s) + 1] = f
      /\ (s \o <<f, g>>)[Len(s) + 2] = g
    BY <1>1, PushTwo
<1>3. \A k \in Len(s) + 1 .. Len(s) + 2 : k = Len(s) + 1 \/ k = Len(s) + 2
    BY <1>2
<1> QED
    BY <1>2, <1>3 DEF Above

(* A return.                                                               *)
LEMMA AbovePop ==
    ASSUME NEW S, NEW s \in Seq(S), s # <<>>, NEW A
    PROVE  Above(s, Front(s), Len(s) - 1, A) /\ Len(Front(s)) = Len(s) - 1
    BY PopOne DEF Above

(* The activation on top goes on as another one,                           *)
LEMMA AboveBecome ==
    ASSUME NEW S, NEW s \in Seq(S), s # <<>>, NEW A, NEW f, f.at \in A
    PROVE  /\ Above(s, Append(Front(s), f), Len(s) - 1, A)
           /\ Len(Append(Front(s), f)) = Len(s) /\ Append(Front(s), f)[Len(s)] = f
<1>1. Front(s) \in Seq(S \cup {f}) /\ f \in S \cup {f}
    BY PopOne, WiderSeq
<1>2. /\ Len(Append(Front(s), f)) = Len(Front(s)) + 1
      /\ \A i \in 1 .. Len(Front(s)) : Append(Front(s), f)[i] = Front(s)[i]
      /\ Append(Front(s), f)[Len(Front(s)) + 1] = f
    BY <1>1, PushOne
<1>3. /\ Len(s) \in Nat /\ Len(s) >= 1 /\ Len(Front(s)) = Len(s) - 1
      /\ \A i \in 1 .. Len(s) - 1 : Front(s)[i] = s[i]
    BY PopOne
<1> QED
    BY <1>2, <1>3 DEF Above

(* or does so and calls another one.                                       *)
LEMMA AboveCall ==
    ASSUME NEW S, NEW s \in Seq(S), s # <<>>, NEW A, NEW f, NEW g, f.at \in A, g.at \in A
    PROVE  /\ Above(s, Front(s) \o <<f, g>>, Len(s) - 1, A)
           /\ Len(Front(s) \o <<f, g>>) = Len(s) + 1
           /\ (Front(s) \o <<f, g>>)[Len(s)] = f /\ (Front(s) \o <<f, g>>)[Len(s) + 1] = g
<1>1. /\ Front(s) \in Seq(S \cup {f, g}) /\ f \in S \cup {f, g} /\ g \in S \cup {f, g}
    BY PopOne, WiderSeq
<1>2. PICK u \in Seq(S \cup {f, g}) : u = Front(s)
    BY <1>1
<1>3. /\ Len(u \o <<f, g>>) = Len(u) + 2
      /\ \A i \in 1 .. Len(u) : (u \o <<f, g>>)[i] = u[i]
      /\ (u \o <<f, g>>)[Len(u) + 1] = f
      /\ (u \o <<f, g>>)[Len(u) + 2] = g
    BY <1>1, PushTwo
<1>4. /\ Len(s) \in Nat /\ Len(s) >= 1 /\ Len(u) = Len(s) - 1
      /\ \A i \in 1 .. Len(s) - 1 : u[i] = s[i]
    BY <1>2, PopOne
<1>5. PICK n \in Nat : n = Len(s) - 1
    BY <1>4
<1>6. PICK v : v = u \o <<f, g>>
    OBVIOUS
<1>7. /\ Len(v) = n + 2 /\ v[n + 1] = f /\ v[n + 2] = g /\ Len(s) = n + 1
      /\ \A i \in 1 .. n : v[i] = s[i]
    BY <1>3, <1>4, <1>5, <1>6
<1>8. \A k \in n + 1 .. n + 2 : v[k].at \in A
    <2>1. \A k \in n + 1 .. n + 2 : k = n + 1 \/ k = n + 2
        BY <1>5
    <2> QED
        BY <1>7, <2>1
<1> QED
    BY <1>2, <1>5, <1>6, <1>7, <1>8 DEF Above

(* A step inside an activation.                                            *)
LEMMA AboveSame ==
    ASSUME NEW S, NEW s \in Seq(S), NEW A
    PROVE  Above(s, s, Len(s), A)
    BY DEF Above

(* A step of the expression parser: the activation on top is its own, and  *)
(* so are those that come in its place.                                    *)
ExprRises ==
    /\ stack # <<>> /\ Caller.at \in FrameAt
    /\ \E m \in {Len(stack) - 1, Len(stack)} : Above(stack, stack', m, FrameAt)

(* Every step of the expression parser does that.                          *)
LEMMA ExprAbove ==
    ASSUME ParserInv, parse_expr
    PROVE  ExprRises
<1>0. PICK S : stack \in Seq(S)
    BY DEF ParserInv, StackOK
<1>1. /\ pc \in {"unary", "primary", "postfix"} => stack # <<>> /\ Caller.at \in FrameAt
      /\ \A at \in FrameAt : ReturnTo(at) => stack # <<>> /\ Caller.at \in FrameAt
    BY DEF ParserInv, TopOK, Caller, FrameAt, ReturnTo
<1>2. \A at \in FrameAt : \A min, tok, lhs, args : Frame(at, min, tok, lhs, args).at \in FrameAt
    BY DEF Frame
<1>3. \A min : PrecedenceFrame(min).at \in FrameAt
    BY DEF PrecedenceFrame, Frame, FrameAt
<1>4. ASSUME stack # <<>>, Caller.at \in FrameAt,
             \/ stack' = stack
             \/ \E at \in FrameAt : \E tok, lhs, args, min :
                    stack' = stack \o <<Frame(at, 0, tok, lhs, args), PrecedenceFrame(min)>>
             \/ \E at \in FrameAt : \E tok, lhs, args : stack' = Append(stack, Frame(at, 0, tok, lhs, args))
             \/ stack' = Front(stack)
      PROVE  ExprRises
    <2>1. CASE stack' = stack
        BY <1>0, <1>4, <2>1, AboveSame DEF ExprRises
    <2>2. CASE \E at \in FrameAt : \E tok, lhs, args, min :
                   stack' = stack \o <<Frame(at, 0, tok, lhs, args), PrecedenceFrame(min)>>
        <3>1. PICK at \in FrameAt : \E tok, lhs, args, min :
                  stack' = stack \o <<Frame(at, 0, tok, lhs, args), PrecedenceFrame(min)>>
            BY <2>2
        <3>3. PICK tok, lhs, args, min :
                  stack' = stack \o <<Frame(at, 0, tok, lhs, args), PrecedenceFrame(min)>>
            BY <3>1
        <3>2. Above(stack, stack', Len(stack), FrameAt)
            BY <1>0, <1>2, <1>3, <3>3, AboveTwo
        <3> QED
            BY <1>4, <3>2 DEF ExprRises
    <2>3. CASE \E at \in FrameAt : \E tok, lhs, args : stack' = Append(stack, Frame(at, 0, tok, lhs, args))
        <3>1. PICK at \in FrameAt : \E tok, lhs, args :
                  stack' = Append(stack, Frame(at, 0, tok, lhs, args))
            BY <2>3
        <3>3. PICK tok, lhs, args : stack' = Append(stack, Frame(at, 0, tok, lhs, args))
            BY <3>1
        <3>2. Above(stack, stack', Len(stack), FrameAt)
            BY <1>0, <1>2, <3>3, AbovePush
        <3> QED
            BY <1>4, <3>2 DEF ExprRises
    <2>4. CASE stack' = Front(stack)
        BY <1>0, <1>4, <2>4, AbovePop DEF ExprRises
    <2> QED
        BY <1>4, <2>1, <2>2, <2>3, <2>4
<1>5. CASE NextArgument \/ RepeatArgument
    <2>1. ReturnTo("args") /\ ParseNextArgument
        BY <1>5 DEF NextArgument, RepeatArgument
    <2>2. Caller \in ExprFrames(Len(pool)) /\ stack # <<>> /\ Caller.at = "args"
        BY <2>1, ResumedExpr DEF FrameAt
    <2>3. PICK f : f = [Caller EXCEPT !.args = ArgsAppended]
        OBVIOUS
    <2>4. f.at = "args" /\ f.at \in FrameAt
        BY <2>2, <2>3 DEF ExprFrames, FrameAt
    <2>5. stack' = Front(stack) \o <<f, PrecedenceFrame(0)>>
        BY <2>1, <2>3 DEF ParseNextArgument
    <2>6. Above(stack, stack', Len(stack) - 1, FrameAt)
        BY <1>0, <1>3, <2>2, <2>4, <2>5, AboveCall
    <2> QED
        BY <2>2, <2>4, <2>6 DEF ExprRises
<1>6. CASE PrefixOperator \/ PrimaryGroup \/ PostfixMember \/ PostfixCall \/ PostfixIndex \/ TakeOperator
    <2>1. {"operand", "group", "member", "args", "index", "rhs", "precedence"} \subseteq FrameAt
        BY DEF FrameAt
    <2> QED
        BY <1>1, <1>4, <1>6, <2>1 DEF PrefixOperator, PrimaryGroup, AtPrimary, PostfixMember, PostfixCall,
                                      PostfixIndex, TakeOperator
<1>7. CASE \/ PrimaryIdentifier \/ PrimaryLiteral \/ PrimaryEnumLiteral \/ PrimaryNone
           \/ PostfixEmptyCall \/ PostfixEnd \/ IndexMissing \/ ExpectTokenFails
    BY <1>1, <1>4, <1>7 DEF PrimaryIdentifier, PrimaryLiteral, PrimaryEnumLiteral, PrimaryNone, AtPrimary,
                  PostfixEmptyCall, PostfixEnd, IndexMissing, ExpectTokenFails, FrameAt
<1>8. CASE \/ LeaveLoop \/ new_binary \/ new_unary \/ CloseGroup \/ MemberField \/ MemberMissing
           \/ CloseCall \/ CloseIndex
    BY <1>1, <1>4, <1>8 DEF LeaveLoop, new_binary, new_unary, CloseGroup, MemberField, MemberMissing,
                  CloseCall, CloseIndex, Pop, FrameAt
<1> QED
    BY <1>5, <1>6, <1>7, <1>8, Zenon DEF parse_expr, Primary

(* It never returns to a statement.                                        *)
LEMMA ExprReturns ==
    ASSUME ParserInv, parse_expr, stack' # <<>>, ParserInv'
    PROVE  Caller'.at \notin Bodies
<1>1. /\ StackOK(stack, pool, Len(types), tokens) /\ Len(pool) \in Nat /\ Len(types) \in Nat
    BY PoolSize DEF ParserInv
<1>2. PICK S : stack \in Seq(S)
    BY <1>1 DEF StackOK
<1>3. PICK S2 : stack' \in Seq(S2)
    BY DEF ParserInv, StackOK
<1>4. ExprRises
    BY ExprAbove
<1>5. PICK m \in {Len(stack) - 1, Len(stack)} : Above(stack, stack', m, FrameAt)
    BY <1>4 DEF ExprRises
<1>6. FrameAt \cap Bodies = {}
    BY DEF FrameAt, Bodies
<1>7. Caller' = stack'[Len(stack')] /\ Len(stack') \in Nat /\ Len(stack') >= 1
    BY <1>3 DEF Caller, Last
<1>8. Len(stack) \in Nat /\ Len(stack) >= 1
    BY <1>2, <1>4 DEF ExprRises
<1>9. CASE Len(stack') > m
    BY <1>5, <1>6, <1>7, <1>8, <1>9 DEF Above
<1>10. CASE Len(stack') = m /\ m = Len(stack)
    <2>1. Caller' = Caller
        BY <1>5, <1>7, <1>8, <1>10 DEF Above, Caller, Last
    <2> QED
        BY <1>4, <1>6, <2>1 DEF ExprRises
<1>11. CASE Len(stack') = m /\ m = Len(stack) - 1
    <2>1. Caller' = stack[Len(stack) - 1] /\ Len(stack) - 1 \in 1 .. Len(stack) - 1
        BY <1>5, <1>7, <1>8, <1>11 DEF Above
    <2>2. PICK n \in Nat : n = Len(stack) - 1
        BY <1>8
    <2>3. n \in 1 .. Len(stack) - 1 /\ stack[n + 1] = Caller /\ Caller' = stack[n]
        BY <2>1, <2>2, <1>8 DEF Caller, Last
    <2>4. stack[n].at \in CallersOf(Caller.at)
        BY <1>1, <2>3 DEF StackOK
    <2>5. \A at \in FrameAt : CallersOf(at) \cap Bodies = {}
        BY CallersAre DEF FrameAt, Bodies
    <2> QED
        BY <1>4, <2>3, <2>4, <2>5 DEF ExprRises
<1> QED
    BY <1>5, <1>9, <1>10, <1>11, <1>7, <1>8 DEF Above

(* Type t of the list ty is derived from a name: a set of types holds it,  *)
(* and of each type the one it is derived from, down to names.             *)
NameBelow(t, ty) ==
    \E S \in SUBSET (1 .. Len(ty)) :
        /\ t \in S
        /\ \A s \in S : ty[s].base \in S \/ (ty[s].base = NULL /\ ty[s].id = {"NAME"})

(* An activation of parse_var_decl that parse_stmt called without waiting  *)
(* for a semicolon.                                                        *)
Bare(s, k) == s[k].at \in DeclAt /\ (k = 1 \/ s[k - 1].at \in Bodies)

(* Such activations among the first n have a type derived from a name.     *)
NamesBelow(s, n, ty) ==
    \A k \in 1 .. n : Bare(s, k) => s[k].tag = "AST_VAR_DECL" /\ NameBelow(s[k].type, ty)

(* A statement that has ended.                                             *)
Ended ==
    \/ Tok(toki - 1) \in {"TOK_SEMICOLON", "TOK_RBRACE"}
    \/ current \in Unfinished
    \/ /\ ret # NULL
       /\ \/ pool[ret].tag \in {"AST_IF", "AST_WHILE"}
          \/ pool[ret].tag = "AST_VAR_DECL" /\ NameBelow(pool[ret].type, types)

(* The activations whose declarator has a type already.                    *)
Typeless == {"declspec", "qualified", "exit"}
WithType == IF pc \in Typeless THEN Len(stack) - 1 ELSE Len(stack)

(* What makes a statement that returns to its block have ended.  A         *)
(* declaration that parse_stmt called without waiting for a semicolon began*)
(* at an identifier, so the type it makes is derived from a name.          *)
EndInv ==
    /\ pc = "return" => (stack # <<>> => (Caller.at \in Bodies => Ended))
    /\ pc = "var_decl" => (stack = <<>> \/ Caller.at \in Bodies => current = "TOK_IDENTIFIER")
    /\ NamesBelow(stack, WithType, types)
    /\ pc = "declspec" =>
           (Bare(stack, Len(stack)) =>
               Caller.tag = "AST_VAR_DECL" /\ Caller.id = {} /\ current = "TOK_IDENTIFIER")
    /\ pc = "qualified" =>
           (Bare(stack, Len(stack)) => Caller.tag = "AST_VAR_DECL" /\ Caller.id = {"NAME"})

(* A list of types that has grown.                                         *)
Grown(ty, ty2) ==
    /\ Len(ty) \in Nat /\ Len(ty2) \in Nat /\ Len(ty) <= Len(ty2)
    /\ \A t \in 1 .. Len(ty) : ty2[t] = ty[t]

(* What is derived from a name stays so when the list grows.               *)
LEMMA NameStays ==
    ASSUME NEW t, NEW ty, NEW ty2, Grown(ty, ty2), NameBelow(t, ty)
    PROVE  NameBelow(t, ty2)
<1>1. PICK S \in SUBSET (1 .. Len(ty)) :
          /\ t \in S
          /\ \A s \in S : ty[s].base \in S \/ (ty[s].base = NULL /\ ty[s].id = {"NAME"})
    BY DEF NameBelow
<1>2. S \in SUBSET (1 .. Len(ty2)) /\ \A s \in S : ty2[s] = ty[s]
    BY DEF Grown
<1> QED
    BY <1>1, <1>2 DEF NameBelow

(* A type that is made from one that is derived from a name.               *)
LEMMA NameDerived ==
    ASSUME NEW t, NEW ty, NEW ty2, Grown(ty, ty2), Len(ty2) = Len(ty) + 1,
           \/ ty2[Len(ty2)].base = t /\ NameBelow(t, ty)
           \/ ty2[Len(ty2)].base = NULL /\ ty2[Len(ty2)].id = {"NAME"}
    PROVE  NameBelow(Len(ty2), ty2)
<1>1. CASE ty2[Len(ty2)].base = NULL /\ ty2[Len(ty2)].id = {"NAME"}
    <2>1. {Len(ty2)} \in SUBSET (1 .. Len(ty2))
        BY DEF Grown
    <2> QED
        BY <1>1, <2>1 DEF NameBelow
<1>2. CASE ty2[Len(ty2)].base = t /\ NameBelow(t, ty)
    <2>1. PICK S \in SUBSET (1 .. Len(ty2)) :
              /\ t \in S
              /\ \A s \in S : ty2[s].base \in S \/ (ty2[s].base = NULL /\ ty2[s].id = {"NAME"})
        <3>1. NameBelow(t, ty2)
            BY <1>2, NameStays
        <3> QED
            BY <3>1 DEF NameBelow
    <2>2. PICK T : T = S \cup {Len(ty2)}
        OBVIOUS
    <2>3. T \in SUBSET (1 .. Len(ty2)) /\ Len(ty2) \in T
        <3>1. Len(ty2) \in 1 .. Len(ty2)
            BY DEF Grown
        <3> QED
            BY <2>2, <3>1
    <2>4. \A s \in T : ty2[s].base \in T \/ (ty2[s].base = NULL /\ ty2[s].id = {"NAME"})
        <3>1. \A s \in S : ty2[s].base \in T \/ (ty2[s].base = NULL /\ ty2[s].id = {"NAME"})
            BY <2>1, <2>2
        <3>2. ty2[Len(ty2)].base \in T
            BY <1>2, <2>1, <2>2
        <3> QED
            BY <2>2, <3>1, <3>2
    <2> QED
        BY <2>3, <2>4 DEF NameBelow
<1> QED
    BY <1>1, <1>2

(* What is above the kept part of the stack starts no bare declaration.    *)
LEMMA NamesKept ==
    ASSUME NEW s, NEW s2, NEW m, NEW A, Above(s, s2, m, A), A \cap DeclAt = {},
           NEW ty, NEW ty2, Grown(ty, ty2), NEW n \in Nat, m <= n, NamesBelow(s, n, ty)
    PROVE  NamesBelow(s2, Len(s2), ty2)
<1> SUFFICES ASSUME NEW k \in 1 .. Len(s2), Bare(s2, k)
             PROVE  s2[k].tag = "AST_VAR_DECL" /\ NameBelow(s2[k].type, ty2)
    BY DEF NamesBelow
<1>1. k \in 1 .. m
    BY DEF Bare, Above
<1>2. k \in 1 .. n /\ (k = 1 \/ k - 1 \in 1 .. m)
    BY <1>1 DEF Above
<1>3. s2[k] = s[k] /\ Bare(s, k)
    BY <1>1, <1>2 DEF Bare, Above
<1> QED
    BY <1>2, <1>3, NameStays DEF NamesBelow

(* The activation on top has another type, or goes on at another place.    *)
LEMMA NamesTop ==
    ASSUME NEW s, NEW s2, Above(s, s2, Len(s) - 1, FrameAt \cup DeclAt), Len(s2) >= Len(s),
           NEW ty, NEW ty2, Grown(ty, ty2), NamesBelow(s, Len(s) - 1, ty),
           s[Len(s)].at \in DeclAt,
           Bare(s, Len(s)) =>
               s2[Len(s)].tag = "AST_VAR_DECL" /\ NameBelow(s2[Len(s)].type, ty2),
           Len(s2) > Len(s) => Len(s2) = Len(s) + 1 /\ s2[Len(s) + 1].at \in FrameAt
    PROVE  NamesBelow(s2, Len(s2), ty2)
<1> SUFFICES ASSUME NEW k \in 1 .. Len(s2), Bare(s2, k)
             PROVE  s2[k].tag = "AST_VAR_DECL" /\ NameBelow(s2[k].type, ty2)
    BY DEF NamesBelow
<1>1. FrameAt \cap DeclAt = {}
    BY DEF FrameAt, DeclAt
<1>2. Len(s) \in Nat /\ Len(s) >= 1 /\ Len(s2) \in Nat
    BY DEF Above
<1>3. CASE k <= Len(s) - 1
    <2>1. k \in 1 .. Len(s) - 1 /\ (k = 1 \/ k - 1 \in 1 .. Len(s) - 1)
        BY <1>2, <1>3
    <2>2. s2[k] = s[k] /\ Bare(s, k)
        BY <2>1 DEF Bare, Above
    <2> QED
        BY <2>1, <2>2, NameStays DEF NamesBelow
<1>4. CASE k = Len(s)
    <2>1. k = 1 \/ k - 1 \in 1 .. Len(s) - 1
        BY <1>2, <1>4
    <2>2. Bare(s, Len(s))
        BY <1>4, <2>1 DEF Bare, Above
    <2> QED
        BY <1>4, <2>2
<1>5. CASE k = Len(s) + 1
    BY <1>1, <1>2, <1>5 DEF Bare
<1> QED
    BY <1>2, <1>3, <1>4, <1>5

(* What holds of the first n activations holds of fewer.                   *)
LEMMA NamesFewer ==
    ASSUME NEW s, NEW n \in Nat, NEW n2, n2 \in Int, n2 <= n, NEW ty, NamesBelow(s, n, ty)
    PROVE  NamesBelow(s, n2, ty)
    BY DEF NamesBelow

(* In a step that is not one of parse_var_decl the types stay; what it     *)
(* needs for EndInv is a stack of this form.                               *)
LEMMA EndKept ==
    ASSUME ParserInv, EndInv, types' = types, pc \notin Typeless, pc' \notin {"declspec", "qualified"},
           NEW m, NEW A, A \cap DeclAt = {}, Above(stack, stack', m, A),
           pc' = "return" => (stack' # <<>> => (Caller'.at \in Bodies => Ended')),
           pc' = "var_decl" => (stack' = <<>> \/ Caller'.at \in Bodies => current' = "TOK_IDENTIFIER")
    PROVE  EndInv'
<1>1. /\ NamesBelow(stack, Len(stack), types) /\ Len(stack) \in Nat /\ m \in Nat /\ m <= Len(stack)
      /\ Len(stack') \in Nat
    BY DEF EndInv, WithType, Above
<1>2. Grown(types, types')
    BY PoolSize DEF Grown
<1>3. NamesBelow(stack', Len(stack'), types')
    BY <1>1, <1>2, NamesKept
<1>4. NamesBelow(stack', Len(stack') - 1, types')
    BY <1>1, <1>3, NamesFewer
<1>5. NamesBelow(stack', WithType', types')
    BY <1>3, <1>4 DEF WithType
<1> QED
    BY <1>5 DEF EndInv

(* A step of the expression parser, which returns to no body of a block.   *)
LEMMA ExprEnds ==
    ASSUME ParserInv, CursorSound, EndInv, parse_expr
    PROVE  EndInv'
<1>1. ParserInv'
    BY ExprStep
<1>2. pc' \notin LookaheadPc
    BY ExprLooksNot
<1>3. types' = types
    BY DEF parse_expr
<1>4. ExprRises
    BY ExprAbove
<1>5. PICK m \in {Len(stack) - 1, Len(stack)} : Above(stack, stack', m, FrameAt)
    BY <1>4 DEF ExprRises
<1>6. pc \notin Typeless
    <2>1. pc \notin {"declspec", "qualified"}
        BY <1>4 DEF ExprRises, ParserInv, TopOK, Caller, FrameAt
    <2>2. pc # "exit"
        BY DEF parse_expr, PrefixOperator, new_unary, Primary, PrimaryIdentifier,
                PrimaryLiteral, PrimaryEnumLiteral, PrimaryGroup, PrimaryNone, CloseGroup, AtPrimary,
                PostfixMember, MemberField, MemberMissing, PostfixEmptyCall, PostfixCall,
                NextArgument, RepeatArgument, CloseCall, PostfixIndex,
                IndexMissing, CloseIndex, ExpectTokenFails, PostfixEnd, TakeOperator, LeaveLoop,
                new_binary, ReturnTo
    <2> QED
        BY <2>1, <2>2 DEF Typeless
<1>7. stack' # <<>> => Caller'.at \notin Bodies
    BY <1>1, ExprReturns
<1>8. FrameAt \cap DeclAt = {}
    BY DEF FrameAt, DeclAt
<1> QED
    BY <1>2, <1>3, <1>5, <1>6, <1>7, <1>8, EndKept DEF LookaheadPc

(* A statement that awaits no declaration itself.                          *)
LEMMA StmtEnds ==
    ASSUME ParserInv, CursorSound, EndInv, parse_stmt
    PROVE  EndInv'
<1>0. /\ toki \in Nat /\ current = Tok(toki) /\ Len(pool) \in Nat
    BY PoolSize DEF ParserInv, CursorSound
<1>1. PICK S : stack \in Seq(S)
    BY DEF ParserInv, StackOK
<1>2. PICK A : A = StmtAt \cup FrameAt
    OBVIOUS
<1>3. A \cap DeclAt = {} /\ FrameAt \subseteq A /\ StmtAt \subseteq A
    BY <1>2 DEF StmtAt, FrameAt, DeclAt
<1>4. \A at \in StmtAt : \A tok, node, stmts : StmtFrame(at, tok, node, stmts).at \in A
    BY <1>3 DEF StmtFrame
<1>5. \A min : PrecedenceFrame(min).at \in A
    BY <1>3 DEF PrecedenceFrame, Frame, FrameAt
<1>6. ASSUME pc \in {"stmt", "block", "return"}, types' = types,
             NEW m, Above(stack, stack', m, A), pc' \in {"unary", "stmt", "block", "exit"}
      PROVE  EndInv'
    BY <1>3, <1>6, EndKept DEF Typeless
<1>7. ASSUME pc \in {"stmt", "block", "return"}, types' = types,
             NEW m, Above(stack, stack', m, A), pc' = "return", Ended'
      PROVE  EndInv'
    BY <1>3, <1>7, EndKept DEF Typeless
<1>8. CASE parse_if \/ parse_while \/ ExpressionStatement \/ ReturnStatement
    <2>1. /\ pc = "stmt" /\ pc' = "unary" /\ types' = types
          /\ \E at \in StmtAt : \E tok, node, stmts, min :
                 stack' = stack \o <<StmtFrame(at, tok, node, stmts), PrecedenceFrame(min)>>
        BY <1>8 DEF parse_if, parse_while, Conditional, ExpressionStatement, ReturnStatement, StmtAt
    <2>2. PICK at \in StmtAt : \E tok, node, stmts, min :
                 stack' = stack \o <<StmtFrame(at, tok, node, stmts), PrecedenceFrame(min)>>
        BY <2>1
    <2>3. PICK tok, node, stmts, min :
              stack' = stack \o <<StmtFrame(at, tok, node, stmts), PrecedenceFrame(min)>>
        BY <2>2
    <2>4. Above(stack, stack', Len(stack), A)
        BY <1>1, <1>4, <1>5, <2>3, AboveTwo
    <2> QED
        BY <1>6, <2>1, <2>4
<1>9. CASE IfCondition \/ WhileCondition \/ Else \/ BlockAppend
    <2>1. /\ pc = "return" /\ stack # <<>> /\ Caller.at \in StmtAt /\ pc' \in {"stmt", "block"}
          /\ types' = types
          /\ \/ \E at \in StmtAt : stack' = Append(Front(stack), [Caller EXCEPT !.at = at])
             \/ \E stmts : stack' = Append(Front(stack), [Caller EXCEPT !.stmts = stmts])
        BY <1>9 DEF IfCondition, WhileCondition, Condition, Else, BlockAppend, ReturnTo, Resume, Become, StmtAt
    <2>2. Caller \in StmtFrames(Len(pool))
        BY <2>1, StmtCaller
    <2>3. PICK f : stack' = Append(Front(stack), f) /\ f.at \in StmtAt
        <3>1. PICK g \in StmtFrames(Len(pool)) : g = Caller
            BY <2>2
        <3>2. \A at \in StmtAt : [g EXCEPT !.at = at].at \in StmtAt
            BY DEF StmtFrames
        <3>3. \A stmts : [g EXCEPT !.stmts = stmts].at \in StmtAt
            BY DEF StmtFrames
        <3>4. CASE \E at \in StmtAt : stack' = Append(Front(stack), [Caller EXCEPT !.at = at])
            BY <3>1, <3>2, <3>4, Zenon
        <3>5. CASE \E stmts : stack' = Append(Front(stack), [Caller EXCEPT !.stmts = stmts])
            BY <3>1, <3>3, <3>5, Zenon
        <3> QED
            BY <2>1, <3>4, <3>5
    <2>4. Above(stack, stack', Len(stack) - 1, A)
        BY <1>1, <1>3, <2>1, <2>3, AboveBecome
    <2> QED
        BY <1>6, <2>1, <2>4
<1>10. CASE NoElse \/ ElseEnd \/ WhileEnd
    <2>1. \E at \in DOMAIN Owner : \E k \in 1 .. 3 : BodyEnd(at, k)
        BY <1>10 DEF NoElse, ElseEnd, WhileEnd, Owner
    <2>2. PICK at \in DOMAIN Owner, k \in 1 .. 3 : BodyEnd(at, k)
        BY <2>1
    <2>3. /\ ReturnTo(at) /\ Link(k) /\ types' = types /\ ret' = Caller.node
          /\ stack' = Front(stack) /\ pc' = "return"
        BY <2>2 DEF BodyEnd, Return, Pop
    <2>4. Caller.node \in 1 .. Len(pool) /\ pool'[Caller.node].tag = Owner[at]
        BY <2>3, Linked
    <2>5. Ended'
        <3>1. ret' # NULL /\ pool'[ret'].tag \in {"AST_IF", "AST_WHILE"}
            BY <1>0, <2>3, <2>4 DEF NULL, Owner
        <3> QED
            BY <3>1 DEF Ended
    <2>6. Above(stack, stack', Len(stack) - 1, A) /\ pc = "return"
        BY <1>1, <2>3, AbovePop DEF ReturnTo
    <2> QED
        BY <1>7, <2>3, <2>5, <2>6
<1>11. CASE parse_for_or_switch
    <2>1. /\ pc = "stmt" /\ pc' = "return" /\ types' = types /\ stack' = stack /\ current' \in Unfinished
        BY <1>11 DEF parse_for_or_switch
    <2>2. Above(stack, stack', Len(stack), A)
        BY <1>1, <2>1, AboveSame
    <2>3. Ended'
        BY <2>1 DEF Ended
    <2> QED
        BY <1>7, <2>1, <2>2, <2>3
<1>12. CASE parse_block
    <2>1. /\ pc = "stmt" /\ pc' = "block" /\ types' = types
          /\ stack' = Append(stack, StmtFrame("block", toki, NULL, <<>>))
        BY <1>12 DEF parse_block
    <2>2. Above(stack, stack', Len(stack), A)
        BY <1>1, <1>4, <2>1, AbovePush DEF StmtAt
    <2> QED
        BY <1>6, <2>1, <2>2
<1>13. CASE BlockStatement \/ StatementFails
    <2>1. /\ pc \in {"stmt", "block", "return"} /\ pc' \in {"stmt", "exit"} /\ types' = types
          /\ stack' = stack
        BY <1>13 DEF BlockStatement, StatementFails, Exit, ReturnTo
    <2>2. Above(stack, stack', Len(stack), A)
        BY <1>1, <2>1, AboveSame
    <2> QED
        BY <1>6, <2>1, <2>2
<1>14. CASE BlockEnd \/ Semicolon \/ ReturnEnd
    <2>1. /\ pc \in {"block", "return"} /\ pc' = "return" /\ types' = types /\ tokens' = tokens
          /\ stack' = Front(stack) /\ advance(1) /\ Tok(toki) \in {"TOK_SEMICOLON", "TOK_RBRACE"}
        BY <1>0, <1>14 DEF BlockEnd, Semicolon, ReturnEnd, ReturnTo, Pop
    <2>2. stack # <<>>
        BY <1>14 DEF BlockEnd, Semicolon, ReturnEnd, ReturnTo, ParserInv, TopOK
    <2>3. Above(stack, stack', Len(stack) - 1, A)
        BY <1>1, <2>1, <2>2, AbovePop
    <2>4. Ended'
        <3>1. toki' - 1 = toki /\ Tok(toki') = Tok(toki')
            BY <1>0, <2>1 DEF advance
        <3>2. tokens'[toki' - 1 + 1] \in {"TOK_SEMICOLON", "TOK_RBRACE"}
            BY <2>1, <3>1 DEF Tok
        <3> QED
            BY <3>2 DEF Ended, Tok
    <2> QED
        BY <1>7, <2>1, <2>3, <2>4
<1>15. CASE KeywordDeclaration
    <2>1. /\ pc = "stmt" /\ pc' = "var_decl" /\ types' = types
          /\ stack' = Append(stack, StmtFrame("semicolon", toki, NULL, <<>>))
        BY <1>15 DEF KeywordDeclaration
    <2>2. Above(stack, stack', Len(stack), A)
        BY <1>1, <1>4, <2>1, AbovePush DEF StmtAt
    <2>3. stack' # <<>> /\ Caller' = StmtFrame("semicolon", toki, NULL, <<>>)
        <3>1. PICK f : f = StmtFrame("semicolon", toki, NULL, <<>>)
            OBVIOUS
        <3>2. stack \in Seq(S \cup {f}) /\ f \in S \cup {f}
            BY <1>1, WiderSeq
        <3>3. stack' = Append(stack, f)
            BY <2>1, <3>1
        <3>4. Append(stack, f) # <<>> /\ Last(Append(stack, f)) = f
            BY <3>2, PushOne
        <3> QED
            BY <3>1, <3>3, <3>4 DEF Caller
    <2>4. Caller'.at \notin Bodies
        BY <2>3 DEF StmtFrame, Bodies
    <2> QED
        BY <1>3, <2>1, <2>2, <2>3, <2>4, EndKept DEF Typeless
<1>16. CASE NamedDeclaration
    <2>1. /\ pc = "stmt" /\ pc' = "var_decl" /\ types' = types /\ stack' = stack
          /\ current' = "TOK_IDENTIFIER"
        BY <1>16 DEF NamedDeclaration
    <2>2. Above(stack, stack', Len(stack), A)
        BY <1>1, <2>1, AboveSame
    <2> QED
        BY <1>3, <2>1, <2>2, EndKept DEF Typeless
<1> QED
    BY <1>8, <1>9, <1>10, <1>11, <1>12, <1>13, <1>14, <1>15, <1>16, Zenon DEF parse_stmt

(* A step of parse_var_decl with its activation on top.                    *)
LEMMA DeclEnds ==
    ASSUME ParserInv, CursorSound, EndInv, parse_var_decl
    PROVE  EndInv'
<1>0. /\ toki \in Nat /\ current = Tok(toki) /\ Len(pool) \in Nat /\ Len(types) \in Nat
      /\ StackOK(stack, pool, Len(types), tokens) /\ ret \in 0 .. Len(pool)
    BY PoolSize DEF ParserInv, CursorSound
<1>1. PICK S : stack \in Seq(S)
    BY DEF ParserInv, StackOK
<1>2. Len(stack) \in Nat
    BY <1>1
<1>3. Grown(types, types)
    BY <1>0 DEF Grown
<1>4. FrameAt \cap DeclAt = {} /\ FrameAt \cap Bodies = {} /\ DeclAt \cap Bodies = {}
    BY DEF FrameAt, DeclAt, Bodies
<1>5. \A min : PrecedenceFrame(min).at \in FrameAt
    BY DEF PrecedenceFrame, Frame, FrameAt
<1>6. pc \in {"declspec", "qualified", "pointers", "arrays"} => stack # <<>> /\ Caller.at = "declaration"
    BY DEF ParserInv, TopOK, Caller
<1>7. \A n \in Nat : Len(stack) - 1 <= n /\ NamesBelow(stack, n, types) =>
          NamesBelow(stack, Len(stack) - 1, types)
    BY <1>2, NamesFewer
<1>8. NamesBelow(stack, Len(stack) - 1, types)
    BY <1>2, <1>7 DEF EndInv, WithType, NamesBelow
<1>9. pc \notin Typeless => NamesBelow(stack, Len(stack), types)
    BY DEF EndInv, WithType
\* the activation goes on, with its type
<1>10. ASSUME stack # <<>>, Caller.at \in DeclAt, Grown(types, types'),
              NEW f, f.at \in DeclAt, 
              \/ stack' = Append(Front(stack), f)
              \/ stack' = Front(stack) \o <<f, PrecedenceFrame(0)>>,
              Bare(stack, Len(stack)) => f.tag = "AST_VAR_DECL" /\ NameBelow(f.type, types'),
              pc' \in {"pointers", "arrays", "unary"}
       PROVE  EndInv'
    <2>1. PICK A : A = FrameAt \cup DeclAt
        OBVIOUS
    <2>2. f.at \in A /\ PrecedenceFrame(0).at \in A
        BY <1>5, <1>10, <2>1
    <2>3. PICK g : g = PrecedenceFrame(0)
        OBVIOUS
    <2>4. /\ Above(stack, stack', Len(stack) - 1, A) /\ Len(stack') >= Len(stack)
          /\ stack'[Len(stack)] = f
          /\ Len(stack') > Len(stack) => Len(stack') = Len(stack) + 1 /\ stack'[Len(stack) + 1].at \in FrameAt
        <3>1. CASE stack' = Append(Front(stack), f)
            <4>1. /\ Above(stack, stack', Len(stack) - 1, A) /\ Len(stack') = Len(stack)
                  /\ stack'[Len(stack)] = f
                BY <1>1, <1>10, <2>2, <3>1, AboveBecome
            <4> QED
                BY <1>2, <4>1
        <3>2. CASE stack' = Front(stack) \o <<f, g>>
            <4>1. /\ Above(stack, stack', Len(stack) - 1, A) /\ Len(stack') = Len(stack) + 1
                  /\ stack'[Len(stack)] = f /\ stack'[Len(stack) + 1] = g
                BY <1>1, <1>10, <2>2, <2>3, <3>2, AboveCall
            <4> QED
                BY <1>2, <1>5, <2>3, <4>1
        <3> QED
            BY <1>10, <2>3, <3>1, <3>2
    <2>5. stack[Len(stack)].at \in DeclAt
        BY <1>10 DEF Caller, Last
    <2>6. NamesBelow(stack', Len(stack'), types')
        BY <1>8, <1>10, <2>1, <2>4, <2>5, NamesTop
    <2> QED
        BY <1>10, <2>6 DEF EndInv, WithType, Typeless
<1>11. CASE parse_inferred_var_decl \/ parse_const_var_decl
    <2>1. \E kw \in {"TOK_LET", "TOK_CONST"} : \E tag : Inferred(kw, tag)
        BY <1>11 DEF parse_inferred_var_decl, parse_const_var_decl
    <2>2. PICK kw \in {"TOK_LET", "TOK_CONST"} : \E tag : Inferred(kw, tag)
        BY <2>1
    <2>3. PICK tag : Inferred(kw, tag)
        BY <2>2
    <2>4. PICK f, g : f = DeclFrame("initializer", tag, toki, toki + 1) /\ g = PrecedenceFrame(0)
        OBVIOUS
    <2>5. /\ types' = types /\ pc' = "unary" /\ pc = "var_decl" /\ match(<<kw, "TOK_IDENTIFIER", "TOK_EQUAL">>)
          /\ stack' = stack \o <<f, g>>
        BY <2>3, <2>4 DEF Inferred
    <2>6. f.at = "initializer" /\ f.at \in DeclAt /\ g.at \in FrameAt
        BY <1>5, <2>4 DEF DeclFrame, DeclAt
    <2>7. current = kw
        <3>1. PICK y, z : y = "TOK_IDENTIFIER" /\ z = "TOK_EQUAL"
            OBVIOUS
        <3>2. match(<<kw, y, z>>)
            BY <2>5, <3>1
        <3> QED
            BY <1>0, <3>2, MatchThree DEF ParserInv
    <2>8. stack # <<>> /\ Caller.at \notin Bodies
        BY <2>5, <2>7 DEF EndInv
    <2>9. Above(stack, stack', Len(stack), DeclAt \cup FrameAt)
          /\ Len(stack') = Len(stack) + 2 /\ stack'[Len(stack) + 1] = f
        BY <1>1, <2>5, <2>6, AboveTwo
    <2>10. NamesBelow(stack', Len(stack'), types')
        <3> SUFFICES ASSUME NEW k \in 1 .. Len(stack'), Bare(stack', k)
                     PROVE  stack'[k].tag = "AST_VAR_DECL" /\ NameBelow(stack'[k].type, types')
            BY DEF NamesBelow
        <3>1. CASE k \in 1 .. Len(stack)
            <4>1. k = 1 \/ k - 1 \in 1 .. Len(stack)
                BY <1>2, <3>1
            <4>2. stack'[k] = stack[k] /\ Bare(stack, k)
                BY <2>9, <3>1, <4>1 DEF Above, Bare
            <4> QED
                BY <1>9, <2>5, <3>1, <4>2 DEF Typeless, NamesBelow
        <3>2. CASE k = Len(stack) + 1
            <4>1. k # 1 /\ k - 1 = Len(stack) /\ Len(stack) \in 1 .. Len(stack)
                BY <1>1, <1>2, <2>8, <3>2
            <4>2. stack'[k - 1] = Caller
                BY <2>9, <4>1 DEF Above, Caller, Last
            <4> QED
                BY <2>8, <4>1, <4>2 DEF Bare
        <3>3. CASE k = Len(stack) + 2
            <4>1. k # 1 /\ k - 1 = Len(stack) + 1
                BY <1>2, <3>3
            <4> QED
                BY <1>4, <2>6, <2>9, <4>1 DEF Bare
        <3> QED
            BY <1>2, <2>9, <3>1, <3>2, <3>3
    <2> QED
        BY <2>5, <2>10 DEF EndInv, WithType, Typeless
<1>12. CASE Qualifiers
    <2> DEFINE c == current = "TOK_CONST"
               s == Tok(toki + Count(c)) = "TOK_STATIC"
               f == [DeclFrame("declaration", "AST_VAR_DECL", NULL, NULL)
                     EXCEPT !.is_const = c, !.is_static = s]
    <2>1. /\ advance(Count(c) + Count(s)) /\ tokens' = tokens /\ types' = types
          /\ pc' = "declspec" /\ pc = "var_decl" /\ stack' = Append(stack, f)
        BY <1>12 DEF Qualifiers, Typed
    <2>2. f.at = "declaration" /\ f.id = {} /\ f.tag = "AST_VAR_DECL"
        <3>1. PICK g : g = DeclFrame("declaration", "AST_VAR_DECL", NULL, NULL)
            OBVIOUS
        <3>2. g \in DeclFrames(Len(types)) /\ g.at = "declaration" /\ g.id = {} /\ g.tag = "AST_VAR_DECL"
            BY <1>0, <3>1 DEF DeclFrame, DeclFrames, DeclAt, DeclTags, NULL
        <3>3. \A b, d \in BOOLEAN :
                  /\ [g EXCEPT !.is_const = b, !.is_static = d].at = g.at
                  /\ [g EXCEPT !.is_const = b, !.is_static = d].id = g.id
                  /\ [g EXCEPT !.is_const = b, !.is_static = d].tag = g.tag
            BY <3>2 DEF DeclFrames
        <3>4. c \in BOOLEAN /\ s \in BOOLEAN
            OBVIOUS
        <3> QED
            BY <3>1, <3>2, <3>3, <3>4
    <2>3. current = "TOK_IDENTIFIER" => current' = current
        <3> SUFFICES ASSUME current = "TOK_IDENTIFIER" PROVE current' = current
            OBVIOUS
        <3>1. ~c
            OBVIOUS
        <3>2. Count(c) = 0
            BY <3>1 DEF Count
        <3>3. ~s
            BY <1>0, <3>2
        <3>4. Count(c) + Count(s) = 0
            BY <3>2, <3>3 DEF Count
        <3> HIDE DEF f, c, s
        <3> QED
            BY <1>0, <2>1, <3>4 DEF advance
    <2> HIDE DEF f, c, s
    <2>4. Above(stack, stack', Len(stack), DeclAt)
        BY <1>1, <2>1, <2>2, AbovePush DEF DeclAt
    <2>5. Len(stack') = Len(stack) + 1 /\ stack'[Len(stack) + 1] = f
        <3>1. stack \in Seq(S \cup {f}) /\ f \in S \cup {f}
            BY <1>1, WiderSeq
        <3> QED
            BY <2>1, <3>1, PushOne
    <2>6. NamesBelow(stack', Len(stack') - 1, types')
        <3> SUFFICES ASSUME NEW k \in 1 .. Len(stack), Bare(stack', k)
                     PROVE  stack'[k].tag = "AST_VAR_DECL" /\ NameBelow(stack'[k].type, types')
            BY <1>2, <2>5 DEF NamesBelow
        <3>1. k = 1 \/ k - 1 \in 1 .. Len(stack)
            BY <1>2
        <3>2. stack'[k] = stack[k] /\ Bare(stack, k)
            BY <2>4, <3>1 DEF Above, Bare
        <3> QED
            BY <1>9, <2>1, <3>2 DEF Typeless, NamesBelow
    <2>7. Caller' = f
        BY <2>5 DEF Caller, Last
    <2>8. Bare(stack', Len(stack')) => current = "TOK_IDENTIFIER"
        <3>1. CASE stack = <<>>
            BY <2>1, <3>1 DEF EndInv
        <3>2. CASE stack # <<>>
            <4>1. Len(stack) \in 1 .. Len(stack) /\ Len(stack) + 1 # 1
                  /\ Len(stack') - 1 = Len(stack)
                BY <1>1, <1>2, <2>5, <3>2
            <4>2. stack'[Len(stack') - 1] = Caller
                BY <2>4, <4>1 DEF Above, Caller, Last
            <4> QED
                BY <2>1, <2>5, <4>1, <4>2 DEF EndInv, Bare
        <3> QED
            BY <3>1, <3>2
    <2>9. Bare(stack', Len(stack')) => current' = "TOK_IDENTIFIER"
        BY <2>3, <2>8
    <2>10. NamesBelow(stack', WithType', types')
        BY <2>1, <2>6 DEF WithType, Typeless
    <2> QED
        BY <2>1, <2>2, <2>7, <2>9, <2>10 DEF EndInv
<1>13. pc \in {"declspec", "qualified", "pointers", "arrays"} => Caller \in DeclFrames(Len(types))
    BY <1>6, DeclCaller DEF DeclAt
\* declspec goes on
<1>14. ASSUME pc \in {"declspec", "qualified"}, types' = types, NEW f, f.at = "declaration",
              stack' = Append(Front(stack), f), pc' \in {"declspec", "qualified"},
              pc' = "declspec" => ~Bare(stack, Len(stack)),
              Bare(stack, Len(stack)) /\ pc' = "qualified" => f.tag = "AST_VAR_DECL" /\ f.id = {"NAME"}
       PROVE  EndInv'
    <2>1. stack # <<>> /\ Caller.at = "declaration"
        BY <1>6, <1>14
    <2>2. /\ Above(stack, stack', Len(stack) - 1, DeclAt)
          /\ Len(stack') = Len(stack) /\ stack'[Len(stack)] = f
        <3>1. f.at \in DeclAt
            BY <1>14 DEF DeclAt
        <3> QED
            BY <1>1, <1>14, <2>1, <3>1, AboveBecome
    <2>3. Len(stack) >= 1
        BY <1>1, <2>1
    <2>4. NamesBelow(stack', Len(stack') - 1, types')
        <3> SUFFICES ASSUME NEW k \in 1 .. Len(stack) - 1, Bare(stack', k)
                     PROVE  stack'[k].tag = "AST_VAR_DECL" /\ NameBelow(stack'[k].type, types')
            BY <2>2 DEF NamesBelow
        <3>1. k = 1 \/ k - 1 \in 1 .. Len(stack) - 1
            BY <1>2
        <3>2. stack'[k] = stack[k] /\ Bare(stack, k)
            BY <2>2, <3>1 DEF Above, Bare
        <3> QED
            BY <1>8, <1>14, <3>2 DEF NamesBelow
    <2>5. Caller' = f
        BY <2>2 DEF Caller, Last
    <2>6. Bare(stack', Len(stack')) => Bare(stack, Len(stack))
        <3>1. Len(stack) = 1 \/ Len(stack) - 1 \in 1 .. Len(stack) - 1
            <4>1. PICK n \in Nat : n = Len(stack)
                BY <1>2
            <4>2. n >= 1
                BY <2>3, <4>1
            <4>3. n = 1 \/ n - 1 \in 1 .. n - 1
                BY <4>2
            <4> QED
                BY <4>1, <4>3
        <3>2. stack[Len(stack)].at \in DeclAt
            BY <2>1 DEF Caller, Last, DeclAt
        <3> QED
            BY <2>2, <3>1, <3>2 DEF Above, Bare
    <2>7. NamesBelow(stack', WithType', types')
        BY <1>14, <2>4 DEF WithType, Typeless
    <2> QED
        BY <1>14, <2>5, <2>6, <2>7 DEF EndInv
<1>15. CASE SpecPrimitive
    <2>1. PICK f : f = [Caller EXCEPT !.id = @ \cup tag_to_primitive[current]]
        OBVIOUS
    <2>2. /\ types' = types /\ pc' = "declspec" /\ pc = "declspec"
          /\ stack' = Append(Front(stack), f) /\ current \in DOMAIN tag_to_primitive
        BY <1>15, <2>1 DEF SpecPrimitive, Become
    <2>3. f.at = "declaration"
        BY <1>6, <1>13, <2>1, <2>2 DEF DeclFrames
    <2>4. "TOK_IDENTIFIER" \notin DOMAIN tag_to_primitive
        BY DEF tag_to_primitive
    <2>5. ~Bare(stack, Len(stack))
        BY <2>2, <2>4 DEF EndInv
    <2> QED
        BY <1>14, <2>2, <2>3, <2>5
<1>16. CASE SpecName
    <2>1. PICK f : f = [Caller EXCEPT !.id = {"NAME"}]
        OBVIOUS
    <2>2. /\ types' = types /\ pc' = "qualified" /\ pc = "declspec"
          /\ stack' = Append(Front(stack), f)
        BY <1>16, <2>1 DEF SpecName, Become
    <2>3. f.at = "declaration" /\ f.tag = Caller.tag /\ f.id = {"NAME"}
        BY <1>6, <1>13, <2>1, <2>2 DEF DeclFrames
    <2>4. Bare(stack, Len(stack)) => f.tag = "AST_VAR_DECL"
        BY <2>2, <2>3 DEF EndInv
    <2> QED
        BY <1>14, <2>2, <2>3, <2>4
<1>17. CASE SpecMember
    <2>1. types' = types /\ pc' = pc /\ pc = "qualified" /\ stack' = stack
        BY <1>17 DEF SpecMember
    <2>2. Caller' = Caller /\ WithType' = WithType
        BY <2>1 DEF Caller, WithType
    <2> QED
        BY <2>1, <2>2 DEF EndInv
\* types that are made
<1>18. ASSUME NEW id, NEW base, NEW len, NEW c, NEW s, new_type(id, base, len, c, s)
       PROVE  /\ Grown(types, types') /\ Len(types') = Len(types) + 1
              /\ types'[Len(types')].base = base /\ types'[Len(types')].id = id
    <2>1. PICK x : x = [id |-> id, base |-> base, len |-> len, is_const |-> c, is_static |-> s]
        OBVIOUS
    <2>2. types' = Append(types, x) /\ x.base = base /\ x.id = id
        BY <1>18, <2>1 DEF new_type
    <2>3. PICK T : types \in Seq(T) /\ x \in T
        <3>1. PICK T : types \in Seq(T)
            BY DEF ParserInv
        <3>2. types \in Seq(T \cup {x})
            BY <3>1, WiderSeq
        <3> QED
            BY <3>2
    <2>4. /\ Len(Append(types, x)) = Len(types) + 1
          /\ \A i \in 1 .. Len(types) : Append(types, x)[i] = types[i]
          /\ Append(types, x)[Len(types) + 1] = x
        BY <2>3, PushOne
    <2> QED
        BY <1>0, <2>2, <2>4 DEF Grown
<1>19. CASE SpecEnd
    <2>1. PICK f : f = [Caller EXCEPT !.type = NewType]
        OBVIOUS
    <2>2. /\ new_type(Caller.id, NULL, NULL, FALSE, FALSE) /\ pc' = "pointers"
          /\ stack' = Append(Front(stack), f)
          /\ pc = "declspec" => ~TakesName
          /\ pc \in {"declspec", "qualified"}
        BY <1>19, <2>1 DEF SpecEnd, Become
    <2>3. f.at = "declaration" /\ f.tag = Caller.tag /\ f.type = Len(types) + 1
        BY <1>6, <1>13, <2>1, <2>2 DEF DeclFrames, NewType
    <2>4. /\ Grown(types, types') /\ Len(types') = Len(types) + 1
          /\ types'[Len(types')].base = NULL /\ types'[Len(types')].id = Caller.id
        BY <1>18, <2>2
    <2>5. Bare(stack, Len(stack)) => f.tag = "AST_VAR_DECL" /\ Caller.id = {"NAME"}
        BY <2>2, <2>3 DEF EndInv, TakesName
    <2>6. Bare(stack, Len(stack)) => NameBelow(f.type, types')
        BY <2>3, <2>4, <2>5, NameDerived
    <2> QED
        <3>1. stack # <<>> /\ Caller.at \in DeclAt /\ f.at \in DeclAt
            BY <1>6, <2>2, <2>3 DEF DeclAt
        <3>2. Bare(stack, Len(stack)) => f.tag = "AST_VAR_DECL" /\ NameBelow(f.type, types')
            BY <2>5, <2>6
        <3> QED
            BY <1>10, <2>2, <2>4, <3>1, <3>2
\* a type derived from that of the declaration
<1>20. ASSUME stack # <<>>, Caller.at \in DeclAt, pc \notin Typeless, NEW f, f.at \in DeclAt,
              stack' = Append(Front(stack), f),
              f.tag = Caller.tag, f.type = Len(types) + 1, NEW id, NEW len, NEW c, NEW s,
              new_type(id, Caller.type, len, c, s), pc' \in {"pointers", "arrays"}
       PROVE  EndInv'
    <2>1. /\ Grown(types, types') /\ Len(types') = Len(types) + 1
          /\ types'[Len(types')].base = Caller.type
        BY <1>18, <1>20
    <2>2. Bare(stack, Len(stack)) => Caller.tag = "AST_VAR_DECL" /\ NameBelow(Caller.type, types)
        <3>1. Len(stack) \in 1 .. Len(stack) /\ Caller = stack[Len(stack)]
            BY <1>1, <1>2, <1>20 DEF Caller, Last
        <3> QED
            BY <1>9, <1>20, <3>1 DEF NamesBelow
    <2>3. Bare(stack, Len(stack)) => NameBelow(f.type, types')
        BY <1>20, <2>1, <2>2, NameDerived
    <2> QED
        BY <1>10, <1>20, <2>1, <2>2, <2>3
<1>21. ASSUME NEW f, f = [Caller EXCEPT !.type = NewType], Caller \in DeclFrames(Len(types))
       PROVE  f.at = Caller.at /\ f.tag = Caller.tag /\ f.type = Len(types) + 1
    BY <1>21 DEF DeclFrames, NewType
<1>22. CASE PointerType \/ ArrayUnsized
    <2>1. PICK f : f = [Caller EXCEPT !.type = NewType]
        OBVIOUS
    <2>2. /\ pc \in {"pointers", "arrays"} /\ pc' = pc /\ stack' = Append(Front(stack), f)
          /\ \/ new_type({"POINTER"}, Caller.type, NULL, Caller.is_const, Caller.is_static)
             \/ new_type({"ARRAY"}, Caller.type, NULL, FALSE, FALSE)
        BY <1>22, <2>1 DEF PointerType, ArrayUnsized, Become
    <2>3. PICK id, c, s : new_type(id, Caller.type, NULL, c, s)
        BY <2>2
    <2>4. f.at \in DeclAt /\ f.tag = Caller.tag /\ f.type = Len(types) + 1
        BY <1>6, <1>13, <1>21, <2>1, <2>2 DEF DeclAt
    <2>5. stack # <<>> /\ Caller.at \in DeclAt /\ pc \notin Typeless
        BY <1>6, <2>2 DEF DeclAt, Typeless
    <2> QED
        BY <1>20, <2>2, <2>3, <2>4, <2>5
<1>23. CASE CloseArray
    <2>1. PICK f : f = [Caller EXCEPT !.at = "declaration", !.type = NewType]
        OBVIOUS
    <2>2. /\ pc = "return" /\ pc' = "arrays" /\ stack' = Append(Front(stack), f)
          /\ new_type({"ARRAY"}, Caller.type, ret, FALSE, FALSE)
          /\ stack # <<>> /\ Caller.at = "array_len"
        BY <1>23, <2>1 DEF CloseArray, Become, ReturnTo
    <2>3. Caller \in DeclFrames(Len(types))
        BY <2>2, DeclCaller DEF DeclAt
    <2>4. f.at = "declaration" /\ f.tag = Caller.tag /\ f.type = Len(types) + 1
        <3>1. PICK g \in DeclFrames(Len(types)) : g = Caller
            BY <2>3
        <3>2. PICK n : n = Len(types) + 1
            OBVIOUS
        <3>3. f = [g EXCEPT !.at = "declaration", !.type = n]
            BY <2>1, <3>1, <3>2 DEF NewType
        <3>4. f.at = "declaration" /\ f.tag = g.tag /\ f.type = n
            BY <3>3 DEF DeclFrames
        <3> QED
            BY <3>1, <3>2, <3>4
    <2>5. f.at \in DeclAt /\ Caller.at \in DeclAt /\ pc \notin Typeless
        BY <2>2, <2>4 DEF DeclAt, Typeless
    <2> QED
        BY <1>20, <2>2, <2>4, <2>5
\* the same type
<1>24. ASSUME stack # <<>>, Caller.at \in DeclAt, pc \notin Typeless, types' = types,
              NEW f, f.at \in DeclAt, f.tag = Caller.tag, f.type = Caller.type,
              \/ stack' = Append(Front(stack), f)
              \/ stack' = Front(stack) \o <<f, PrecedenceFrame(0)>>,
              pc' \in {"arrays", "unary"}
       PROVE  EndInv'
    <2>1. Bare(stack, Len(stack)) => Caller.tag = "AST_VAR_DECL" /\ NameBelow(Caller.type, types)
        <3>1. Len(stack) \in 1 .. Len(stack) /\ Caller = stack[Len(stack)]
            BY <1>1, <1>2, <1>24 DEF Caller, Last
        <3> QED
            BY <1>9, <1>24, <3>1 DEF NamesBelow
    <2>2. Bare(stack, Len(stack)) => f.tag = "AST_VAR_DECL" /\ NameBelow(f.type, types')
        BY <1>24, <2>1
    <2>3. Grown(types, types')
        BY <1>3, <1>24
    <2> QED
        BY <1>10, <1>24, <2>2, <2>3
<1>25. CASE DeclaratorName
    <2>1. PICK f : f = [Caller EXCEPT !.tok = toki, !.name = toki]
        OBVIOUS
    <2>2. types' = types /\ pc' = "arrays" /\ pc = "pointers" /\ stack' = Append(Front(stack), f)
        BY <1>25, <2>1 DEF DeclaratorName, Become
    <2>3. f.at \in DeclAt /\ f.tag = Caller.tag /\ f.type = Caller.type
        <3>1. PICK g \in DeclFrames(Len(types)) : g = Caller
            BY <1>13, <2>2
        <3>2. f = [g EXCEPT !.tok = toki, !.name = toki]
            BY <2>1, <3>1
        <3>3. f.at = g.at /\ f.tag = g.tag /\ f.type = g.type
            BY <3>2 DEF DeclFrames
        <3> QED
            BY <1>6, <2>2, <3>1, <3>3 DEF DeclAt
    <2>4. stack # <<>> /\ Caller.at \in DeclAt /\ pc \notin Typeless
        BY <1>6, <2>2 DEF DeclAt, Typeless
    <2> QED
        BY <1>24, <2>2, <2>3, <2>4
<1>26. CASE ArrayLength \/ Initializer
    <2>1. PICK at \in {"array_len", "initializer"} : AwaitExpr(at)
        BY <1>26 DEF ArrayLength, Initializer
    <2>2. PICK f : f = [Caller EXCEPT !.at = at]
        OBVIOUS
    <2>3. /\ types' = types /\ pc' = "unary" /\ pc = "arrays"
          /\ stack' = Front(stack) \o <<f, PrecedenceFrame(0)>>
        BY <1>26, <2>1, <2>2 DEF AwaitExpr, ArrayLength, Initializer
    <2>4. f.at \in DeclAt /\ f.tag = Caller.tag /\ f.type = Caller.type
        BY <1>13, <2>2, <2>3 DEF DeclFrames, DeclAt
    <2>5. stack # <<>> /\ Caller.at \in DeclAt /\ pc \notin Typeless
        BY <1>6, <2>3 DEF DeclAt, Typeless
    <2> QED
        BY <1>24, <2>3, <2>4, <2>5
<1>27. CASE Initialized \/ NoInitializer
    <2>1. PICK init \in 0 .. Len(pool) : new_var_decl(init)
        BY <1>0, <1>27 DEF Initialized, NoInitializer, NULL
    <2>2. /\ types' = types /\ pc \notin Typeless /\ stack # <<>> /\ Caller.at \in DeclAt
          /\ UNCHANGED <<tokens, toki, reported>>
        BY <1>6, <1>27 DEF Initialized, NoInitializer, ReturnTo, DeclAt, Typeless
    <2>3. ret' = Len(pool) + 1 /\ pool'[ret'].tag = Caller.tag /\ pool'[ret'].type = Caller.type
        BY <2>1, <2>2, DeclMade
    <2>4. stack' = Front(stack) /\ pc' = "return"
        BY <2>1 DEF new_var_decl, Pop
    <2>5. Above(stack, stack', Len(stack) - 1, FrameAt) /\ Len(stack') = Len(stack) - 1
        BY <1>1, <2>2, <2>4, AbovePop
    <2>6. stack' # <<>> => (Caller'.at \in Bodies => Ended')
        <3> SUFFICES ASSUME stack' # <<>>, Caller'.at \in Bodies PROVE Ended'
            OBVIOUS
        <3>1. Len(stack) >= 2 /\ Len(stack) - 1 \in 1 .. Len(stack) - 1
            <4>1. stack' \in Seq(S)
                BY <1>1, <2>2, <2>4, PopOne
            <4>2. Len(stack') # 0
                BY <4>1
            <4> QED
                BY <1>2, <2>5, <4>2 DEF Above
        <3>2. Caller' = stack[Len(stack) - 1] /\ Caller = stack[Len(stack)]
            BY <2>5, <3>1 DEF Above, Caller, Last
        <3>3. Bare(stack, Len(stack)) /\ Len(stack) \in 1 .. Len(stack)
            BY <1>2, <2>2, <3>1, <3>2 DEF Bare
        <3>4. Caller.tag = "AST_VAR_DECL" /\ NameBelow(Caller.type, types)
            BY <1>9, <2>2, <3>2, <3>3 DEF NamesBelow
        <3>5. ret' # NULL /\ pool'[ret'].tag = "AST_VAR_DECL" /\ NameBelow(pool'[ret'].type, types')
            BY <1>0, <2>2, <2>3, <3>4 DEF NULL
        <3> QED
            BY <3>5 DEF Ended
    <2> QED
        BY <1>4, <2>2, <2>4, <2>5, <2>6, EndKept
<1>28. CASE DeclarationFails
    <2>1. types' = types /\ stack' = stack /\ pc' = "exit"
        BY <1>28 DEF DeclarationFails, Exit
    <2>2. NamesBelow(stack', WithType', types')
        BY <1>8, <2>1 DEF WithType, Typeless
    <2> QED
        BY <2>1, <2>2 DEF EndInv
<1> QED
    BY <1>11, <1>12, <1>15, <1>16, <1>17, <1>19, <1>22, <1>23, <1>25, <1>26, <1>27, <1>28, Zenon
       DEF parse_var_decl

(* A step of the parser.                                                   *)
LEMMA EndStep ==
    ASSUME ParserInv, CursorSound, EndInv, [StmtNext]_declVars
    PROVE  EndInv'
<1>1. CASE Finish /\ UNCHANGED types
    <2>1. /\ stack = <<>> /\ pc' = "done" /\ stack' = stack /\ types' = types /\ pc = "return"
        BY <1>1 DEF Finish
    <2>2. WithType' = WithType
        BY <2>1 DEF WithType, Typeless
    <2> QED
        BY <2>1, <2>2 DEF EndInv
<1>2. CASE UNCHANGED declVars
    <2>1. UNCHANGED <<tokens, toki, current, pool, stack, ret, pc, types>>
        BY <1>2 DEF declVars, vars
    <2>2. Caller' = Caller /\ WithType' = WithType /\ Ended' = Ended
        BY <2>1 DEF Caller, WithType, Ended, Tok
    <2> QED
        BY <2>1, <2>2 DEF EndInv
<1> QED
    BY <1>1, <1>2, StmtEnds, DeclEnds, ExprEnds DEF StmtNext

(* The layers of the first n types of a list, each over those of its base. *)
LayersTo(f, n, ty) ==
    f = [t \in 0 .. n |-> IF t = NULL THEN <<>> ELSE <<ty[t]>> \o f[ty[t].base]]

(* There are layers: were there none for the first n types, n would not be *)
(* the least such number, for those of n - 1 types give those of n.        *)
LEMMA LayersExist ==
    ASSUME NEW ty, Len(ty) \in Nat, \A t \in 1 .. Len(ty) : ty[t].base \in 0 .. t - 1
    PROVE  \E f : LayersTo(f, Len(ty), ty)
<1> DEFINE Bad == {n \in 0 .. Len(ty) : ~ \E f : LayersTo(f, n, ty)}
<1> SUFFICES ASSUME Bad # {} PROVE FALSE
    OBVIOUS
<1>1. PICK n \in Bad : \A m \in Bad : n <= m
    <2>1. Bad \subseteq Nat
        OBVIOUS
    <2> HIDE DEF Bad
    <2> QED
        BY <2>1, MinIsLeast
<1>2. n # 0
    <2>1. PICK f : f = [t \in 0 .. 0 |-> <<>>]
        OBVIOUS
    <2>2. LayersTo(f, 0, ty)
        BY <2>1 DEF LayersTo, NULL
    <2> QED
        BY <2>2
<1>3. n - 1 \in 0 .. Len(ty) /\ n \in 1 .. Len(ty) /\ n - 1 \notin Bad
    BY <1>1, <1>2
<1>4. PICK f : LayersTo(f, n - 1, ty)
    BY <1>3
<1>5. PICK last : last = <<ty[n]>> \o f[ty[n].base]
    OBVIOUS
<1>6. PICK g : g = [t \in 0 .. n |-> IF t = n THEN last ELSE f[t]]
    OBVIOUS
<1>7. \A t \in 0 .. n - 1 : g[t] = f[t]
    BY <1>3, <1>6
<1>8. ASSUME NEW t \in 0 .. n
      PROVE  g[t] = IF t = NULL THEN <<>> ELSE <<ty[t]>> \o g[ty[t].base]
    <2>1. CASE t = n
        <3>1. ty[n].base \in 0 .. n - 1
            BY <1>3
        <3>2. g[ty[n].base] = f[ty[n].base]
            BY <1>7, <3>1
        <3>3. g[t] = last /\ t # NULL
            BY <1>2, <1>6, <2>1 DEF NULL
        <3> QED
            BY <1>5, <2>1, <3>2, <3>3
    <2>2. CASE t # n
        <3>1. t \in 0 .. n - 1
            BY <1>3, <2>2
        <3>2. f[t] = IF t = NULL THEN <<>> ELSE <<ty[t]>> \o f[ty[t].base]
            BY <1>4, <3>1 DEF LayersTo
        <3>3. t # NULL => ty[t].base \in 0 .. n - 1
            <4> SUFFICES ASSUME t # NULL PROVE ty[t].base \in 0 .. n - 1
                OBVIOUS
            <4>1. t \in 1 .. Len(ty) /\ t <= n - 1
                BY <1>3, <3>1 DEF NULL
            <4>2. ty[t].base \in 0 .. t - 1
                BY <4>1
            <4> QED
                BY <1>3, <4>1, <4>2
        <3> QED
            BY <1>7, <3>1, <3>2, <3>3
    <2> QED
        BY <2>1, <2>2
<1>9. g = [t \in 0 .. n |-> IF t = NULL THEN <<>> ELSE <<ty[t]>> \o g[ty[t].base]]
    <2> DEFINE e(t) == IF t = NULL THEN <<>> ELSE <<ty[t]>> \o g[ty[t].base]
    <2>1. g = [t \in 0 .. n |-> g[t]]
        BY <1>6
    <2>2. \A t \in 0 .. n : g[t] = e(t)
        BY <1>8
    <2> HIDE DEF e
    <2>3. g = [t \in 0 .. n |-> e(t)]
        BY <2>1, <2>2
    <2> USE DEF e
    <2> QED
        BY <2>3
<1>10. LayersTo(g, n, ty)
    BY <1>9 DEF LayersTo
<1> QED
    BY <1>1, <1>10

(* So the layers of a type are the type over those of its base.            *)
LEMMA LayersUnfold ==
    ASSUME ParserInv
    PROVE  /\ Layers[NULL] = <<>>
           /\ \A t \in 1 .. Len(types) :
                  types[t].base < t /\ Layers[t] = <<types[t]>> \o Layers[types[t].base]
<1>1. Len(types) \in Nat /\ \A t \in 1 .. Len(types) : types[t].base \in 0 .. t - 1
    <2>1. Len(types) \in Nat
        BY PoolSize DEF ParserInv
    <2>2. ASSUME NEW t \in 1 .. Len(types)
          PROVE  types[t].base \in 0 .. t - 1
        <3>1. types[t].base \in 0 .. Len(types) + 1 - 1 /\ types[t].base < t
            <4>1. PICK x \in TypesBelow(Len(types) + 1, Len(pool)) : x = types[t] /\ x.base < t
                BY DEF ParserInv
            <4> QED
                BY <4>1 DEF TypesBelow
        <3> QED
            BY <2>1, <3>1
    <2> QED
        BY <2>1, <2>2
<1>2. \E f : LayersTo(f, Len(types), types)
    BY <1>1, LayersExist
<1>3. LayersTo(Layers, Len(types), types)
    BY <1>2 DEF LayersTo, Layers
<1>4. PICK f : f = Layers
    OBVIOUS
<1>5. LayersTo(f, Len(types), types)
    BY <1>3, <1>4
<1>6. ASSUME NEW t \in 1 .. Len(types)
      PROVE  f[t] = <<types[t]>> \o f[types[t].base]
    <2>1. t \in 0 .. Len(types) /\ t # NULL
        BY <1>1 DEF NULL
    <2> QED
        BY <1>5, <2>1 DEF LayersTo
<1>7. f[NULL] = <<>>
    <2>1. NULL \in 0 .. Len(types)
        BY <1>1 DEF NULL
    <2> QED
        BY <1>5, <2>1 DEF LayersTo
<1>8. \A t \in 1 .. Len(types) : types[t].base < t
    BY DEF ParserInv
<1> QED
    BY <1>4, <1>6, <1>7, <1>8, Zenon

(* The innermost layer of a type derived from a name is the name: of the   *)
(* types the set holds, the first of another kind would be derived from an *)
(* earlier one.                                                            *)
LEMMA NameInnermost ==
    ASSUME ParserInv, NEW t, NameBelow(t, types)
    PROVE  Last(Layers[t]).id = {"NAME"}
<1> DEFINE X == {types[k] : k \in 1 .. Len(types)}
           Good(s) == /\ Layers[s] \in Seq(X) /\ Layers[s] # <<>>
                      /\ Last(Layers[s]).id = {"NAME"}
<1>1. PICK S \in SUBSET (1 .. Len(types)) :
          /\ t \in S
          /\ \A s \in S : types[s].base \in S \/ (types[s].base = NULL /\ types[s].id = {"NAME"})
    BY DEF NameBelow
<1>2. \A s \in S : Good(s)
    <2> DEFINE Bad == {s \in S : ~Good(s)}
    <2> HIDE DEF Good
    <2> SUFFICES ASSUME Bad # {} PROVE FALSE
        OBVIOUS
    <2>1. PICK s \in Bad : \A r \in Bad : s <= r
        <3>1. Bad \subseteq Nat
            <4>1. Len(types) \in Nat
                BY PoolSize DEF ParserInv
            <4>2. 1 .. Len(types) \subseteq Nat
                BY <4>1
            <4> QED
                BY <4>2
        <3> HIDE DEF Bad
        <3> QED
            BY <3>1, MinIsLeast
    <2>2. s \in 1 .. Len(types) /\ s \in S /\ ~Good(s) /\ s \in Nat
        BY <2>1
    <2>3. types[s].base < s /\ Layers[s] = <<types[s]>> \o Layers[types[s].base]
        BY <2>2, LayersUnfold
    <2>4. PICK x : x = types[s]
        OBVIOUS
    <2>5. x \in X
        BY <2>2, <2>4
    <2> HIDE DEF X
    <2>6. CASE types[s].base \in S
        <3>1. Len(types) \in Nat
            BY PoolSize DEF ParserInv
        <3>2. Good(types[s].base)
            <4>1. PICK b \in S : b = types[s].base
                BY <2>6
            <4>2. b \in Nat /\ b < s
                BY <2>3, <3>1, <4>1
            <4>3. b \notin Bad
                <5> HIDE DEF Bad
                <5> QED
                    BY <2>1, <2>2, <4>2
            <4> QED
                BY <4>1, <4>3
        <3>3. PICK u : u = Layers[types[s].base]
            OBVIOUS
        <3>4. u \in Seq(X) /\ u # <<>> /\ Last(u).id = {"NAME"}
            BY <3>2, <3>3 DEF Good
        <3>5. PICK v : v = <<x>> \o u
            OBVIOUS
        <3>6. v \in Seq(X) /\ v # <<>> /\ Last(v) = Last(u)
            BY <2>5, <3>4, <3>5 DEF Last
        <3>7. Layers[s] = v
            BY <2>3, <2>4, <3>3, <3>5
        <3> QED
            BY <2>2, <3>4, <3>6, <3>7 DEF Good
    <2>7. CASE types[s].base = NULL /\ types[s].id = {"NAME"}
        <3>1. Layers[s] = <<x>> \o <<>>
            BY <2>3, <2>4, <2>7, LayersUnfold
        <3>2. <<x>> \o <<>> = <<x>>
            OBVIOUS
        <3>3. PICK v : v = <<x>>
            OBVIOUS
        <3>4. v \in Seq(X) /\ v # <<>> /\ Last(v) = x
            BY <2>5, <3>3 DEF Last
        <3> QED
            BY <2>2, <2>4, <2>7, <3>1, <3>2, <3>3, <3>4 DEF Good
    <2> QED
        BY <1>1, <2>2, <2>6, <2>7
<1> QED
    BY <1>1, <1>2

(* What the invariant says of a statement that returns to its block.       *)
LEMMA EndShape ==
    ASSUME ParserInv, EndInv
    PROVE  StatementsTerminated
<1> SUFFICES ASSUME ReturnTo("block")
             PROVE  \/ Tok(toki - 1) \in {"TOK_SEMICOLON", "TOK_RBRACE"}
                    \/ current \in Unfinished
                    \/ ret # NULL /\ (pool[ret].tag \in {"AST_IF", "AST_WHILE"} \/ NamedType(ret))
    BY DEF StatementsTerminated
<1>1. Ended
    BY DEF ReturnTo, EndInv, Bodies
<1>2. NameBelow(pool[ret].type, types) => Last(Layers[pool[ret].type]).id = {"NAME"}
    BY NameInnermost
<1> QED
    BY <1>1, <1>2 DEF Ended, NamedType

(* In every state of the parser of statements, for every set of texts: a   *)
(* statement that returns to its block has ended with a semicolon or with  *)
(* the end of another statement, unless it is a declaration that starts    *)
(* with the name of a type, for which parse_stmt expects no semicolon, or  *)
(* a `for` or `switch`, which are not parsed.                              *)
THEOREM StatementsEnd == StmtSpec => []StatementsTerminated
<1> DEFINE Inv == ParserInv /\ CursorSound /\ EndInv
<1>1. StmtInit => Inv
    <2> SUFFICES ASSUME StmtInit PROVE EndInv
        BY NothingYet DEF StmtInit
    <2>1. stack = <<>> /\ pc = "stmt"
        BY DEF StmtInit
    <2>2. NamesBelow(stack, WithType, types)
        BY <2>1 DEF NamesBelow, WithType, Typeless
    <2> QED
        BY <2>1, <2>2 DEF EndInv
<1>2. Inv /\ [StmtNext]_declVars => Inv'
    BY StmtStep, EndStep
<1>3. Inv => StatementsTerminated
    BY EndShape
<1> HIDE DEF Inv
<1> QED
    BY <1>1, <1>2, <1>3, PTL DEF StmtSpec

-----------------------------------------------------------------------------
(* Which if an else belongs to.                                            *)

(* How many braces are open before the token at j.                         *)
OpenBraces(ts, j) ==
    Cardinality({m \in 1 .. j : ts[m] = "TOK_LBRACE"})
        - Cardinality({m \in 1 .. j : ts[m] = "TOK_RBRACE"})

(* The tokens with this tag from i on and before j where d braces are open.*)
AtDepth(ts, tag, d, i, j) == {k \in i .. j - 1 : ts[k + 1] = tag /\ OpenBraces(ts, k) = d}

(* How many more ifs than elses they are.                                  *)
Excess(ts, d, i, j) ==
    Cardinality(AtDepth(ts, "TOK_IF", d, i, j)) - Cardinality(AtDepth(ts, "TOK_ELSE", d, i, j))

(* The tokens that only the parsers of statements and of structs take.     *)
Control == {"TOK_IF", "TOK_ELSE", "TOK_LBRACE", "TOK_RBRACE", "TOK_STRUCT"}

(* From i to j no brace is closed that was open at i, and none left open.  *)
Inside(ts, i, j) ==
    /\ i <= j /\ OpenBraces(ts, j) = OpenBraces(ts, i)
    /\ \A k \in i .. j : OpenBraces(ts, k) >= OpenBraces(ts, i)

(* Every else from i to j belongs to an if there, and all ifs but n of     *)
(* those at the front have one.                                            *)
Paired(ts, n, i, j) ==
    /\ Excess(ts, OpenBraces(ts, i), i, j) = n
    /\ \A k \in i + 1 .. j : Excess(ts, OpenBraces(ts, i), k, j) <= 0

(* Part of an interval.                                                    *)
LEMMA PartCounted ==
    ASSUME NEW i \in Int, NEW j \in Int, NEW S, S \subseteq i .. j
    PROVE  IsFiniteSet(S) /\ Cardinality(S) \in Nat
<1>1. IsFiniteSet(i .. j)
    BY FS_Interval
<1>2. IsFiniteSet(S)
    BY <1>1, FS_Subset
<1> QED
    BY <1>2, FS_CardinalityType

(* One more token.                                                         *)
LEMMA BracesStep ==
    ASSUME NEW ts, NEW j \in Nat
    PROVE  /\ OpenBraces(ts, j) \in Int
           /\ ts[j + 1] = "TOK_LBRACE" => OpenBraces(ts, j + 1) = OpenBraces(ts, j) + 1
           /\ ts[j + 1] = "TOK_RBRACE" => OpenBraces(ts, j + 1) = OpenBraces(ts, j) - 1
           /\ ts[j + 1] \notin {"TOK_LBRACE", "TOK_RBRACE"} =>
                   OpenBraces(ts, j + 1) = OpenBraces(ts, j)
<1> DEFINE Some(tag, n) == {m \in 1 .. n : ts[m] = tag}
<1>1. ASSUME NEW tag
      PROVE  /\ IsFiniteSet(Some(tag, j)) /\ Cardinality(Some(tag, j)) \in Nat
             /\ ts[j + 1] = tag =>
                    Cardinality(Some(tag, j + 1)) = Cardinality(Some(tag, j)) + 1
             /\ ts[j + 1] # tag => Some(tag, j + 1) = Some(tag, j)
    <2>1. Some(tag, j) \subseteq 1 .. j
        OBVIOUS
    <2>2. IsFiniteSet(Some(tag, j)) /\ Cardinality(Some(tag, j)) \in Nat
        <3> HIDE DEF Some
        <3> QED
            BY <2>1, PartCounted
    <2>3. ts[j + 1] = tag => Some(tag, j + 1) = Some(tag, j) \cup {j + 1}
        OBVIOUS
    <2>4. j + 1 \notin Some(tag, j)
        OBVIOUS
    <2>5. ts[j + 1] # tag => Some(tag, j + 1) = Some(tag, j)
        OBVIOUS
    <2> HIDE DEF Some
    <2> QED
        BY <2>2, <2>3, <2>4, <2>5, FS_AddElement
<1>2. OpenBraces(ts, j) = Cardinality(Some("TOK_LBRACE", j)) - Cardinality(Some("TOK_RBRACE", j))
    BY DEF OpenBraces
<1>3. OpenBraces(ts, j + 1)
          = Cardinality(Some("TOK_LBRACE", j + 1)) - Cardinality(Some("TOK_RBRACE", j + 1))
    BY DEF OpenBraces
<1> HIDE DEF Some
<1>4. PICK a, b, c, d :
          /\ a = Cardinality(Some("TOK_LBRACE", j)) /\ b = Cardinality(Some("TOK_RBRACE", j))
          /\ c = Cardinality(Some("TOK_LBRACE", j + 1))
          /\ d = Cardinality(Some("TOK_RBRACE", j + 1))
    OBVIOUS
<1>5. /\ a \in Nat /\ b \in Nat
      /\ ts[j + 1] = "TOK_LBRACE" => c = a + 1 /\ d = b
      /\ ts[j + 1] = "TOK_RBRACE" => c = a /\ d = b + 1
      /\ ts[j + 1] \notin {"TOK_LBRACE", "TOK_RBRACE"} => c = a /\ d = b
    BY <1>1, <1>4
<1> QED
    BY <1>2, <1>3, <1>4, <1>5

(* The counts of two stretches add up.                                     *)
LEMMA ExcessAdds ==
    ASSUME NEW ts, NEW d, NEW i \in Nat, NEW j \in Nat, NEW k \in Nat, i <= j, j <= k
    PROVE  /\ Excess(ts, d, i, k) = Excess(ts, d, i, j) + Excess(ts, d, j, k)
           /\ Excess(ts, d, i, j) \in Int /\ Excess(ts, d, j, k) \in Int
<1>1. PICK p \in Int, q \in Int : p = j - 1 /\ q = k - 1 /\ i \in Int /\ j \in Int
    OBVIOUS
<1>2. ASSUME NEW tag
      PROVE  /\ Cardinality(AtDepth(ts, tag, d, i, k))
                    = Cardinality(AtDepth(ts, tag, d, i, j)) + Cardinality(AtDepth(ts, tag, d, j, k))
             /\ Cardinality(AtDepth(ts, tag, d, i, j)) \in Nat
             /\ Cardinality(AtDepth(ts, tag, d, j, k)) \in Nat
    <2>1. PICK A : A = AtDepth(ts, tag, d, i, j)
        OBVIOUS
    <2>2. PICK B : B = AtDepth(ts, tag, d, j, k)
        OBVIOUS
    <2>3. AtDepth(ts, tag, d, i, k) = A \cup B
        BY <2>1, <2>2 DEF AtDepth
    <2>4. A \subseteq i .. p /\ B \subseteq j .. q
        BY <1>1, <2>1, <2>2 DEF AtDepth
    <2>5. A \cap B = {}
        BY <1>1, <2>4
    <2>6. IsFiniteSet(A) /\ Cardinality(A) \in Nat
        BY <1>1, <2>4, PartCounted, Zenon
    <2>7. IsFiniteSet(B) /\ Cardinality(B) \in Nat
        BY <1>1, <2>4, PartCounted, Zenon
    <2>8. Cardinality(A \cap B) = 0
        BY <2>5, FS_EmptySet
    <2>9. Cardinality(A \cup B) = Cardinality(A) + Cardinality(B) - Cardinality(A \cap B)
        BY <2>6, <2>7, FS_Union
    <2>10. Cardinality(A \cup B) = Cardinality(A) + Cardinality(B)
        BY <2>6, <2>7, <2>8, <2>9
    <2> QED
        BY <2>1, <2>2, <2>3, <2>6, <2>7, <2>10
<1>3. PICK f : f = [tag \in {"TOK_IF", "TOK_ELSE"} |->
                      <<Cardinality(AtDepth(ts, tag, d, i, k)), Cardinality(AtDepth(ts, tag, d, i, j)),
                        Cardinality(AtDepth(ts, tag, d, j, k))>>]
    OBVIOUS
<1>4. \A tag \in {"TOK_IF", "TOK_ELSE"} :
          f[tag][1] = f[tag][2] + f[tag][3] /\ f[tag][2] \in Nat /\ f[tag][3] \in Nat
    BY <1>2, <1>3
<1>5. /\ Excess(ts, d, i, k) = f["TOK_IF"][1] - f["TOK_ELSE"][1]
      /\ Excess(ts, d, i, j) = f["TOK_IF"][2] - f["TOK_ELSE"][2]
      /\ Excess(ts, d, j, k) = f["TOK_IF"][3] - f["TOK_ELSE"][3]
    BY <1>3 DEF Excess
<1> QED
    BY <1>4, <1>5

(* A stretch without an if or an else at this depth.                       *)
LEMMA ExcessNone ==
    ASSUME NEW ts, NEW d, NEW i \in Nat, NEW j \in Nat,
           \A k \in i .. j - 1 : ts[k + 1] \in {"TOK_IF", "TOK_ELSE"} => OpenBraces(ts, k) # d
    PROVE  Excess(ts, d, i, j) = 0
<1>1. AtDepth(ts, "TOK_IF", d, i, j) = {} /\ AtDepth(ts, "TOK_ELSE", d, i, j) = {}
    BY DEF AtDepth
<1> QED
    BY <1>1, FS_EmptySet DEF Excess

(* One of them.                                                            *)
LEMMA ExcessOne ==
    ASSUME NEW ts, NEW j \in Nat
    PROVE  /\ ts[j + 1] = "TOK_IF" => Excess(ts, OpenBraces(ts, j), j, j + 1) = 1
           /\ ts[j + 1] = "TOK_ELSE" => Excess(ts, OpenBraces(ts, j), j, j + 1) = -1
<1>1. PICK d : d = OpenBraces(ts, j)
    OBVIOUS
<1>2. ASSUME NEW tag
      PROVE  /\ ts[j + 1] = tag => Cardinality(AtDepth(ts, tag, d, j, j + 1)) = 1
             /\ ts[j + 1] # tag => Cardinality(AtDepth(ts, tag, d, j, j + 1)) = 0
    <2>1. j .. j + 1 - 1 = {j}
        OBVIOUS
    <2>2. ts[j + 1] = tag => AtDepth(ts, tag, d, j, j + 1) = {j}
        BY <1>1, <2>1 DEF AtDepth
    <2>3. ts[j + 1] # tag => AtDepth(ts, tag, d, j, j + 1) = {}
        BY <2>1 DEF AtDepth
    <2>4. Cardinality({j}) = 1
        BY FS_Singleton
    <2> QED
        BY <2>2, <2>3, <2>4, FS_EmptySet
<1>3. PICK a, b : /\ a = Cardinality(AtDepth(ts, "TOK_IF", d, j, j + 1))
                  /\ b = Cardinality(AtDepth(ts, "TOK_ELSE", d, j, j + 1))
    OBVIOUS
<1>4. /\ ts[j + 1] = "TOK_IF" => a = 1 /\ b = 0
      /\ ts[j + 1] = "TOK_ELSE" => a = 0 /\ b = 1
    BY <1>2, <1>3
<1>5. Excess(ts, d, j, j + 1) = a - b
    BY <1>3 DEF Excess
<1> QED
    BY <1>1, <1>4, <1>5

(* One stretch behind another.                                             *)
LEMMA InsideJoins ==
    ASSUME NEW ts, NEW i \in Nat, NEW b \in Nat, NEW j \in Nat, Inside(ts, i, b), Inside(ts, b, j)
    PROVE  Inside(ts, i, j)
<1>1. i <= j /\ OpenBraces(ts, j) = OpenBraces(ts, i)
    BY DEF Inside
<1>2. ASSUME NEW k \in i .. j
      PROVE  OpenBraces(ts, k) >= OpenBraces(ts, i)
    <2>1. k \in i .. b \/ k \in b .. j
        OBVIOUS
    <2> QED
        BY <2>1 DEF Inside
<1> QED
    BY <1>1, <1>2 DEF Inside

(* So do such stretches of which only the first may leave ifs over.        *)
LEMMA PairedJoins ==
    ASSUME NEW ts, NEW n \in Int, NEW i \in Nat, NEW b \in Nat, NEW j \in Nat,
           Inside(ts, i, b), Paired(ts, n, i, b), Inside(ts, b, j), Paired(ts, 0, b, j)
    PROVE  Paired(ts, n, i, j)
<1>1. PICK d : d = OpenBraces(ts, i)
    OBVIOUS
<1>2. d = OpenBraces(ts, b) /\ i <= b /\ b <= j
    BY <1>1 DEF Inside
<1>3. ASSUME NEW k \in i .. b
      PROVE  Excess(ts, d, k, j) = Excess(ts, d, k, b) /\ Excess(ts, d, k, b) \in Int
    <2>1. k \in Nat /\ k <= b /\ b <= j
        BY <1>2
    <2>2. Excess(ts, d, k, j) = Excess(ts, d, k, b) + Excess(ts, d, b, j)
        BY <2>1, ExcessAdds
    <2>3. Excess(ts, d, k, b) \in Int
        BY <2>1, ExcessAdds
    <2>4. Excess(ts, d, b, j) = 0
        BY <1>2 DEF Paired
    <2> QED
        BY <2>2, <2>3, <2>4
<1>4. Excess(ts, d, i, j) = n
    BY <1>1, <1>2, <1>3 DEF Paired
<1>5. ASSUME NEW k \in i + 1 .. j
      PROVE  Excess(ts, d, k, j) <= 0
    <2>1. CASE k <= b
        <3>1. k \in i .. b /\ k \in i + 1 .. b
            BY <2>1
        <3>2. Excess(ts, d, k, b) <= 0
            BY <1>1, <3>1 DEF Paired
        <3> QED
            BY <1>3, <3>1, <3>2
    <2>2. CASE k > b
        <3>1. k \in b + 1 .. j
            BY <2>2
        <3> QED
            BY <1>2, <3>1 DEF Paired
    <2> QED
        BY <2>1, <2>2
<1> QED
    BY <1>1, <1>4, <1>5 DEF Paired

(* A stretch of tokens that do not matter.                                 *)
LEMMA PlainWhole ==
    ASSUME NEW ts, NEW i \in Nat, NEW j \in Nat, i <= j,
           \A k \in i .. j - 1 : ts[k + 1] \notin Control
    PROVE  Inside(ts, i, j) /\ Paired(ts, 0, i, j)
<1>1. ASSUME NEW k \in i .. j
      PROVE  OpenBraces(ts, k) = OpenBraces(ts, i)
    <2>1. ASSUME NEW tag \in Control
          PROVE  {m \in 1 .. k : ts[m] = tag} = {m \in 1 .. i : ts[m] = tag}
        <3>1. ASSUME NEW m \in i + 1 .. k
              PROVE  ts[m] # tag
            <4>1. PICK q \in i .. j - 1 : m = q + 1
                OBVIOUS
            <4> QED
                BY <4>1
        <3> QED
            BY <3>1
    <2> QED
        BY <2>1 DEF OpenBraces, Control
<1>2. OpenBraces(ts, i) \in Int
    BY BracesStep
<1>3. Inside(ts, i, j)
    BY <1>1, <1>2 DEF Inside
<1>4. ASSUME NEW k \in i .. j
      PROVE  Excess(ts, OpenBraces(ts, i), k, j) = 0
    <2>1. \A m \in k .. j - 1 : ts[m + 1] \notin Control
        OBVIOUS
    <2>2. k \in Nat
        OBVIOUS
    <2> QED
        BY <2>1, <2>2, ExcessNone DEF Control
<1> QED
    BY <1>3, <1>4 DEF Paired

(* Where an if waits for what follows.                                     *)
IfAt == {"if_cond", "then_body", "else_body"}

(* The ifs that have not yet met their else.                               *)
Awaiting(at) == IF at \in {"if_cond", "then_body"} THEN 1 ELSE 0

(* From i to c one brace is open, the first token.                         *)
Opened(ts, i, c) ==
    /\ i < c /\ ts[i + 1] = "TOK_LBRACE"
    /\ OpenBraces(ts, c) = OpenBraces(ts, i) + 1
    /\ \A k \in i + 1 .. c : OpenBraces(ts, k) > OpenBraces(ts, i)

(* An activation has read the tokens from its keyword up to the one at c:  *)
(* a block has one brace open; the others have read whole statements, and  *)
(* an if that has no else yet counts.  That holds of a body which has just *)
(* returned too if there is an else next: then it cannot end in an if that *)
(* would take it.                                                          *)
Reads(f, p, ts, c, paired) ==
    /\ f.at = "block" => Opened(ts, f.tok, c)
    /\ f.at # "block" =>
           Inside(ts, f.tok, c) /\ (paired => Paired(ts, Awaiting(f.at), f.tok, c))
    /\ f.at \in IfAt => ts[f.tok + 1] = "TOK_IF" /\ p[f.node].tok = f.tok

(* A block as a whole.                                                     *)
LEMMA BlockWhole ==
    ASSUME NEW ts, NEW i \in Nat, NEW c \in Nat, Opened(ts, i, c), ts[c + 1] = "TOK_RBRACE"
    PROVE  Inside(ts, i, c + 1) /\ Paired(ts, 0, i, c + 1)
<1>1. PICK d : d = OpenBraces(ts, i)
    OBVIOUS
<1>2. d \in Int /\ OpenBraces(ts, c) \in Int
    BY <1>1, BracesStep
<1>3. OpenBraces(ts, c + 1) = d
    <2>1. OpenBraces(ts, c + 1) = OpenBraces(ts, c) - 1
        BY BracesStep
    <2> QED
        BY <1>1, <1>2, <2>1 DEF Opened
<1>4. Inside(ts, i, c + 1)
    <2>1. ASSUME NEW k \in i .. c + 1
          PROVE  OpenBraces(ts, k) >= d
        <3>1. k = i \/ k \in i + 1 .. c \/ k = c + 1
            OBVIOUS
        <3>2. OpenBraces(ts, k) \in Int
            BY BracesStep
        <3> QED
            BY <1>1, <1>2, <1>3, <3>1, <3>2 DEF Opened
    <2> QED
        BY <1>1, <1>3, <2>1 DEF Inside, Opened
<1>5. ASSUME NEW k \in i .. c + 1
      PROVE  Excess(ts, d, k, c + 1) = 0
    <2>1. ASSUME NEW m \in k .. c + 1 - 1, ts[m + 1] \in {"TOK_IF", "TOK_ELSE"}
          PROVE  OpenBraces(ts, m) # d
        <3>1. m # i
            BY <2>1 DEF Opened
        <3>2. m \in i + 1 .. c
            BY <3>1
        <3>3. OpenBraces(ts, m) > d
            BY <1>1, <3>2 DEF Opened
        <3> QED
            BY <1>2, <3>3
    <2>2. k \in Nat /\ c + 1 \in Nat
        OBVIOUS
    <2>3. PICK e \in Nat : e = c + 1
        OBVIOUS
    <2>4. \A m \in k .. e - 1 : ts[m + 1] \in {"TOK_IF", "TOK_ELSE"} => OpenBraces(ts, m) # d
        BY <2>1, <2>3
    <2>5. Excess(ts, d, k, e) = 0
        BY <2>2, <2>4, ExcessNone
    <2> QED
        BY <2>3, <2>5
<1> QED
    BY <1>1, <1>4, <1>5 DEF Paired, Opened

(* An activation reads on.                                                 *)
LEMMA ReadsOn ==
    ASSUME NEW f, f.tok \in Nat, NEW p, NEW p2, NEW ts, NEW b \in Nat, NEW c \in Nat,
           Reads(f, p, ts, b, TRUE), Inside(ts, b, c),
           f.at \in IfAt => p2[f.node].tok = p[f.node].tok
    PROVE  /\ Reads(f, p2, ts, c, FALSE)
           /\ Paired(ts, 0, b, c) => Reads(f, p2, ts, c, TRUE)
<1>1. PICK i \in Nat : i = f.tok
    OBVIOUS
<1>2. f.at = "block" => Opened(ts, i, c)
    <2> SUFFICES ASSUME f.at = "block" PROVE Opened(ts, i, c)
        OBVIOUS
    <2>1. Opened(ts, i, b)
        BY <1>1 DEF Reads
    <2>2. OpenBraces(ts, i) \in Int /\ OpenBraces(ts, b) \in Int
        BY BracesStep
    <2>3. i < c /\ OpenBraces(ts, c) = OpenBraces(ts, i) + 1
        BY <2>1 DEF Inside, Opened
    <2>4. ASSUME NEW k \in i + 1 .. c
          PROVE  OpenBraces(ts, k) > OpenBraces(ts, i)
        <3>1. CASE k <= b
            <4>1. k \in i + 1 .. b
                BY <3>1
            <4> QED
                BY <2>1, <4>1 DEF Opened
        <3>2. CASE k > b
            <4>1. k \in b .. c
                BY <3>2
            <4>2. OpenBraces(ts, k) >= OpenBraces(ts, b) /\ OpenBraces(ts, k) \in Int
                BY <4>1, BracesStep DEF Inside
            <4>3. OpenBraces(ts, b) = OpenBraces(ts, i) + 1
                BY <2>1 DEF Opened
            <4> QED
                BY <2>2, <4>2, <4>3
        <3> QED
            BY <3>1, <3>2
    <2> QED
        BY <2>1, <2>3, <2>4 DEF Opened
<1>3. f.at # "block" => Inside(ts, i, c) /\ (Paired(ts, 0, b, c) => Paired(ts, Awaiting(f.at), i, c))
    <2> SUFFICES ASSUME f.at # "block"
                 PROVE  Inside(ts, i, c) /\ (Paired(ts, 0, b, c) => Paired(ts, Awaiting(f.at), i, c))
        OBVIOUS
    <2>1. Inside(ts, i, b) /\ Paired(ts, Awaiting(f.at), i, b)
        BY <1>1 DEF Reads
    <2>2. PICK n \in Int : n = Awaiting(f.at)
        BY DEF Awaiting
    <2>3. Inside(ts, i, c)
        BY <2>1, InsideJoins
    <2>4. Paired(ts, 0, b, c) => Paired(ts, n, i, c)
        BY <2>1, <2>2, PairedJoins
    <2> QED
        BY <2>2, <2>3, <2>4
<1> QED
    BY <1>1, <1>2, <1>3 DEF Reads

(* What activation k has read: all up to where the next statement started, *)
(* or up to the cursor.                                                    *)
Upto(s, k, c) == IF k < Len(s) /\ s[k + 1].at \in StmtAt THEN s[k + 1].tok ELSE c

(* Every activation on the stack s has read what is its own.               *)
AllRead(s, p, ts, c, paired) ==
    \A k \in 1 .. Len(s) :
        s[k].at \in StmtAt =>
            /\ Reads(s[k], p, ts, Upto(s, k, c), FALSE)
            /\ (k # Len(s) \/ paired) => Reads(s[k], p, ts, Upto(s, k, c), TRUE)

(* The statements lie at the bottom of the stack s, each with its place in *)
(* the text and, where it fills one, a node of the pool.                   *)
Placed(s, p) ==
    /\ Len(s) \in Nat /\ Len(p) \in Nat
    /\ \A k \in 1 .. Len(s) :
           s[k].at \in StmtAt =>
               /\ s[k].tok \in Nat
               /\ s[k].at \in IfAt => s[k].node \in 1 .. Len(p)
               /\ \A j \in 1 .. k : s[j].at \in StmtAt

(* Nodes keep their tokens.                                                *)
TokensStay(p, p2) == Len(p) \in Nat /\ \A n \in 1 .. Len(p) : p2[n].tok = p[n].tok

(* Where pairs do not matter.                                              *)
LEMMA ReadsLess ==
    ASSUME NEW f, NEW p, NEW ts, NEW c
    PROVE  Reads(f, p, ts, c, TRUE) => Reads(f, p, ts, c, FALSE)
    BY DEF Reads

(* Whole statements or plain tokens are read, and no activation of the     *)
(* parser of statements comes or goes.                                     *)
LEMMA ReadsQuietly ==
    ASSUME NEW s, NEW s2, NEW p, NEW p2, NEW ts, NEW c \in Nat, NEW c2 \in Nat, NEW m, NEW A,
           AllRead(s, p, ts, c, TRUE), Placed(s, p), TokensStay(p, p2),
           Inside(ts, c, c2), Paired(ts, 0, c, c2),
           Above(s, s2, m, A), A \cap StmtAt = {}, \A k \in m + 1 .. Len(s) : s[k].at \notin StmtAt
    PROVE  AllRead(s2, p2, ts, c2, TRUE)
<1> SUFFICES ASSUME NEW k \in 1 .. Len(s2), s2[k].at \in StmtAt
             PROVE  Reads(s2[k], p2, ts, Upto(s2, k, c2), TRUE)
    BY ReadsLess DEF AllRead
<1>1. k \in 1 .. m /\ k \in 1 .. Len(s) /\ m \in Nat /\ Len(s) \in Nat /\ Len(s2) \in Nat
    BY DEF Above
<1>2. PICK f : f = s[k] /\ f = s2[k] /\ f.at \in StmtAt
    BY <1>1 DEF Above
<1>3. f.tok \in Nat /\ (f.at \in IfAt => p2[f.node].tok = p[f.node].tok)
    BY <1>1, <1>2 DEF Placed, TokensStay
<1>4. Reads(f, p, ts, Upto(s, k, c), TRUE)
    BY <1>1, <1>2 DEF AllRead
<1>5. CASE k < Len(s2) /\ s2[k + 1].at \in StmtAt
    <2>1. k + 1 \in 1 .. m
        <3>1. k + 1 \in 1 .. Len(s2)
            BY <1>1, <1>5
        <3>2. ~(k + 1 > m)
            BY <1>1, <1>5, <3>1 DEF Above
        <3> QED
            BY <1>1, <3>2
    <2>2. s2[k + 1] = s[k + 1] /\ k < Len(s)
        BY <1>1, <2>1 DEF Above
    <2>3. Upto(s2, k, c2) = Upto(s, k, c)
        BY <1>5, <2>2 DEF Upto
    <2> QED
        BY <1>2, <1>3, <1>4, <2>3 DEF Reads
<1>6. CASE ~(k < Len(s2) /\ s2[k + 1].at \in StmtAt)
    <2>1. Upto(s2, k, c2) = c2
        BY <1>6 DEF Upto
    <2>2. ~(k < Len(s) /\ s[k + 1].at \in StmtAt)
        <3> SUFFICES ASSUME k < Len(s), s[k + 1].at \in StmtAt PROVE FALSE
            OBVIOUS
        <3>1. k + 1 \in 1 .. Len(s)
            BY <1>1
        <3>2. k + 1 <= m
            <4>1. ~(k + 1 \in m + 1 .. Len(s))
                OBVIOUS
            <4> QED
                BY <1>1, <3>1, <4>1
        <3>3. k + 1 \in 1 .. m /\ k < Len(s2)
            BY <1>1, <3>2 DEF Above
        <3> QED
            BY <1>6, <3>3 DEF Above
    <2>3. Upto(s, k, c) = c
        BY <2>2 DEF Upto
    <2>4. Reads(f, p, ts, c, TRUE)
        BY <1>4, <2>3
    <2>5. Paired(ts, 0, c, c2) => Reads(f, p2, ts, c2, TRUE)
        BY <1>3, <2>4, ReadsOn
    <2> QED
        BY <1>2, <2>1, <2>5
<1> QED
    BY <1>5, <1>6

(* A statement begins.                                                     *)
LEMMA ReadsCalled ==
    ASSUME NEW s, NEW s2, NEW p, NEW p2, NEW ts, NEW c \in Nat, NEW c2 \in Nat, NEW f, NEW A,
           AllRead(s, p, ts, c, TRUE), Placed(s, p), TokensStay(p, p2),
           Above(s, s2, Len(s), A), Len(s2) > Len(s), s2[Len(s) + 1] = f,
           f.at \in StmtAt, f.tok = c, Reads(f, p2, ts, c2, TRUE),
           s # <<>> => s[Len(s)].at \in StmtAt,
           \A k \in Len(s) + 2 .. Len(s2) : s2[k].at \notin StmtAt
    PROVE  AllRead(s2, p2, ts, c2, TRUE)
<1> SUFFICES ASSUME NEW k \in 1 .. Len(s2), s2[k].at \in StmtAt
             PROVE  Reads(s2[k], p2, ts, Upto(s2, k, c2), TRUE)
    BY ReadsLess DEF AllRead
<1>1. Len(s) \in Nat /\ Len(s2) \in Nat
    BY DEF Above
<1>2. k \in 1 .. Len(s) \/ k = Len(s) + 1
    <2>1. ~(k \in Len(s) + 2 .. Len(s2))
        OBVIOUS
    <2> QED
        BY <1>1, <2>1
<1>3. CASE k = Len(s) + 1
    <2>1. ~(k < Len(s2) /\ s2[k + 1].at \in StmtAt)
        <3>1. k < Len(s2) => k + 1 \in Len(s) + 2 .. Len(s2)
            BY <1>1, <1>3
        <3> QED
            BY <3>1
    <2>2. Upto(s2, k, c2) = c2
        BY <2>1 DEF Upto
    <2> QED
        BY <1>3, <2>2
<1>4. CASE k \in 1 .. Len(s)
    <2>1. PICK g : g = s[k] /\ g = s2[k] /\ g.at \in StmtAt
        BY <1>4 DEF Above
    <2>2. g.at \in IfAt => p2[g.node].tok = p[g.node].tok
        BY <1>4, <2>1 DEF Placed, TokensStay
    <2>3. Reads(g, p, ts, Upto(s, k, c), TRUE)
        BY <1>4, <2>1 DEF AllRead
    <2>4. Upto(s2, k, c2) = Upto(s, k, c)
        <3>1. CASE k = Len(s)
            <4>1. Upto(s, k, c) = c
                BY <1>1, <3>1 DEF Upto
            <4>2. k < Len(s2) /\ s2[k + 1] = f
                BY <1>1, <3>1
            <4> QED
                BY <4>1, <4>2 DEF Upto
        <3>2. CASE k < Len(s)
            <4>1. k + 1 \in 1 .. Len(s) /\ k < Len(s2) /\ s # <<>> /\ Len(s) \in 1 .. Len(s)
                BY <1>1, <1>4, <3>2
            <4>2. s2[k + 1] = s[k + 1]
                BY <4>1 DEF Above
            <4>3. s[k + 1].at \in StmtAt
                BY <4>1 DEF Placed
            <4> QED
                BY <3>2, <4>1, <4>2, <4>3 DEF Upto
        <3> QED
            BY <1>1, <1>4, <3>1, <3>2
    <2> QED
        BY <2>1, <2>2, <2>3, <2>4 DEF Reads
<1> QED
    BY <1>3, <1>4, <1>2

(* An activation goes on at another place.                                 *)
LEMMA ReadsResumed ==
    ASSUME NEW s, NEW s2, NEW p, NEW p2, NEW ts, NEW c \in Nat, NEW c2 \in Nat, NEW f, NEW A,
           NEW paired \in BOOLEAN,
           AllRead(s, p, ts, c, paired), Placed(s, p), TokensStay(p, p2),
           Above(s, s2, Len(s) - 1, A), Len(s2) = Len(s), s2[Len(s)] = f,
           s[Len(s)].at \in StmtAt, f.at \in StmtAt, f.tok = s[Len(s)].tok,
           Reads(f, p2, ts, c2, TRUE)
    PROVE  AllRead(s2, p2, ts, c2, TRUE)
<1> SUFFICES ASSUME NEW k \in 1 .. Len(s2), s2[k].at \in StmtAt
             PROVE  Reads(s2[k], p2, ts, Upto(s2, k, c2), TRUE)
    BY ReadsLess DEF AllRead
<1>1. Len(s) \in Nat /\ Len(s2) \in Nat
    BY DEF Above
<1>2. (k = Len(s) \/ k \in 1 .. Len(s) - 1) /\ Len(s) \in 1 .. Len(s)
    BY <1>1
<1>3. CASE k = Len(s)
    <2>1. Upto(s2, k, c2) = c2
        BY <1>1, <1>3 DEF Upto
    <2> QED
        BY <1>3, <2>1
<1>4. CASE k \in 1 .. Len(s) - 1
    <2>1. PICK g : g = s[k] /\ g = s2[k] /\ g.at \in StmtAt
        BY <1>4 DEF Above
    <2>2. g.at \in IfAt => p2[g.node].tok = p[g.node].tok
        BY <1>1, <1>4, <2>1 DEF Placed, TokensStay
    <2>3. Reads(g, p, ts, Upto(s, k, c), TRUE)
        <3>1. k \in 1 .. Len(s) /\ k # Len(s)
            BY <1>1, <1>4
        <3> QED
            BY <2>1, <3>1 DEF AllRead
    <2>4. Upto(s2, k, c2) = Upto(s, k, c)
        <3>1. CASE k = Len(s) - 1
            <4>1. k < Len(s) /\ k < Len(s2) /\ k + 1 = Len(s)
                BY <1>1, <3>1
            <4> QED
                BY <4>1 DEF Upto
        <3>2. CASE k < Len(s) - 1
            <4>1. k + 1 \in 1 .. Len(s) - 1 /\ k < Len(s2) /\ k < Len(s)
                BY <1>1, <1>4, <3>2
            <4>2. s2[k + 1] = s[k + 1]
                BY <4>1 DEF Above
            <4>3. s[k + 1].at \in StmtAt
                BY <1>2, <4>1 DEF Placed
            <4> QED
                BY <4>1, <4>2, <4>3 DEF Upto
        <3> QED
            BY <1>1, <1>4, <3>1, <3>2
    <2> QED
        BY <2>1, <2>2, <2>3, <2>4 DEF Reads
<1> QED
    BY <1>3, <1>4, <1>2

(* A statement ends, and the activation below has read it too.             *)
LEMMA ReadsReturned ==
    ASSUME NEW s, NEW s2, NEW p, NEW p2, NEW ts, NEW c \in Nat, NEW c2 \in Nat, NEW A,
           NEW before \in BOOLEAN, NEW paired \in BOOLEAN,
           AllRead(s, p, ts, c, before), Placed(s, p), TokensStay(p, p2),
           Above(s, s2, Len(s) - 1, A), Len(s2) = Len(s) - 1, s[Len(s)].at \in StmtAt,
           Inside(ts, s[Len(s)].tok, c2), paired => Paired(ts, 0, s[Len(s)].tok, c2)
    PROVE  AllRead(s2, p2, ts, c2, paired)
<1> SUFFICES ASSUME NEW k \in 1 .. Len(s2), s2[k].at \in StmtAt
             PROVE  /\ Reads(s2[k], p2, ts, Upto(s2, k, c2), FALSE)
                    /\ (k # Len(s2) \/ paired) => Reads(s2[k], p2, ts, Upto(s2, k, c2), TRUE)
    BY DEF AllRead
<1>1. Len(s) \in Nat /\ Len(s2) \in Nat /\ k \in 1 .. Len(s) - 1 /\ k \in 1 .. Len(s) /\ k # Len(s)
      /\ Len(s) \in 1 .. Len(s)
    BY DEF Above
<1>2. PICK g : g = s[k] /\ g = s2[k] /\ g.at \in StmtAt
    BY <1>1 DEF Above
<1>3. g.tok \in Nat /\ (g.at \in IfAt => p2[g.node].tok = p[g.node].tok)
    BY <1>1, <1>2 DEF Placed, TokensStay
<1>4. Reads(g, p, ts, Upto(s, k, c), TRUE)
    BY <1>1, <1>2 DEF AllRead
<1>5. CASE k = Len(s2)
    <2>1. Upto(s2, k, c2) = c2 /\ Upto(s, k, c) = s[Len(s)].tok
        <3>1. k < Len(s) /\ k + 1 = Len(s) /\ ~(k < Len(s2))
            BY <1>1, <1>5
        <3> QED
            BY <3>1 DEF Upto
    <2>2. s[Len(s)].tok \in Nat
        BY <1>1 DEF Placed
    <2>3. PICK b \in Nat : b = s[Len(s)].tok
        BY <2>2
    <2>4. Reads(g, p, ts, b, TRUE) /\ Inside(ts, b, c2) /\ (paired => Paired(ts, 0, b, c2))
        BY <1>4, <2>1, <2>3
    <2>5. Reads(g, p2, ts, c2, FALSE)
        BY <1>3, <2>4, ReadsOn
    <2>6. Paired(ts, 0, b, c2) => Reads(g, p2, ts, c2, TRUE)
        BY <1>3, <2>4, ReadsOn
    <2> QED
        BY <1>2, <1>5, <2>1, <2>4, <2>5, <2>6
<1>6. CASE k # Len(s2)
    <2>1. k + 1 \in 1 .. Len(s) - 1 /\ k < Len(s2) /\ k < Len(s)
        BY <1>1, <1>6
    <2>2. s2[k + 1] = s[k + 1]
        BY <2>1 DEF Above
    <2>3. s[k + 1].at \in StmtAt
        BY <1>1, <2>1 DEF Placed
    <2>4. Upto(s2, k, c2) = Upto(s, k, c)
        BY <2>1, <2>2, <2>3 DEF Upto
    <2> QED
        BY <1>2, <1>3, <1>4, <1>6, <2>4, ReadsLess DEF Reads
<1> QED
    BY <1>5, <1>6

(* An activation of the parser of statements was called by another one, so *)
(* they are the first ones on the stack.                                   *)
LEMMA StatementsBelow ==
    ASSUME ParserInv
    PROVE  Placed(stack, pool)
<1>1. StackOK(stack, pool, Len(types), tokens) /\ Len(pool) \in Nat /\ Len(types) \in Nat
    BY PoolSize DEF ParserInv
<1>2. Len(stack) \in Nat /\ \A k \in 1 .. Len(stack) : stack[k] \in Frames(Len(pool), Len(types))
    BY <1>1 DEF StackOK
<1>3. Bodies \subseteq StmtAt
    BY DEF Bodies, StmtAt
<1>4. ASSUME NEW k \in 1 .. Len(stack), stack[k].at \in StmtAt
      PROVE  \A j \in 1 .. k : stack[j].at \in StmtAt
    <2> DEFINE Bad == {n \in 0 .. k : k - n >= 1 /\ stack[k - n].at \notin StmtAt}
    <2>1. SUFFICES ASSUME Bad # {} PROVE FALSE
        <3> SUFFICES ASSUME NEW j \in 1 .. k, stack[j].at \notin StmtAt PROVE Bad # {}
            OBVIOUS
        <3>1. PICK n \in 0 .. k : n = k - j
            OBVIOUS
        <3>2. k - n = j
            BY <3>1
        <3>3. n \in Bad
            BY <3>2
        <3> QED
            BY <3>3
    <2>2. PICK n \in Bad : \A m \in Bad : n <= m
        <3>1. Bad \subseteq Nat
            OBVIOUS
        <3> HIDE DEF Bad
        <3> QED
            BY <2>1, <3>1, MinIsLeast
    <2>3. n # 0 /\ n \in 0 .. k /\ k - n >= 1 /\ stack[k - n].at \notin StmtAt
        BY <1>4, <2>2
    <2>4. PICK l \in 0 .. k : l = n - 1
        BY <2>3
    <2>5. l \notin Bad
        <3> HIDE DEF Bad
        <3>1. ~(n <= l)
            BY <2>3, <2>4
        <3> QED
            BY <2>2, <3>1
    <2>6. stack[k - l].at \in StmtAt
        <3>1. k - l >= 1
            BY <2>3, <2>4
        <3> QED
            BY <2>5, <3>1
    <2>7. PICK j \in 1 .. Len(stack) - 1 : j = k - n
        BY <1>2, <2>3
    <2>8. j + 1 = k - l
        BY <2>3, <2>4, <2>7
    <2>9. stack[j].at \in CallersOf(stack[j + 1].at)
        BY <1>1 DEF StackOK
    <2>10. stack[j].at \in Bodies
        BY <2>6, <2>8, <2>9, CallersAre
    <2> QED
        BY <1>3, <2>3, <2>7, <2>10
<1>5. ASSUME NEW k \in 1 .. Len(stack), stack[k].at \in StmtAt
      PROVE  stack[k].tok \in Nat /\ (stack[k].at \in IfAt => stack[k].node \in 1 .. Len(pool))
    <2>1. stack[k] \in StmtFrames(Len(pool))
        BY <1>1, <1>2, <1>5, FrameKinds
    <2>2. HeldFor(stack[k], pool, tokens)
        BY <1>1 DEF StackOK
    <2>3. stack[k].at \in IfAt => stack[k].at \in DOMAIN Owner
        BY DEF IfAt, Owner
    <2> QED
        BY <2>1, <2>2, <2>3 DEF StmtFrames, HeldFor
<1> QED
    BY <1>1, <1>2, <1>4, <1>5 DEF Placed

(* The cursor moves over tokens that do not matter, and nodes keep theirs. *)
PlainMove ==
    /\ tokens' = tokens /\ TokensStay(pool, pool')
    /\ toki' \in Nat /\ toki <= toki' /\ \A k \in toki .. toki' - 1 : tokens[k + 1] \notin Control

(* Those are the moves of the parsers that statements call.                *)
LEMMA MovesPlain ==
    ASSUME toki \in Nat, tokens' = tokens, TokensStay(pool, pool'),
           \/ toki' = toki
           \/ advance(1) /\ Tok(toki) \notin Control
           \/ advance(2) /\ Tok(toki) \notin Control /\ Tok(toki + 1) \notin Control
           \/ advance(3) /\ Tok(toki) \notin Control /\ Tok(toki + 1) \notin Control
                  /\ Tok(toki + 2) \notin Control
    PROVE  PlainMove
<1>1. CASE toki' = toki
    BY <1>1 DEF PlainMove
<1>2. CASE advance(1) /\ Tok(toki) \notin Control
    <2>1. toki' = toki + 1 /\ \A k \in toki .. toki + 1 - 1 : k = toki
        BY <1>2 DEF advance
    <2> QED
        BY <1>2, <2>1 DEF PlainMove, Tok
<1>3. CASE advance(2) /\ Tok(toki) \notin Control /\ Tok(toki + 1) \notin Control
    <2>1. toki' = toki + 2 /\ \A k \in toki .. toki + 2 - 1 : k = toki \/ k = toki + 1
        BY <1>3 DEF advance
    <2> QED
        BY <1>3, <2>1 DEF PlainMove, Tok
<1>4. CASE advance(3) /\ Tok(toki) \notin Control /\ Tok(toki + 1) \notin Control
               /\ Tok(toki + 2) \notin Control
    <2>1. toki' = toki + 3 /\ \A k \in toki .. toki + 3 - 1 : k = toki \/ k = toki + 1 \/ k = toki + 2
        BY <1>4 DEF advance
    <2> QED
        BY <1>4, <2>1 DEF PlainMove, Tok
<1> QED
    BY <1>1, <1>2, <1>3, <1>4

(* A node more, or another child of one.                                   *)
LEMMA NodeTokensStay ==
    ASSUME ParserInv,
           \/ pool' = pool
           \/ \E x : pool' = Append(pool, x)
           \/ \E n, k : pool' = [pool EXCEPT ![n].kids[k] = ret]
    PROVE  TokensStay(pool, pool')
<1>1. pool \in Seq(Nodes(Len(pool))) /\ Len(pool) \in Nat
    BY PoolSize DEF ParserInv
<1>2. CASE pool' = pool
    BY <1>1, <1>2 DEF TokensStay
<1>3. CASE \E x : pool' = Append(pool, x)
    <2>1. PICK x : pool' = Append(pool, x)
        BY <1>3
    <2>2. PICK S : S = Nodes(Len(pool)) \cup {x}
        OBVIOUS
    <2>3. pool \in Seq(S) /\ x \in S
        BY <1>1, <2>2, WiderSeq
    <2>4. \A i \in 1 .. Len(pool) : Append(pool, x)[i] = pool[i]
        BY <2>3, PushOne
    <2> QED
        BY <1>1, <2>1, <2>4 DEF TokensStay
<1>4. CASE \E n, k : pool' = [pool EXCEPT ![n].kids[k] = ret]
    <2>1. PICK n, k : pool' = [pool EXCEPT ![n].kids[k] = ret]
        BY <1>4
    <2>2. ASSUME NEW i \in 1 .. Len(pool)
          PROVE  pool'[i].tok = pool[i].tok
        <3>1. CASE i # n
            BY <1>1, <2>1, <3>1
        <3>2. CASE i = n
            <4>1. PICK y \in Nodes(Len(pool)) : y = pool[i]
                BY <1>1
            <4>2. PICK kids : kids = [y.kids EXCEPT ![k] = ret]
                OBVIOUS
            <4>3. pool' = [pool EXCEPT ![i] = [y EXCEPT !.kids = kids]]
                BY <2>1, <3>2, <4>1, <4>2
            <4>4. pool'[i] = [y EXCEPT !.kids = kids]
                BY <1>1, <4>3
            <4>5. [y EXCEPT !.kids = kids].tok = y.tok
                BY DEF Nodes
            <4> QED
                BY <4>1, <4>4, <4>5
        <3> QED
            BY <3>1, <3>2
    <2> QED
        BY <1>1, <2>2 DEF TokensStay
<1> QED
    BY <1>2, <1>3, <1>4

(* Each step of the expression parser moves so,                            *)
LEMMA ExprMoves ==
    ASSUME ParserInv, CursorSound, parse_expr
    PROVE  PlainMove
<1>1. toki \in Nat /\ tokens \in Inputs /\ current = Tok(toki)
    BY DEF ParserInv, CursorSound
<1>2. ASSUME tokens' = tokens, pool' = pool \/ \E x : pool' = Append(pool, x),
             \/ toki' = toki
             \/ advance(1) /\ Tok(toki) \notin Control
             \/ advance(2) /\ Tok(toki) \notin Control /\ Tok(toki + 1) \notin Control
      PROVE  PlainMove
    BY <1>1, <1>2, MovesPlain, NodeTokensStay
<1>3. ASSUME NEW tag, NEW tok, NEW kids, new_node(tag, tok, kids)
      PROVE  \E x : pool' = Append(pool, x)
    BY <1>3 DEF new_node
<1>4. ASSUME NEW x, NEW y, match(<<x, y>>)
      PROVE  Tok(toki) = x /\ Tok(toki + 1) = y
    BY <1>1, <1>4, MatchTwo
<1>5. CASE PrefixOperator \/ TakeOperator
    <2>1. DOMAIN UnaryAst \cap Control = {}
        BY DEF UnaryAst, Control
    <2>2. \A op : get_precedence(op) # PREC_NONE => op \notin Control
        BY DEF get_precedence, PREC_NONE, PrecedenceLevels, Levels, Control
    <2>3. TakeOperator => get_precedence(Tok(toki)) # PREC_NONE
        BY DEF TakeOperator, TakesOperator
    <2> QED
        BY <1>2, <1>5, <2>1, <2>2, <2>3 DEF PrefixOperator, TakeOperator
<1>6. CASE PrimaryIdentifier \/ PrimaryLiteral \/ PrimaryEnumLiteral
    <2>1. DOMAIN LiteralAst \cap Control = {}
        BY DEF LiteralAst, Control
    <2>2. PrimaryEnumLiteral => Tok(toki) = "TOK_PERIOD" /\ Tok(toki + 1) = "TOK_IDENTIFIER"
        <3>1. PICK x, y : x = "TOK_PERIOD" /\ y = "TOK_IDENTIFIER"
            OBVIOUS
        <3>2. PrimaryEnumLiteral => match(<<x, y>>)
            BY <3>1 DEF PrimaryEnumLiteral
        <3> QED
            BY <1>4, <3>1, <3>2
    <2>3. /\ tokens' = tokens /\ \E tag, tok, kids : new_node(tag, tok, kids)
          /\ \/ advance(1) /\ Tok(toki) \in DOMAIN LiteralAst \cup {"TOK_IDENTIFIER"}
             \/ PrimaryEnumLiteral /\ advance(2)
        BY <1>6 DEF PrimaryIdentifier, PrimaryLiteral, PrimaryEnumLiteral, new_literal
    <2>4. \E x : pool' = Append(pool, x)
        BY <1>3, <2>3
    <2>5. "TOK_IDENTIFIER" \notin Control /\ "TOK_PERIOD" \notin Control
        BY DEF Control
    <2> QED
        BY <1>2, <2>1, <2>2, <2>3, <2>4, <2>5
<1>7. CASE PrimaryGroup \/ PostfixMember \/ PostfixCall \/ PostfixIndex \/ NextArgument
    <2>1. /\ tokens' = tokens /\ pool' = pool /\ advance(1)
          /\ Tok(toki) \in {"TOK_LPAREN", "TOK_PERIOD", "TOK_LBRACKET", "TOK_COMMA"}
        BY <1>1, <1>7 DEF PrimaryGroup, PostfixMember, PostfixCall, PostfixIndex, NextArgument
    <2> QED
        BY <1>2, <2>1 DEF Control
<1>8. CASE PostfixEmptyCall
    <2>1. PICK x, y : x = "TOK_LPAREN" /\ y = "TOK_RPAREN"
        OBVIOUS
    <2>2. match(<<x, y>>) /\ advance(2) /\ tokens' = tokens /\ \E tag, tok, kids : new_node(tag, tok, kids)
        BY <1>8, <2>1 DEF PostfixEmptyCall
    <2>3. x = Tok(toki) /\ y = Tok(toki + 1)
        BY <1>1, <2>2, MatchTwo
    <2>4. \E z : pool' = Append(pool, z)
        BY <1>3, <2>2
    <2> QED
        BY <1>2, <2>1, <2>2, <2>3, <2>4 DEF Control
<1>9. CASE CloseGroup \/ CloseCall \/ CloseIndex
    <2>1. /\ tokens' = tokens /\ advance(1) /\ current \in {"TOK_RPAREN", "TOK_RBRACKET"}
          /\ \E tag, tok, kids : new_node(tag, tok, kids)
        BY <1>9 DEF CloseGroup, CloseCall, CloseIndex
    <2>2. \E x : pool' = Append(pool, x)
        BY <1>3, <2>1
    <2>3. Tok(toki) \notin Control
        BY <1>1, <2>1 DEF Control
    <2> QED
        BY <1>2, <2>1, <2>2, <2>3
<1>10. CASE MemberField \/ new_binary \/ new_unary
    <2>1. tokens' = tokens /\ toki' = toki /\ \E tag, tok, kids : new_node(tag, tok, kids)
        BY <1>10 DEF MemberField, new_binary, new_unary
    <2>2. \E x : pool' = Append(pool, x)
        BY <1>3, <2>1
    <2> QED
        BY <1>2, <2>1, <2>2
<1>11. CASE \/ PrimaryNone \/ PostfixEnd \/ MemberMissing \/ RepeatArgument \/ IndexMissing
            \/ ExpectTokenFails \/ LeaveLoop
    BY <1>2, <1>11 DEF PrimaryNone, PostfixEnd, MemberMissing, RepeatArgument, IndexMissing,
                       ExpectTokenFails, LeaveLoop
<1> QED
    BY <1>5, <1>6, <1>7, <1>8, <1>9, <1>10, <1>11, Zenon DEF parse_expr, Primary

(* and each one of parse_var_decl, on top of the stack.                    *)
LEMMA DeclMoves ==
    ASSUME ParserInv, CursorSound, parse_var_decl
    PROVE  PlainMove
<1>1. toki \in Nat /\ tokens \in Inputs /\ current = Tok(toki)
    BY DEF ParserInv, CursorSound
<1>2. ASSUME tokens' = tokens, pool' = pool \/ \E x : pool' = Append(pool, x),
             \/ toki' = toki
             \/ advance(1) /\ Tok(toki) \notin Control
             \/ advance(2) /\ Tok(toki) \notin Control /\ Tok(toki + 1) \notin Control
             \/ advance(3) /\ Tok(toki) \notin Control /\ Tok(toki + 1) \notin Control
                    /\ Tok(toki + 2) \notin Control
      PROVE  PlainMove
    BY <1>1, <1>2, MovesPlain, NodeTokensStay
<1>3. CASE parse_inferred_var_decl \/ parse_const_var_decl
    <2>1. PICK kw \in {"TOK_LET", "TOK_CONST"} : \E tag : Inferred(kw, tag)
        BY <1>3 DEF parse_inferred_var_decl, parse_const_var_decl
    <2>2. PICK y, z : y = "TOK_IDENTIFIER" /\ z = "TOK_EQUAL"
        OBVIOUS
    <2>3. match(<<kw, y, z>>) /\ advance(3) /\ tokens' = tokens /\ pool' = pool
        BY <2>1, <2>2 DEF Inferred
    <2>4. kw = Tok(toki) /\ y = Tok(toki + 1) /\ z = Tok(toki + 2)
        BY <1>1, <2>3, MatchThree
    <2> QED
        BY <1>2, <2>2, <2>3, <2>4 DEF Control
<1>4. CASE Qualifiers
    <2>1. PICK a, b : a = Count(current = "TOK_CONST") /\ b = Count(Tok(toki + a) = "TOK_STATIC")
        OBVIOUS
    <2>2. advance(a + b) /\ tokens' = tokens /\ pool' = pool
        BY <1>4, <2>1 DEF Qualifiers
    <2>3. CASE a = 1
        <3>1. Tok(toki) = "TOK_CONST"
            BY <1>1, <2>1, <2>3 DEF Count
        <3>2. CASE b = 1
            <4>1. Tok(toki + 1) = "TOK_STATIC" /\ advance(2)
                BY <2>1, <2>2, <2>3, <3>2 DEF Count
            <4> QED
                BY <1>2, <2>2, <3>1, <4>1 DEF Control
        <3>3. CASE b = 0
            <4>1. advance(1)
                BY <2>2, <2>3, <3>3
            <4> QED
                BY <1>2, <2>2, <3>1, <4>1 DEF Control
        <3> QED
            BY <2>1, <3>2, <3>3 DEF Count
    <2>4. CASE a = 0
        <3>1. CASE b = 1
            <4>1. Tok(toki) = "TOK_STATIC" /\ advance(1)
                BY <1>1, <2>1, <2>2, <2>4, <3>1 DEF Count
            <4> QED
                BY <1>2, <2>2, <4>1 DEF Control
        <3>2. CASE b = 0
            <4>1. toki' = toki
                BY <1>1, <2>2, <2>4, <3>2 DEF advance
            <4> QED
                BY <1>2, <2>2, <4>1
        <3> QED
            BY <2>1, <3>1, <3>2 DEF Count
    <2> QED
        BY <2>1, <2>3, <2>4 DEF Count
<1>5. CASE SpecPrimitive
    <2>1. DOMAIN tag_to_primitive \cap Control = {}
        BY DEF tag_to_primitive, Control
    <2> QED
        BY <1>1, <1>2, <1>5, <2>1 DEF SpecPrimitive
<1>6. CASE SpecName \/ PointerType \/ DeclaratorName \/ ArrayLength \/ CloseArray \/ Initializer
    <2>1. /\ tokens' = tokens /\ pool' = pool /\ advance(1)
          /\ Tok(toki) \in {"TOK_IDENTIFIER", "TOK_ASTERISK", "TOK_LBRACKET", "TOK_RBRACKET", "TOK_EQUAL"}
        BY <1>1, <1>6 DEF SpecName, TakesName, PointerType, DeclaratorName, ArrayLength, CloseArray, Initializer
    <2> QED
        BY <1>2, <2>1 DEF Control
<1>7. CASE SpecMember \/ ArrayUnsized
    <2>1. PICK x, y : x = "TOK_LBRACKET" /\ y = "TOK_RBRACKET"
        OBVIOUS
    <2>2. ArrayUnsized => match(<<x, y>>)
        BY <2>1 DEF ArrayUnsized
    <2>3. ArrayUnsized => x = Tok(toki) /\ y = Tok(toki + 1)
        BY <1>1, <2>2, MatchTwo
    <2>4. SpecMember => Tok(toki) \in Separators /\ Tok(toki + 1) = "TOK_IDENTIFIER"
        BY <1>1 DEF SpecMember
    <2>5. tokens' = tokens /\ pool' = pool /\ advance(2)
        BY <1>7 DEF SpecMember, ArrayUnsized
    <2> QED
        BY <1>2, <1>7, <2>1, <2>3, <2>4, <2>5 DEF Control, Separators
<1>8. CASE SpecEnd \/ DeclarationFails
    BY <1>2, <1>8 DEF SpecEnd, DeclarationFails, Exit
<1>9. CASE Initialized \/ NoInitializer
    <2>1. tokens' = tokens /\ toki' = toki /\ \E x : pool' = Append(pool, x)
        BY <1>9 DEF Initialized, NoInitializer, new_var_decl
    <2> QED
        BY <1>2, <2>1
<1> QED
    BY <1>3, <1>4, <1>5, <1>6, <1>7, <1>8, <1>9, Zenon DEF parse_var_decl

(* A body has returned, and the next token is no else.                     *)
Unpaired == pc = "return" /\ stack # <<>> /\ Caller.at \in Bodies /\ current # "TOK_ELSE"

(* What makes an else belong to the nearest if: every activation has read  *)
(* whole statements, in which no if is left that an else could still take; *)
(* and since its else the activation that has taken it is short of ifs.    *)
ElseInv ==
    /\ AllRead(stack, pool, tokens, toki, ~Unpaired)
    /\ pc = "stmt" /\ stack # <<>> =>
           (Caller.at = "else_body" =>
               \A k \in Caller.tok + 1 .. toki - 1 :
                   Excess(tokens, OpenBraces(tokens, Caller.tok), k, toki) < 0)

(* Pairs matter unless a body has just returned.                           *)
LEMMA AllPaired ==
    ASSUME NEW s, NEW p, NEW ts, NEW c, NEW b \in BOOLEAN
    PROVE  /\ AllRead(s, p, ts, c, TRUE) => AllRead(s, p, ts, c, b)
           /\ b /\ AllRead(s, p, ts, c, b) => AllRead(s, p, ts, c, TRUE)
    BY DEF AllRead

(* What the activation on top has read.                                    *)
LEMMA TopReads ==
    ASSUME ParserInv, ElseInv, stack # <<>>, Caller.at \in StmtAt
    PROVE  /\ Reads(Caller, pool, tokens, toki, FALSE)
           /\ ~Unpaired => Reads(Caller, pool, tokens, toki, TRUE)
           /\ Caller.tok \in Nat /\ Caller = stack[Len(stack)]
           /\ Caller.at \in IfAt => Caller.node \in 1 .. Len(pool)
<1>1. PICK S : stack \in Seq(S)
    BY DEF ParserInv, StackOK
<1>2. Len(stack) \in Nat /\ Len(stack) \in 1 .. Len(stack) /\ Caller = stack[Len(stack)]
    BY <1>1 DEF Caller, Last
<1>3. Upto(stack, Len(stack), toki) = toki
    BY <1>2 DEF Upto
<1>4. Placed(stack, pool)
    BY StatementsBelow
<1>5. /\ Reads(Caller, pool, tokens, toki, FALSE)
      /\ ~Unpaired => Reads(Caller, pool, tokens, toki, TRUE)
    BY <1>2, <1>3 DEF ElseInv, AllRead
<1> QED
    BY <1>2, <1>4, <1>5 DEF Placed

(* A step that is none of a statement.                                     *)
LEMMA ElseQuiet ==
    ASSUME ParserInv, ElseInv, ~Unpaired, PlainMove,
           NEW m, NEW A, A \cap StmtAt = {}, Above(stack, stack', m, A),
           \A k \in m + 1 .. Len(stack) : stack[k].at \notin StmtAt,
           pc' = "stmt" => (stack' # <<>> => Caller'.at # "else_body")
    PROVE  ElseInv'
<1>1. AllRead(stack, pool, tokens, toki, TRUE)
    <2>1. PICK b \in BOOLEAN : b = ~Unpaired
        BY DEF Unpaired
    <2>2. AllRead(stack, pool, tokens, toki, b) /\ b
        BY <2>1 DEF ElseInv
    <2> QED
        BY <2>2, AllPaired
<1>2. Placed(stack, pool) /\ toki \in Nat
    BY StatementsBelow DEF ParserInv
<1>3. tokens' = tokens /\ toki' \in Nat /\ TokensStay(pool, pool')
    BY DEF PlainMove
<1>4. Inside(tokens, toki, toki') /\ Paired(tokens, 0, toki, toki')
    BY <1>2, <1>3, PlainWhole DEF PlainMove
<1>5. PICK s2, p2, c2 : s2 = stack' /\ p2 = pool' /\ c2 = toki'
    OBVIOUS
<1>6. AllRead(s2, p2, tokens, c2, TRUE)
    BY <1>1, <1>2, <1>3, <1>4, <1>5, ReadsQuietly
<1>7. AllRead(stack', pool', tokens', toki', ~Unpaired')
    <2>1. PICK b \in BOOLEAN : b = ~Unpaired'
        BY DEF Unpaired
    <2>2. AllRead(s2, p2, tokens, c2, b)
        BY <1>6, AllPaired
    <2> QED
        BY <1>3, <1>5, <2>1, <2>2
<1> QED
    BY <1>7 DEF ElseInv

(* A statement is called.                                                  *)
LEMMA ElseCalled ==
    ASSUME ParserInv, ElseInv, pc = "stmt", pc' # "stmt", tokens' = tokens, toki' \in Nat,
           TokensStay(pool, pool'),
           NEW f, f.at \in StmtAt, f.tok = toki, Reads(f, pool', tokens, toki', TRUE),
           \/ stack' = Append(stack, f)
           \/ stack' = stack \o <<f, PrecedenceFrame(0)>>
    PROVE  ElseInv'
<1>1. AllRead(stack, pool, tokens, toki, TRUE)
    <2>1. PICK b \in BOOLEAN : b = ~Unpaired
        BY DEF Unpaired
    <2>2. AllRead(stack, pool, tokens, toki, b) /\ b
        BY <2>1 DEF ElseInv, Unpaired
    <2> QED
        BY <2>2, AllPaired
<1>2. Placed(stack, pool) /\ toki \in Nat
    BY StatementsBelow DEF ParserInv
<1>3. PICK S : stack \in Seq(S)
    BY DEF ParserInv, StackOK
<1>4. Len(stack) \in Nat /\ Caller = stack[Len(stack)]
    BY <1>3 DEF Caller, Last
<1>5. stack # <<>> => stack[Len(stack)].at \in StmtAt
    <2>1. stack # <<>> => Caller.at \in Bodies
        BY DEF ParserInv, TopOK, Caller
    <2> QED
        BY <1>4, <2>1 DEF Bodies, StmtAt
<1>6. PICK A : A = StmtAt \cup FrameAt
    OBVIOUS
<1>7. PICK g : g = PrecedenceFrame(0)
    OBVIOUS
<1>8. f.at \in A /\ g.at \in A /\ g.at \notin StmtAt
    BY <1>6, <1>7 DEF PrecedenceFrame, Frame, FrameAt, StmtAt
<1>9. PICK s2, p2, c2 : s2 = stack' /\ p2 = pool' /\ c2 = toki'
    OBVIOUS
<1>10. /\ Above(stack, s2, Len(stack), A) /\ Len(s2) > Len(stack) /\ s2[Len(stack) + 1] = f
       /\ \A k \in Len(stack) + 2 .. Len(s2) : s2[k].at \notin StmtAt
    <2>1. CASE stack' = Append(stack, f)
        <3>1. Above(stack, s2, Len(stack), A)
            BY <1>3, <1>8, <1>9, <2>1, AbovePush
        <3>2. stack \in Seq(S \cup {f}) /\ f \in S \cup {f}
            BY <1>3, WiderSeq
        <3>3. Len(s2) = Len(stack) + 1 /\ s2[Len(stack) + 1] = f
            BY <1>9, <2>1, <3>2, PushOne
        <3> QED
            BY <1>4, <3>1, <3>3
    <2>2. CASE stack' = stack \o <<f, g>>
        <3>1. /\ Above(stack, s2, Len(stack), A)
              /\ Len(s2) = Len(stack) + 2 /\ s2[Len(stack) + 1] = f
            BY <1>3, <1>8, <1>9, <2>2, AboveTwo
        <3>2. s2[Len(stack) + 2] = g
            <4>1. stack \in Seq(S \cup {f, g}) /\ f \in S \cup {f, g} /\ g \in S \cup {f, g}
                BY <1>3, WiderSeq
            <4> QED
                BY <1>9, <2>2, <4>1, PushTwo
        <3>3. \A k \in Len(stack) + 2 .. Len(s2) : k = Len(stack) + 2
            BY <1>4, <3>1
        <3> QED
            BY <1>4, <1>8, <3>1, <3>2, <3>3
    <2> QED
        BY <1>7, <2>1, <2>2
<1>11. Reads(f, p2, tokens, c2, TRUE) /\ c2 \in Nat /\ TokensStay(pool, p2)
    BY <1>9
<1>12. AllRead(s2, p2, tokens, c2, TRUE)
    BY <1>1, <1>2, <1>5, <1>10, <1>11, ReadsCalled
<1>13. AllRead(stack', pool', tokens', toki', ~Unpaired')
    <2>1. PICK b \in BOOLEAN : b = ~Unpaired'
        BY DEF Unpaired
    <2>2. AllRead(s2, p2, tokens, c2, b)
        BY <1>12, AllPaired
    <2> QED
        BY <1>9, <2>1, <2>2
<1> QED
    BY <1>13 DEF ElseInv

(* The activation on top goes on.                                          *)
LEMMA ElseResumed ==
    ASSUME ParserInv, ElseInv, tokens' = tokens, toki' \in Nat, TokensStay(pool, pool'),
           stack # <<>>, Caller.at \in StmtAt,
           NEW f, f.at \in StmtAt, f.tok = Caller.tok, Reads(f, pool', tokens, toki', TRUE),
           stack' = Append(Front(stack), f),
           pc' = "stmt" =>
               (f.at = "else_body" =>
                   \A k \in f.tok + 1 .. toki' - 1 :
                       Excess(tokens, OpenBraces(tokens, f.tok), k, toki') < 0)
    PROVE  ElseInv'
<1>1. Placed(stack, pool) /\ toki \in Nat
    BY StatementsBelow DEF ParserInv
<1>2. PICK S : stack \in Seq(S)
    BY DEF ParserInv, StackOK
<1>3. Len(stack) \in Nat /\ Len(stack) >= 1 /\ Caller = stack[Len(stack)]
    BY <1>2 DEF Caller, Last
<1>4. PICK s2, p2, c2 : s2 = stack' /\ p2 = pool' /\ c2 = toki'
    OBVIOUS
<1>5. Above(stack, s2, Len(stack) - 1, StmtAt) /\ Len(s2) = Len(stack) /\ s2[Len(stack)] = f
    BY <1>2, <1>4, AboveBecome
<1>6. Reads(f, p2, tokens, c2, TRUE) /\ c2 \in Nat /\ TokensStay(pool, p2)
    BY <1>4
<1>7. PICK a \in BOOLEAN : a = ~Unpaired
    BY DEF Unpaired
<1>8. AllRead(stack, pool, tokens, toki, a)
    BY <1>7 DEF ElseInv
<1>9. AllRead(s2, p2, tokens, c2, TRUE)
    BY <1>1, <1>3, <1>5, <1>6, <1>8, ReadsResumed
<1>10. AllRead(stack', pool', tokens', toki', ~Unpaired')
    <2>1. PICK b \in BOOLEAN : b = ~Unpaired'
        BY DEF Unpaired
    <2>2. AllRead(s2, p2, tokens, c2, b)
        BY <1>9, AllPaired
    <2> QED
        BY <1>4, <2>1, <2>2
<1>11. Caller' = f
    <2>1. Caller' = stack'[Len(stack')]
        BY DEF Caller, Last
    <2> QED
        BY <1>3, <1>4, <1>5, <2>1
<1> QED
    BY <1>10, <1>11 DEF ElseInv

(* It returns.  If an else comes next its ifs all have one.                *)
LEMMA ElseReturned ==
    ASSUME ParserInv, ElseInv, tokens' = tokens, toki' \in Nat, TokensStay(pool, pool'),
           stack # <<>>, Caller.at \in StmtAt, stack' = Front(stack), pc' = "return",
           Inside(tokens, Caller.tok, toki'),
           current' = "TOK_ELSE" => Paired(tokens, 0, Caller.tok, toki')
    PROVE  ElseInv'
<1>1. Placed(stack, pool) /\ toki \in Nat
    BY StatementsBelow DEF ParserInv
<1>2. PICK S : stack \in Seq(S)
    BY DEF ParserInv, StackOK
<1>3. Len(stack) \in Nat /\ Len(stack) >= 1 /\ Caller = stack[Len(stack)]
    BY <1>2 DEF Caller, Last
<1>4. PICK s2, p2, c2 : s2 = stack' /\ p2 = pool' /\ c2 = toki'
    OBVIOUS
<1>5. Above(stack, s2, Len(stack) - 1, StmtAt) /\ Len(s2) = Len(stack) - 1
    BY <1>2, <1>4, AbovePop
<1>6. PICK a \in BOOLEAN, b \in BOOLEAN : a = ~Unpaired /\ b = (current' = "TOK_ELSE")
    BY DEF Unpaired
<1>7. AllRead(stack, pool, tokens, toki, a)
    BY <1>6 DEF ElseInv
<1>8. /\ Inside(tokens, stack[Len(stack)].tok, c2)
      /\ b => Paired(tokens, 0, stack[Len(stack)].tok, c2)
      /\ stack[Len(stack)].at \in StmtAt
      /\ c2 \in Nat /\ TokensStay(pool, p2)
    BY <1>3, <1>4, <1>6
<1>9. AllRead(s2, p2, tokens, c2, b)
    BY <1>1, <1>5, <1>7, <1>8, ReadsReturned
<1>10. AllRead(stack', pool', tokens', toki', ~Unpaired')
    <2>1. CASE stack' = <<>>
        <3>1. 1 .. Len(stack') = {}
            BY <2>1
        <3> QED
            BY <3>1 DEF AllRead
    <2>2. CASE stack' # <<>>
        <3>1. Last(Front(stack)).at \in Bodies
            BY <2>2, StmtCaller
        <3>2. Caller'.at \in Bodies
            BY <3>1 DEF Caller
        <3>3. b = ~Unpaired'
            BY <1>6, <2>2, <3>2 DEF Unpaired
        <3> QED
            BY <1>4, <1>9, <3>3
    <2> QED
        BY <2>1, <2>2
<1> QED
    BY <1>10 DEF ElseInv

(* A step of the expression parser keeps that.                             *)
LEMMA ExprElse ==
    ASSUME ParserInv, CursorSound, ElseInv, parse_expr
    PROVE  ElseInv'
<1>1. PlainMove
    BY ExprMoves
<1>2. ExprRises
    BY ExprAbove
<1>3. PICK m \in {Len(stack) - 1, Len(stack)} : Above(stack, stack', m, FrameAt)
    BY <1>2 DEF ExprRises
<1>4. PICK S : stack \in Seq(S)
    BY DEF ParserInv, StackOK
<1>5. Len(stack) \in Nat /\ Caller = stack[Len(stack)] /\ Caller.at \in FrameAt
    BY <1>2, <1>4 DEF Caller, Last, ExprRises
<1>6. FrameAt \cap StmtAt = {} /\ FrameAt \cap Bodies = {}
    BY DEF FrameAt, StmtAt, Bodies
<1>7. \A k \in m + 1 .. Len(stack) : stack[k].at \notin StmtAt
    <2>1. \A k \in m + 1 .. Len(stack) : k = Len(stack)
        BY <1>3, <1>5
    <2> QED
        BY <1>5, <1>6, <2>1
<1>8. ~Unpaired
    BY <1>5, <1>6 DEF Unpaired
<1>9. pc' # "stmt"
    BY <1>5 DEF parse_expr, PrefixOperator, new_unary, Primary, PrimaryIdentifier,
                PrimaryLiteral, PrimaryEnumLiteral, PrimaryGroup, PrimaryNone, CloseGroup, AtPrimary,
                PostfixMember, MemberField, MemberMissing, PostfixEmptyCall, PostfixCall,
                NextArgument, RepeatArgument, ParseNextArgument, CloseCall, PostfixIndex,
                IndexMissing, CloseIndex, ExpectTokenFails, PostfixEnd, TakeOperator, LeaveLoop,
                new_binary, ReturnTo
<1> QED
    BY <1>1, <1>3, <1>6, <1>7, <1>8, <1>9, ElseQuiet

(* The activation of parse_var_decl with other fields is one of it.        *)
LEMMA DeclFieldsSet ==
    ASSUME ParserInv, stack # <<>>, Caller.at \in DeclAt
    PROVE  /\ \A x : [Caller EXCEPT !.id = x].at \in DeclAt
           /\ \A x : [Caller EXCEPT !.type = x].at \in DeclAt
           /\ \A x, y : [Caller EXCEPT !.tok = x, !.name = y].at \in DeclAt
           /\ \A x \in DeclAt : \A y : [Caller EXCEPT !.at = x, !.type = y].at \in DeclAt
           /\ \A x \in DeclAt : [Caller EXCEPT !.at = x].at \in DeclAt
<1>1. PICK g \in DeclFrames(Len(types)) : g = Caller
    BY DeclCaller
<1>2. \A x : [g EXCEPT !.id = x].at \in DeclAt
    BY DEF DeclFrames
<1>3. \A x : [g EXCEPT !.type = x].at \in DeclAt
    BY DEF DeclFrames
<1>4. \A x, y : [g EXCEPT !.tok = x, !.name = y].at \in DeclAt
    BY DEF DeclFrames
<1>5. \A x \in DeclAt : \A y : [g EXCEPT !.at = x, !.type = y].at \in DeclAt
    BY DEF DeclFrames
<1>6. \A x \in DeclAt : [g EXCEPT !.at = x].at \in DeclAt
    BY DEF DeclFrames
<1> QED
    BY <1>1, <1>2, <1>3, <1>4, <1>5, <1>6, Zenon

(* So does a step of parse_var_decl.                                       *)
LEMMA DeclElse ==
    ASSUME ParserInv, CursorSound, ElseInv, parse_var_decl
    PROVE  ElseInv'
<1>1. PICK S : stack \in Seq(S)
    BY DEF ParserInv, StackOK
<1>2. PlainMove
    BY DeclMoves
<1>3. PICK A : A = FrameAt \cup DeclAt
    OBVIOUS
<1>4. /\ A \cap StmtAt = {} /\ DeclAt \cap Bodies = {} /\ DeclAt \cap StmtAt = {}
      /\ PrecedenceFrame(0).at \in A /\ DeclAt \subseteq A
    BY <1>3 DEF FrameAt, DeclAt, StmtAt, Bodies, PrecedenceFrame, Frame
<1>5. Len(stack) \in Nat /\ Caller = stack[Len(stack)]
    BY <1>1 DEF Caller, Last
\* a step at the activation on top
<1>6. ASSUME stack # <<>>, Caller.at \in DeclAt, Above(stack, stack', Len(stack) - 1, A), pc' # "stmt"
      PROVE  ElseInv'
    <2>1. PICK m : m = Len(stack) - 1
        OBVIOUS
    <2>2. \A k \in m + 1 .. Len(stack) : stack[k].at \notin StmtAt
        <3>1. \A k \in m + 1 .. Len(stack) : k = Len(stack)
            BY <1>5, <2>1
        <3> QED
            BY <1>4, <1>5, <1>6, <3>1
    <2>3. ~Unpaired
        BY <1>4, <1>6 DEF Unpaired
    <2>4. Above(stack, stack', m, A)
        BY <1>6, <2>1
    <2> QED
        BY <1>2, <1>4, <1>6, <2>2, <2>3, <2>4, ElseQuiet
\* a step above it
<1>7. ASSUME pc = "return" => (stack # <<>> => Caller.at \in DeclAt),
             Above(stack, stack', Len(stack), A), pc' # "stmt"
      PROVE  ElseInv'
    <2>1. PICK m : m = Len(stack)
        OBVIOUS
    <2>2. \A k \in m + 1 .. Len(stack) : stack[k].at \notin StmtAt
        BY <1>5, <2>1
    <2>3. ~Unpaired
        BY <1>4, <1>7 DEF Unpaired
    <2>4. Above(stack, stack', m, A)
        BY <1>7, <2>1
    <2> QED
        BY <1>2, <1>4, <1>7, <2>2, <2>3, <2>4, ElseQuiet
<1>8. pc \in {"declspec", "qualified", "pointers", "arrays"} => stack # <<>> /\ Caller.at \in DeclAt
    BY DEF ParserInv, TopOK, Caller, DeclAt
<1>9. \A at \in {"array_len", "initializer"} : ReturnTo(at) => stack # <<>> /\ Caller.at \in DeclAt
    BY DEF ReturnTo, DeclAt
<1>10. CASE parse_inferred_var_decl \/ parse_const_var_decl
    <2>1. PICK kw \in {"TOK_LET", "TOK_CONST"} : \E tag : Inferred(kw, tag)
        BY <1>10 DEF parse_inferred_var_decl, parse_const_var_decl
    <2>2. PICK tag : Inferred(kw, tag)
        BY <2>1
    <2>3. PICK f, g : f = DeclFrame("initializer", tag, toki, toki + 1) /\ g = PrecedenceFrame(0)
        OBVIOUS
    <2>4. pc = "var_decl" /\ pc' = "unary" /\ stack' = stack \o <<f, g>>
        BY <2>2, <2>3 DEF Inferred
    <2>5. f.at \in A /\ g.at \in A
        BY <1>4, <2>3 DEF DeclFrame, DeclAt
    <2>6. Above(stack, stack', Len(stack), A)
        BY <1>1, <2>4, <2>5, AboveTwo
    <2> QED
        BY <1>7, <2>4, <2>6
<1>11. CASE Qualifiers
    <2>1. PICK g : g = DeclFrame("declaration", "AST_VAR_DECL", NULL, NULL)
        OBVIOUS
    <2>2. PICK x, y : /\ stack' = Append(stack, [g EXCEPT !.is_const = x, !.is_static = y])
                      /\ pc = "var_decl" /\ pc' = "declspec"
        BY <1>11, <2>1 DEF Qualifiers, Typed
    <2>3. PICK f : f = [g EXCEPT !.is_const = x, !.is_static = y]
        OBVIOUS
    <2>4. f.at = "declaration"
        BY <2>1, <2>3 DEF DeclFrame
    <2>5. f.at \in A
        BY <1>4, <2>4 DEF DeclAt
    <2>6. Above(stack, stack', Len(stack), A)
        BY <1>1, <2>2, <2>3, <2>5, AbovePush
    <2> QED
        BY <1>7, <2>2, <2>6
<1>12. ASSUME stack # <<>>, Caller.at \in DeclAt, NEW f, f.at \in DeclAt, pc' # "stmt",
              \/ stack' = Append(Front(stack), f)
              \/ stack' = Front(stack) \o <<f, PrecedenceFrame(0)>>
       PROVE  ElseInv'
    <2>1. PICK g : g = PrecedenceFrame(0)
        OBVIOUS
    <2>2. f.at \in A /\ g.at \in A
        BY <1>4, <1>12, <2>1
    <2>3. Above(stack, stack', Len(stack) - 1, A)
        <3>1. CASE stack' = Append(Front(stack), f)
            BY <1>1, <1>12, <2>2, <3>1, AboveBecome
        <3>2. CASE stack' = Front(stack) \o <<f, g>>
            BY <1>1, <1>12, <2>2, <3>2, AboveCall
        <3> QED
            BY <1>12, <2>1, <3>1, <3>2
    <2> QED
        BY <1>6, <1>12, <2>3
<1>13. CASE \/ SpecPrimitive \/ SpecName \/ SpecEnd \/ PointerType \/ DeclaratorName
            \/ ArrayUnsized \/ CloseArray
    <2>1. stack # <<>> /\ Caller.at \in DeclAt /\ pc' # "stmt"
        BY <1>8, <1>9, <1>13 DEF SpecPrimitive, SpecName, SpecEnd, PointerType, DeclaratorName,
                                 ArrayUnsized, CloseArray
    <2>2. \E f : f.at \in DeclAt /\ stack' = Append(Front(stack), f)
        <3>1. "declaration" \in DeclAt
            BY DEF DeclAt
        <3>2. /\ \A x : [Caller EXCEPT !.id = x].at \in DeclAt
              /\ \A x : [Caller EXCEPT !.type = x].at \in DeclAt
              /\ \A x, y : [Caller EXCEPT !.tok = x, !.name = y].at \in DeclAt
              /\ \A y : [Caller EXCEPT !.at = "declaration", !.type = y].at \in DeclAt
            BY <2>1, <3>1, DeclFieldsSet
        <3>3. \/ \E x : stack' = Append(Front(stack), [Caller EXCEPT !.id = x])
              \/ \E x : stack' = Append(Front(stack), [Caller EXCEPT !.type = x])
              \/ \E x, y : stack' = Append(Front(stack), [Caller EXCEPT !.tok = x, !.name = y])
              \/ \E y : stack' = Append(Front(stack), [Caller EXCEPT !.at = "declaration", !.type = y])
            BY <1>13, Zenon DEF SpecPrimitive, SpecName, SpecEnd, PointerType, DeclaratorName,
                                ArrayUnsized, CloseArray, Become
        <3> QED
            BY <3>2, <3>3, Zenon
    <2> QED
        BY <1>12, <2>1, <2>2
<1>14. CASE ArrayLength \/ Initializer
    <2>1. stack # <<>> /\ Caller.at \in DeclAt /\ pc' # "stmt"
        BY <1>8, <1>14 DEF ArrayLength, Initializer, AwaitExpr
    <2>2. PICK at \in {"array_len", "initializer"} :
              stack' = Front(stack) \o <<[Caller EXCEPT !.at = at], PrecedenceFrame(0)>>
        BY <1>14 DEF ArrayLength, Initializer, AwaitExpr
    <2>3. PICK f : f = [Caller EXCEPT !.at = at]
        OBVIOUS
    <2>4. f.at \in DeclAt
        <3>1. at \in DeclAt
            BY DEF DeclAt
        <3> QED
            BY <2>1, <2>3, <3>1, DeclFieldsSet, Zenon
    <2> QED
        BY <1>12, <2>1, <2>2, <2>3, <2>4
<1>15. CASE SpecMember \/ DeclarationFails
    <2>1. /\ stack' = stack /\ pc' # "stmt"
          /\ pc = "return" => (stack # <<>> => Caller.at \in DeclAt)
        BY <1>9, <1>15 DEF SpecMember, DeclarationFails, Exit
    <2>2. Above(stack, stack', Len(stack), A)
        BY <1>1, <2>1, AboveSame
    <2> QED
        BY <1>7, <2>1, <2>2
<1>16. CASE Initialized \/ NoInitializer
    <2>1. stack # <<>> /\ Caller.at \in DeclAt /\ pc' # "stmt" /\ stack' = Front(stack)
        BY <1>8, <1>9, <1>16 DEF Initialized, NoInitializer, new_var_decl, Pop
    <2>2. Above(stack, stack', Len(stack) - 1, A)
        BY <1>1, <2>1, AbovePop
    <2> QED
        BY <1>6, <2>1, <2>2
<1> QED
    BY <1>10, <1>11, <1>13, <1>14, <1>15, <1>16, Zenon DEF parse_var_decl

(* The keyword of an if and its parenthesis.                               *)
LEMMA IfBegins ==
    ASSUME NEW ts, NEW i \in Nat, ts[i + 1] = "TOK_IF", ts[i + 2] \notin Control
    PROVE  Inside(ts, i, i + 2) /\ Paired(ts, 1, i, i + 2)
<1>1. PICK j \in Nat, k \in Nat, d \in Int : j = i + 1 /\ k = i + 2 /\ d = OpenBraces(ts, i)
    BY BracesStep
<1>2. OpenBraces(ts, j) = d /\ d \in Int
    BY <1>1, BracesStep
<1>3. ts[j + 1] \notin Control
    BY <1>1
<1>4. k = j + 1 /\ \A m \in j .. k - 1 : m = j
    BY <1>1
<1>5. Inside(ts, j, k) /\ Paired(ts, 0, j, k)
    BY <1>3, <1>4, PlainWhole
<1>6. Inside(ts, i, j)
    <2>1. \A m \in i .. j : m = i \/ m = j
        BY <1>1
    <2> QED
        BY <1>1, <1>2, <2>1 DEF Inside
<1>7. Paired(ts, 1, i, j)
    <2>1. Excess(ts, d, i, j) = 1
        BY <1>1, ExcessOne
    <2>2. Excess(ts, d, j, j) = 0
        BY ExcessNone
    <2>3. \A m \in i + 1 .. j : m = j
        BY <1>1
    <2> QED
        BY <1>1, <2>1, <2>2, <2>3 DEF Paired
<1>8. PICK n \in Int : n = 1
    OBVIOUS
<1>9. Paired(ts, n, i, k)
    BY <1>5, <1>6, <1>7, <1>8, PairedJoins
<1>10. Inside(ts, i, k)
    BY <1>5, <1>6, InsideJoins
<1> QED
    BY <1>1, <1>8, <1>9, <1>10

(* The one if that has no else takes it, and all behind it have one.       *)
LEMMA ElseTaken ==
    ASSUME NEW ts, NEW i \in Nat, NEW c \in Nat, Inside(ts, i, c), Paired(ts, 1, i, c),
           ts[c + 1] = "TOK_ELSE"
    PROVE  /\ Inside(ts, i, c + 1) /\ Paired(ts, 0, i, c + 1)
           /\ \A k \in i + 1 .. c : Excess(ts, OpenBraces(ts, i), k, c + 1) < 0
<1>1. PICK j \in Nat, d \in Int : j = c + 1 /\ d = OpenBraces(ts, i)
    BY BracesStep
<1>2. OpenBraces(ts, c) = d /\ OpenBraces(ts, j) = d /\ d \in Int /\ i <= c
    BY <1>1, BracesStep DEF Inside
<1>3. Excess(ts, d, c, j) = -1
    BY <1>1, <1>2, ExcessOne
<1>4. ASSUME NEW k \in i .. c
      PROVE  Excess(ts, d, k, j) = Excess(ts, d, k, c) - 1 /\ Excess(ts, d, k, c) \in Int
    <2>1. k \in Nat /\ k <= c /\ c <= j
        BY <1>1
    <2>2. Excess(ts, d, k, j) = Excess(ts, d, k, c) + Excess(ts, d, c, j)
          /\ Excess(ts, d, k, c) \in Int
        BY <2>1, ExcessAdds
    <2> QED
        BY <1>3, <2>2
<1>5. Excess(ts, d, i, j) = 0
    BY <1>1, <1>2, <1>4 DEF Paired
<1>6. \A k \in i + 1 .. c : Excess(ts, d, k, j) < 0
    <2> SUFFICES ASSUME NEW k \in i + 1 .. c PROVE Excess(ts, d, k, j) < 0
        OBVIOUS
    <2>1. k \in i .. c
        OBVIOUS
    <2>2. Excess(ts, d, k, c) <= 0
        BY <1>1 DEF Paired
    <2> QED
        BY <1>4, <2>1, <2>2
<1>7. \A k \in i + 1 .. j : Excess(ts, d, k, j) <= 0
    <2> SUFFICES ASSUME NEW k \in i + 1 .. j PROVE Excess(ts, d, k, j) <= 0
        OBVIOUS
    <2>1. k \in i + 1 .. c \/ k = j
        BY <1>1
    <2>2. Excess(ts, d, j, j) = 0
        BY ExcessNone
    <2>3. k \in i + 1 .. c => k \in i .. c
        OBVIOUS
    <2> QED
        BY <1>4, <1>6, <2>1, <2>2, <2>3
<1>8. Inside(ts, i, j)
    <2>1. \A k \in i .. j : k \in i .. c \/ k = j
        BY <1>1
    <2> QED
        BY <1>1, <1>2, <2>1 DEF Inside
<1> QED
    BY <1>1, <1>5, <1>6, <1>7, <1>8 DEF Paired

(* An opening brace.                                                       *)
LEMMA BlockBegins ==
    ASSUME NEW ts, NEW i \in Nat, ts[i + 1] = "TOK_LBRACE"
    PROVE  Opened(ts, i, i + 1)
<1>1. OpenBraces(ts, i + 1) = OpenBraces(ts, i) + 1 /\ OpenBraces(ts, i) \in Int
    BY BracesStep
<1>2. \A k \in i + 1 .. i + 1 : k = i + 1
    OBVIOUS
<1> QED
    BY <1>1, <1>2 DEF Opened

(* The calls of a statement.                                               *)
LEMMA CallElse ==
    ASSUME ParserInv, CursorSound, ElseInv,
           \/ parse_if \/ parse_while \/ parse_block \/ KeywordDeclaration
           \/ ExpressionStatement \/ ReturnStatement
    PROVE  ElseInv'
<1>1. toki \in Nat /\ current = Tok(toki) /\ tokens[toki + 1] = Tok(toki) /\ Len(pool) \in Nat
      /\ pool \in Seq(Nodes(Len(pool)))
    BY PoolSize DEF ParserInv, CursorSound, Tok
<1>2. PICK g : g = PrecedenceFrame(0)
    OBVIOUS
\* statements that are no if and no block
<1>3. ASSUME NEW at \in {"while_cond", "semicolon", "return_expr"}, NEW node,
             tokens' = tokens, pc = "stmt", pc' # "stmt",
             pool' = pool \/ \E x : pool' = Append(pool, x), PlainMove,
             \/ stack' = Append(stack, StmtFrame(at, toki, node, <<>>))
             \/ stack' = stack \o <<StmtFrame(at, toki, node, <<>>), PrecedenceFrame(0)>>
      PROVE  ElseInv'
    <2>1. PICK f : f = StmtFrame(at, toki, node, <<>>)
        OBVIOUS
    <2>2. f.at = at /\ f.at \in StmtAt /\ f.tok = toki /\ f.at \notin IfAt /\ Awaiting(f.at) = 0
          /\ f.at # "block"
        BY <2>1 DEF StmtFrame, StmtAt, IfAt, Awaiting
    <2>3. toki' \in Nat /\ TokensStay(pool, pool')
        BY <1>3 DEF PlainMove
    <2>4. Inside(tokens, toki, toki') /\ Paired(tokens, 0, toki, toki')
        BY <1>1, <1>3, PlainWhole DEF PlainMove
    <2>5. Reads(f, pool', tokens, toki', TRUE)
        BY <2>2, <2>4 DEF Reads
    <2> QED
        BY <1>3, <2>1, <2>2, <2>3, <2>5, ElseCalled
<1>4. CASE parse_if
    <2>1. PICK x, f, n : /\ x = [tag |-> "AST_IF", tok |-> toki, kids |-> <<NULL, NULL, NULL>>]
                         /\ n = Len(pool) + 1 /\ f = StmtFrame("if_cond", toki, n, <<>>)
        OBVIOUS
    <2>2. /\ pc = "stmt" /\ pc' = "unary" /\ tokens' = tokens /\ advance(2)
          /\ Tok(toki) = "TOK_IF" /\ Tok(toki + 1) = "TOK_LPAREN"
          /\ pool' = Append(pool, x) /\ stack' = stack \o <<f, PrecedenceFrame(0)>>
        BY <1>1, <1>4, <2>1 DEF parse_if, Conditional
    <2>3. f.at = "if_cond" /\ f.at \in StmtAt /\ f.tok = toki /\ f.node = n /\ f.at \in IfAt
          /\ Awaiting(f.at) = 1 /\ f.at # "block"
        BY <2>1 DEF StmtFrame, StmtAt, IfAt, Awaiting
    <2>4. TokensStay(pool, pool') /\ toki' = toki + 2 /\ toki' \in Nat
        BY <1>1, <2>2, NodeTokensStay DEF advance
    <2>5. pool'[n].tok = toki
        <3>1. PICK U : U = Nodes(Len(pool)) \cup {x}
            OBVIOUS
        <3>2. pool \in Seq(U) /\ x \in U
            BY <1>1, <3>1, WiderSeq
        <3>3. Append(pool, x)[n] = x
            BY <2>1, <3>2, PushOne
        <3> QED
            BY <2>1, <2>2, <3>3
    <2>6. tokens[toki + 1] = "TOK_IF" /\ tokens[toki + 2] = "TOK_LPAREN"
        BY <1>1, <2>2 DEF Tok
    <2>7. Inside(tokens, toki, toki') /\ Paired(tokens, 1, toki, toki')
        BY <1>1, <2>4, <2>6, IfBegins DEF Control
    <2>8. Reads(f, pool', tokens, toki', TRUE)
        BY <2>3, <2>5, <2>6, <2>7 DEF Reads
    <2> QED
        BY <2>2, <2>3, <2>4, <2>8, ElseCalled
<1>5. CASE parse_block
    <2>1. PICK f : f = StmtFrame("block", toki, NULL, <<>>)
        OBVIOUS
    <2>2. /\ pc = "stmt" /\ pc' = "block" /\ tokens' = tokens /\ advance(1) /\ pool' = pool
          /\ Tok(toki) = "TOK_LBRACE" /\ stack' = Append(stack, f)
        BY <1>1, <1>5, <2>1 DEF parse_block
    <2>3. f.at = "block" /\ f.at \in StmtAt /\ f.tok = toki /\ f.at \notin IfAt
        BY <2>1 DEF StmtFrame, StmtAt, IfAt
    <2>4. TokensStay(pool, pool') /\ toki' = toki + 1 /\ toki' \in Nat
        BY <1>1, <2>2, NodeTokensStay DEF advance
    <2>5. Opened(tokens, toki, toki')
        BY <1>1, <2>2, <2>4, BlockBegins
    <2>6. Reads(f, pool', tokens, toki', TRUE)
        BY <2>3, <2>5 DEF Reads
    <2> QED
        BY <2>2, <2>3, <2>4, <2>6, ElseCalled
<1>6. CASE parse_while
    <2>1. /\ pc = "stmt" /\ pc' = "unary" /\ tokens' = tokens /\ advance(2)
          /\ Tok(toki) = "TOK_WHILE" /\ Tok(toki + 1) = "TOK_LPAREN"
          /\ \E x : pool' = Append(pool, x)
          /\ stack' = stack \o <<StmtFrame("while_cond", toki, Len(pool) + 1, <<>>), PrecedenceFrame(0)>>
        BY <1>1, <1>6 DEF parse_while, Conditional
    <2>2. TokensStay(pool, pool')
        BY <2>1, NodeTokensStay
    <2>3. PlainMove
        BY <1>1, <2>1, <2>2, MovesPlain DEF Control
    <2> QED
        BY <1>3, <2>1, <2>3
<1>7. CASE KeywordDeclaration \/ ExpressionStatement
    <2>1. /\ pc = "stmt" /\ pc' # "stmt" /\ tokens' = tokens /\ toki' = toki /\ pool' = pool
          /\ \/ stack' = Append(stack, StmtFrame("semicolon", toki, NULL, <<>>))
             \/ stack' = stack \o <<StmtFrame("semicolon", toki, NULL, <<>>), PrecedenceFrame(0)>>
        BY <1>7 DEF KeywordDeclaration, ExpressionStatement
    <2>2. TokensStay(pool, pool')
        BY <2>1, NodeTokensStay
    <2>3. PlainMove
        BY <1>1, <2>1, <2>2, MovesPlain
    <2> QED
        BY <1>3, <2>1, <2>3
<1>8. CASE ReturnStatement
    <2>1. /\ pc = "stmt" /\ pc' = "unary" /\ tokens' = tokens /\ advance(1) /\ pool' = pool
          /\ Tok(toki) = "TOK_RETURN"
          /\ stack' = stack \o <<StmtFrame("return_expr", toki, NULL, <<>>), PrecedenceFrame(0)>>
        BY <1>1, <1>8 DEF ReturnStatement
    <2>2. TokensStay(pool, pool')
        BY <2>1, NodeTokensStay
    <2>3. PlainMove
        BY <1>1, <2>1, <2>2, MovesPlain DEF Control
    <2> QED
        BY <1>3, <2>1, <2>3
<1> QED
    BY <1>4, <1>5, <1>6, <1>7, <1>8

(* Those of an activation that goes on.                                    *)
LEMMA ResumeElse ==
    ASSUME ParserInv, CursorSound, ElseInv, IfCondition \/ WhileCondition \/ Else \/ BlockAppend
    PROVE  ElseInv'
<1>1. toki \in Nat /\ current = Tok(toki) /\ tokens[toki + 1] = Tok(toki) /\ Len(pool) \in Nat
    BY PoolSize DEF ParserInv, CursorSound, Tok
<1>2. /\ pc = "return" /\ stack # <<>> /\ Caller.at \in StmtAt /\ tokens' = tokens
    BY DEF IfCondition, WhileCondition, Condition, Else, BlockAppend, ReturnTo, StmtAt
<1>3. PICK g \in StmtFrames(Len(pool)) : g = Caller
    BY <1>2, StmtCaller
<1>4. /\ Reads(g, pool, tokens, toki, FALSE)
      /\ ~Unpaired => Reads(g, pool, tokens, toki, TRUE)
      /\ g.tok \in Nat /\ (g.at \in IfAt => g.node \in 1 .. Len(pool))
    BY <1>2, <1>3, TopReads
<1>5. /\ \A at \in StmtAt : /\ [g EXCEPT !.at = at].at = at /\ [g EXCEPT !.at = at].tok = g.tok
                            /\ [g EXCEPT !.at = at].node = g.node
      /\ \A stmts : /\ [g EXCEPT !.stmts = stmts].at = g.at /\ [g EXCEPT !.stmts = stmts].tok = g.tok
                    /\ [g EXCEPT !.stmts = stmts].node = g.node
    BY DEF StmtFrames
<1>6. CASE IfCondition \/ WhileCondition
    <2>1. PICK body \in {"then_body", "while_body"} :
              /\ body = "then_body" => g.at = "if_cond"
              /\ body = "while_body" => g.at = "while_cond"
              /\ stack' = Append(Front(stack), [Caller EXCEPT !.at = body])
        BY <1>3, <1>6 DEF IfCondition, WhileCondition, Condition, ReturnTo, Resume, Become
    <2>2. /\ Link(1) /\ advance(1) /\ Tok(toki) \notin Control /\ pc' = "stmt"
        BY <1>1, <1>6 DEF IfCondition, WhileCondition, Condition, Control
    <2>3. \E n, k : pool' = [pool EXCEPT ![n].kids[k] = ret]
        BY <2>2 DEF Link
    <2>4. TokensStay(pool, pool')
        BY <2>3, NodeTokensStay
    <2>5. PlainMove
        BY <1>1, <1>2, <2>2, <2>4, MovesPlain
    <2>6. toki' \in Nat /\ Inside(tokens, toki, toki') /\ Paired(tokens, 0, toki, toki')
        BY <1>1, <2>5, PlainWhole DEF PlainMove
    <2>7. ~Unpaired
        BY <1>3, <2>1 DEF Unpaired, Bodies
    <2>8. g.at \in IfAt => pool'[g.node].tok = pool[g.node].tok
        BY <1>4, <2>4 DEF TokensStay
    <2>9. PICK p2, c2 : p2 = pool' /\ c2 = toki' /\ c2 \in Nat
        BY <2>6
    <2>10. Reads(g, p2, tokens, c2, TRUE)
        BY <1>1, <1>4, <2>6, <2>7, <2>8, <2>9, ReadsOn
    <2>11. PICK f : f = [g EXCEPT !.at = body]
        OBVIOUS
    <2>12. f.at = body /\ f.tok = g.tok /\ f.node = g.node /\ body \in StmtAt
        BY <1>5, <2>11 DEF StmtAt
    <2>13. /\ f.at # "block" /\ g.at # "block" /\ Awaiting(f.at) = Awaiting(g.at)
           /\ f.at \in IfAt => g.at \in IfAt
        BY <2>1, <2>12 DEF Awaiting, IfAt
    <2>14. Reads(f, p2, tokens, c2, TRUE)
        BY <2>10, <2>12, <2>13 DEF Reads
    <2> QED
        BY <1>2, <1>3, <2>1, <2>4, <2>6, <2>9, <2>11, <2>12, <2>14, ElseResumed
<1>7. CASE BlockAppend
    <2>1. PICK stmts : stack' = Append(Front(stack), [Caller EXCEPT !.stmts = stmts])
        BY <1>7, Zenon DEF BlockAppend, Become
    <2>2. g.at = "block" /\ toki' = toki /\ pool' = pool /\ pc' = "block"
        BY <1>3, <1>7 DEF BlockAppend, ReturnTo
    <2>3. PICK f : f = [g EXCEPT !.stmts = stmts]
        OBVIOUS
    <2>4. f.at = g.at /\ f.tok = g.tok /\ f.node = g.node
        BY <1>5, <2>3
    <2>5. Reads(f, pool', tokens, toki', TRUE)
        BY <1>4, <2>2, <2>4 DEF Reads
    <2>6. TokensStay(pool, pool')
        BY <2>2, NodeTokensStay
    <2>7. stack' = Append(Front(stack), f) /\ f.at \in StmtAt /\ f.tok = Caller.tok /\ toki' \in Nat
        BY <1>1, <1>2, <1>3, <2>1, <2>2, <2>3, <2>4
    <2> QED
        BY <1>2, <2>2, <2>5, <2>6, <2>7, ElseResumed
<1>8. CASE Else
    <2>1. /\ stack' = Append(Front(stack), [Caller EXCEPT !.at = "else_body"])
          /\ Link(2) /\ advance(1) /\ Tok(toki) = "TOK_ELSE" /\ pc' = "stmt" /\ g.at = "then_body"
        BY <1>1, <1>3, <1>8 DEF Else, ReturnTo, Resume, Become
    <2>2. \E n, k : pool' = [pool EXCEPT ![n].kids[k] = ret]
        BY <2>1 DEF Link
    <2>3. TokensStay(pool, pool')
        BY <2>2, NodeTokensStay
    <2>4. ~Unpaired
        BY <1>1, <2>1 DEF Unpaired
    <2>5. Reads(g, pool, tokens, toki, TRUE)
        BY <1>4, <2>4
    <2>6. PICK i \in Nat : i = g.tok
        BY <1>4
    <2>7. Inside(tokens, i, toki) /\ Paired(tokens, 1, i, toki)
        BY <2>1, <2>5, <2>6 DEF Reads, Awaiting
    <2>8. /\ Inside(tokens, i, toki + 1) /\ Paired(tokens, 0, i, toki + 1)
          /\ \A k \in i + 1 .. toki : Excess(tokens, OpenBraces(tokens, i), k, toki + 1) < 0
        BY <1>1, <2>1, <2>7, ElseTaken
    <2>9. PICK f : f = [g EXCEPT !.at = "else_body"]
        OBVIOUS
    <2>10. f.at = "else_body" /\ f.tok = i /\ f.node = g.node /\ f.at \in StmtAt
           /\ f.at # "block" /\ Awaiting(f.at) = 0 /\ g.at \in IfAt
        BY <1>5, <2>1, <2>6, <2>9 DEF StmtAt, Awaiting, IfAt
    <2>11. toki' = toki + 1 /\ toki' \in Nat /\ toki' - 1 = toki
        BY <1>1, <2>1 DEF advance
    <2>12. tokens[f.tok + 1] = "TOK_IF" /\ pool'[f.node].tok = f.tok
        <3>1. tokens[g.tok + 1] = "TOK_IF" /\ pool[g.node].tok = g.tok
            BY <2>5, <2>10 DEF Reads
        <3>2. pool'[g.node].tok = pool[g.node].tok
            BY <1>4, <2>3, <2>10 DEF TokensStay
        <3> QED
            BY <2>6, <2>10, <3>1, <3>2
    <2>13. Reads(f, pool', tokens, toki', TRUE)
        BY <2>8, <2>10, <2>11, <2>12 DEF Reads
    <2>14. \A k \in f.tok + 1 .. toki' - 1 : Excess(tokens, OpenBraces(tokens, f.tok), k, toki') < 0
        BY <2>8, <2>10, <2>11
    <2>15. stack' = Append(Front(stack), f) /\ f.tok = Caller.tok
        BY <1>3, <2>1, <2>6, <2>9, <2>10
    <2> QED
        BY <1>2, <2>3, <2>10, <2>11, <2>13, <2>14, <2>15, ElseResumed
<1> QED
    BY <1>6, <1>7, <1>8

(* Those of a statement that ends.                                         *)
LEMMA ReturnElse ==
    ASSUME ParserInv, CursorSound, ElseInv,
           NoElse \/ ElseEnd \/ WhileEnd \/ BlockEnd \/ Semicolon \/ ReturnEnd
    PROVE  ElseInv'
<1>1. toki \in Nat /\ current = Tok(toki) /\ tokens[toki + 1] = Tok(toki) /\ Len(pool) \in Nat
    BY PoolSize DEF ParserInv, CursorSound, Tok
<1>2. /\ stack # <<>> /\ Caller.at \in StmtAt
    BY DEF NoElse, ElseEnd, WhileEnd, BodyEnd, BlockEnd, Semicolon, ReturnEnd, ReturnTo, ParserInv,
           TopOK, StmtAt, Caller
<1>3. /\ Reads(Caller, pool, tokens, toki, FALSE)
      /\ ~Unpaired => Reads(Caller, pool, tokens, toki, TRUE)
      /\ Caller.tok \in Nat
    BY <1>2, TopReads
<1>4. PICK i \in Nat : i = Caller.tok
    BY <1>3
<1>5. CASE NoElse \/ ElseEnd \/ WhileEnd
    <2>1. /\ stack' = Front(stack) /\ pc' = "return" /\ tokens' = tokens /\ toki' = toki
          /\ current' = current /\ \E k : Link(k)
          /\ Caller.at \in {"then_body", "else_body", "while_body"}
          /\ Caller.at = "then_body" => current # "TOK_ELSE"
        BY <1>5 DEF NoElse, ElseEnd, WhileEnd, BodyEnd, Return, Pop, ReturnTo
    <2>2. \E n, k : pool' = [pool EXCEPT ![n].kids[k] = ret]
        BY <2>1 DEF Link
    <2>3. TokensStay(pool, pool')
        BY <2>2, NodeTokensStay
    <2>4. Inside(tokens, i, toki)
        BY <1>3, <1>4, <2>1 DEF Reads
    <2>5. current = "TOK_ELSE" => Paired(tokens, 0, i, toki)
        <3>1. current = "TOK_ELSE" => ~Unpaired /\ Awaiting(Caller.at) = 0
            BY <2>1 DEF Unpaired, Awaiting
        <3> QED
            BY <1>3, <1>4, <2>1, <3>1 DEF Reads
    <2> QED
        BY <1>1, <1>2, <1>4, <2>1, <2>3, <2>4, <2>5, ElseReturned
<1>6. CASE BlockEnd
    <2>1. /\ stack' = Front(stack) /\ pc' = "return" /\ tokens' = tokens /\ advance(1)
          /\ pc = "block" /\ Tok(toki) = "TOK_RBRACE" /\ \E x : pool' = Append(pool, x)
        BY <1>6 DEF BlockEnd, new_node, Pop
    <2>2. TokensStay(pool, pool')
        BY <2>1, NodeTokensStay
    <2>3. Caller.at = "block"
        BY <2>1 DEF ParserInv, TopOK, Caller
    <2>4. Opened(tokens, i, toki)
        BY <1>3, <1>4, <2>3 DEF Reads
    <2>5. Inside(tokens, i, toki + 1) /\ Paired(tokens, 0, i, toki + 1)
        BY <1>1, <2>1, <2>4, BlockWhole
    <2>6. toki' = toki + 1 /\ toki' \in Nat
        BY <1>1, <2>1 DEF advance
    <2> QED
        BY <1>2, <1>4, <2>1, <2>2, <2>5, <2>6, ElseReturned
<1>7. CASE Semicolon \/ ReturnEnd
    <2>1. /\ stack' = Front(stack) /\ pc' = "return" /\ tokens' = tokens /\ advance(1)
          /\ Tok(toki) \notin Control /\ (pool' = pool \/ \E x : pool' = Append(pool, x))
          /\ Caller.at \in {"semicolon", "return_expr"}
        BY <1>1, <1>7 DEF Semicolon, ReturnEnd, new_node, Pop, ReturnTo, Control
    <2>2. TokensStay(pool, pool')
        BY <2>1, NodeTokensStay
    <2>3. PlainMove
        BY <1>1, <2>1, <2>2, MovesPlain
    <2>4. toki' \in Nat /\ Inside(tokens, toki, toki') /\ Paired(tokens, 0, toki, toki')
        BY <1>1, <2>3, PlainWhole DEF PlainMove
    <2>5. Reads(Caller, pool, tokens, toki, TRUE)
        BY <1>3, <2>1 DEF Unpaired, Bodies
    <2>6. Inside(tokens, i, toki) /\ Paired(tokens, 0, i, toki)
        BY <1>4, <2>1, <2>5 DEF Reads, Awaiting
    <2>7. PICK c2 \in Nat, n \in Int : c2 = toki' /\ n = 0
        BY <2>4
    <2>8. Inside(tokens, i, c2) /\ Paired(tokens, n, i, c2)
        BY <1>1, <2>4, <2>6, <2>7, InsideJoins, PairedJoins
    <2> QED
        BY <1>2, <1>4, <2>1, <2>2, <2>4, <2>7, <2>8, ElseReturned
<1> QED
    BY <1>5, <1>6, <1>7

(* Every step of the parser of statements.                                 *)
LEMMA ElseStep ==
    ASSUME ParserInv, CursorSound, ElseInv, [StmtNext]_declVars
    PROVE  ElseInv'
<1>1. toki \in Nat
    BY DEF ParserInv
<1>2. PICK S : stack \in Seq(S)
    BY DEF ParserInv, StackOK
<1>3. CASE parse_for_or_switch \/ BlockStatement \/ NamedDeclaration \/ StatementFails
    <2>1. /\ tokens' = tokens /\ toki' = toki /\ pool' = pool /\ stack' = stack
          /\ pc' = "stmt" => pc = "block"
        BY <1>3 DEF parse_for_or_switch, BlockStatement, NamedDeclaration, StatementFails, Exit
    <2>2. PlainMove
        BY <1>1, <2>1, NodeTokensStay, MovesPlain
    <2>3. ~Unpaired
        BY <1>3 DEF parse_for_or_switch, BlockStatement, NamedDeclaration, StatementFails, Unpaired,
                    Bodies, ReturnTo
    <2>4. PICK m, A : m = Len(stack) /\ A = {}
        OBVIOUS
    <2>5. Above(stack, stack', m, A) /\ A \cap StmtAt = {}
        BY <1>2, <2>1, <2>4, AboveSame
    <2>6. \A k \in m + 1 .. Len(stack) : stack[k].at \notin StmtAt
        BY <1>2, <2>4
    <2>7. pc' = "stmt" => (stack' # <<>> => Caller'.at # "else_body")
        BY <2>1 DEF ParserInv, TopOK, Caller
    <2> QED
        BY <2>2, <2>3, <2>5, <2>6, <2>7, ElseQuiet
<1>4. CASE parse_stmt
    BY <1>3, <1>4, CallElse, ResumeElse, ReturnElse, Zenon DEF parse_stmt
<1>5. CASE Finish /\ UNCHANGED types
    <2>1. stack' = <<>> /\ pc' = "done"
        BY <1>5 DEF Finish
    <2>2. 1 .. Len(stack') = {}
        BY <2>1
    <2> QED
        BY <2>1, <2>2 DEF ElseInv, AllRead
<1>6. CASE UNCHANGED declVars
    <2>1. UNCHANGED <<tokens, toki, current, pool, stack, pc>>
        BY <1>6 DEF declVars, vars
    <2>2. Caller' = Caller /\ Unpaired' = Unpaired
        BY <2>1 DEF Caller, Unpaired
    <2> QED
        BY <2>1, <2>2 DEF ElseInv
<1> QED
    BY <1>4, <1>5, <1>6, DeclElse, ExprElse DEF StmtNext

(* How many of the first n tokens have this tag.                           *)
UpToCount(ts, tag, n) == Cardinality({m \in 1 .. n : ts[m] = tag})

(* How many have it of those from i to k.                                  *)
FromCount(ts, tag, i, k) == Cardinality({m \in i .. k : ts[m + 1] = tag})

(* The tokens with this tag from i to k are as many as those up to k less  *)
(* those before i.                                                         *)
LEMMA CountsFrom ==
    ASSUME NEW ts, NEW tag, NEW i \in Nat, NEW k \in Nat, i <= k
    PROVE  /\ UpToCount(ts, tag, k + 1) = UpToCount(ts, tag, i) + FromCount(ts, tag, i, k)
           /\ UpToCount(ts, tag, i) \in Nat
           /\ FromCount(ts, tag, i, k) \in Nat
<1>1. PICK A : A = {m \in 1 .. i : ts[m] = tag}
    OBVIOUS
<1>2. PICK B : B = {m \in i .. k : ts[m + 1] = tag}
    OBVIOUS
<1>3. PICK C : C = {m \in i + 1 .. k + 1 : ts[m] = tag}
    OBVIOUS
<1>4. PICK a \in Int, b \in Int : a = i + 1 /\ b = k + 1
    OBVIOUS
<1>5. IsFiniteSet(A) /\ Cardinality(A) \in Nat
    <2>1. PICK one \in Int : one = 1 /\ i \in Int
        OBVIOUS
    <2>2. A \subseteq one .. i
        BY <1>1, <2>1
    <2> QED
        BY <2>1, <2>2, PartCounted, Zenon
<1>6. IsFiniteSet(B) /\ Cardinality(B) \in Nat
    <2>1. B \subseteq i .. k
        BY <1>2
    <2>2. i \in Int /\ k \in Int
        OBVIOUS
    <2> QED
        BY <2>1, <2>2, PartCounted, Zenon
<1>7. IsFiniteSet(C) /\ Cardinality(C) = Cardinality(B)
    <2>1. PICK f : f = [m \in B |-> m + 1]
        OBVIOUS
    <2>2. f \in [B -> C]
        BY <1>2, <1>3, <2>1
    <2>3. \A x, y \in B : f[x] = f[y] => x = y
        BY <1>2, <2>1
    <2>4. ASSUME NEW c \in C
          PROVE  \E x \in B : f[x] = c
        <3>1. c - 1 \in B /\ (c - 1) + 1 = c
            BY <1>2, <1>3
        <3> QED
            BY <2>1, <3>1
    <2>5. f \in Bijection(B, C)
        BY <2>2, <2>3, <2>4 DEF Bijection, Injection, Surjection, IsInjective
    <2>6. ExistsBijection(B, C)
        BY <2>5 DEF ExistsBijection
    <2> QED
        BY <1>6, <2>6, FS_Bijection
<1>8. A \cap C = {}
    BY <1>1, <1>3
<1>9. {m \in 1 .. k + 1 : ts[m] = tag} = A \cup C
    BY <1>1, <1>3
<1>10. Cardinality(A \cap C) = 0
    BY <1>8, FS_EmptySet
<1>11. Cardinality(A \cup C) = Cardinality(A) + Cardinality(C) - Cardinality(A \cap C)
    BY <1>5, <1>7, FS_Union
<1>12. Cardinality(A \cup C) = Cardinality(A) + Cardinality(B)
    BY <1>5, <1>6, <1>7, <1>10, <1>11
<1>13. /\ UpToCount(ts, tag, i) = Cardinality(A)
       /\ FromCount(ts, tag, i, k) = Cardinality(B)
       /\ UpToCount(ts, tag, k + 1) = Cardinality(A \cup C)
    BY <1>1, <1>2, <1>9, Zenon DEF UpToCount, FromCount
<1> QED
    BY <1>5, <1>6, <1>12, <1>13

(* The ifs and elses that are in no block inside are those at the depth of *)
(* the first token.                                                        *)
LEMMA BesideAtDepth ==
    ASSUME NEW tag \in {"TOK_IF", "TOK_ELSE"}, NEW i \in Nat, NEW j \in Nat
    PROVE  Beside(tag, i, j) = AtDepth(tokens, tag, OpenBraces(tokens, i), i, j + 1)
<1>1. ASSUME NEW k \in i .. j, tokens[k + 1] = tag
      PROVE  OpenBraces(tokens, k) = OpenBraces(tokens, i)
             <=> Cardinality({m \in i .. k : Tok(m) = "TOK_LBRACE"})
                    = Cardinality({m \in i .. k : Tok(m) = "TOK_RBRACE"})
    <2>1. k \in Nat /\ i <= k
        OBVIOUS
    <2>2. PICK ts : ts = tokens
        OBVIOUS
    <2>3. PICK open, close : open = "TOK_LBRACE" /\ close = "TOK_RBRACE"
        OBVIOUS
    <2>4. ASSUME NEW t
          PROVE  /\ UpToCount(ts, t, k + 1) = UpToCount(ts, t, i) + FromCount(ts, t, i, k)
                 /\ UpToCount(ts, t, i) \in Nat
                 /\ FromCount(ts, t, i, k) \in Nat
        BY <2>1, CountsFrom
    <2>5. \A n : OpenBraces(tokens, n) = UpToCount(ts, open, n) - UpToCount(ts, close, n)
        BY <2>2, <2>3, Zenon DEF OpenBraces, UpToCount
    <2>6. OpenBraces(tokens, k + 1) - OpenBraces(tokens, i)
              = FromCount(ts, open, i, k) - FromCount(ts, close, i, k)
        <3>1. PICK n \in Nat : n = k + 1
            OBVIOUS
        <3>2. /\ OpenBraces(tokens, n) = UpToCount(ts, open, n) - UpToCount(ts, close, n)
              /\ OpenBraces(tokens, i) = UpToCount(ts, open, i) - UpToCount(ts, close, i)
            BY <2>5, Zenon
        <3>3. /\ UpToCount(ts, open, n) = UpToCount(ts, open, i) + FromCount(ts, open, i, k)
              /\ UpToCount(ts, open, i) \in Nat /\ FromCount(ts, open, i, k) \in Nat
              /\ UpToCount(ts, close, n) = UpToCount(ts, close, i) + FromCount(ts, close, i, k)
              /\ UpToCount(ts, close, i) \in Nat /\ FromCount(ts, close, i, k) \in Nat
            BY <2>4, <3>1
        <3> QED
            BY <3>1, <3>2, <3>3
    <2>7. OpenBraces(tokens, k + 1) = OpenBraces(tokens, k)
        BY <1>1, <2>1, BracesStep
    <2>8. /\ FromCount(ts, open, i, k) = Cardinality({m \in i .. k : Tok(m) = "TOK_LBRACE"})
          /\ FromCount(ts, close, i, k) = Cardinality({m \in i .. k : Tok(m) = "TOK_RBRACE"})
        BY <2>2, <2>3, Zenon DEF Tok, FromCount
    <2>9. OpenBraces(tokens, k) \in Int /\ OpenBraces(tokens, i) \in Int
        BY <2>1, BracesStep
    <2> QED
        BY <2>4, <2>6, <2>7, <2>8, <2>9
<1>2. i .. j = i .. (j + 1) - 1
    OBVIOUS
<1> QED
    BY <1>1, <1>2 DEF Beside, AtDepth, Tok

(* They balance when their excess is nothing.                              *)
LEMMA BalancedExcess ==
    ASSUME NEW i \in Nat, NEW j \in Nat
    PROVE  Balanced(i, j) <=> Excess(tokens, OpenBraces(tokens, i), i, j + 1) = 0
<1>1. PICK A : A = Beside("TOK_IF", i, j)
    OBVIOUS
<1>2. PICK B : B = Beside("TOK_ELSE", i, j)
    OBVIOUS
<1>3. A \subseteq i .. j /\ B \subseteq i .. j
    BY <1>1, <1>2 DEF Beside
<1>4. Cardinality(A) \in Nat /\ Cardinality(B) \in Nat
    <2>1. i \in Int /\ j \in Int
        OBVIOUS
    <2> QED
        BY <1>3, <2>1, PartCounted, Zenon
<1>5. Excess(tokens, OpenBraces(tokens, i), i, j + 1) = Cardinality(A) - Cardinality(B)
    BY <1>1, <1>2, BesideAtDepth DEF Excess
<1> QED
    BY <1>1, <1>2, <1>4, <1>5 DEF Balanced

(* So the activation that has taken the else is that of the nearest if.    *)
LEMMA ElseShape ==
    ASSUME ParserInv, ElseInv
    PROVE  ElseToNearestIf
<1> DEFINE ElseNearest(if, else) ==
        Balanced(if, else) /\ \A k \in Beside("TOK_IF", if + 1, else) : ~Balanced(k, else)
<1> SUFFICES ASSUME pc = "stmt", stack # <<>>, Caller.at = "else_body"
             PROVE  /\ Balanced(pool[Caller.node].tok, toki - 1)
                    /\ \A k \in Beside("TOK_IF", pool[Caller.node].tok + 1, toki - 1) :
                           ~Balanced(k, toki - 1)
    BY DEF ElseToNearestIf
<1>1. Caller.at \in StmtAt /\ Caller.at \in IfAt /\ Caller.at # "block" /\ Awaiting(Caller.at) = 0
    BY DEF StmtAt, IfAt, Awaiting
<1>2. Reads(Caller, pool, tokens, toki, TRUE) /\ Caller.tok \in Nat
    BY <1>1, TopReads DEF Unpaired
<1>3. PICK i \in Nat, c \in Nat : i = Caller.tok /\ c = toki
    BY <1>2 DEF ParserInv
<1>4. /\ pool[Caller.node].tok = i /\ tokens[i + 1] = "TOK_IF"
      /\ Inside(tokens, i, c) /\ Paired(tokens, 0, i, c)
    BY <1>1, <1>2, <1>3 DEF Reads
<1>5. CASE i = c
    <2>1. i .. c - 1 = {} /\ i + 1 .. c - 1 = {}
        BY <1>5
    <2>2. /\ Beside("TOK_IF", i, c - 1) = {} /\ Beside("TOK_ELSE", i, c - 1) = {}
          /\ Beside("TOK_IF", i + 1, c - 1) = {}
        BY <2>1 DEF Beside
    <2> QED
        BY <1>3, <1>4, <2>2 DEF Balanced
<1> SUFFICES ASSUME i < c PROVE ElseNearest(i, c - 1)
    BY <1>3, <1>4, <1>5 DEF Inside, ElseNearest
<1>6. PICK e \in Nat : e = c - 1 /\ e + 1 = c
    OBVIOUS
<1>7. Balanced(i, e)
    <2>1. Excess(tokens, OpenBraces(tokens, i), i, e + 1) = 0
        BY <1>4, <1>6 DEF Paired
    <2> QED
        BY <2>1, BalancedExcess
<1>8. PICK j \in Nat : j = i + 1
    OBVIOUS
<1>9. ASSUME NEW k \in Beside("TOK_IF", j, e)
      PROVE  ~Balanced(k, e)
    <2>1. k \in AtDepth(tokens, "TOK_IF", OpenBraces(tokens, j), j, e + 1)
        BY <1>9, BesideAtDepth
    <2>2. k \in j .. c - 1 /\ OpenBraces(tokens, k) = OpenBraces(tokens, j) /\ k \in Nat
        BY <1>6, <1>8, <2>1 DEF AtDepth
    <2>3. OpenBraces(tokens, j) = OpenBraces(tokens, i)
        BY <1>4, <1>8, BracesStep
    <2>4. Excess(tokens, OpenBraces(tokens, i), k, c) < 0
        BY <1>3, <1>8, <2>2 DEF ElseInv
    <2>5. Excess(tokens, OpenBraces(tokens, k), k, e + 1) < 0
        BY <1>6, <2>2, <2>3, <2>4
    <2> QED
        BY <2>2, <2>5, BalancedExcess
<1> QED
    BY <1>6, <1>7, <1>8, <1>9 DEF ElseNearest

(* In every state of the parser of statements, for every set of texts: an  *)
(* else that is taken belongs to the nearest if before it that has none    *)
(* yet: between the two the ifs and elses outside of inner blocks balance, *)
(* and they do from no later if on.                                        *)
THEOREM ElseBelongsToNearestIf == StmtSpec => []ElseToNearestIf
<1> DEFINE Inv == ParserInv /\ CursorSound /\ ElseInv
<1>1. StmtInit => Inv
    <2> SUFFICES ASSUME StmtInit PROVE ElseInv
        BY NothingYet DEF StmtInit
    <2>1. stack = <<>> /\ pc = "stmt"
        BY DEF StmtInit
    <2>2. 1 .. Len(stack) = {}
        BY <2>1
    <2> QED
        BY <2>1, <2>2 DEF ElseInv, AllRead
<1>2. Inv /\ [StmtNext]_declVars => Inv'
    BY StmtStep, ElseStep
<1>3. Inv => ElseToNearestIf
    BY ElseShape
<1> HIDE DEF Inv
<1> QED
    BY <1>1, <1>2, <1>3, PTL DEF StmtSpec
=============================================================================
