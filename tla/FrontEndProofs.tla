--------------------------- MODULE FrontEndProofs ---------------------------
(***************************************************************************)
(* Proofs about the two passes of the front end, for every set of token    *)
(* sequences, on the invariant of the parsers: their types, the names that *)
(* pass 1 registers, and that pass 2 reads what pass 1 has accepted.       *)
(***************************************************************************)
EXTENDS ParserProofs

-----------------------------------------------------------------------------
(* The front end.                                                          *)

(* The head of a struct is on tokens of the text.                          *)
LEMMA HeadMoves ==
    ASSUME tokens \in Inputs, toki \in Nat, CursorSound, tokens' = tokens,
           Tok(toki) # "TOK_EOF", advance_head
    PROVE  toki' \in Nat /\ CursorSound'
<1>1. CASE Named /\ HasBody
    <2>1. Count(Named) = 1 /\ Count(HasBody) = 1
        BY <1>1 DEF Count
    <2>2. Tok(toki + 1) # "TOK_EOF" /\ Tok(toki + 2) # "TOK_EOF"
        BY <1>1, <2>1 DEF Named, HasBody
    <2>3. advance(3)
        BY <2>1 DEF advance_head
    <2> QED
        BY <2>2, <2>3, CursorMoves
<1>2. CASE Named /\ ~HasBody
    <2>1. Count(Named) = 1 /\ Count(HasBody) = 0
        BY <1>2 DEF Count
    <2>2. Tok(toki + 1) # "TOK_EOF"
        BY <1>2 DEF Named
    <2>3. advance(2)
        BY <2>1 DEF advance_head
    <2> QED
        BY <2>2, <2>3, CursorMoves
<1>3. CASE ~Named /\ HasBody
    <2>1. Count(Named) = 0 /\ Count(HasBody) = 1
        BY <1>3 DEF Count
    <2>2. Tok(toki + 1) # "TOK_EOF"
        BY <1>3, <2>1 DEF HasBody
    <2>3. advance(2)
        BY <2>1 DEF advance_head
    <2> QED
        BY <2>2, <2>3, CursorMoves
<1>4. CASE ~Named /\ ~HasBody
    <2>1. Count(Named) = 0 /\ Count(HasBody) = 0
        BY <1>4 DEF Count
    <2>2. advance(1)
        BY <2>1 DEF advance_head
    <2> QED
        BY <2>2, CursorMoves
<1> QED
    BY <1>1, <1>2, <1>3, <1>4

(* The frames of pass 1 rely on nothing, those of pass 2 on their struct.  *)
LEMMA RecordFrameMade ==
    ASSUME NEW n, NEW m, NEW p, NEW toks, NEW f \in RecordFrames
    PROVE  f \in Frames(n, m) /\ HeldFor(f, p, toks) /\ f.at \notin FrameAt /\ f.at \in RecordAt
<1>1. f \in Frames(n, m)
    BY Zenon DEF Frames
<1>2. f.at \in RecordAt
    BY DEF RecordFrames
<1>3. f.at \notin FrameAt /\ f.at \notin DOMAIN Owner /\ f.at \notin StructAt
    BY <1>2 DEF FrameAt, Owner, StructAt, RecordAt
<1>4. HeldFor(f, p, toks)
    BY <1>3 DEF HeldFor, FrameAt
<1> QED
    BY <1>1, <1>2, <1>3, <1>4

(* An activation of parse_struct_decl needs the struct that it fills.      *)
LEMMA StructFrameMade ==
    ASSUME NEW p, NEW m, NEW toks, NEW f \in StructFrames(Len(p)), p[f.node].tag = "AST_STRUCT"
    PROVE  f \in Frames(Len(p), m) /\ HeldFor(f, p, toks) /\ f.at \notin FrameAt /\ f.at \in StructAt
<1>1. f \in Frames(Len(p), m)
    BY Zenon DEF Frames
<1>2. f.at \in StructAt
    BY DEF StructFrames
<1>3. f.at \notin FrameAt /\ f.at \notin DOMAIN Owner
    BY <1>2 DEF FrameAt, Owner, StructAt
<1>4. HeldFor(f, p, toks)
    BY <1>3 DEF HeldFor, FrameAt
<1> QED
    BY <1>1, <1>2, <1>3, <1>4

(* An activation of record_struct_decl.                                    *)
LEMMA RecordCaller ==
    ASSUME ParserInv, stack # <<>>, Caller.at \in RecordAt
    PROVE  /\ Caller \in RecordFrames /\ Caller.name \in Seq(Int)
           /\ StackOK(Front(stack), pool, Len(types), tokens)
           /\ Front(stack) # <<>> => Last(Front(stack)).at = "record_nested"
<1>1. StackOK(stack, pool, Len(types), tokens) /\ Len(pool) \in Nat /\ Len(types) \in Nat
    BY PoolSize DEF ParserInv
<1>2. /\ Caller \in Frames(Len(pool), Len(types)) /\ StackOK(Front(stack), pool, Len(types), tokens)
      /\ Front(stack) # <<>> => Last(Front(stack)).at \in CallersOf(Caller.at)
    BY <1>1, StackPop DEF Caller
<1>3. Caller \in RecordFrames
    BY <1>1, <1>2, FrameKinds
<1>4. Front(stack) # <<>> => Last(Front(stack)).at = "record_nested"
    BY <1>2, CallersAre
<1> QED
    BY <1>2, <1>3, <1>4 DEF RecordFrames

(* An activation of record_struct_decl that goes on.                       *)
LEMMA RecordBecomes ==
    ASSUME ParserInv, stack # <<>>, Caller.at \in RecordAt, NEW f \in RecordFrames,
           stack' = Append(Front(stack), f)
    PROVE  StackOK(stack', pool, Len(types), tokens) /\ stack' # <<>> /\ Last(stack') = f
<1>1. StackOK(stack, pool, Len(types), tokens) /\ Len(pool) \in Nat /\ Len(types) \in Nat
    BY PoolSize DEF ParserInv
<1>2. /\ f \in Frames(Len(pool), Len(types)) /\ HeldFor(f, pool, tokens) /\ f.at \notin FrameAt
      /\ f.at \in RecordAt
    BY RecordFrameMade
<1>3. CallersOf(f.at) = CallersOf(Last(stack).at)
    BY <1>2, CallersAre DEF Caller
<1> QED
    BY <1>1, <1>2, <1>3, StackBecome

(* An activation of parse_struct_decl.                                     *)
LEMMA StructCaller ==
    ASSUME ParserInv, stack # <<>>, Caller.at \in StructAt
    PROVE  /\ Caller \in StructFrames(Len(pool)) /\ Caller.node \in 1 .. Len(pool)
           /\ Caller.child \in 0 .. Len(pool) /\ Caller.field \in 0 .. Len(pool)
           /\ pool[Caller.node].tag = "AST_STRUCT"
           /\ StackOK(Front(stack), pool, Len(types), tokens)
           /\ Front(stack) # <<>> => Last(Front(stack)).at = "struct_nested"
<1>1. StackOK(stack, pool, Len(types), tokens) /\ Len(pool) \in Nat /\ Len(types) \in Nat
    BY PoolSize DEF ParserInv
<1>2. /\ Caller \in Frames(Len(pool), Len(types)) /\ StackOK(Front(stack), pool, Len(types), tokens)
      /\ HeldFor(Caller, pool, tokens)
      /\ Front(stack) # <<>> => Last(Front(stack)).at \in CallersOf(Caller.at)
    BY <1>1, StackPop DEF Caller
<1>3. Caller \in StructFrames(Len(pool))
    BY <1>1, <1>2, FrameKinds
<1>4. Front(stack) # <<>> => Last(Front(stack)).at = "struct_nested"
    BY <1>2, CallersAre
<1>5. pool[Caller.node].tag = "AST_STRUCT"
    BY <1>2 DEF HeldFor
<1> QED
    BY <1>2, <1>3, <1>4, <1>5 DEF StructFrames

(* It goes on, perhaps with a larger pool.                                 *)
LEMMA StructBecomes ==
    ASSUME ParserInv, stack # <<>>, Caller.at \in StructAt, Extends(pool, pool'),
           NEW f \in StructFrames(Len(pool')), f.node = Caller.node,
           stack' = Append(Front(stack), f)
    PROVE  StackOK(stack', pool', Len(types), tokens) /\ stack' # <<>> /\ Last(stack') = f
<1>1. StackOK(stack, pool, Len(types), tokens) /\ Len(types) \in Nat
    BY PoolSize DEF ParserInv
<1>2. StackOK(stack, pool', Len(types), tokens) /\ Len(pool') \in Nat
    BY <1>1, StackKept DEF Extends
<1>3. pool'[f.node].tag = "AST_STRUCT"
    BY StructCaller DEF Extends
<1>4. /\ f \in Frames(Len(pool'), Len(types)) /\ HeldFor(f, pool', tokens) /\ f.at \notin FrameAt
      /\ f.at \in StructAt
    BY <1>3, StructFrameMade
<1>5. CallersOf(f.at) = CallersOf(Last(stack).at)
    BY <1>4, CallersAre DEF Caller
<1> QED
    BY <1>1, <1>2, <1>4, <1>5, StackBecome

(* The name under which a struct inside is registered.                     *)
LEMMA PrefixIsName ==
    ASSUME NEW name \in Seq(Int)
    PROVE  next_prefix(name) \in Seq(Int)
    BY DEF next_prefix, empty, Dot

(* Pass 1, while it is on a token of the text.                             *)
LEMMA RecordStep ==
    ASSUME ParserInv, CursorSound,
           \/ record_types \/ record_struct_decl \/ RecordNested \/ RecordNestedEnd
           \/ RecordField \/ RecordFieldEnd \/ RecordClose \/ RecordAgain
    PROVE  ParserInv' /\ CursorSound'
<1>0. /\ StackOK(stack, pool, Len(types), tokens) /\ Len(pool) \in Nat /\ Len(types) \in Nat
      /\ toki \in Nat /\ tokens \in Inputs /\ current = Tok(toki)
      /\ reported \in BOOLEAN /\ ret \in 0 .. Len(pool)
    BY PoolSize DEF ParserInv, CursorSound
<1>1. ASSUME \/ pc = "record_struct" \/ pc = "record_body" \/ ReturnTo("record_nested")
             \/ ReturnTo("record_field")
      PROVE  /\ stack # <<>> /\ Caller.at \in RecordAt /\ Caller \in RecordFrames
             /\ Caller.name \in Seq(Int) /\ StackOK(Front(stack), pool, Len(types), tokens)
             /\ Front(stack) # <<>> => Last(Front(stack)).at = "record_nested"
    <2>1. stack # <<>> /\ Caller.at \in RecordAt
        BY <1>1 DEF ParserInv, TopOK, ReturnTo, Caller, RecordAt
    <2> QED
        BY <2>1, RecordCaller
<1>2. ASSUME NEW at \in RecordAt, Resume(at), stack # <<>>, Caller.at \in RecordAt,
             Caller \in RecordFrames
      PROVE  StackOK(stack', pool, Len(types), tokens) /\ stack' # <<>> /\ Last(stack').at = at
    <2>1. PICK g \in RecordFrames : g = Caller
        BY <1>2
    <2>2. PICK f : f = [g EXCEPT !.at = at]
        OBVIOUS
    <2>3. f \in RecordFrames /\ f.at = at
        BY <2>2 DEF RecordFrames
    <2>4. stack' = Append(Front(stack), f)
        BY <1>2, <2>1, <2>2 DEF Resume, Become
    <2> QED
        BY <1>2, <2>3, <2>4, RecordBecomes
<1>3. CASE record_types
    <2>1. PICK f : f = RecordFrame("record", <<>>)
        OBVIOUS
    <2>2. /\ toki' = toki /\ current' = current /\ tokens' = tokens /\ pool' = pool /\ ret' = ret
          /\ reported' = reported /\ types' = types /\ pc' = "record_struct" /\ stack' = <<f>>
          /\ pc = "record_types"
        BY <1>3, <2>1 DEF record_types
    <2>3. toki' \in Nat /\ CursorSound'
        BY <1>0, <2>2, CursorMoves
    <2>4. f \in RecordFrames /\ f.at = "record"
        BY <2>1 DEF RecordFrame, RecordFrames, RecordAt
    <2>5. f \in Frames(Len(pool), Len(types)) /\ HeldFor(f, pool, tokens) /\ f.at \notin FrameAt
        BY <2>4, RecordFrameMade
    <2>6. stack = <<>>
        BY <2>2 DEF ParserInv, TopOK
    <2>7. stack' = Append(stack, f)
        BY <2>2, <2>6
    <2>8. StackOK(stack', pool, Len(types), tokens) /\ Last(stack') = f /\ stack' # <<>>
        <3>1. stack = <<>> => f.at \notin FrameAt
            BY <2>5
        <3>2. stack # <<>> => Last(stack).at \in CallersOf(f.at)
            BY <2>6
        <3> QED
            BY <1>0, <2>5, <2>7, <3>1, <3>2, StackPush
    <2>9. TopOK(stack', "record_struct")
        BY <2>4, <2>8 DEF TopOK
    <2> QED
        BY <1>0, <2>2, <2>3, <2>8, <2>9, MakesNone
<1>4. CASE record_struct_decl
    <2> DEFINE name == IF Named THEN Append(Caller.name, toki + 1) ELSE <<>>
    <2>1. /\ pc = "record_struct" /\ Tok(toki) # "TOK_EOF" /\ advance_head
          /\ tokens' = tokens /\ pool' = pool /\ ret' = ret
          /\ reported' = reported /\ types' = types
          /\ \/ stack' = Append(Front(stack), [Caller EXCEPT !.name = name]) /\ pc' = "record_body"
             \/ stack' = Front(stack) /\ pc' = "return"
        BY <1>0, <1>4 DEF record_struct_decl, Become, Pop
    <2>2. toki' \in Nat /\ CursorSound'
        BY <1>0, <2>1, HeadMoves
    <2>3. name \in Seq(Int)
        <3>1. ASSUME NEW a \in Seq(Int) PROVE Append(a, toki + 1) \in Seq(Int)
            BY <1>0
        <3>2. Append(Caller.name, toki + 1) \in Seq(Int) /\ <<>> \in Seq(Int)
            BY <1>1, <2>1, <3>1
        <3> QED
            BY <3>2
    <2>4. PICK g \in RecordFrames : g = Caller
        BY <1>1, <2>1
    <2> HIDE DEF name
    <2>5. PICK f : f = [g EXCEPT !.name = name]
        OBVIOUS
    <2>6. f \in RecordFrames /\ f.at = g.at
        BY <2>3, <2>5 DEF RecordFrames
    <2>7. Caller.at = "record"
        BY <2>1 DEF ParserInv, TopOK, Caller
    <2>8. CASE stack' = Append(Front(stack), f) /\ pc' = "record_body"
        <3>1. StackOK(stack', pool, Len(types), tokens) /\ stack' # <<>> /\ Last(stack') = f
            BY <1>1, <2>1, <2>6, <2>8, RecordBecomes
        <3>2. TopOK(stack', "record_body")
            BY <2>4, <2>6, <2>7, <3>1 DEF TopOK
        <3> QED
            BY <1>0, <2>1, <2>2, <2>8, <3>1, <3>2, MakesNone
    <2>9. CASE stack' = Front(stack) /\ pc' = "return"
        BY <1>0, <1>1, <2>1, <2>2, <2>9, MakesNone, TopReturn
    <2> QED
        BY <2>1, <2>4, <2>5, <2>8, <2>9
<1>5. CASE RecordNested
    <2>1. PICK g : g = Caller
        OBVIOUS
    <2>2. PICK f : f = [g EXCEPT !.at = "record_nested"]
        OBVIOUS
    <2>3. PICK h : h = RecordFrame("record", next_prefix(g.name))
        OBVIOUS
    <2>4. PICK s : s = Front(stack)
        OBVIOUS
    <2>5. /\ toki' = toki /\ current' = current /\ tokens' = tokens /\ pool' = pool /\ ret' = ret
          /\ reported' = reported /\ types' = types /\ pc' = "record_struct"
          /\ stack' = s \o <<f, h>> /\ pc = "record_body"
        BY <1>5, <2>1, <2>2, <2>3, <2>4 DEF RecordNested
    <2>6. toki' \in Nat /\ CursorSound'
        BY <1>0, <2>5, CursorMoves
    <2>7. f \in RecordFrames /\ f.at = "record_nested"
        BY <1>1, <2>1, <2>2, <2>5 DEF RecordFrames, RecordAt
    <2>8. h \in RecordFrames /\ h.at = "record"
        <3>1. next_prefix(g.name) \in Seq(Int)
            BY <1>1, <2>1, <2>5, PrefixIsName
        <3> QED
            BY <2>3, <3>1 DEF RecordFrame, RecordFrames, RecordAt
    <2>9. /\ f \in Frames(Len(pool), Len(types)) /\ HeldFor(f, pool, tokens) /\ f.at \notin FrameAt
          /\ h \in Frames(Len(pool), Len(types)) /\ HeldFor(h, pool, tokens) /\ h.at \notin FrameAt
        BY <2>7, <2>8, RecordFrameMade
    <2>10. /\ StackOK(s, pool, Len(types), tokens)
           /\ s # <<>> => Last(s).at \in CallersOf(f.at)
        BY <1>1, <2>4, <2>5, <2>7, CallersAre DEF RecordAt
    <2>11. PICK t : t = Append(s, f)
        OBVIOUS
    <2>12. StackOK(t, pool, Len(types), tokens) /\ t # <<>> /\ Last(t) = f
        BY <1>0, <2>9, <2>10, <2>11, StackPush
    <2>13. Last(t).at \in CallersOf(h.at)
        BY <2>7, <2>8, <2>12, CallersAre DEF RecordAt
    <2>14. /\ StackOK(Append(t, h), pool, Len(types), tokens) /\ Append(t, h) # <<>>
           /\ Last(Append(t, h)) = h
        BY <1>0, <2>9, <2>12, <2>13, StackPush
    <2>15. stack' = Append(t, h)
        <3>1. s \in Seq(Frames(Len(pool), Len(types)))
            BY <2>10 DEF StackOK
        <3> QED
            BY <2>5, <2>9, <2>11, <3>1, TwoPushes
    <2>16. TopOK(stack', "record_struct")
        BY <2>8, <2>14, <2>15 DEF TopOK
    <2> QED
        BY <1>0, <2>5, <2>6, <2>14, <2>15, <2>16, MakesNone
<1>6. CASE RecordNestedEnd
    <2>1. PICK at \in RecordAt : at = "record"
        BY DEF RecordAt
    <2>2. /\ ReturnTo("record_nested") /\ tokens' = tokens /\ pool' = pool /\ ret' = ret
          /\ reported' = reported /\ types' = types /\ pc' = "record_body" /\ Resume(at)
          /\ advance(IF current = "TOK_IDENTIFIER" THEN 2 ELSE 0)
          /\ current = "TOK_IDENTIFIER" => Tok(toki + 1) = "TOK_SEMICOLON"
        BY <1>6, <2>1 DEF RecordNestedEnd
    <2>3. toki' \in Nat /\ CursorSound'
        <3>1. CASE current = "TOK_IDENTIFIER"
            <4>1. advance(2) /\ Tok(toki) # "TOK_EOF" /\ Tok(toki + 1) # "TOK_EOF"
                BY <1>0, <2>2, <3>1
            <4> QED
                BY <1>0, <2>2, <4>1, CursorMoves
        <3>2. CASE current # "TOK_IDENTIFIER"
            <4>1. advance(0)
                BY <2>2, <3>2
            <4> QED
                BY <1>0, <2>2, <4>1, CursorMoves
        <3> QED
            BY <3>1, <3>2
    <2>4. StackOK(stack', pool, Len(types), tokens) /\ stack' # <<>> /\ Last(stack').at = at
        BY <1>1, <1>2, <2>2
    <2>5. TopOK(stack', "record_body")
        BY <2>1, <2>4 DEF TopOK
    <2> QED
        BY <1>0, <2>2, <2>3, <2>4, <2>5, MakesNone
<1>7. CASE RecordField
    <2>1. PICK at \in RecordAt : at = "record_field"
        BY DEF RecordAt
    <2>2. /\ toki' = toki /\ current' = current /\ tokens' = tokens /\ pool' = pool /\ ret' = ret
          /\ reported' = reported /\ types' = types /\ pc' = "var_decl" /\ Resume(at)
          /\ pc = "record_body"
        BY <1>7, <2>1 DEF RecordField
    <2>3. toki' \in Nat /\ CursorSound'
        BY <1>0, <2>2, CursorMoves
    <2>4. StackOK(stack', pool, Len(types), tokens) /\ stack' # <<>> /\ Last(stack').at = at
        BY <1>1, <1>2, <2>2
    <2>5. TopOK(stack', "var_decl")
        BY <2>1, <2>4 DEF TopOK
    <2> QED
        BY <1>0, <2>2, <2>3, <2>4, <2>5, MakesNone
<1>8. CASE RecordFieldEnd
    <2>1. PICK at \in RecordAt : at = "record"
        BY DEF RecordAt
    <2>2. /\ ReturnTo("record_field") /\ tokens' = tokens /\ pool' = pool /\ ret' = ret
          /\ reported' = reported /\ types' = types /\ pc' = "record_body" /\ Resume(at)
          /\ advance(1) /\ Tok(toki) # "TOK_EOF"
        BY <1>0, <1>8, <2>1 DEF RecordFieldEnd
    <2>3. toki' \in Nat /\ CursorSound'
        BY <1>0, <2>2, CursorMoves
    <2>4. StackOK(stack', pool, Len(types), tokens) /\ stack' # <<>> /\ Last(stack').at = at
        BY <1>1, <1>2, <2>2
    <2>5. TopOK(stack', "record_body")
        BY <2>1, <2>4 DEF TopOK
    <2> QED
        BY <1>0, <2>2, <2>3, <2>4, <2>5, MakesNone
<1>9. CASE RecordClose
    <2>1. /\ advance(1) /\ tokens' = tokens /\ pool' = pool /\ ret' = ret /\ Tok(toki) # "TOK_EOF"
          /\ reported' = reported /\ types' = types /\ pc' = "return" /\ stack' = Front(stack)
          /\ pc = "record_body"
        BY <1>0, <1>9 DEF RecordClose, Pop
    <2>2. toki' \in Nat /\ CursorSound'
        BY <1>0, <2>1, CursorMoves
    <2> QED
        BY <1>0, <1>1, <2>1, <2>2, MakesNone, TopReturn
<1>10. CASE RecordAgain
    <2>1. /\ toki' = toki /\ current' = current /\ tokens' = tokens /\ pool' = pool /\ ret' = ret
          /\ reported' = reported /\ types' = types /\ pc' = "record_types" /\ stack' = stack
          /\ stack = <<>>
        BY <1>10 DEF RecordAgain
    <2>2. toki' \in Nat /\ CursorSound'
        BY <1>0, <2>1, CursorMoves
    <2>3. TopOK(stack', "record_types")
        BY <2>1 DEF TopOK
    <2> QED
        BY <1>0, <2>1, <2>2, <2>3, MakesNone
<1> QED
    BY <1>3, <1>4, <1>5, <1>6, <1>7, <1>8, <1>9, <1>10

(* A struct node with other lists is one.                                  *)
LEMMA StructLists ==
    ASSUME NEW n \in Nat, NEW y \in Nodes(n), y.tag = "AST_STRUCT"
    PROVE  /\ y \in [tag : {"AST_STRUCT"}, tok : Nat, kids : Seq(0 .. n), sub_decls : Seq(0 .. n)]
           /\ y.kids \in Seq(0 .. n) /\ y.sub_decls \in Seq(0 .. n)
<1>1. PICK S : S = [tag : {"AST_STRUCT"}, tok : Nat, kids : Seq(0 .. n), sub_decls : Seq(0 .. n)]
    OBVIOUS
<1>2. y \in S
    <2>1. "AST_STRUCT" \notin PlainTags /\ "AST_STRUCT" \notin DeclTags
        BY DEF PlainTags, DeclTags, BinaryTags, UnaryTags, LeafTags, PostfixTags
    <2> QED
        BY <1>1, <2>1 DEF Nodes
<1> QED
    BY <1>1, <1>2

(* A list of nodes that gets one more.                                     *)
LEMMA OneMore ==
    ASSUME NEW S, NEW a \in Seq(S), NEW x \in S
    PROVE  Append(a, x) \in Seq(S)
    OBVIOUS

(* A node is collected in the lists of the struct around it.               *)
LEMMA Collected ==
    ASSUME ParserInv, stack # <<>>, Caller.at \in StructAt, NEW kid \in 0 .. Len(pool),
           NEW sub \in 0 .. Len(pool),
           \/ pool' = [pool EXCEPT ![Caller.node].kids = Append(@, kid)]
           \/ pool' = [pool EXCEPT ![Caller.node].sub_decls = Append(@, sub)]
           \/ pool' = [pool EXCEPT ![Caller.node].kids = Append(@, kid),
                                   ![Caller.node].sub_decls = Append(@, sub)]
    PROVE  pool' \in Seq(Nodes(Len(pool'))) /\ Extends(pool, pool') /\ Len(pool') = Len(pool)
<1>0. Len(pool) \in Nat /\ pool \in Seq(Nodes(Len(pool)))
    BY PoolSize DEF ParserInv
<1>1. PICK n \in 1 .. Len(pool) : n = Caller.node /\ pool[n].tag = "AST_STRUCT"
    BY StructCaller
<1>2. PICK y \in Nodes(Len(pool)) : y = pool[n] /\ y.tag = "AST_STRUCT"
    BY <1>0, <1>1
<1>3. y.kids \in Seq(0 .. Len(pool)) /\ y.sub_decls \in Seq(0 .. Len(pool))
    BY <1>0, <1>2, StructLists
<1>4. PICK kids \in Seq(0 .. Len(pool)), subs \in Seq(0 .. Len(pool)) :
          kids = Append(y.kids, kid) /\ subs = Append(y.sub_decls, sub)
    BY <1>3, OneMore
<1>5. PICK S : /\ S = [tag : {"AST_STRUCT"}, tok : Nat, kids : Seq(0 .. Len(pool)),
                       sub_decls : Seq(0 .. Len(pool))]
               /\ S \subseteq Nodes(Len(pool)) /\ y \in S
    <2>1. PICK S : S = [tag : {"AST_STRUCT"}, tok : Nat, kids : Seq(0 .. Len(pool)),
                        sub_decls : Seq(0 .. Len(pool))]
        OBVIOUS
    <2>2. S \subseteq Nodes(Len(pool))
        BY <2>1, Zenon DEF Nodes
    <2> QED
        BY <1>0, <1>2, <2>1, <2>2, StructLists
<1>6. \E x \in Nodes(Len(pool)) : x.tag = pool[n].tag /\ pool' = [pool EXCEPT ![n] = x]
    <2>1. CASE pool' = [pool EXCEPT ![Caller.node].kids = Append(@, kid)]
        <3>1. PICK x : x = [y EXCEPT !.kids = kids]
            OBVIOUS
        <3>2. x \in S /\ x.tag = y.tag
            BY <1>4, <1>5, <3>1
        <3>3. pool' = [pool EXCEPT ![n] = x]
            BY <1>1, <1>2, <1>4, <2>1, <3>1
        <3> QED
            BY <1>2, <1>5, <3>2, <3>3
    <2>2. CASE pool' = [pool EXCEPT ![Caller.node].sub_decls = Append(@, sub)]
        <3>1. PICK x : x = [y EXCEPT !.sub_decls = subs]
            OBVIOUS
        <3>2. x \in S /\ x.tag = y.tag
            BY <1>4, <1>5, <3>1
        <3>3. pool' = [pool EXCEPT ![n] = x]
            BY <1>1, <1>2, <1>4, <2>2, <3>1
        <3> QED
            BY <1>2, <1>5, <3>2, <3>3
    <2>3. CASE pool' = [pool EXCEPT ![Caller.node].kids = Append(@, kid),
                                    ![Caller.node].sub_decls = Append(@, sub)]
        <3>1. PICK x : x = [y EXCEPT !.kids = kids, !.sub_decls = subs]
            OBVIOUS
        <3>2. x \in S /\ x.tag = y.tag
            BY <1>4, <1>5, <3>1
        <3>3. pool' = [pool EXCEPT ![n] = x]
            <4>1. pool' = [pool EXCEPT ![n].kids = Append(@, kid), ![n].sub_decls = Append(@, sub)]
                BY <1>1, <2>3
            <4> QED
                BY <1>0, <1>1, <1>2, <1>4, <3>1, <4>1
        <3> QED
            BY <1>2, <1>5, <3>2, <3>3
    <2> QED
        BY <2>1, <2>2, <2>3
<1>7. PICK x \in Nodes(Len(pool)) : x.tag = pool[n].tag /\ pool' = [pool EXCEPT ![n] = x]
    BY <1>6
<1> QED
    BY <1>0, <1>7, PoolChange

(* Pass 2.                                                                 *)
LEMMA StructStep ==
    ASSUME ParserInv, CursorSound, ParseStruct \/ StructFails
    PROVE  ParserInv' /\ CursorSound'
<1>0. /\ StackOK(stack, pool, Len(types), tokens) /\ Len(pool) \in Nat /\ Len(types) \in Nat
      /\ toki \in Nat /\ tokens \in Inputs /\ current = Tok(toki)
      /\ reported \in BOOLEAN /\ ret \in 0 .. Len(pool) /\ NULL \in 0 .. Len(pool)
      /\ pool \in Seq(Nodes(Len(pool)))
    BY PoolSize DEF ParserInv, CursorSound, NULL
<1>1. ASSUME \/ pc = "struct_body" \/ ReturnTo("struct_field") \/ ReturnTo("struct_nested")
             \/ ReturnTo("nested_field")
      PROVE  /\ stack # <<>> /\ Caller.at \in StructAt /\ Caller \in StructFrames(Len(pool))
             /\ Caller.node \in 1 .. Len(pool)
             /\ Caller.child \in 0 .. Len(pool) /\ Caller.field \in 0 .. Len(pool)
             /\ StackOK(Front(stack), pool, Len(types), tokens)
             /\ Front(stack) # <<>> => Last(Front(stack)).at = "struct_nested"
    <2>1. stack # <<>> /\ Caller.at \in StructAt
        BY <1>1 DEF ParserInv, TopOK, ReturnTo, Caller, StructAt
    <2> QED
        BY <2>1, StructCaller
<1>2. ASSUME NEW at \in StructAt, Resume(at), stack # <<>>, Caller.at \in StructAt,
             Caller \in StructFrames(Len(pool)), Extends(pool, pool'), Len(pool') = Len(pool)
      PROVE  StackOK(stack', pool', Len(types), tokens) /\ stack' # <<>> /\ Last(stack').at = at
    <2>1. PICK g \in StructFrames(Len(pool)) : g = Caller
        BY <1>2
    <2>2. PICK f : f = [g EXCEPT !.at = at]
        OBVIOUS
    <2>3. f \in StructFrames(Len(pool)) /\ f.at = at /\ f.node = g.node
        BY <2>2 DEF StructFrames
    <2>4. stack' = Append(Front(stack), f) /\ f \in StructFrames(Len(pool')) /\ f.node = Caller.node
        BY <1>2, <2>1, <2>2, <2>3 DEF Resume, Become
    <2> QED
        BY <1>2, <2>3, <2>4, StructBecomes
<1>3. pool' = pool => Extends(pool, pool') /\ Len(pool') = Len(pool)
    BY PoolUnchanged
<1>4. CASE parse_struct_decl
    <2>1. PICK x : x = [tag |-> "AST_STRUCT", tok |-> toki + Count(Named), kids |-> <<>>,
                        sub_decls |-> <<>>]
        OBVIOUS
    <2>2. PICK n : n = Len(pool) + 1
        OBVIOUS
    <2>3. PICK f : f = StructFrame("struct", n, NULL, NULL)
        OBVIOUS
    <2>4. /\ pc = "struct_decl" /\ Tok(toki) # "TOK_EOF" /\ advance_head
          /\ tokens' = tokens /\ pool' = Append(pool, x)
          /\ reported' = reported /\ types' = types
          /\ \/ stack' = Append(stack, f) /\ pc' = "struct_body" /\ ret' = ret
             \/ ret' = n /\ pc' = "return" /\ stack' = stack
        BY <1>0, <1>4, <2>1, <2>2, <2>3 DEF parse_struct_decl
    <2>5. toki' \in Nat /\ CursorSound'
        BY <1>0, <2>4, HeadMoves
    <2>6. x \in Nodes(Len(pool)) /\ x.tag = "AST_STRUCT"
        <3>1. toki + Count(Named) \in Nat /\ <<>> \in Seq(0 .. Len(pool))
            BY <1>0 DEF Count
        <3>2. x \in [tag : {"AST_STRUCT"}, tok : Nat, kids : Seq(0 .. Len(pool)),
                     sub_decls : Seq(0 .. Len(pool))]
            BY <2>1, <3>1
        <3> QED
            BY <2>1, <3>2, Zenon DEF Nodes
    <2>7. /\ pool' \in Seq(Nodes(Len(pool'))) /\ Extends(pool, pool')
          /\ Len(pool') = n /\ pool'[n] = x /\ n \in Nat /\ n = Len(pool) + 1
        BY <1>0, <2>2, <2>4, <2>6, PoolNew
    <2>8. StackOK(stack, pool', Len(types), tokens)
        BY <1>0, <2>7, StackKept
    <2>9. CASE stack' = Append(stack, f) /\ pc' = "struct_body" /\ ret' = ret
        <3>1. f \in StructFrames(Len(pool')) /\ f.at = "struct" /\ f.node = n
            <4>1. n \in 1 .. n /\ NULL \in 0 .. n
                BY <1>0, <2>7 DEF NULL
            <4> QED
                BY <2>3, <2>7, <4>1 DEF StructFrame, StructFrames, StructAt
        <3>2. pool'[f.node].tag = "AST_STRUCT"
            BY <2>6, <2>7, <3>1
        <3>3. f \in Frames(Len(pool'), Len(types)) /\ HeldFor(f, pool', tokens) /\ f.at \notin FrameAt
            BY <3>1, <3>2, StructFrameMade
        <3>4. stack # <<>> => Last(stack).at \in CallersOf(f.at)
            BY <2>4, <3>1, CallersAre DEF StructAt, ParserInv, TopOK
        <3>5. StackOK(stack', pool', Len(types), tokens) /\ Last(stack') = f /\ stack' # <<>>
            BY <1>0, <2>7, <2>8, <2>9, <3>3, <3>4, StackPush
        <3>6. TopOK(stack', "struct_body")
            BY <3>1, <3>5 DEF TopOK
        <3>7. ret' \in 0 .. Len(pool')
            BY <1>0, <2>7, <2>9
        <3> QED
            BY <1>0, <2>4, <2>5, <2>7, <2>9, <3>5, <3>6, <3>7, Kept
    <2>10. CASE ret' = n /\ pc' = "return" /\ stack' = stack
        <3>1. ret' \in 0 .. Len(pool')
            BY <1>0, <2>7, <2>10
        <3> QED
            BY <1>0, <2>4, <2>5, <2>7, <2>8, <2>10, <3>1, Kept, TopReturn
    <2> QED
        BY <2>4, <2>9, <2>10
<1>5. CASE StructField \/ StructNested
    <2>1. PICK at \in StructAt : /\ Resume(at)
                                 /\ \/ at = "struct_field" /\ pc' = "var_decl"
                                    \/ at = "struct_nested" /\ pc' = "struct_decl"
        BY <1>5 DEF StructField, StructNested, StructAt
    <2>2. /\ toki' = toki /\ current' = current /\ tokens' = tokens /\ pool' = pool /\ ret' = ret
          /\ reported' = reported /\ types' = types /\ pc = "struct_body"
        BY <1>5 DEF StructField, StructNested
    <2>3. toki' \in Nat /\ CursorSound'
        BY <1>0, <2>2, CursorMoves
    <2>4. StackOK(stack', pool', Len(types), tokens) /\ stack' # <<>> /\ Last(stack').at = at
        BY <1>1, <1>2, <1>3, <2>1, <2>2
    <2>5. TopOK(stack', pc')
        BY <2>1, <2>4 DEF TopOK
    <2>6. StackOK(stack', pool, Len(types), tokens) /\ pc' # "postfix"
        BY <2>1, <2>2, <2>4
    <2> QED
        BY <1>0, <2>2, <2>3, <2>5, <2>6, MakesNone
<1>6. CASE StructFieldEnd
    <2>1. PICK at \in StructAt : at = "struct"
        BY DEF StructAt
    <2>2. /\ ReturnTo("struct_field") /\ tokens' = tokens /\ ret' = ret
          /\ reported' = reported /\ types' = types /\ pc' = "struct_body" /\ Resume(at)
          /\ advance(1) /\ Tok(toki) # "TOK_EOF"
          /\ pool' = [pool EXCEPT ![Caller.node].kids = Append(@, ret)]
        BY <1>0, <1>6, <2>1 DEF StructFieldEnd
    <2>3. toki' \in Nat /\ CursorSound'
        BY <1>0, <2>2, CursorMoves
    <2>4. pool' \in Seq(Nodes(Len(pool'))) /\ Extends(pool, pool') /\ Len(pool') = Len(pool)
        BY <1>0, <1>1, <2>2, Collected
    <2>5. StackOK(stack', pool', Len(types), tokens) /\ stack' # <<>> /\ Last(stack').at = at
        BY <1>1, <1>2, <2>2, <2>4
    <2>6. TopOK(stack', "struct_body")
        BY <2>1, <2>5 DEF TopOK
    <2>7. ret' \in 0 .. Len(pool')
        BY <1>0, <2>2, <2>4
    <2> QED
        BY <1>0, <2>2, <2>3, <2>4, <2>5, <2>6, <2>7, Kept
<1>7. ASSUME stack # <<>>, Caller.at \in StructAt, Caller.node \in 1 .. Len(pool),
             NEW nodes, ReturnEarly(nodes), UNCHANGED <<tokens, reported, types>>, toki' \in Nat,
             pool' \in Seq(Nodes(Len(pool'))), Extends(pool, pool'), Len(pool') = Len(pool),
             StackOK(Front(stack), pool, Len(types), tokens)
      PROVE  ParserInv'
    <2>1. ret' = Caller.node /\ stack' = Front(stack) /\ pc' = "return"
        BY <1>7 DEF ReturnEarly, Pop
    <2>2. StackOK(stack', pool', Len(types), tokens)
        BY <1>0, <1>7, <2>1, StackKept
    <2>3. ret' \in 0 .. Len(pool')
        BY <1>7, <2>1
    <2> QED
        BY <1>0, <1>7, <2>1, <2>2, <2>3, Kept, TopReturn
<1>8. CASE StructNestedEnd
    <2>1. PICK nodes : nodes = [pool EXCEPT ![Caller.node].sub_decls = Append(@, ret)]
        OBVIOUS
    <2>2. /\ ReturnTo("struct_nested") /\ toki' = toki /\ current' = current /\ tokens' = tokens
          /\ UNCHANGED <<tokens, reported, types>> /\ ReturnEarly(nodes) /\ pool' = nodes
        BY <1>8, <2>1 DEF StructNestedEnd, ReturnEarly
    <2>3. toki' \in Nat /\ CursorSound'
        BY <1>0, <2>2, CursorMoves
    <2>4. pool' \in Seq(Nodes(Len(pool'))) /\ Extends(pool, pool') /\ Len(pool') = Len(pool)
        BY <1>0, <1>1, <2>1, <2>2, Collected
    <2> QED
        BY <1>1, <1>7, <2>2, <2>3, <2>4
<1>9. CASE NestedFieldEnd
    <2>1. PICK nodes : nodes = [pool EXCEPT ![Caller.node].kids = Append(@, Caller.field),
                                            ![Caller.node].sub_decls = Append(@, Caller.child)]
        OBVIOUS
    <2>2. /\ ReturnTo("nested_field") /\ advance(1) /\ Tok(toki) # "TOK_EOF" /\ tokens' = tokens
          /\ UNCHANGED <<tokens, reported, types>> /\ ReturnEarly(nodes) /\ pool' = nodes
        BY <1>0, <1>9, <2>1 DEF NestedFieldEnd, ReturnEarly
    <2>3. toki' \in Nat /\ CursorSound'
        BY <1>0, <2>2, CursorMoves
    <2>4. pool' \in Seq(Nodes(Len(pool'))) /\ Extends(pool, pool') /\ Len(pool') = Len(pool)
        BY <1>0, <1>1, <2>1, <2>2, Collected
    <2> QED
        BY <1>1, <1>7, <2>2, <2>3, <2>4
<1>10. CASE StructClose
    <2>1. /\ advance(1) /\ tokens' = tokens /\ pool' = pool /\ ret' = Caller.node
          /\ Tok(toki) # "TOK_EOF" /\ reported' = reported /\ types' = types /\ pc' = "return"
          /\ stack' = Front(stack) /\ pc = "struct_body"
        BY <1>0, <1>10 DEF StructClose, Pop
    <2>2. toki' \in Nat /\ CursorSound'
        BY <1>0, <2>1, CursorMoves
    <2>3. ret' \in 0 .. Len(pool)
        BY <1>1, <2>1
    <2> QED
        BY <1>0, <1>1, <2>1, <2>2, <2>3, MakesNone, TopReturn
<1>11. CASE NestedField
    <2>1. PICK x : x = [tag |-> "AST_VAR_DECL", tok |-> toki, kids |-> <<NULL>>,
                        name |-> toki, type |-> NULL]
        OBVIOUS
    <2>2. PICK n : n = Len(pool) + 1
        OBVIOUS
    <2>3. PICK f : f = StructFrame("nested_field", Caller.node, ret, n)
        OBVIOUS
    <2>4. /\ ReturnTo("struct_nested") /\ Tok(toki) # "TOK_EOF" /\ advance(1)
          /\ tokens' = tokens /\ pool' = Append(pool, x) /\ ret' = ret
          /\ reported' = reported /\ types' = types
          /\ stack' = Append(Front(stack), f) /\ pc' = "return"
        BY <1>0, <1>11, <2>1, <2>2, <2>3 DEF NestedField, Become, ReturnTo
    <2>5. toki' \in Nat /\ CursorSound'
        BY <1>0, <2>4, CursorMoves
    <2>6. x \in Nodes(Len(pool))
        <3>1. <<NULL>> \in Seq(0 .. Len(pool)) /\ NULL \in Nat /\ "AST_VAR_DECL" \in DeclTags
            BY <1>0 DEF DeclTags, NULL
        <3>2. x \in [tag : DeclTags, tok : Nat, kids : Seq(0 .. Len(pool)), name : Nat, type : Nat]
            BY <1>0, <2>1, <3>1
        <3> QED
            BY <3>2, Zenon DEF Nodes
    <2>7. /\ pool' \in Seq(Nodes(Len(pool'))) /\ Extends(pool, pool')
          /\ Len(pool') = n /\ n \in Nat /\ n = Len(pool) + 1
        BY <1>0, <2>2, <2>4, <2>6, PoolNew
    <2>8. f \in StructFrames(Len(pool')) /\ f.node = Caller.node
        <3>1. Caller.node \in 1 .. n /\ ret \in 0 .. n /\ n \in 0 .. n
            BY <1>0, <1>1, <2>4, <2>7
        <3> QED
            BY <2>3, <2>7, <3>1 DEF StructFrame, StructFrames, StructAt
    <2>9. StackOK(stack', pool', Len(types), tokens)
        BY <1>1, <2>4, <2>7, <2>8, StructBecomes
    <2>10. ret' \in 0 .. Len(pool')
        BY <1>0, <2>4, <2>7
    <2> QED
        BY <1>0, <2>4, <2>5, <2>7, <2>9, <2>10, Kept, TopReturn
<1>12. CASE LookupFails \/ main \/ StructFails
    <2>1. /\ toki' = toki /\ current' = current /\ tokens' = tokens /\ reported' \in BOOLEAN
          /\ types' = types /\ stack' = stack /\ pc' \in {"crash", "done", "exit"}
          /\ pool' = pool /\ ret' = ret
        <3>1. CASE LookupFails
            BY <1>0, <3>1 DEF LookupFails
        <3>2. CASE main
            BY <1>0, <3>2 DEF main
        <3>3. CASE StructFails
            BY <3>3 DEF StructFails, Exit
        <3> QED
            BY <1>12, <3>1, <3>2, <3>3
    <2>2. toki' \in Nat /\ CursorSound'
        BY <1>0, <2>1, CursorMoves
    <2> QED
        BY <1>0, <2>1, <2>2, MakesNone, TopReturn
<1> QED
    BY <1>4, <1>5, <1>6, <1>8, <1>9, <1>10, <1>11, <1>12 DEF ParseStruct

(* Where the parsers of fields are called and come back.                   *)
LEMMA FieldPlaces ==
    ASSUME parse_expr \/ parse_var_decl
    PROVE  /\ pc \notin {"record_types", "recorded", "record_struct", "struct_decl", "done", "exit", "crash"}
           /\ pc = "return" => stack # <<>>
           /\ pc' \notin {"record_types", "recorded", "record_struct", "struct_decl", "struct_body", "done"}
<1>1. CASE parse_expr
    BY <1>1 DEF parse_expr, PrefixOperator, new_unary, Primary, PrimaryIdentifier, AtPrimary,
                PrimaryLiteral, PrimaryEnumLiteral, PrimaryGroup, PrimaryNone, CloseGroup,
                PostfixMember, MemberField, MemberMissing, PostfixEmptyCall, PostfixCall,
                NextArgument, RepeatArgument, ParseNextArgument, CloseCall, PostfixIndex,
                IndexMissing, CloseIndex, ExpectTokenFails, PostfixEnd, TakeOperator, LeaveLoop,
                new_binary, ReturnTo
<1>2. CASE parse_var_decl
    BY <1>2 DEF parse_var_decl, parse_inferred_var_decl, parse_const_var_decl, Inferred,
                Qualifiers, Typed, SpecPrimitive, SpecName, SpecMember, SpecEnd, PointerType,
                DeclaratorName, ArrayUnsized, ArrayLength, AwaitExpr, CloseArray, Initializer,
                Initialized, NoInitializer, new_var_decl, DeclarationFails, Exit, ReturnTo
<1> QED
    BY <1>1, <1>2

(* The actions that are not on a token of the text, before and after.      *)
LEMMA Skipping ==
    ASSUME FrontNext
    PROVE  /\ pc = "recorded" => new_ast
           /\ pc' = "recorded" => record_types_default
<1>1. ASSUME parse_expr \/ parse_var_decl PROVE pc # "recorded" /\ pc' # "recorded"
    BY <1>1, FieldPlaces
<1>2. ASSUME RecordTypes PROVE /\ pc = "recorded" => new_ast
                               /\ pc' = "recorded" => record_types_default
    BY <1>2 DEF RecordTypes, record_types, new_ast, record_struct_decl, RecordAgain, RecordNested,
                RecordNestedEnd, RecordField, RecordFieldEnd, RecordClose, ReturnTo,
                record_types_default
<1>3. ASSUME ParseStruct \/ StructFails PROVE pc # "recorded" /\ pc' # "recorded"
    BY <1>3 DEF ParseStruct, parse_struct_decl, StructField, StructFieldEnd, StructClose,
                StructNested, StructNestedEnd, NestedField, NestedFieldEnd, LookupFails, main,
                StructFails, Exit, ReturnTo, ReturnEarly
<1> QED
    BY <1>1, <1>2, <1>3 DEF FrontNext

(* The names that pass 1 registers, and the number of the pass.            *)
LEMMA NamesStep ==
    ASSUME ParserInv, known_types \in Seq(Seq(Int)), pass \in {1, 2}, FrontNext
    PROVE  known_types' \in Seq(Seq(Int)) /\ pass' \in {1, 2}
<1>1. CASE record_struct_decl
    <2>1. pc = "record_struct" /\ pass' = pass
        BY <1>1 DEF record_struct_decl
    <2>2. stack # <<>> /\ Caller.at \in RecordAt
        BY <2>1 DEF ParserInv, TopOK, Caller, RecordAt
    <2>3. PICK n \in Seq(Int) : n = Caller.name
        BY <2>2, RecordCaller
    <2>4. PICK full \in Seq(Int) : full = IF Named THEN Append(n, toki + 1) ELSE <<>>
        <3>1. toki + 1 \in Int
            BY DEF ParserInv
        <3>2. Append(n, toki + 1) \in Seq(Int) /\ <<>> \in Seq(Int)
            BY <3>1
        <3> QED
            BY <3>2
    <2>5. known_types' = IF Named THEN Append(known_types, full) ELSE known_types
        BY <1>1, <2>3, <2>4 DEF record_struct_decl
    <2>6. PICK S : S = Seq(Int)
        OBVIOUS
    <2>7. Append(known_types, full) \in Seq(S)
        BY <2>6
    <2> QED
        BY <2>1, <2>5, <2>6, <2>7
<1>2. CASE ~record_struct_decl
    <2>1. known_types' = known_types /\ pass' \in {pass, 2}
        <3>1. CASE RecordTypes
            BY <1>2, <3>1 DEF RecordTypes, record_types, new_ast, RecordAgain, RecordNested,
                              RecordNestedEnd, RecordField, RecordFieldEnd, RecordClose,
                              record_types_default
        <3>2. CASE ParseStruct
            BY <3>2 DEF ParseStruct, parse_struct_decl, StructField, StructFieldEnd, StructClose,
                        StructNested, StructNestedEnd, NestedField, NestedFieldEnd, LookupFails,
                        main
        <3>3. CASE StructFails
            BY <3>3 DEF StructFails
        <3> QED
            BY <3>1, <3>2, <3>3 DEF FrontNext
    <2> QED
        BY <2>1
<1> QED
    BY <1>1, <1>2

(* The places in the code that the front end gets to.                      *)
LEMMA FrontPlaces ==
    ASSUME pc \in FrontPc, [FrontNext]_frontVars
    PROVE  pc' \in FrontPc
<1>1. CASE RecordTypes
    <2>1. CASE record_types \/ new_ast \/ RecordAgain \/ record_types_default
        BY <2>1 DEF record_types, new_ast, RecordAgain, record_types_default, FrontPc
    <2>2. CASE record_struct_decl \/ RecordNested \/ RecordNestedEnd
        BY <2>2 DEF record_struct_decl, RecordNested, RecordNestedEnd, FrontPc
    <2>3. CASE RecordField \/ RecordFieldEnd \/ RecordClose
        BY <2>3 DEF RecordField, RecordFieldEnd, RecordClose, FrontPc
    <2> QED
        BY <1>1, <2>1, <2>2, <2>3, Zenon DEF RecordTypes
<1>2. CASE ParseStruct \/ StructFails
    <2>1. CASE parse_struct_decl \/ StructField \/ StructFieldEnd \/ StructClose \/ StructNested
        BY <2>1 DEF parse_struct_decl, StructField, StructFieldEnd, StructClose, StructNested, FrontPc
    <2>2. CASE StructNestedEnd \/ NestedField \/ NestedFieldEnd
        BY <2>2 DEF StructNestedEnd, NestedField, NestedFieldEnd, ReturnEarly, ReturnTo, FrontPc
    <2>3. CASE LookupFails \/ main \/ StructFails
        BY <2>3 DEF LookupFails, main, StructFails, Exit, FrontPc
    <2> QED
        BY <1>2, <2>1, <2>2, <2>3, Zenon DEF ParseStruct
<1>3. CASE parse_var_decl
    BY <1>3 DEF parse_var_decl, FrontPc, parse_inferred_var_decl, parse_const_var_decl, Inferred,
                Qualifiers, SpecPrimitive, SpecName, SpecMember, SpecEnd, PointerType,
                DeclaratorName, ArrayUnsized, ArrayLength, AwaitExpr, CloseArray, Initializer,
                Initialized, NoInitializer, new_var_decl, DeclarationFails, Exit
<1>4. CASE parse_expr
    BY <1>4 DEF parse_expr, FrontPc, PrefixOperator, new_unary, Primary, PrimaryIdentifier,
                PrimaryLiteral, PrimaryEnumLiteral, PrimaryGroup, PrimaryNone, CloseGroup,
                PostfixMember, MemberField, MemberMissing, PostfixEmptyCall, PostfixCall,
                NextArgument, RepeatArgument, ParseNextArgument, CloseCall, PostfixIndex,
                IndexMissing, CloseIndex, ExpectTokenFails, PostfixEnd, TakeOperator, LeaveLoop,
                new_binary
<1>5. CASE UNCHANGED frontVars
    BY <1>5 DEF frontVars, declVars, vars
<1> QED
    BY <1>1, <1>2, <1>3, <1>4, <1>5 DEF FrontNext

(* What the front end keeps.  Behind the last token only record_types has  *)
(* been, and new_ast comes next.                                           *)
FrontInv ==
    /\ ParserInv
    /\ pc # "recorded" => CursorSound
    /\ toki <= Len(tokens)
    /\ current \in {tokens[i] : i \in 1 .. Len(tokens)} \cup {"garbage"}
    /\ known_types \in Seq(Seq(Int))
    /\ pass \in {1, 2}
    /\ pc \in FrontPc

(* A cursor on a token of the text is within it.                           *)
LEMMA CursorInText ==
    ASSUME ParserInv, CursorSound
    PROVE  toki <= Len(tokens) /\ current \in {tokens[i] : i \in 1 .. Len(tokens)} \cup {"garbage"}
<1>1. toki \in Nat /\ tokens \in Seq(STRING)
    BY InputsAssumption DEF ParserInv
<1>2. toki + 1 \in 1 .. Len(tokens) /\ current = tokens[toki + 1] /\ toki <= Len(tokens)
    BY <1>1 DEF CursorSound, Tok
<1> QED
    BY <1>2, Zenon

(* Every step of the front end keeps its invariant.                        *)
LEMMA FrontStep ==
    ASSUME FrontInv, FrontNext
    PROVE  FrontInv'
<1>0. /\ StackOK(stack, pool, Len(types), tokens) /\ tokens \in Inputs
      /\ reported \in BOOLEAN /\ ret \in 0 .. Len(pool)
    BY DEF FrontInv, ParserInv
<1>1. known_types' \in Seq(Seq(Int)) /\ pass' \in {1, 2} /\ pc' \in FrontPc
    BY NamesStep, FrontPlaces DEF FrontInv
<1>2. ASSUME ParserInv', CursorSound'
      PROVE  FrontInv'
    <2>1. toki' \in Nat /\ tokens' \in Seq(STRING)
        BY <1>2, InputsAssumption DEF ParserInv
    <2>2. toki' + 1 \in 1 .. Len(tokens') /\ current' = tokens'[toki' + 1] /\ toki' <= Len(tokens')
        <3>1. toki' < Len(tokens') /\ current' = tokens'[toki' + 1]
            BY <1>2 DEF CursorSound, Tok
        <3>2. PICK k \in Nat, n \in Nat : k = toki' /\ n = Len(tokens')
            BY <2>1
        <3>3. k < n
            BY <3>1, <3>2
        <3>4. k + 1 \in 1 .. n /\ k <= n
            BY <3>3
        <3> QED
            BY <3>1, <3>2, <3>4
    <2>3. current' \in {tokens'[i] : i \in 1 .. Len(tokens')} \cup {"garbage"}
        BY <2>2, Zenon
    <2> QED
        BY <1>1, <1>2, <2>2, <2>3 DEF FrontInv
<1>3. CASE new_ast
    <2>1. /\ toki' = 0 /\ current' = tokens[1] /\ tokens' = tokens /\ pool' = pool /\ ret' = ret
          /\ reported' = reported /\ types' = types /\ stack' = stack /\ pc' = "struct_decl"
          /\ pc = "recorded"
        BY <1>3 DEF new_ast
    <2>2. CursorSound'
        BY <1>0, <2>1, InputsAssumption DEF CursorSound, Tok
    <2>3. TopOK(stack', "struct_decl")
        BY <2>1 DEF FrontInv, ParserInv, TopOK
    <2>4. pool' \in Seq(Nodes(Len(pool'))) /\ Extends(pool, pool')
        BY <2>1, PoolUnchanged DEF FrontInv
    <2>5. ParserInv'
        BY <1>0, <2>1, <2>3, <2>4, Kept DEF FrontInv
    <2> QED
        BY <1>2, <2>2, <2>5
<1>4. CASE record_types_default
    <2>1. /\ toki' = toki + 1 /\ tokens' = tokens /\ pool' = pool /\ ret' = ret
          /\ current' = IF toki + 1 < Len(tokens) THEN Tok(toki + 1) ELSE "garbage"
          /\ reported' = reported /\ types' = types /\ stack' = stack /\ pc' = "recorded"
          /\ pc = "record_types"
        BY <1>4 DEF record_types_default
    <2>2. CursorSound /\ toki \in Nat /\ Len(tokens) \in Nat
        BY <2>1, InputsAssumption DEF FrontInv, ParserInv
    <2>3. toki' \in Nat /\ toki' <= Len(tokens')
        BY <2>1, <2>2 DEF CursorSound
    <2>4. current' \in {tokens'[i] : i \in 1 .. Len(tokens')} \cup {"garbage"}
        <3>1. CASE toki + 1 < Len(tokens)
            <4>1. PICK i \in 1 .. Len(tokens') : current' = tokens'[i]
                <5>1. PICK i \in 1 .. Len(tokens) : i = toki + 1 + 1
                    BY <2>2, <3>1
                <5> QED
                    BY <2>1, <3>1, <5>1 DEF Tok
            <4> QED
                BY <4>1, Zenon
        <3>2. CASE ~(toki + 1 < Len(tokens))
            BY <2>1, <3>2
        <3> QED
            BY <3>1, <3>2
    <2>5. TopOK(stack', "recorded")
        BY <2>1 DEF FrontInv, ParserInv, TopOK
    <2>6. pool' \in Seq(Nodes(Len(pool'))) /\ Extends(pool, pool')
        BY <2>1, PoolUnchanged DEF FrontInv
    <2>7. ParserInv'
        BY <1>0, <2>1, <2>3, <2>5, <2>6, Kept DEF FrontInv
    <2> QED
        BY <1>1, <2>1, <2>3, <2>4, <2>7 DEF FrontInv
<1>5. CASE ~new_ast /\ ~record_types_default
    <2>1. pc # "recorded" /\ pc' # "recorded"
        BY <1>5, Skipping
    <2>2. ParserInv /\ CursorSound
        BY <2>1 DEF FrontInv
    <2>3. ParserInv' /\ CursorSound'
        BY <1>5, <2>2, RecordStep, StructStep, ExprStep, DeclStep, Zenon DEF FrontNext, RecordTypes
    <2> QED
        BY <1>2, <2>3
<1> QED
    BY <1>3, <1>4, <1>5

(* What the invariant says of the state of the front end.                  *)
LEMMA FrontShape ==
    ASSUME FrontInv
    PROVE  FrontTypeOK
<1>0. /\ tokens \in Inputs /\ toki \in Nat /\ ret \in 0 .. Len(pool) /\ Len(pool) \in Nat
      /\ types \in Seq(TypesBelow(Len(types) + 1, Len(pool))) /\ Len(types) \in Nat
      /\ \A t \in 1 .. Len(types) : types[t].base < t
    BY PoolSize DEF FrontInv, ParserInv
<1>1. ASSUME NEW n \in 1 .. Len(pool)
      PROVE  pool[n].tok \in Nat /\ pool[n].kids \in Seq(0 .. Len(pool))
    <2>1. n \in 0 .. Len(pool) /\ n # NULL
        BY <1>0 DEF NULL
    <2> QED
        BY <2>1, NodeAt DEF FrontInv
<1>2. ASSUME NEW t \in 1 .. Len(types)
      PROVE  types[t] \in [id : SUBSET (TypeFlags \cup {"NAME", "POINTER", "ARRAY"}),
                           base : 0 .. t - 1, len : 0 .. Len(pool),
                           is_const : BOOLEAN, is_static : BOOLEAN]
    <2>1. PICK x \in TypesBelow(Len(types) + 1, Len(pool)) : x = types[t] /\ x.base < t
        BY <1>0
    <2>2. x.base \in 0 .. t - 1
        BY <1>0, <2>1 DEF TypesBelow
    <2>3. PICK b, c : b = 0 .. t - 1 /\ c = 0 .. Len(types) + 1 - 1
        OBVIOUS
    <2>4. x \in [id : SUBSET Flags, base : b, len : 0 .. Len(pool),
                 is_const : BOOLEAN, is_static : BOOLEAN]
        <3>1. x \in [id : SUBSET Flags, base : c, len : 0 .. Len(pool),
                     is_const : BOOLEAN, is_static : BOOLEAN]
            BY <2>1, <2>3 DEF TypesBelow
        <3> QED
            BY <2>2, <2>3, <3>1
    <2> QED
        BY <2>1, <2>3, <2>4 DEF Flags
<1>3. toki \in 0 .. Len(tokens)
    <2>1. Len(tokens) \in Nat
        BY <1>0, InputsAssumption
    <2> QED
        BY <1>0, <2>1 DEF FrontInv
<1> QED
    BY <1>0, <1>1, <1>2, <1>3, Zenon DEF FrontTypeOK, FrontInv

(* In every reachable state of the two passes, for every set of texts, the *)
(* cursor is in the text and the cached token is the one under it, except  *)
(* where record_types has just skipped a token; the pointers of the tree   *)
(* and of the types are to nodes and types that exist, every type is older *)
(* than those derived from it, and the names that were registered are      *)
(* sequences of tokens and dots.                                           *)
THEOREM FrontTypeCorrect == FrontSpec => []FrontTypeOK
<1>1. FrontInit => FrontInv
    <2> SUFFICES ASSUME FrontInit PROVE FrontInv
        OBVIOUS
    <2>1. ParserInv /\ CursorSound
        BY NothingYet DEF FrontInit
    <2>2. toki <= Len(tokens) /\ current \in {tokens[i] : i \in 1 .. Len(tokens)} \cup {"garbage"}
        BY <2>1, CursorInText
    <2>3. known_types \in Seq(Seq(Int)) /\ pass \in {1, 2} /\ pc \in FrontPc
        BY DEF FrontInit, FrontPc
    <2> QED
        BY <2>1, <2>2, <2>3 DEF FrontInv
<1>2. FrontInv /\ [FrontNext]_frontVars => FrontInv'
    <2>1. FrontInv /\ UNCHANGED frontVars => FrontInv'
        BY DEF FrontInv, frontVars, declVars, vars, ParserInv, CursorSound, Tok
    <2> QED
        BY <2>1, FrontStep
<1>3. FrontInv => FrontTypeOK
    BY FrontShape
<1> QED
    BY <1>1, <1>2, <1>3, PTL DEF FrontSpec
-----------------------------------------------------------------------------
(* The names that pass 1 registers.                                        *)

(* The function f does up to b what the step G says, from a on.            *)
StepsTo(f, b, S, a, G) ==
    /\ f \in [0 .. b -> S]
    /\ \A m \in 0 .. b : f[m] = IF m = 0 THEN a ELSE G[<<m, f[m - 1]>>]

(* It does so for all naturals.                                            *)
Steps(h, S, a, G) ==
    /\ h \in [Nat -> S]
    /\ \A n \in Nat : h[n] = IF n = 0 THEN a ELSE G[<<n, h[n - 1]>>]

StepsIn(S, G) == \A n \in Nat : \A x \in S : G[<<n, x>>] \in S

(* There is such a function for every bound,                               *)
LEMMA StepsExist ==
    ASSUME NEW S, NEW a \in S, NEW G, \A n \in Nat : \A x \in S : G[<<n, x>>] \in S, NEW b \in Nat
    PROVE  \E f : StepsTo(f, b, S, a, G)
<1> DEFINE Bad == {n \in 0 .. b : ~ \E f : StepsTo(f, n, S, a, G)}
<1> SUFFICES ASSUME Bad # {} PROVE FALSE
    OBVIOUS
<1>1. PICK n \in Bad : \A m \in Bad : n <= m
    <2>1. Bad \subseteq Nat
        OBVIOUS
    <2> HIDE DEF Bad
    <2> QED
        BY <2>1, MinIsLeast
<1>2. n # 0
    <2>1. PICK f : f = [m \in 0 .. 0 |-> a]
        OBVIOUS
    <2>2. \A m \in 0 .. 0 : m = 0
        OBVIOUS
    <2>3. StepsTo(f, 0, S, a, G)
        BY <2>1, <2>2 DEF StepsTo
    <2> QED
        BY <2>3
<1>3. n \in Nat /\ n \in 1 .. b /\ n - 1 \in 0 .. b /\ n - 1 \notin Bad
    <2>1. n \in 0 .. b
        OBVIOUS
    <2>2. n \in Nat /\ n \in 1 .. b /\ n - 1 \in 0 .. b /\ ~(n <= n - 1)
        BY <1>2, <2>1
    <2>3. n - 1 \notin Bad
        BY <1>1, <2>2
    <2> QED
        BY <2>2, <2>3
<1>4. PICK f : StepsTo(f, n - 1, S, a, G)
    BY <1>3
<1>5. PICK last \in S : last = G[<<n, f[n - 1]>>]
    <2>1. f[n - 1] \in S
        BY <1>3, <1>4 DEF StepsTo
    <2> QED
        BY <1>3, <2>1
<1>6. PICK g : g = [m \in 0 .. n |-> IF m = n THEN last ELSE f[m]]
    OBVIOUS
<1>7. \A m \in 0 .. n - 1 : g[m] = f[m] /\ f[m] \in S
    BY <1>3, <1>4, <1>6 DEF StepsTo
<1>8. ASSUME NEW m \in 0 .. n
      PROVE  g[m] \in S /\ g[m] = IF m = 0 THEN a ELSE G[<<m, g[m - 1]>>]
    <2>1. CASE m = n
        <3>1. g[m] = last /\ g[m - 1] = f[m - 1] /\ m # 0
            BY <1>3, <1>6, <1>7, <2>1
        <3> QED
            BY <1>5, <2>1, <3>1
    <2>2. CASE m # n
        <3>1. m \in 0 .. n - 1 /\ (m = 0 \/ m - 1 \in 0 .. n - 1)
            BY <1>3, <2>2
        <3>2. f[m] = IF m = 0 THEN a ELSE G[<<m, f[m - 1]>>]
            BY <1>4, <3>1 DEF StepsTo
        <3> QED
            BY <1>7, <3>1, <3>2
    <2> QED
        BY <2>1, <2>2
<1>9. StepsTo(g, n, S, a, G)
    <2>1. g \in [0 .. n -> S]
        BY <1>6, <1>8
    <2> QED
        BY <1>8, <2>1 DEF StepsTo
<1> QED
    BY <1>1, <1>9

(* those for two bounds agree as far as both go,                           *)
LEMMA StepsUnique ==
    ASSUME NEW S, NEW a \in S, NEW G, NEW b \in Nat, NEW c \in Nat, NEW n \in Nat, n <= b, n <= c,
           NEW f, NEW g, StepsTo(f, b, S, a, G), StepsTo(g, c, S, a, G)
    PROVE  f[n] = g[n]
<1> DEFINE Bad == {m \in 0 .. n : f[m] # g[m]}
<1> SUFFICES ASSUME Bad # {} PROVE FALSE
    OBVIOUS
<1>1. PICK m \in Bad : \A k \in Bad : m <= k
    <2>1. Bad \subseteq Nat
        OBVIOUS
    <2> HIDE DEF Bad
    <2> QED
        BY <2>1, MinIsLeast
<1>2. m \in 0 .. n /\ f[m] # g[m] /\ m \in Nat /\ m \in 0 .. b /\ m \in 0 .. c
    BY <1>1
<1>3. m = 0 \/ f[m - 1] = g[m - 1]
    <2> SUFFICES ASSUME m # 0 PROVE f[m - 1] = g[m - 1]
        OBVIOUS
    <2>1. m - 1 \in 0 .. n /\ m - 1 \notin Bad
        BY <1>1, <1>2
    <2> QED
        BY <2>1
<1>4. /\ f[m] = IF m = 0 THEN a ELSE G[<<m, f[m - 1]>>]
      /\ g[m] = IF m = 0 THEN a ELSE G[<<m, g[m - 1]>>]
    BY <1>2 DEF StepsTo
<1> QED
    BY <1>2, <1>3, <1>4

(* and so there is one for all naturals.                                   *)
LEMMA StepFunction ==
    ASSUME NEW S, NEW a \in S, NEW G, StepsIn(S, G)
    PROVE  \E h : Steps(h, S, a, G)
<1> DEFINE part(n) == CHOOSE f : StepsTo(f, n, S, a, G)
<1>1. \A n \in Nat : StepsTo(part(n), n, S, a, G)
    BY StepsExist DEF StepsIn
<1> HIDE DEF part
<1>2. PICK h : h = [n \in Nat |-> part(n)[n]]
    OBVIOUS
<1>3. ASSUME NEW n \in Nat
      PROVE  h[n] \in S /\ h[n] = IF n = 0 THEN a ELSE G[<<n, h[n - 1]>>]
    <2>1. StepsTo(part(n), n, S, a, G)
        BY <1>1
    <2>2. h[n] = part(n)[n] /\ n \in 0 .. n
        BY <1>2
    <2>3. part(n)[n] \in S /\ part(n)[n] = IF n = 0 THEN a ELSE G[<<n, part(n)[n - 1]>>]
        BY <2>1, <2>2 DEF StepsTo
    <2>4. CASE n = 0
        BY <2>2, <2>3, <2>4
    <2>5. CASE n # 0
        <3>1. PICK k \in Nat : k = n - 1
            BY <2>5
        <3>2. StepsTo(part(k), k, S, a, G) /\ k <= n /\ k <= k
            BY <1>1, <3>1
        <3>3. part(n)[k] = part(k)[k]
            BY <2>1, <3>2, StepsUnique
        <3>4. h[n - 1] = part(n)[n - 1]
            BY <1>2, <3>1, <3>3
        <3> QED
            BY <2>2, <2>3, <2>5, <3>4
    <2> QED
        BY <2>4, <2>5
<1>4. h \in [Nat -> S]
    BY <1>2, <1>3
<1> QED
    BY <1>3, <1>4 DEF Steps

(* What one more token does to the scopes and to the names.                *)
ScopesOf(outer, n) ==
    IF Tok(n - 1) = "TOK_LBRACE"
    THEN Append(outer, IF n > 1 /\ Tok(n - 2) = "TOK_IDENTIFIER"
                       THEN FullName(outer, n - 2) ELSE <<>>)
    ELSE IF Tok(n - 1) = "TOK_RBRACE" /\ outer # <<>> THEN Front(outer)
    ELSE outer

NamesOf(before, n) ==
    IF n > 1 /\ Tok(n - 1) = "TOK_IDENTIFIER" /\ Tok(n - 2) = "TOK_STRUCT"
    THEN Append(before, FullName(Scopes[n - 1], n - 1))
    ELSE before

(* A full name is a sequence.                                              *)
LEMMA FullNameType ==
    ASSUME NEW scopes \in Seq(Seq(Int)), NEW i \in Int
    PROVE  FullName(scopes, i) \in Seq(Int)
<1>1. CASE scopes = <<>>
    <2>1. PICK S : S = Int
        OBVIOUS
    <2>2. PICK j \in S : j = i
        BY <2>1
    <2>3. <<j>> \in Seq(S)
        OBVIOUS
    <2> QED
        BY <1>1, <2>1, <2>2, <2>3 DEF FullName
<1>2. CASE scopes # <<>>
    <2>1. PICK T : T = Seq(Int)
        OBVIOUS
    <2>2. Last(scopes) \in T
        BY <1>2, <2>1, PopOne
    <2>3. PICK u \in Seq(Int) : u = Last(scopes)
        BY <2>1, <2>2
    <2>4. u \o <<Dot, i>> \in Seq(Int)
        BY PushTwo DEF Dot
    <2> QED
        BY <1>2, <2>3, <2>4 DEF FullName
<1> QED
    BY <1>1, <1>2

(* One more token keeps the types.                                         *)
LEMMA ScopesOfType ==
    ASSUME NEW outer \in Seq(Seq(Int)), NEW n \in Nat
    PROVE  ScopesOf(outer, n) \in Seq(Seq(Int))
<1>1. PICK T : T = Seq(Int)
    OBVIOUS
<1>2. PICK name \in T : name = IF n > 1 /\ Tok(n - 2) = "TOK_IDENTIFIER"
                               THEN FullName(outer, n - 2) ELSE <<>>
    <2>1. FullName(outer, n - 2) \in T
        BY <1>1, FullNameType
    <2>2. <<>> \in T
        BY <1>1
    <2> QED
        BY <2>1, <2>2
<1>3. outer \in Seq(T) /\ Append(outer, name) \in Seq(T)
    BY <1>1
<1>4. outer # <<>> => Front(outer) \in Seq(T)
    BY <1>3, PopOne
<1> QED
    BY <1>1, <1>2, <1>3, <1>4 DEF ScopesOf

(* The scopes and the names as functions of the text.                      *)
TextScopes(t) ==
    CHOOSE g : g = [n \in Nat |->
        IF n = 0 THEN <<>>
        ELSE IF t[n - 1 + 1] = "TOK_LBRACE"
        THEN Append(g[n - 1], IF n > 1 /\ t[n - 2 + 1] = "TOK_IDENTIFIER"
                              THEN FullName(g[n - 1], n - 2) ELSE <<>>)
        ELSE IF t[n - 1 + 1] = "TOK_RBRACE" /\ g[n - 1] # <<>> THEN Front(g[n - 1])
        ELSE g[n - 1]]

TextNames(t) ==
    CHOOSE g : g = [n \in Nat |->
        IF n = 0 THEN <<>>
        ELSE IF n > 1 /\ t[n - 1 + 1] = "TOK_IDENTIFIER" /\ t[n - 2 + 1] = "TOK_STRUCT"
        THEN Append(g[n - 1], FullName(TextScopes(t)[n - 1], n - 1))
        ELSE g[n - 1]]

(* They are what the definitions over the tokens at hand say, before and  *)
(* after a step.                                                           *)
LEMMA NamesNow ==
    /\ Scopes = TextScopes(tokens) /\ Scopes' = TextScopes(tokens')
    /\ StructNames = TextNames(tokens) /\ StructNames' = TextNames(tokens')
<1>1. Scopes = TextScopes(tokens)
    BY Zenon DEF Scopes, TextScopes, Tok
<1>2. Scopes' = TextScopes(tokens')
    BY Zenon DEF Scopes, TextScopes, Tok
<1>3. StructNames = TextNames(tokens)
    <2> HIDE DEF TextScopes
    <2> QED
        BY <1>1, Zenon DEF StructNames, TextNames, Tok
<1>4. StructNames' = TextNames(tokens')
    <2> HIDE DEF TextScopes
    <2> QED
        BY <1>2, Zenon DEF StructNames, TextNames, Tok
<1> QED
    BY <1>1, <1>2, <1>3, <1>4

(* Each token does to them what their definitions say.                     *)
LEMMA ScopesStep ==
    /\ Scopes \in [Nat -> Seq(Seq(Int))]
    /\ Scopes[0] = <<>>
    /\ \A n \in Nat : Scopes[n + 1] = ScopesOf(Scopes[n], n + 1)
<1>1. PICK T : T = Seq(Seq(Int))
    OBVIOUS
<1>2. \A x \in T : \A n \in Nat : ScopesOf(x, n) \in T
    BY <1>1, ScopesOfType
<1>3. PICK G : G = [p \in Nat \X T |-> ScopesOf(p[2], p[1])]
    OBVIOUS
<1>4. \A n \in Nat : \A x \in T : G[<<n, x>>] = ScopesOf(x, n)
    BY <1>3
<1>5. <<>> \in T
    BY <1>1
<1>6. PICK h \in [Nat -> T] : \A n \in Nat : h[n] = IF n = 0 THEN <<>> ELSE G[<<n, h[n - 1]>>]
    <2>1. StepsIn(T, G)
        BY <1>2, <1>4 DEF StepsIn
    <2>2. PICK h : Steps(h, T, <<>>, G)
        BY <1>5, <2>1, StepFunction
    <2> QED
        BY <2>2 DEF Steps
<1>7. \A n \in Nat : h[n] = IF n = 0 THEN <<>> ELSE ScopesOf(h[n - 1], n)
    <2> TAKE n \in Nat
    <2>1. CASE n = 0
        BY <1>6, <2>1
    <2>2. CASE n # 0
        <3>1. h[n - 1] \in T
            BY <1>6, <2>2
        <3> QED
            BY <1>4, <1>6, <2>2, <3>1
    <2> QED
        BY <2>1, <2>2
<1>8. h = [n \in Nat |-> IF n = 0 THEN <<>> ELSE ScopesOf(h[n - 1], n)]
    BY <1>6, <1>7
<1>9. Scopes = [n \in Nat |-> IF n = 0 THEN <<>> ELSE ScopesOf(Scopes[n - 1], n)]
    <2>1. \E g : g = [n \in Nat |-> IF n = 0 THEN <<>> ELSE ScopesOf(g[n - 1], n)]
        BY <1>8
    <2> QED
        BY <2>1, Zenon DEF Scopes, ScopesOf
<1>10. \A n \in Nat : Scopes[n] = IF n = 0 THEN <<>> ELSE ScopesOf(Scopes[n - 1], n)
    BY <1>9
<1>11. \A n \in Nat : Scopes[n] \in T
    <2> DEFINE Bad == {n \in Nat : Scopes[n] \notin T}
    <2> SUFFICES ASSUME Bad # {} PROVE FALSE
        OBVIOUS
    <2>1. PICK n \in Bad : \A m \in Bad : n <= m
        <3>1. Bad \subseteq Nat
            OBVIOUS
        <3> HIDE DEF Bad
        <3> QED
            BY <3>1, MinIsLeast
    <2>2. n # 0
        BY <1>5, <1>10
    <2>3. n - 1 \in Nat /\ n - 1 \notin Bad
        BY <2>1, <2>2
    <2>4. Scopes[n - 1] \in T
        BY <2>3
    <2> QED
        BY <1>2, <1>10, <2>2, <2>4
<1>12. Scopes \in [Nat -> T]
    BY <1>9, <1>11
<1>13. \A n \in Nat : Scopes[n + 1] = ScopesOf(Scopes[n], n + 1)
    BY <1>10
<1> QED
    BY <1>1, <1>10, <1>12, <1>13

(* The names grow at the token that NamesOf says.                          *)
LEMMA StructNamesStep ==
    /\ StructNames \in [Nat -> Seq(Seq(Int))]
    /\ StructNames[0] = <<>>
    /\ \A n \in Nat : StructNames[n + 1] = NamesOf(StructNames[n], n + 1)
<1>1. PICK T : T = Seq(Seq(Int))
    OBVIOUS
<1>2. \A x \in T : \A n \in Nat : NamesOf(x, n) \in T
    <2> TAKE x \in T
    <2> TAKE n \in Nat
    <2>1. CASE n > 1
        <3>1. Scopes[n - 1] \in Seq(Seq(Int)) /\ n - 1 \in Int
            BY <2>1, ScopesStep
        <3>2. PICK U : U = Seq(Int)
            OBVIOUS
        <3>3. FullName(Scopes[n - 1], n - 1) \in U
            BY <3>1, <3>2, FullNameType
        <3>4. Append(x, FullName(Scopes[n - 1], n - 1)) \in Seq(U)
            BY <1>1, <3>2, <3>3
        <3> QED
            BY <1>1, <3>2, <3>4 DEF NamesOf
    <2>2. CASE ~(n > 1)
        BY <2>2 DEF NamesOf
    <2> QED
        BY <2>1, <2>2
<1>3. PICK G : G = [p \in Nat \X T |-> NamesOf(p[2], p[1])]
    OBVIOUS
<1>4. \A n \in Nat : \A x \in T : G[<<n, x>>] = NamesOf(x, n)
    BY <1>3
<1>5. <<>> \in T
    BY <1>1
<1>6. PICK h \in [Nat -> T] : \A n \in Nat : h[n] = IF n = 0 THEN <<>> ELSE G[<<n, h[n - 1]>>]
    <2>1. StepsIn(T, G)
        BY <1>2, <1>4 DEF StepsIn
    <2>2. PICK h : Steps(h, T, <<>>, G)
        BY <1>5, <2>1, StepFunction
    <2> QED
        BY <2>2 DEF Steps
<1>7. \A n \in Nat : h[n] = IF n = 0 THEN <<>> ELSE NamesOf(h[n - 1], n)
    <2> TAKE n \in Nat
    <2>1. CASE n = 0
        BY <1>6, <2>1
    <2>2. CASE n # 0
        <3>1. h[n - 1] \in T
            BY <1>6, <2>2
        <3> QED
            BY <1>4, <1>6, <2>2, <3>1
    <2> QED
        BY <2>1, <2>2
<1>8. h = [n \in Nat |-> IF n = 0 THEN <<>> ELSE NamesOf(h[n - 1], n)]
    BY <1>6, <1>7
<1>9. StructNames = [n \in Nat |-> IF n = 0 THEN <<>> ELSE NamesOf(StructNames[n - 1], n)]
    <2>1. \E g : g = [n \in Nat |-> IF n = 0 THEN <<>> ELSE NamesOf(g[n - 1], n)]
        BY <1>8
    <2> QED
        BY <2>1, Zenon DEF StructNames, NamesOf
<1>10. \A n \in Nat : StructNames[n] = IF n = 0 THEN <<>> ELSE NamesOf(StructNames[n - 1], n)
    BY <1>9
<1>11. \A n \in Nat : StructNames[n] \in T
    <2> DEFINE Bad == {n \in Nat : StructNames[n] \notin T}
    <2> SUFFICES ASSUME Bad # {} PROVE FALSE
        OBVIOUS
    <2>1. PICK n \in Bad : \A m \in Bad : n <= m
        <3>1. Bad \subseteq Nat
            OBVIOUS
        <3> HIDE DEF Bad
        <3> QED
            BY <3>1, MinIsLeast
    <2>2. n # 0
        BY <1>5, <1>10
    <2>3. n - 1 \in Nat /\ n - 1 \notin Bad
        BY <2>1, <2>2
    <2>4. StructNames[n - 1] \in T
        BY <2>3
    <2> QED
        BY <1>2, <1>10, <2>2, <2>4
<1>12. StructNames \in [Nat -> T]
    BY <1>9, <1>11
<1>13. \A n \in Nat : StructNames[n + 1] = NamesOf(StructNames[n], n + 1)
    BY <1>10
<1> QED
    BY <1>1, <1>10, <1>12, <1>13

(* The same, one question at a time.                                       *)
LEMMA OneToken ==
    ASSUME NEW n \in Nat
    PROVE  /\ Scopes[n] \in Seq(Seq(Int)) /\ StructNames[n] \in Seq(Seq(Int))
           /\ Tok(n) \notin {"TOK_LBRACE", "TOK_RBRACE"} => Scopes[n + 1] = Scopes[n]
           /\ Tok(n) = "TOK_RBRACE" /\ Scopes[n] # <<>> => Scopes[n + 1] = Front(Scopes[n])
           /\ Tok(n) = "TOK_LBRACE" /\ n > 0 /\ Tok(n - 1) = "TOK_IDENTIFIER" =>
                  Scopes[n + 1] = Append(Scopes[n], FullName(Scopes[n], n - 1))
           /\ Tok(n) = "TOK_LBRACE" /\ Tok(n - 1) # "TOK_IDENTIFIER" =>
                  Scopes[n + 1] = Append(Scopes[n], <<>>)
           /\ Tok(n) # "TOK_IDENTIFIER" \/ (n > 0 => Tok(n - 1) # "TOK_STRUCT") =>
                  StructNames[n + 1] = StructNames[n]
           /\ n > 0 /\ Tok(n) = "TOK_IDENTIFIER" /\ Tok(n - 1) = "TOK_STRUCT" =>
                  StructNames[n + 1] = Append(StructNames[n], FullName(Scopes[n], n))
<1>1. n + 1 - 1 = n /\ n + 1 - 2 = n - 1 /\ (n + 1 > 1 <=> n > 0)
    OBVIOUS
<1>2. Scopes[n + 1] = ScopesOf(Scopes[n], n + 1) /\ StructNames[n + 1] = NamesOf(StructNames[n], n + 1)
    BY ScopesStep, StructNamesStep
<1>3. /\ Tok(n + 1 - 1) = Tok(n) /\ Tok(n + 1 - 2) = Tok(n - 1) /\ Scopes[n + 1 - 1] = Scopes[n]
      /\ FullName(Scopes[n], n + 1 - 2) = FullName(Scopes[n], n - 1)
      /\ FullName(Scopes[n + 1 - 1], n + 1 - 1) = FullName(Scopes[n], n)
    BY <1>1
<1>4. Scopes[n] \in Seq(Seq(Int)) /\ StructNames[n] \in Seq(Seq(Int))
    BY ScopesStep, StructNamesStep
<1>5. /\ Tok(n) \notin {"TOK_LBRACE", "TOK_RBRACE"} => Scopes[n + 1] = Scopes[n]
      /\ Tok(n) = "TOK_RBRACE" /\ Scopes[n] # <<>> => Scopes[n + 1] = Front(Scopes[n])
      /\ Tok(n) = "TOK_LBRACE" /\ n > 0 /\ Tok(n - 1) = "TOK_IDENTIFIER" =>
             Scopes[n + 1] = Append(Scopes[n], FullName(Scopes[n], n - 1))
      /\ Tok(n) = "TOK_LBRACE" /\ Tok(n - 1) # "TOK_IDENTIFIER" =>
             Scopes[n + 1] = Append(Scopes[n], <<>>)
    BY <1>1, <1>2, <1>3 DEF ScopesOf
<1>6. /\ Tok(n) # "TOK_IDENTIFIER" \/ (n > 0 => Tok(n - 1) # "TOK_STRUCT") =>
             StructNames[n + 1] = StructNames[n]
      /\ n > 0 /\ Tok(n) = "TOK_IDENTIFIER" /\ Tok(n - 1) = "TOK_STRUCT" =>
             StructNames[n + 1] = Append(StructNames[n], FullName(Scopes[n], n))
    BY <1>1, <1>2, <1>3 DEF NamesOf
<1> QED
    BY <1>4, <1>5, <1>6

(* A struct before the cursor has had its name read.                       *)
NameRead(c) == c > 0 /\ Tok(c - 1) = "TOK_STRUCT" => Tok(c) # "TOK_IDENTIFIER"

(* Fields have no part in either.                                          *)
LEMMA FieldsPlain ==
    ASSUME NEW i \in Nat, NEW j \in Nat, i <= j, NameRead(i),
           \A k \in i .. j - 1 : tokens[k + 1] \notin Control
    PROVE  Scopes[j] = Scopes[i] /\ StructNames[j] = StructNames[i] /\ NameRead(j)
<1> DEFINE Bad == {k \in i .. j : Scopes[k] # Scopes[i] \/ StructNames[k] # StructNames[i] \/ ~NameRead(k)}
<1>1. ASSUME Bad # {} PROVE FALSE
    <2>1. PICK k \in Bad : \A m \in Bad : k <= m
        <3>1. Bad \subseteq Nat
            OBVIOUS
        <3> HIDE DEF Bad
        <3> QED
            BY <1>1, <3>1, MinIsLeast
    <2>2. k \in i .. j /\ k # i
        OBVIOUS
    <2>3. PICK n \in Nat : n = k - 1
        BY <2>2
    <2>4. n \in i .. j - 1 /\ n \in i .. j /\ k = n + 1
        BY <2>2, <2>3
    <2>5. n \notin Bad
        BY <2>1, <2>3, <2>4
    <2>6. Scopes[n] = Scopes[i] /\ StructNames[n] = StructNames[i] /\ NameRead(n)
        BY <2>4, <2>5
    <2>7. Tok(n) \notin Control
        BY <2>4 DEF Tok
    <2>8. /\ Tok(n) \notin {"TOK_LBRACE", "TOK_RBRACE"} /\ Tok(n) # "TOK_STRUCT"
          /\ Tok(n) # "TOK_IDENTIFIER" \/ (n > 0 => Tok(n - 1) # "TOK_STRUCT")
        BY <2>6, <2>7 DEF Control, NameRead
    <2>9. Scopes[n + 1] = Scopes[n] /\ StructNames[n + 1] = StructNames[n]
        BY <2>8, OneToken
    <2>10. NameRead(n + 1)
        BY <2>8 DEF NameRead
    <2>11. k \notin Bad
        BY <2>4, <2>6, <2>9, <2>10
    <2> QED
        BY <2>11
<1>2. j \notin Bad
    BY <1>1
<1> QED
    BY <1>2

(* The activations of the parsers of fields.                               *)
FieldAt == FrameAt \cup DeclAt

(* The activations of record_struct_decl are at the bottom of the stack,   *)
(* and each one in its body keeps the name of the struct that it parses.   *)
(* One that has not read its head keeps the prefix.                        *)
ScopesHeld(s, scopes, next) ==
    /\ Len(scopes) <= Len(s)
    /\ \A k \in 1 .. Len(scopes) : s[k].at \in RecordAt /\ s[k].name = scopes[k]
    /\ next = "record_struct" =>
           /\ Len(s) = Len(scopes) + 1
           /\ s[Len(s)].name = IF scopes = <<>> THEN <<>> ELSE next_prefix(Last(scopes))
    /\ next # "record_struct" => \A k \in Len(scopes) + 1 .. Len(s) : s[k].at \in FieldAt

NamesInv ==
    pass = 1 =>
        /\ known_types = StructNames[toki]
        /\ pc \notin {"struct_decl", "struct_body"}
        /\ pc # "recorded" => NameRead(toki)
        /\ pc \notin {"recorded", "exit"} => ScopesHeld(stack, Scopes[toki], pc)

(* A step of parse_var_decl leaves all activations but its own.            *)
DeclRises ==
    \E m \in 0 .. Len(stack) :
        /\ Above(stack, stack', m, FieldAt)
        /\ m = Len(stack) \/ (m = Len(stack) - 1 /\ Caller.at \in FieldAt)

(* It changes the stack from the current activation on, or the return to  *)
(* the one that called it.                                                 *)
LEMMA DeclAbove ==
    ASSUME ParserInv, parse_var_decl
    PROVE  DeclRises
<1>0. PICK S : stack \in Seq(S)
    BY DEF ParserInv, StackOK
<1>1. Len(stack) \in Nat /\ (stack # <<>> => Len(stack) >= 1)
    BY <1>0
<1>2. /\ pc \in {"declspec", "qualified", "pointers", "arrays"} => stack # <<>> /\ Caller.at \in DeclAt
      /\ \A at \in DeclAt : ReturnTo(at) => stack # <<>> /\ Caller.at \in DeclAt
    BY DEF ParserInv, TopOK, Caller, DeclAt, ReturnTo
<1>3. DeclAt \subseteq FieldAt /\ "precedence" \in FieldAt /\ "declaration" \in FieldAt
    BY DEF FieldAt, FrameAt, DeclAt
<1>4. \A min : PrecedenceFrame(min).at \in FieldAt
    BY <1>3 DEF PrecedenceFrame, Frame
<1>5. ASSUME stack' = stack
      PROVE  DeclRises
    BY <1>0, <1>1, <1>5, AboveSame DEF DeclRises
<1>6. ASSUME stack # <<>>, Caller.at \in DeclAt, NEW f, f.at \in DeclAt, stack' = Append(Front(stack), f)
      PROVE  DeclRises
    <2>1. Above(stack, stack', Len(stack) - 1, FieldAt)
        BY <1>0, <1>3, <1>6, AboveBecome
    <2> QED
        BY <1>1, <1>3, <1>6, <2>1 DEF DeclRises
<1>7. ASSUME stack # <<>>, Caller.at \in DeclAt, NEW at \in DeclAt, AwaitExpr(at)
      PROVE  DeclRises
    <2>1. PICK f, g : f = [Caller EXCEPT !.at = at] /\ g = PrecedenceFrame(0)
        OBVIOUS
    <2>2. Caller \in DeclFrames(Len(types))
        BY <1>7, DeclCaller
    <2>3. f.at \in FieldAt /\ g.at \in FieldAt
        BY <1>3, <1>4, <1>7, <2>1, <2>2 DEF DeclFrames
    <2>4. stack' = Front(stack) \o <<f, g>>
        BY <1>7, <2>1 DEF AwaitExpr
    <2>5. Above(stack, stack', Len(stack) - 1, FieldAt)
        BY <1>0, <1>7, <2>3, <2>4, AboveCall
    <2> QED
        BY <1>1, <1>3, <1>7, <2>5 DEF DeclRises
<1>8. ASSUME stack # <<>>, Caller.at \in DeclAt, stack' = Front(stack)
      PROVE  DeclRises
    <2>1. Above(stack, stack', Len(stack) - 1, FieldAt)
        BY <1>0, <1>8, AbovePop
    <2> QED
        BY <1>1, <1>3, <1>8, <2>1 DEF DeclRises
<1>9. CASE parse_inferred_var_decl \/ parse_const_var_decl
    <2>1. PICK kw, tag : Inferred(kw, tag)
        BY <1>9 DEF parse_inferred_var_decl, parse_const_var_decl
    <2>2. PICK f, g : f = DeclFrame("initializer", tag, toki, toki + 1) /\ g = PrecedenceFrame(0)
        OBVIOUS
    <2>3. f.at \in FieldAt /\ g.at \in FieldAt
        BY <1>3, <1>4, <2>2 DEF DeclFrame, DeclAt
    <2>4. stack' = stack \o <<f, g>>
        BY <2>1, <2>2 DEF Inferred
    <2>5. Above(stack, stack', Len(stack), FieldAt)
        BY <1>0, <2>3, <2>4, AboveTwo
    <2> QED
        BY <1>1, <2>5 DEF DeclRises
<1>10. CASE Qualifiers
    <2>1. PICK c, s : stack' = Append(stack, [DeclFrame("declaration", "AST_VAR_DECL", NULL, NULL)
                                             EXCEPT !.is_const = c, !.is_static = s])
        BY <1>10 DEF Qualifiers
    <2>2. PICK f : f = [DeclFrame("declaration", "AST_VAR_DECL", NULL, NULL)
                        EXCEPT !.is_const = c, !.is_static = s]
        OBVIOUS
    <2>3. f.at \in FieldAt
        BY <1>3, <2>2 DEF DeclFrame
    <2>4. Above(stack, stack', Len(stack), FieldAt)
        BY <1>0, <2>1, <2>2, <2>3, AbovePush
    <2> QED
        BY <1>1, <2>4 DEF DeclRises
<1>11. CASE SpecPrimitive \/ SpecName \/ SpecEnd \/ PointerType \/ DeclaratorName \/ ArrayUnsized \/ CloseArray
    <2>1. stack # <<>> /\ Caller.at \in DeclAt
        BY <1>2, <1>11 DEF SpecPrimitive, SpecName, SpecEnd, PointerType, DeclaratorName, ArrayUnsized, CloseArray,
                           DeclAt
    <2>2. Caller \in DeclFrames(Len(types))
        BY <2>1, DeclCaller
    <2>3. \E f : f.at \in DeclAt /\ stack' = Append(Front(stack), f)
        <3>1. \A id : [Caller EXCEPT !.id = id].at \in DeclAt
            BY <2>2 DEF DeclFrames
        <3>2. \A t : [Caller EXCEPT !.type = t].at \in DeclAt
            BY <2>2 DEF DeclFrames
        <3>3. \A t : [Caller EXCEPT !.at = "declaration", !.type = t].at \in DeclAt
            BY <2>2 DEF DeclFrames, DeclAt
        <3>4. \A n : [Caller EXCEPT !.tok = n, !.name = n].at \in DeclAt
            BY <2>2 DEF DeclFrames
        <3>5. CASE SpecPrimitive
            BY <3>1, <3>5 DEF SpecPrimitive, Become
        <3>6. CASE SpecName
            BY <3>1, <3>6 DEF SpecName, Become
        <3>7. CASE SpecEnd \/ PointerType \/ ArrayUnsized
            BY <3>2, <3>7 DEF SpecEnd, PointerType, ArrayUnsized, Become
        <3>8. CASE CloseArray
            BY <3>3, <3>8 DEF CloseArray, Become
        <3>9. CASE DeclaratorName
            BY <3>4, <3>9 DEF DeclaratorName, Become
        <3> QED
            BY <1>11, <3>5, <3>6, <3>7, <3>8, <3>9
    <2> QED
        BY <1>6, <2>1, <2>3
<1>12. CASE ArrayLength \/ Initializer
    <2>1. stack # <<>> /\ Caller.at \in DeclAt
        BY <1>2, <1>12 DEF ArrayLength, Initializer
    <2>2. AwaitExpr("array_len") \/ AwaitExpr("initializer")
        BY <1>12 DEF ArrayLength, Initializer
    <2>3. "array_len" \in DeclAt /\ "initializer" \in DeclAt
        BY DEF DeclAt
    <2> QED
        BY <1>7, <2>1, <2>2, <2>3
<1>13. CASE Initialized \/ NoInitializer
    <2>1. stack # <<>> /\ Caller.at \in DeclAt
        BY <1>2, <1>13 DEF Initialized, NoInitializer, DeclAt
    <2>2. stack' = Front(stack)
        BY <1>13 DEF Initialized, NoInitializer, new_var_decl, Pop
    <2> QED
        BY <1>8, <2>1, <2>2
<1>14. CASE SpecMember \/ DeclarationFails
    BY <1>5, <1>14 DEF SpecMember, DeclarationFails, Exit
<1> QED
    BY <1>9, <1>10, <1>11, <1>12, <1>13, <1>14, Zenon DEF parse_var_decl

(* What the next state has to be like.                                     *)
LEMMA NamesAgain ==
    ASSUME tokens' = tokens, known_types' = StructNames[toki'], pc' \notin {"struct_decl", "struct_body"},
           pc' # "recorded" => NameRead(toki'),
           pc' \notin {"recorded", "exit"} => ScopesHeld(stack', Scopes[toki'], pc')
    PROVE  NamesInv'
<1>1. Scopes' = Scopes /\ StructNames' = StructNames
    BY NamesNow
<1>2. NameRead(toki') => NameRead(toki)'
    BY DEF NameRead, Tok
<1> QED
    BY <1>1, <1>2 DEF NamesInv

(* The activation on top is the last scope, or it is parsing a field.      *)
LEMMA ScopesTop ==
    ASSUME NEW S, NEW s \in Seq(S), s # <<>>, NEW T, NEW scopes \in Seq(T), NEW next,
           ScopesHeld(s, scopes, next), next # "record_struct"
    PROVE  /\ Last(s).at \in RecordAt \cup FieldAt
           /\ Last(s).at \in RecordAt =>
                  Len(scopes) = Len(s) /\ scopes # <<>> /\ Last(s).name = Last(scopes)
           /\ Last(s).at \in FieldAt => Len(scopes) <= Len(s) - 1
<1>1. Last(s) = s[Len(s)] /\ Len(s) \in Nat /\ Len(s) >= 1 /\ Len(scopes) \in Nat
    <2>1. Last(s) = s[Len(s)] /\ Len(s) \in Nat /\ Len(s) >= 1
        BY PopOne
    <2>2. Len(scopes) \in Nat
        OBVIOUS
    <2> QED
        BY <2>1, <2>2
<1>2. RecordAt \cap FieldAt = {}
    BY DEF RecordAt, FieldAt, FrameAt, DeclAt
<1>3. CASE Len(s) \in Len(scopes) + 1 .. Len(s)
    <2>1. Last(s).at \in FieldAt
        BY <1>1, <1>3 DEF ScopesHeld
    <2> QED
        BY <1>1, <1>2, <1>3, <2>1
<1>4. CASE Len(s) \in 1 .. Len(scopes)
    <2>1. Last(s).at \in RecordAt /\ Last(s).name = scopes[Len(s)] /\ Len(scopes) = Len(s)
        BY <1>1, <1>4 DEF ScopesHeld
    <2>2. scopes # <<>> /\ Last(scopes) = scopes[Len(scopes)]
        BY <1>1, <2>1 DEF Last
    <2> QED
        BY <1>1, <1>2, <2>1, <2>2
<1> QED
    BY <1>1, <1>3, <1>4

(* A field is parsed above them.                                           *)
LEMMA ScopesBelow ==
    ASSUME NEW s, NEW s2, NEW T, NEW scopes \in Seq(T), NEW m \in Nat, NEW next, NEW next2,
           ScopesHeld(s, scopes, next), Above(s, s2, m, FieldAt), Len(scopes) <= m,
           next # "record_struct", next2 # "record_struct"
    PROVE  ScopesHeld(s2, scopes, next2)
<1>1. Len(scopes) \in Nat /\ Len(s2) \in Nat /\ Len(s) \in Nat /\ m <= Len(s) /\ m <= Len(s2)
    BY DEF Above
<1>2. \A k \in 1 .. m : s2[k] = s[k]
    BY DEF Above
<1>3. \A k \in 1 .. Len(scopes) : s2[k].at \in RecordAt /\ s2[k].name = scopes[k]
    BY <1>1, <1>2 DEF ScopesHeld
<1>4. ASSUME NEW k \in Len(scopes) + 1 .. Len(s2)
      PROVE  s2[k].at \in FieldAt
    <2>1. CASE k <= m
        <3>1. k \in 1 .. m /\ k \in Len(scopes) + 1 .. Len(s)
            BY <1>1, <2>1
        <3> QED
            BY <1>2, <3>1 DEF ScopesHeld
    <2>2. CASE k > m
        <3>1. k \in m + 1 .. Len(s2)
            BY <1>1, <2>2
        <3> QED
            BY <3>1 DEF Above
    <2> QED
        BY <1>1, <2>1, <2>2
<1> QED
    BY <1>1, <1>3, <1>4 DEF ScopesHeld

(* A step of the parser of a field.                                        *)
LEMMA FieldNames ==
    ASSUME ParserInv, NamesInv, pass = 1, known_types' = known_types, PlainMove,
           NEW m \in 0 .. Len(stack), Above(stack, stack', m, FieldAt),
           m = Len(stack) \/ (m = Len(stack) - 1 /\ Caller.at \in FieldAt),
           pc \notin {"recorded", "exit", "record_struct"},
           pc' \notin {"recorded", "record_struct", "struct_decl", "struct_body"}
    PROVE  NamesInv'
<1>1. PICK S : stack \in Seq(S)
    BY DEF ParserInv, StackOK
<1>2. toki \in Nat /\ toki' \in Nat /\ tokens' = tokens
    BY DEF ParserInv, PlainMove
<1>3. PICK T : T = Seq(Int)
    OBVIOUS
<1>9. PICK scopes \in Seq(T) : scopes = Scopes[toki]
    BY <1>2, <1>3, OneToken
<1>4. ScopesHeld(stack, scopes, pc) /\ NameRead(toki)
    BY <1>9 DEF NamesInv
<1>5. Scopes[toki'] = Scopes[toki] /\ StructNames[toki'] = StructNames[toki] /\ NameRead(toki')
    BY <1>2, <1>4, FieldsPlain DEF PlainMove
<1>6. Len(scopes) <= m /\ m \in Nat
    <2>1. Len(scopes) <= Len(stack) /\ Len(stack) \in Nat
        BY <1>1, <1>4 DEF ScopesHeld
    <2>2. CASE m = Len(stack)
        BY <2>1, <2>2
    <2>3. CASE m = Len(stack) - 1 /\ Caller.at \in FieldAt
        <3>1. stack # <<>>
            BY <2>1, <2>3
        <3>2. Len(scopes) <= Len(stack) - 1
            BY <1>1, <1>4, <2>3, <3>1, ScopesTop DEF Caller
        <3> QED
            BY <2>1, <2>3, <3>2
    <2> QED
        BY <2>2, <2>3
<1>7. ScopesHeld(stack', scopes, pc')
    BY <1>4, <1>6, ScopesBelow
<1>8. known_types' = StructNames[toki']
    BY <1>5 DEF NamesInv
<1> QED
    BY <1>2, <1>5, <1>7, <1>8, <1>9, NamesAgain

(* Parsing a field leaves all activations but those above its caller.      *)
LEMMA FieldRises ==
    ASSUME ParserInv, parse_expr \/ parse_var_decl
    PROVE  DeclRises
<1>1. CASE parse_expr
    <2>1. PICK m \in {Len(stack) - 1, Len(stack)} : Above(stack, stack', m, FrameAt)
        BY <1>1, ExprAbove DEF ExprRises
    <2>2. Caller.at \in FrameAt
        BY <1>1, ExprAbove DEF ExprRises
    <2>3. FrameAt \subseteq FieldAt
        BY DEF FieldAt
    <2>4. m \in 0 .. Len(stack) /\ Above(stack, stack', m, FieldAt)
        BY <2>1, <2>3 DEF Above
    <2> QED
        BY <2>1, <2>2, <2>3, <2>4 DEF DeclRises
<1>2. CASE parse_var_decl
    BY <1>2, DeclAbove
<1> QED
    BY <1>1, <1>2

(* Fields keep the names.                                                  *)
LEMMA FieldStep ==
    ASSUME ParserInv, CursorSound, NamesInv, pass = 1, known_types' = known_types,
           parse_expr \/ parse_var_decl
    PROVE  NamesInv'
<1>1. DeclRises
    BY FieldRises
<1>2. PlainMove
    BY ExprMoves, DeclMoves
<1> QED
    BY <1>1, <1>2, FieldPlaces, FieldNames DEF DeclRises

(* An activation of record_struct_decl goes on in its body.                *)
LEMMA ScopesResumed ==
    ASSUME NEW S, NEW s \in Seq(S), s # <<>>, NEW T, NEW scopes \in Seq(T), NEW next, NEW next2,
           ScopesHeld(s, scopes, next), Last(s).at \in RecordAt, next # "record_struct",
           NEW f, f.at \in RecordAt, f.name = Last(s).name, next2 # "record_struct"
    PROVE  ScopesHeld(Append(Front(s), f), scopes, next2)
<1>1. PICK s2 : s2 = Append(Front(s), f)
    OBVIOUS
<1>2. /\ Len(s) \in Nat /\ Len(s2) = Len(s) /\ s2[Len(s)] = f /\ Len(s) >= 1
      /\ \A k \in 1 .. Len(s) - 1 : s2[k] = s[k]
    <2>1. Above(s, s2, Len(s) - 1, RecordAt) /\ Len(s2) = Len(s) /\ s2[Len(s)] = f
        BY <1>1, AboveBecome
    <2>2. Len(s) \in Nat /\ Len(s) >= 1
        BY PopOne
    <2> QED
        BY <2>1, <2>2 DEF Above
<1>3. Len(scopes) = Len(s) /\ Last(s).name = Last(scopes) /\ Last(scopes) = scopes[Len(s)]
    <2>1. Len(scopes) = Len(s) /\ Last(s).name = Last(scopes)
        BY ScopesTop
    <2> QED
        BY <2>1 DEF Last
<1>4. ASSUME NEW k \in 1 .. Len(scopes)
      PROVE  s2[k].at \in RecordAt /\ s2[k].name = scopes[k]
    <2>1. CASE k = Len(s)
        BY <1>2, <1>3, <2>1
    <2>2. CASE k # Len(s)
        <3>1. k \in 1 .. Len(s) - 1
            BY <1>2, <1>3, <2>2
        <3> QED
            BY <1>2, <3>1 DEF ScopesHeld
    <2> QED
        BY <2>1, <2>2
<1>5. Len(scopes) + 1 .. Len(s2) = {}
    BY <1>2, <1>3
<1>6. ScopesHeld(s2, scopes, next2)
    BY <1>2, <1>3, <1>4, <1>5 DEF ScopesHeld
<1> QED
    BY <1>1, <1>6

(* It returns behind its body.                                             *)
LEMMA ScopesLeft ==
    ASSUME NEW S, NEW s \in Seq(S), s # <<>>, NEW T, NEW scopes \in Seq(T), NEW next, NEW next2,
           ScopesHeld(s, scopes, next), Last(s).at \in RecordAt, next # "record_struct",
           next2 # "record_struct"
    PROVE  scopes # <<>> /\ ScopesHeld(Front(s), Front(scopes), next2)
<1>1. Len(scopes) = Len(s) /\ scopes # <<>>
    BY ScopesTop
<1>2. /\ Len(s) \in Nat /\ Len(s) >= 1 /\ Len(Front(s)) = Len(s) - 1
      /\ \A k \in 1 .. Len(s) - 1 : Front(s)[k] = s[k]
    BY PopOne
<1>3. Len(Front(scopes)) = Len(s) - 1 /\ \A k \in 1 .. Len(s) - 1 : Front(scopes)[k] = scopes[k]
    BY <1>1, PopOne
<1>4. ASSUME NEW k \in 1 .. Len(s) - 1
      PROVE  Front(s)[k].at \in RecordAt /\ Front(s)[k].name = Front(scopes)[k]
    <2>1. k \in 1 .. Len(scopes)
        BY <1>1, <1>2
    <2> QED
        BY <1>2, <1>3, <2>1 DEF ScopesHeld
<1>5. Len(s) - 1 + 1 .. Len(s) - 1 = {}
    BY <1>2
<1> QED
    BY <1>1, <1>2, <1>3, <1>4, <1>5 DEF ScopesHeld

(* It calls another one for a struct inside.                               *)
LEMMA ScopesNested ==
    ASSUME NEW S, NEW s \in Seq(S), s # <<>>, NEW T, NEW scopes \in Seq(T), NEW next,
           ScopesHeld(s, scopes, next), Last(s).at \in RecordAt, next # "record_struct",
           NEW f, f.at \in RecordAt, f.name = Last(s).name,
           NEW g, g.name = next_prefix(Last(s).name)
    PROVE  ScopesHeld(Front(s) \o <<f, g>>, scopes, "record_struct")
<1>1. PICK s2 : s2 = Front(s) \o <<f, g>>
    OBVIOUS
<1>2. /\ Len(s) \in Nat /\ Len(s2) = Len(s) + 1 /\ s2[Len(s)] = f /\ s2[Len(s) + 1] = g /\ Len(s) >= 1
      /\ \A k \in 1 .. Len(s) - 1 : s2[k] = s[k]
    <2>1. PICK A : A = {f.at, g.at}
        OBVIOUS
    <2>4. f.at \in A /\ g.at \in A
        BY <2>1
    <2>2. /\ Above(s, s2, Len(s) - 1, A) /\ Len(s2) = Len(s) + 1 /\ s2[Len(s)] = f
          /\ s2[Len(s) + 1] = g
        BY <1>1, <2>4, AboveCall
    <2>3. Len(s) \in Nat /\ Len(s) >= 1
        BY PopOne
    <2> QED
        BY <2>2, <2>3 DEF Above
<1>3. /\ Len(scopes) = Len(s) /\ Last(s).name = Last(scopes) /\ Last(scopes) = scopes[Len(s)]
      /\ scopes # <<>>
    <2>1. Len(scopes) = Len(s) /\ Last(s).name = Last(scopes) /\ scopes # <<>>
        BY ScopesTop
    <2> QED
        BY <2>1 DEF Last
<1>4. ASSUME NEW k \in 1 .. Len(scopes)
      PROVE  s2[k].at \in RecordAt /\ s2[k].name = scopes[k]
    <2>1. CASE k = Len(s)
        BY <1>2, <1>3, <2>1
    <2>2. CASE k # Len(s)
        <3>1. k \in 1 .. Len(s) - 1
            BY <1>2, <1>3, <2>2
        <3> QED
            BY <1>2, <3>1 DEF ScopesHeld
    <2> QED
        BY <2>1, <2>2
<1>5. ScopesHeld(s2, scopes, "record_struct")
    BY <1>2, <1>3, <1>4 DEF ScopesHeld
<1> QED
    BY <1>1, <1>5

(* Its body begins, as a scope of its own,                                 *)
LEMMA ScopesEntered ==
    ASSUME NEW S, NEW s \in Seq(S), s # <<>>, NEW T, NEW scopes \in Seq(T), NEW name \in T,
           ScopesHeld(s, scopes, "record_struct"), NEW f, f.at \in RecordAt, f.name = name
    PROVE  ScopesHeld(Append(Front(s), f), Append(scopes, name), "record_body")
<1>1. PICK s2 : s2 = Append(Front(s), f)
    OBVIOUS
<1>2. /\ Len(s) \in Nat /\ Len(s2) = Len(s) /\ s2[Len(s)] = f /\ Len(s) >= 1
      /\ \A k \in 1 .. Len(s) - 1 : s2[k] = s[k]
    <2>1. Above(s, s2, Len(s) - 1, RecordAt) /\ Len(s2) = Len(s) /\ s2[Len(s)] = f
        BY <1>1, AboveBecome
    <2>2. Len(s) \in Nat /\ Len(s) >= 1
        BY PopOne
    <2> QED
        BY <2>1, <2>2 DEF Above
<1>3. PICK n \in Nat : n = Len(scopes)
    OBVIOUS
<1>4. Len(s) = n + 1 /\ \A k \in 1 .. n : s[k].at \in RecordAt /\ s[k].name = scopes[k]
    BY <1>3 DEF ScopesHeld
<1>5. PICK names : names = Append(scopes, name)
    OBVIOUS
<1>6. Len(names) = n + 1 /\ names[n + 1] = name /\ \A k \in 1 .. n : names[k] = scopes[k]
    BY <1>3, <1>5, PushOne
<1>7. ASSUME NEW k \in 1 .. n + 1
      PROVE  s2[k].at \in RecordAt /\ s2[k].name = names[k]
    <2>1. k = n + 1 \/ k \in 1 .. n
        OBVIOUS
    <2> QED
        BY <1>2, <1>4, <1>6, <2>1
<1>8. n + 1 + 1 .. n + 1 = {}
    OBVIOUS
<1>9. ScopesHeld(s2, names, "record_body")
    BY <1>2, <1>4, <1>6, <1>7, <1>8 DEF ScopesHeld
<1> QED
    BY <1>1, <1>5, <1>9

(* or it has none.                                                         *)
LEMMA ScopesBodyless ==
    ASSUME NEW S, NEW s \in Seq(S), s # <<>>, NEW T, NEW scopes \in Seq(T),
           ScopesHeld(s, scopes, "record_struct")
    PROVE  ScopesHeld(Front(s), scopes, "return")
<1>1. /\ Len(s) \in Nat /\ Len(s) >= 1 /\ Len(Front(s)) = Len(s) - 1
      /\ \A k \in 1 .. Len(s) - 1 : Front(s)[k] = s[k]
    BY PopOne
<1>2. PICK n \in Nat : n = Len(scopes)
    OBVIOUS
<1>3. Len(s) = n + 1 /\ \A k \in 1 .. n : s[k].at \in RecordAt /\ s[k].name = scopes[k]
    BY <1>2 DEF ScopesHeld
<1>4. n + 1 .. Len(Front(s)) = {} /\ Len(Front(s)) = n
    BY <1>1, <1>3
<1> QED
    BY <1>1, <1>2, <1>3, <1>4 DEF ScopesHeld

(* The prefix with the name of the struct is its full name.                *)
LEMMA PrefixedName ==
    ASSUME NEW scopes \in Seq(Seq(Int)), NEW i \in Nat, NEW name,
           name = IF scopes = <<>> THEN <<>> ELSE next_prefix(Last(scopes))
    PROVE  Append(name, i) = FullName(scopes, i)
<1>1. CASE scopes = <<>>
    BY <1>1 DEF FullName
<1>2. CASE scopes # <<>>
    <2>1. PICK T : T = Seq(Int)
        OBVIOUS
    <2>2. Last(scopes) \in T
        BY <1>2, <2>1, PopOne
    <2>3. PICK u \in Seq(Int) : u = Last(scopes)
        BY <2>1, <2>2
    <2>4. name = Append(u, Dot)
        BY <1>2, <2>3 DEF next_prefix, empty
    <2>5. Dot \in Int /\ i \in Int
        BY DEF Dot
    <2>6. u \o <<Dot, i>> = Append(Append(u, Dot), i)
        BY <2>5, TwoPushes
    <2> QED
        BY <1>2, <2>3, <2>4, <2>6 DEF FullName
<1> QED
    BY <1>1, <1>2

(* The head of a struct: its name is registered, and its braces open.      *)
LEMMA HeadNames ==
    ASSUME ParserInv, CursorSound, NamesInv, pass = 1, record_struct_decl
    PROVE  NamesInv'
<1>1. /\ pc = "record_struct" /\ Tok(toki) = "TOK_STRUCT" /\ toki \in Nat /\ tokens' = tokens
      /\ stack # <<>> /\ Caller.at = "record" /\ advance_head
    BY DEF record_struct_decl, ParserInv, CursorSound, TopOK, Caller
<1>2. Caller \in RecordFrames
    BY <1>1, RecordCaller DEF RecordAt
<1>3. PICK S : stack \in Seq(S)
    BY DEF ParserInv, StackOK
<1>4. PICK T : T = Seq(Int)
    OBVIOUS
<1>5. PICK scopes \in Seq(T) : scopes = Scopes[toki]
    BY <1>1, <1>4, OneToken
<1>6. PICK n \in Nat : n = toki
    BY <1>1
<1>7. ScopesHeld(stack, scopes, "record_struct") /\ known_types = StructNames[n]
    BY <1>1, <1>5, <1>6 DEF NamesInv
<1>8. Caller.name = IF scopes = <<>> THEN <<>> ELSE next_prefix(Last(scopes))
    BY <1>7 DEF ScopesHeld, Caller, Last
<1>9. Append(Caller.name, n + 1) = FullName(scopes, n + 1)
    BY <1>4, <1>8, PrefixedName
<1>10. Scopes[n + 1] = scopes /\ StructNames[n + 1] = known_types
    BY <1>1, <1>5, <1>6, <1>7, OneToken
<1>11. n + 1 \in Nat /\ n + 2 \in Nat /\ n + 1 + 1 = n + 2 /\ n + 2 + 1 = n + 3 /\ n + 1 - 1 = n
       /\ n + 2 - 1 = n + 1 /\ n + 3 - 1 = n + 2
    OBVIOUS
<1>12. ASSUME NEW name \in T, HasBody, pc' = "record_body",
              stack' = Append(Front(stack), [Caller EXCEPT !.name = name])
       PROVE  ScopesHeld(stack', Append(scopes, name), pc')
    <2>1. PICK f : f = [Caller EXCEPT !.name = name]
        OBVIOUS
    <2>2. f.name = name /\ f.at \in RecordAt
        BY <1>2, <2>1 DEF RecordFrames
    <2> QED
        BY <1>1, <1>3, <1>7, <1>12, <2>1, <2>2, ScopesEntered
<1>13. ASSUME stack' = Front(stack), pc' = "return"
       PROVE  ScopesHeld(stack', scopes, pc')
    BY <1>1, <1>3, <1>7, <1>13, ScopesBodyless
<1>14. CASE Named
    <2>1. Tok(n + 1) = "TOK_IDENTIFIER" /\ Tok(n) = "TOK_STRUCT" /\ Count(Named) = 1
        BY <1>1, <1>6, <1>14 DEF Named, Count
    <2>2. Scopes[n + 2] = scopes /\ StructNames[n + 2] = Append(known_types, FullName(scopes, n + 1))
        <3>1. PICK k \in Nat : k = n + 1
            BY <1>11
        <3>2. k > 0 /\ Tok(k) = "TOK_IDENTIFIER" /\ Tok(k - 1) = "TOK_STRUCT" /\ k + 1 = n + 2
            BY <1>11, <2>1, <3>1
        <3>3. Scopes[k + 1] = Scopes[k] /\ StructNames[k + 1] = Append(StructNames[k], FullName(Scopes[k], k))
            BY <3>2, OneToken
        <3> QED
            BY <1>10, <3>1, <3>2, <3>3
    <2>3. PICK name : name = FullName(scopes, n + 1)
        OBVIOUS
    <2>4. name \in T
        BY <1>4, <1>11, <2>3, FullNameType
    <2>5. /\ known_types' = Append(known_types, name)
          /\ HasBody => /\ stack' = Append(Front(stack), [Caller EXCEPT !.name = name])
                        /\ pc' = "record_body"
          /\ ~HasBody => stack' = Front(stack) /\ pc' = "return"
        BY <1>6, <1>9, <1>14, <2>3 DEF record_struct_decl, Become, Pop
    <2>6. CASE HasBody
        <3>1. Tok(n + 2) = "TOK_LBRACE" /\ toki' = n + 3
            <4>1. Tok(toki + 1 + 1) = "TOK_LBRACE" /\ Count(HasBody) = 1
                BY <2>1, <2>6 DEF HasBody, Count
            <4>2. advance(3)
                BY <1>1, <2>1, <4>1 DEF advance_head
            <4> QED
                BY <1>6, <1>11, <4>1, <4>2 DEF advance
        <3>2. Scopes[n + 3] = Append(scopes, name) /\ StructNames[n + 3] = Append(known_types, name)
            <4>1. PICK k \in Nat : k = n + 2
                BY <1>11
            <4>2. /\ k > 0 /\ Tok(k) = "TOK_LBRACE" /\ Tok(k - 1) = "TOK_IDENTIFIER"
                  /\ k + 1 = n + 3 /\ k - 1 = n + 1
                BY <1>11, <2>1, <3>1, <4>1
            <4>3. /\ Scopes[k + 1] = Append(Scopes[k], FullName(Scopes[k], k - 1))
                  /\ StructNames[k + 1] = StructNames[k]
                BY <4>2, OneToken
            <4> QED
                BY <2>2, <2>3, <4>1, <4>2, <4>3
        <3>3. NameRead(n + 3)
            BY <1>11, <3>1 DEF NameRead
        <3>4. ScopesHeld(stack', Append(scopes, name), pc')
            BY <1>12, <2>4, <2>5, <2>6
        <3> QED
            BY <1>1, <2>5, <2>6, <3>1, <3>2, <3>3, <3>4, NamesAgain
    <2>7. CASE ~HasBody
        <3>1. toki' = n + 2
            <4>1. Count(HasBody) = 0
                BY <2>7 DEF Count
            <4>2. advance(2)
                BY <1>1, <2>1, <4>1 DEF advance_head
            <4> QED
                BY <1>6, <4>2 DEF advance
        <3>2. NameRead(n + 2)
            BY <1>11, <2>1 DEF NameRead
        <3>3. ScopesHeld(stack', scopes, pc')
            BY <1>13, <2>5, <2>7
        <3> QED
            BY <1>1, <2>2, <2>3, <2>5, <2>7, <3>1, <3>2, <3>3, NamesAgain
    <2> QED
        BY <2>6, <2>7
<1>15. CASE ~Named
    <2>1. Tok(n + 1) # "TOK_IDENTIFIER" /\ Tok(n) = "TOK_STRUCT" /\ Count(Named) = 0
        BY <1>1, <1>6, <1>15 DEF Named, Count
    <2>2. PICK name \in T : name = <<>>
        <3>1. <<>> \in Seq(Int)
            OBVIOUS
        <3> QED
            BY <1>4, <3>1
    <2>3. /\ known_types' = known_types
          /\ HasBody => /\ stack' = Append(Front(stack), [Caller EXCEPT !.name = name])
                        /\ pc' = "record_body"
          /\ ~HasBody => stack' = Front(stack) /\ pc' = "return"
        BY <1>15, <2>2 DEF record_struct_decl, Become, Pop
    <2>4. CASE HasBody
        <3>1. Tok(n + 1) = "TOK_LBRACE" /\ toki' = n + 2
            <4>1. Tok(toki + 1 + 0) = "TOK_LBRACE" /\ Count(HasBody) = 1
                BY <2>1, <2>4 DEF HasBody, Count
            <4>2. advance(2)
                BY <1>1, <2>1, <4>1 DEF advance_head
            <4> QED
                BY <1>6, <1>11, <4>1, <4>2 DEF advance
        <3>2. Scopes[n + 2] = Append(scopes, name) /\ StructNames[n + 2] = known_types
            <4>1. PICK k \in Nat : k = n + 1
                BY <1>11
            <4>2. /\ Tok(k) = "TOK_LBRACE" /\ Tok(k - 1) # "TOK_IDENTIFIER" /\ k + 1 = n + 2
                BY <1>11, <2>1, <3>1, <4>1
            <4>3. Scopes[k + 1] = Append(Scopes[k], <<>>) /\ StructNames[k + 1] = StructNames[k]
                BY <4>2, OneToken
            <4> QED
                BY <1>10, <2>2, <4>1, <4>2, <4>3
        <3>3. NameRead(n + 2)
            BY <1>11, <3>1 DEF NameRead
        <3>4. ScopesHeld(stack', Append(scopes, name), pc')
            BY <1>12, <2>3, <2>4
        <3> QED
            BY <1>1, <2>3, <2>4, <3>1, <3>2, <3>3, <3>4, NamesAgain
    <2>5. CASE ~HasBody
        <3>1. toki' = n + 1
            <4>1. Count(HasBody) = 0
                BY <2>5 DEF Count
            <4>2. advance(1)
                BY <1>1, <2>1, <4>1 DEF advance_head
            <4> QED
                BY <1>6, <4>2 DEF advance
        <3>2. NameRead(n + 1)
            BY <1>11, <2>1 DEF NameRead
        <3>3. ScopesHeld(stack', scopes, pc')
            BY <1>13, <2>3, <2>5
        <3> QED
            BY <1>1, <1>10, <2>3, <2>5, <3>1, <3>2, <3>3, NamesAgain
    <2> QED
        BY <2>4, <2>5
<1> QED
    BY <1>14, <1>15

(* Pass 1 between the heads.                                               *)
LEMMA RecordNames ==
    ASSUME ParserInv, CursorSound, NamesInv, pass = 1, known_types' = known_types,
           \/ record_types \/ RecordNested \/ RecordNestedEnd
           \/ RecordField \/ RecordFieldEnd \/ RecordClose \/ RecordAgain
    PROVE  NamesInv'
<1>1. PICK S : stack \in Seq(S)
    BY DEF ParserInv, StackOK
<1>2. PICK T : T = Seq(Int)
    OBVIOUS
<1>3. toki \in Nat /\ current = Tok(toki)
    BY DEF ParserInv, CursorSound
<1>4. PICK scopes \in Seq(T) : scopes = Scopes[toki]
    BY <1>2, <1>3, OneToken
<1>5. /\ known_types = StructNames[toki] /\ (pc # "recorded" => NameRead(toki))
      /\ pc \notin {"recorded", "exit"} => ScopesHeld(stack, scopes, pc)
    BY <1>4 DEF NamesInv
<1>6. ASSUME \/ pc = "record_body" \/ ReturnTo("record_nested") \/ ReturnTo("record_field")
      PROVE  /\ stack # <<>> /\ Caller.at \in RecordAt /\ Caller \in RecordFrames
             /\ ScopesHeld(stack, scopes, pc) /\ NameRead(toki) /\ pc # "record_struct"
    <2>1. stack # <<>> /\ Caller.at \in RecordAt
        BY <1>6 DEF ParserInv, TopOK, ReturnTo, Caller, RecordAt
    <2>2. pc \in {"record_body", "return"}
        BY <1>6 DEF ReturnTo
    <2> QED
        BY <1>5, <2>1, <2>2, RecordCaller
<1>7. ASSUME NEW at \in RecordAt, Resume(at), pc' \in {"record_body", "var_decl"}, NEW j \in Nat,
             tokens' = tokens, toki' = j, toki <= j, \A k \in toki .. j - 1 : tokens[k + 1] \notin Control,
             \/ pc = "record_body" \/ ReturnTo("record_nested") \/ ReturnTo("record_field")
      PROVE  NamesInv'
    <2>1. PICK f : f = [Caller EXCEPT !.at = at]
        OBVIOUS
    <2>2. f.at \in RecordAt /\ f.name = Caller.name
        BY <1>6, <1>7, <2>1 DEF RecordFrames
    <2>3. stack' = Append(Front(stack), f)
        BY <1>7, <2>1 DEF Resume, Become
    <2>4. ScopesHeld(stack', scopes, pc')
        <3>1. pc' # "record_struct"
            BY <1>7
        <3> QED
            BY <1>1, <1>6, <1>7, <2>2, <2>3, <3>1, ScopesResumed DEF Caller
    <2>5. Scopes[j] = scopes /\ StructNames[j] = known_types /\ NameRead(j)
        BY <1>3, <1>4, <1>5, <1>6, <1>7, FieldsPlain
    <2> QED
        BY <1>7, <2>4, <2>5, NamesAgain
<1>8. CASE record_types
    <2>1. PICK f : f = RecordFrame("record", <<>>)
        OBVIOUS
    <2>2. /\ toki' = toki /\ tokens' = tokens /\ pc' = "record_struct" /\ stack' = <<f>>
          /\ pc = "record_types" /\ stack = <<>>
        BY <1>8, <2>1 DEF record_types, ParserInv, TopOK
    <2>3. ScopesHeld(stack, scopes, pc) /\ NameRead(toki)
        BY <1>5, <2>2
    <2>4. Len(scopes) = 0 /\ scopes = <<>>
        <3>1. Len(scopes) <= 0 /\ Len(scopes) \in Nat
            BY <2>2, <2>3 DEF ScopesHeld
        <3> QED
            BY <3>1
    <2>5. f.name = <<>>
        BY <2>1 DEF RecordFrame
    <2>6. Len(<<f>>) = 1 /\ <<f>>[1] = f
        OBVIOUS
    <2>7. 1 .. Len(scopes) = {}
        BY <2>4
    <2>8. ScopesHeld(stack', scopes, "record_struct")
        BY <2>2, <2>4, <2>5, <2>6, <2>7 DEF ScopesHeld
    <2> QED
        BY <1>4, <1>5, <2>2, <2>3, <2>8, NamesAgain
<1>9. CASE RecordAgain
    <2>1. /\ toki' = toki /\ tokens' = tokens /\ pc' = "record_types" /\ stack' = stack
          /\ pc = "return"
        BY <1>9 DEF RecordAgain
    <2>2. ScopesHeld(stack, scopes, pc) /\ NameRead(toki)
        BY <1>5, <2>1
    <2>3. ScopesHeld(stack', scopes, pc')
        BY <2>1, <2>2 DEF ScopesHeld
    <2> QED
        BY <1>4, <1>5, <2>1, <2>2, <2>3, NamesAgain
<1>10. CASE RecordNested
    <2>1. PICK g : g = Caller
        OBVIOUS
    <2>2. PICK f, h : f = [g EXCEPT !.at = "record_nested"] /\ h = RecordFrame("record", next_prefix(g.name))
        OBVIOUS
    <2>3. /\ toki' = toki /\ tokens' = tokens /\ pc' = "record_struct" /\ pc = "record_body"
          /\ stack' = Front(stack) \o <<f, h>>
        BY <1>10, <2>1, <2>2 DEF RecordNested
    <2>4. f.at \in RecordAt /\ f.name = Caller.name /\ h.name = next_prefix(Caller.name)
        BY <1>6, <2>1, <2>2, <2>3 DEF RecordFrames, RecordAt, RecordFrame
    <2>5. ScopesHeld(stack', scopes, pc')
        BY <1>1, <1>6, <2>3, <2>4, ScopesNested DEF Caller
    <2> QED
        BY <1>4, <1>5, <2>3, <2>5, NamesAgain
<1>11. CASE RecordNestedEnd
    <2>1. PICK at \in RecordAt : at = "record"
        BY DEF RecordAt
    <2>2. /\ ReturnTo("record_nested") /\ tokens' = tokens /\ pc' = "record_body" /\ Resume(at)
          /\ advance(IF current = "TOK_IDENTIFIER" THEN 2 ELSE 0)
          /\ current = "TOK_IDENTIFIER" => Tok(toki + 1) = "TOK_SEMICOLON"
        BY <1>11, <2>1 DEF RecordNestedEnd
    <2>3. CASE current = "TOK_IDENTIFIER"
        <3>4. PICK j \in Nat : j = toki + 2
            BY <1>3
        <3>1. toki' = j /\ toki <= j
            BY <1>3, <2>2, <2>3, <3>4 DEF advance
        <3>2. \A k \in toki .. j - 1 : k = toki \/ k = toki + 1
            BY <1>3, <3>4
        <3>3. \A k \in toki .. j - 1 : tokens[k + 1] \notin Control
            BY <1>3, <2>2, <2>3, <3>2 DEF Tok, Control
        <3> QED
            BY <1>7, <2>2, <3>1, <3>3
    <2>4. CASE current # "TOK_IDENTIFIER"
        <3>1. toki' = toki /\ toki <= toki
            BY <1>3, <2>2, <2>4 DEF advance
        <3>2. toki .. toki - 1 = {}
            BY <1>3
        <3> QED
            BY <1>3, <1>7, <2>2, <3>1, <3>2
    <2> QED
        BY <2>3, <2>4
<1>12. CASE RecordField
    <2>1. PICK at \in RecordAt : at = "record_field"
        BY DEF RecordAt
    <2>2. toki' = toki /\ tokens' = tokens /\ pc' = "var_decl" /\ Resume(at) /\ pc = "record_body"
        BY <1>12, <2>1 DEF RecordField
    <2>3. toki .. toki - 1 = {} /\ toki <= toki
        BY <1>3
    <2> QED
        BY <1>3, <1>7, <2>2, <2>3
<1>13. CASE RecordFieldEnd
    <2>1. PICK at \in RecordAt : at = "record"
        BY DEF RecordAt
    <2>2. /\ ReturnTo("record_field") /\ tokens' = tokens /\ pc' = "record_body" /\ Resume(at)
          /\ toki' = toki + 1 /\ Tok(toki) = "TOK_SEMICOLON"
        BY <1>3, <1>13, <2>1 DEF RecordFieldEnd, advance
    <2>5. PICK j \in Nat : j = toki + 1
        BY <1>3
    <2>3. toki' = j /\ toki <= j /\ \A k \in toki .. j - 1 : k = toki
        BY <1>3, <2>2, <2>5
    <2>4. \A k \in toki .. j - 1 : tokens[k + 1] \notin Control
        BY <2>2, <2>3 DEF Tok, Control
    <2> QED
        BY <1>7, <2>2, <2>3, <2>4
<1>14. CASE RecordClose
    <2>1. /\ toki' = toki + 1 /\ tokens' = tokens /\ Tok(toki) = "TOK_RBRACE"
          /\ pc' = "return" /\ stack' = Front(stack) /\ pc = "record_body"
        BY <1>3, <1>14 DEF RecordClose, Pop, advance
    <2>2. scopes # <<>> /\ ScopesHeld(stack', Front(scopes), pc')
        <3>1. pc # "record_struct" /\ pc' # "record_struct"
            BY <2>1
        <3> QED
            BY <1>1, <1>6, <2>1, <3>1, ScopesLeft DEF Caller
    <2>3. Scopes[toki + 1] = Front(scopes) /\ StructNames[toki + 1] = known_types
        BY <1>3, <1>4, <1>5, <2>1, <2>2, OneToken
    <2>4. NameRead(toki + 1)
        BY <1>3, <2>1 DEF NameRead
    <2> QED
        BY <2>1, <2>2, <2>3, <2>4, NamesAgain
<1> QED
    BY <1>8, <1>9, <1>10, <1>11, <1>12, <1>13, <1>14

(* Nothing of pass 2 happens in pass 1.                                    *)
LEMMA PassOneAlone ==
    ASSUME ParserInv, NamesInv, pass = 1
    PROVE  ~ParseStruct /\ ~ReturnTo("struct_nested") /\ ~ReturnTo("nested_field")
<1>1. PICK S : stack \in Seq(S)
    BY DEF ParserInv, StackOK
<1>2. PICK T : T = Seq(Int)
    OBVIOUS
<1>3. PICK scopes \in Seq(T) : scopes = Scopes[toki]
    BY <1>2, OneToken DEF ParserInv
<1>4. pc \notin {"struct_decl", "struct_body"}
    BY DEF NamesInv
<1>5. ASSUME pc = "return", stack # <<>>, Caller.at \in StructAt
      PROVE  FALSE
    <2>1. ScopesHeld(stack, scopes, pc) /\ pc # "record_struct"
        BY <1>3, <1>5 DEF NamesInv
    <2>2. Caller.at \in RecordAt \cup FieldAt
        BY <1>1, <1>5, <2>1, ScopesTop DEF Caller
    <2> QED
        BY <1>5, <2>2 DEF RecordAt, FieldAt, FrameAt, DeclAt, StructAt
<1>6. \A at \in StructAt : ~ReturnTo(at)
    BY <1>5 DEF ReturnTo
<1>7. ~ReturnTo("struct_field") /\ ~ReturnTo("struct_nested") /\ ~ReturnTo("nested_field")
    BY <1>6 DEF StructAt
<1> QED
    BY <1>4, <1>7 DEF ParseStruct, parse_struct_decl, StructField, StructFieldEnd, StructClose,
                      StructNested, StructNestedEnd, NestedField, NestedFieldEnd, LookupFails, main

(* The invariant of pass 1, step by step.                                  *)
LEMMA FrontNames ==
    ASSUME FrontInv, NamesInv, FrontNext
    PROVE  NamesInv'
<1>1. CASE pass' # 1
    BY <1>1 DEF NamesInv
<1>2. CASE pass' = 1 /\ ~record_types_default
    <2>1. pass = 1
        BY <1>2 DEF FrontNext, RecordTypes, record_types, new_ast, RecordAgain, RecordNested, RecordNestedEnd,
                    RecordField, RecordFieldEnd, RecordClose, record_struct_decl, ParseStruct, parse_struct_decl,
                    StructField, StructFieldEnd, StructClose, StructNested, StructNestedEnd, NestedField,
                    NestedFieldEnd, LookupFails, main, StructFails
    <2>2. ~new_ast
        BY <1>2 DEF new_ast
    <2>3. pc # "recorded" /\ ParserInv /\ CursorSound
        BY <1>2, <2>2, Skipping DEF FrontInv
    <2>4. CASE record_struct_decl
        BY <2>1, <2>3, <2>4, HeadNames
    <2>5. CASE \/ record_types \/ RecordNested \/ RecordNestedEnd
               \/ RecordField \/ RecordFieldEnd \/ RecordClose \/ RecordAgain
        <3>1. known_types' = known_types
            BY <2>5 DEF record_types, RecordAgain, RecordNested, RecordNestedEnd, RecordField, RecordFieldEnd,
                        RecordClose
        <3> QED
            BY <2>1, <2>3, <2>5, <3>1, RecordNames
    <2>6. CASE (parse_expr \/ parse_var_decl) /\ UNCHANGED <<known_types, pass>>
        BY <2>1, <2>3, <2>6, FieldStep
    <2>7. ~ParseStruct
        BY <2>1, <2>3, PassOneAlone
    <2>8. CASE StructFails
        <3>1. tokens' = tokens /\ toki' = toki /\ pc' = "exit" /\ known_types' = known_types
            BY <2>8 DEF StructFails, Exit
        <3>2. known_types = StructNames[toki] /\ NameRead(toki)
            BY <2>1, <2>3 DEF NamesInv
        <3> QED
            BY <3>1, <3>2, NamesAgain
    <2> QED
        BY <1>2, <2>2, <2>4, <2>5, <2>6, <2>7, <2>8 DEF FrontNext, RecordTypes
<1>3. CASE pass' = 1 /\ record_types_default
    <2>1. /\ toki' = toki + 1 /\ tokens' = tokens /\ pc' = "recorded" /\ known_types' = known_types
          /\ pc = "record_types" /\ pass = 1
        BY <1>3 DEF record_types_default
    <2>2. toki \in Nat /\ known_types = StructNames[toki] /\ NameRead(toki)
        BY <2>1 DEF NamesInv, FrontInv, ParserInv
    <2>3. StructNames[toki + 1] = StructNames[toki]
        BY <2>2, OneToken DEF NameRead
    <2> QED
        BY <2>1, <2>2, <2>3, NamesAgain
<1> QED
    BY <1>1, <1>2, <1>3

(* This holds at every moment.                                             *)
LEMMA FrontNamesHold == FrontSpec => [](FrontInv /\ NamesInv)
<1>1. FrontInit => FrontInv /\ NamesInv
    <2> SUFFICES ASSUME FrontInit PROVE FrontInv /\ NamesInv
        OBVIOUS
    <2>1. ParserInv /\ CursorSound
        BY NothingYet DEF FrontInit
    <2>2. toki <= Len(tokens) /\ current \in {tokens[i] : i \in 1 .. Len(tokens)} \cup {"garbage"}
        BY <2>1, CursorInText
    <2>3. known_types \in Seq(Seq(Int)) /\ pass \in {1, 2} /\ pc \in FrontPc
        BY DEF FrontInit, FrontPc
    <2>4. toki = 0 /\ Scopes[0] = <<>> /\ StructNames[0] = <<>> /\ stack = <<>> /\ known_types = <<>>
        BY ScopesStep, StructNamesStep DEF FrontInit
    <2>5. ScopesHeld(<<>>, <<>>, "record_types")
        BY DEF ScopesHeld
    <2>6. NameRead(0)
        BY DEF NameRead
    <2>7. pc = "record_types"
        BY DEF FrontInit
    <2>8. NamesInv
        BY <2>4, <2>5, <2>6, <2>7 DEF NamesInv
    <2> QED
        BY <2>1, <2>2, <2>3, <2>8 DEF FrontInv
<1>2. FrontInv /\ NamesInv /\ [FrontNext]_frontVars => (FrontInv /\ NamesInv)'
    <2>1. FrontInv /\ UNCHANGED frontVars => FrontInv'
        BY DEF FrontInv, frontVars, declVars, vars, ParserInv, CursorSound, Tok
    <2>2. NamesInv /\ UNCHANGED frontVars => NamesInv'
        <3> SUFFICES ASSUME NamesInv, UNCHANGED frontVars PROVE NamesInv'
            OBVIOUS
        <3>1. CASE pass # 1
            BY <3>1 DEF NamesInv, frontVars
        <3>2. CASE pass = 1
            BY <3>2, NamesAgain DEF NamesInv, frontVars, declVars, vars
        <3> QED
            BY <3>1, <3>2
    <2> QED
        BY <2>1, <2>2, FrontStep, FrontNames
<1> QED
    BY <1>1, <1>2, PTL DEF FrontSpec

(* For every set of texts and at every moment of pass 1 the known types    *)
(* are the structs whose names were read so far, each once, in the order   *)
(* of the text and under the names of the structs around it.               *)
THEOREM PassOneRegistersNames == FrontSpec => []RegisteredNames
<1>1. NamesInv => RegisteredNames
    BY DEF NamesInv, RegisteredNames
<1> QED
    BY <1>1, FrontNamesHold, PTL

-----------------------------------------------------------------------------
(* The two passes side by side.                                            *)

(* What decides how a parser goes on, pass 1 in the words of pass 2: the   *)
(* cursor, what is to be done, whether the activation on top of the stack  *)
(* is given a node, whether declspec has seen no type yet, and of each     *)
(* activation its place and its minimum.                                   *)
Place(at) ==
    IF at = "record" THEN "struct"
    ELSE IF at = "record_nested" THEN "struct_nested"
    ELSE IF at = "record_field" THEN "struct_field"
    ELSE at

Mark(f) == <<Place(f.at), IF f.at = "precedence" THEN f.min ELSE 0>>

Marks(s) == [k \in 1 .. Len(s) |-> Mark(s[k])]

Doing(p) ==
    IF p = "record_struct" THEN "struct_decl"
    ELSE IF p = "record_body" THEN "struct_body"
    ELSE p

State(i, s, r, b, a) == [i |-> i, s |-> s, r |-> r, b |-> b, a |-> a]

Going(i, s, a) == State(i, s, 0, 0, a)

Back(i, r, a) ==
    State(i, "return", IF a # <<>> /\ Last(a)[1] \in FrameAt THEN r ELSE 0, 0, a)

Failed == Going(0, "exit", <<>>)

CourseOf(p, i, n, s) ==
    IF p \in {"exit", "crash"} THEN Failed
    ELSE IF p = "return" THEN Back(i, Count(n # NULL), Marks(s))
    ELSE IF p = "record_struct" THEN Going(i, "struct_decl", Front(Marks(s)))
    ELSE State(i, Doing(p), 0, Count(p = "declspec" /\ Last(s).id = {}), Marks(s))

Course == CourseOf(pc, toki, ret, stack)

(* How it goes on.                                                         *)
Waits(at) == <<at, 0>>
Operand(min) == <<"precedence", min>>
Call(a, at, min) == Append(Append(a, Waits(at)), Operand(min))

Sees(ts, i, items) ==
    /\ Len(ts) - i >= Len(items)
    /\ \A k \in 1 .. Len(items) : items[k] = ts[i + k - 1 + 1]

AfterUnary(ts, g) ==
    LET t == ts[g.i + 1]
    IN  IF g.s = "unary" /\ t \in DOMAIN UnaryAst
        THEN Going(g.i + 1, "unary", Call(g.a, "operand", PREC_UNARY))
        ELSE IF t = "TOK_IDENTIFIER" THEN Going(g.i + 1, "postfix", g.a)
        ELSE IF t \in DOMAIN LiteralAst THEN Back(g.i + 1, 1, g.a)
        ELSE IF t = "TOK_LPAREN" THEN Going(g.i + 1, "unary", Call(g.a, "group", 0))
        ELSE IF Sees(ts, g.i, <<"TOK_PERIOD", "TOK_IDENTIFIER">>) THEN Back(g.i + 2, 1, g.a)
        ELSE Back(g.i, 0, g.a)

AfterPostfix(ts, g) ==
    LET t == ts[g.i + 1]
    IN  IF t = "TOK_PERIOD" THEN Going(g.i + 1, "primary", Append(g.a, Waits("member")))
        ELSE IF Sees(ts, g.i, <<"TOK_LPAREN", "TOK_RPAREN">>) THEN Going(g.i + 2, "postfix", g.a)
        ELSE IF t = "TOK_LPAREN" THEN Going(g.i + 1, "unary", Call(g.a, "args", 0))
        ELSE IF t = "TOK_LBRACKET" THEN Going(g.i + 1, "unary", Call(g.a, "index", 0))
        ELSE Back(g.i, 1, g.a)

AfterOperand(ts, g) ==
    LET t == ts[g.i + 1]
        prec == get_precedence(t)
    IN  IF prec >= Last(g.a)[2] /\ prec # PREC_NONE
        THEN Going(g.i + 1, "unary", Call(g.a, "rhs", next_prec(t)))
        ELSE Back(g.i, g.r, Front(g.a))

AfterArgument(ts, g) ==
    LET t == ts[g.i + 1]
    IN  IF t = "TOK_COMMA" THEN Going(g.i + 1, "unary", Append(g.a, Operand(0)))
        ELSE IF t = "TOK_RPAREN" THEN Going(g.i + 1, "postfix", Front(g.a))
        ELSE Going(g.i, "unary", Append(g.a, Operand(0)))

AfterNested(ts, g) ==
    LET body == Append(Front(g.a), Waits("struct"))
    IN  IF ts[g.i + 1] # "TOK_IDENTIFIER" THEN Going(g.i, "struct_body", body)
        ELSE IF ts[g.i + 1 + 1] = "TOK_SEMICOLON" THEN Going(g.i + 2, "struct_body", body)
        ELSE Failed

AfterReturn(ts, g) ==
    LET t == ts[g.i + 1]
        at == Last(g.a)[1]
    IN  IF g.a = <<>> THEN g
        ELSE IF at = "precedence" THEN AfterOperand(ts, g)
        ELSE IF at \in {"rhs", "operand", "initializer"} THEN Back(g.i, 1, Front(g.a))
        ELSE IF at = "group"
        THEN IF t = "TOK_RPAREN" THEN Back(g.i + 1, 1, Front(g.a)) ELSE Failed
        ELSE IF at = "member"
        THEN IF g.r = 1 THEN Going(g.i, "postfix", Front(g.a)) ELSE Back(g.i, 0, Front(g.a))
        ELSE IF at = "args" THEN AfterArgument(ts, g)
        ELSE IF at = "index"
        THEN IF g.r = 1 /\ t = "TOK_RBRACKET" THEN Going(g.i + 1, "postfix", Front(g.a)) ELSE Failed
        ELSE IF at = "array_len"
        THEN IF t = "TOK_RBRACKET"
             THEN Going(g.i + 1, "arrays", Append(Front(g.a), Waits("declaration"))) ELSE Failed
        ELSE IF at = "struct_field"
        THEN IF t = "TOK_SEMICOLON"
             THEN Going(g.i + 1, "struct_body", Append(Front(g.a), Waits("struct"))) ELSE Failed
        ELSE AfterNested(ts, g)

AfterVarDecl(ts, g) ==
    LET t == ts[g.i + 1]
        k == Count(t = "TOK_CONST")
    IN  IF \/ Sees(ts, g.i, <<"TOK_LET", "TOK_IDENTIFIER", "TOK_EQUAL">>)
           \/ Sees(ts, g.i, <<"TOK_CONST", "TOK_IDENTIFIER", "TOK_EQUAL">>)
        THEN Going(g.i + 3, "unary", Call(g.a, "initializer", 0))
        ELSE IF t = "TOK_LET" THEN Failed
        ELSE State(g.i + k + Count(ts[g.i + k + 1] = "TOK_STATIC"), "declspec", 0, 1,
                   Append(g.a, Waits("declaration")))

AfterSpecifier(ts, g) ==
    LET t == ts[g.i + 1]
    IN  IF t \in DOMAIN tag_to_primitive THEN Going(g.i + 1, "declspec", g.a)
        ELSE IF t = "TOK_IDENTIFIER" /\ g.b = 1 THEN Going(g.i + 1, "qualified", g.a)
        ELSE Going(g.i, "pointers", g.a)

AfterDeclarator(ts, g) ==
    LET t == ts[g.i + 1]
    IN  IF g.s = "qualified"
        THEN IF t \notin Separators THEN Going(g.i, "pointers", g.a)
             ELSE IF ts[g.i + 1 + 1] = "TOK_IDENTIFIER" THEN Going(g.i + 2, "qualified", g.a)
             ELSE Failed
        ELSE IF t = "TOK_ASTERISK" THEN Going(g.i + 1, "pointers", g.a)
        ELSE IF t = "TOK_IDENTIFIER" THEN Going(g.i + 1, "arrays", g.a)
        ELSE Failed

AfterArrays(ts, g) ==
    LET t == ts[g.i + 1]
    IN  IF Sees(ts, g.i, <<"TOK_LBRACKET", "TOK_RBRACKET">>) THEN Going(g.i + 2, "arrays", g.a)
        ELSE IF t = "TOK_LBRACKET"
        THEN Going(g.i + 1, "unary", Call(Front(g.a), "array_len", 0))
        ELSE IF t = "TOK_EQUAL"
        THEN Going(g.i + 1, "unary", Call(Front(g.a), "initializer", 0))
        ELSE Back(g.i, 1, Front(g.a))

AfterHead(ts, g) ==
    LET k == 1 + Count(ts[g.i + 1 + 1] = "TOK_IDENTIFIER")
    IN  IF ts[g.i + 1] # "TOK_STRUCT" THEN Failed
        ELSE IF ts[g.i + k + 1] = "TOK_LBRACE"
        THEN Going(g.i + k + 1, "struct_body", Append(g.a, Waits("struct")))
        ELSE Back(g.i + k, 0, g.a)

AfterField(ts, g) ==
    LET t == ts[g.i + 1]
    IN  IF t \in Records
        THEN Going(g.i, "struct_decl", Append(Front(g.a), Waits("struct_nested")))
        ELSE IF t = "TOK_RBRACE" THEN Back(g.i + 1, 0, Front(g.a))
        ELSE IF t = "TOK_EOF" THEN Failed
        ELSE Going(g.i, "var_decl", Append(Front(g.a), Waits("struct_field")))

After(ts, g) ==
    IF g.s \in {"unary", "primary"} THEN AfterUnary(ts, g)
    ELSE IF g.s = "postfix" THEN AfterPostfix(ts, g)
    ELSE IF g.s = "return" THEN AfterReturn(ts, g)
    ELSE IF g.s = "var_decl" THEN AfterVarDecl(ts, g)
    ELSE IF g.s = "declspec" THEN AfterSpecifier(ts, g)
    ELSE IF g.s \in {"qualified", "pointers"} THEN AfterDeclarator(ts, g)
    ELSE IF g.s = "arrays" THEN AfterArrays(ts, g)
    ELSE IF g.s = "struct_decl" THEN AfterHead(ts, g)
    ELSE AfterField(ts, g)

CourseGoes == Course' = After(tokens, Course)

(* The marks of a stack.                                                   *)
LEMMA MarksOf ==
    ASSUME NEW S, NEW s \in Seq(S)
    PROVE  /\ Marks(s) \in Seq({Mark(f) : f \in S})
           /\ Len(Marks(s)) = Len(s)
           /\ \A k \in 1 .. Len(s) : Marks(s)[k] = Mark(s[k])
           /\ Marks(s) = <<>> <=> s = <<>>
<1>1. \A k \in 1 .. Len(s) : Mark(s[k]) \in {Mark(f) : f \in S}
    OBVIOUS
<1>2. Len(s) \in Nat
    OBVIOUS
<1>3. Marks(s) \in [1 .. Len(s) -> {Mark(f) : f \in S}]
    BY <1>1 DEF Marks
<1>4. Marks(s) \in Seq({Mark(f) : f \in S})
    BY <1>2, <1>3
<1>5. Len(Marks(s)) = Len(s)
    BY <1>2, <1>3, <1>4
<1>6. \A k \in 1 .. Len(s) : Marks(s)[k] = Mark(s[k])
    BY DEF Marks
<1>7. Marks(s) = <<>> <=> s = <<>>
    BY <1>4, <1>5
<1> QED
    BY <1>4, <1>5, <1>6, <1>7

(* Two sequences of equal length and elements are the same.                *)
LEMMA SameSeq ==
    ASSUME NEW S, NEW s \in Seq(S), NEW T, NEW t \in Seq(T), Len(s) = Len(t),
           \A k \in 1 .. Len(s) : s[k] = t[k]
    PROVE  s = t
    OBVIOUS

(* A call,                                                                 *)
LEMMA MarksPush ==
    ASSUME NEW S, NEW s \in Seq(S), NEW f
    PROVE  Marks(Append(s, f)) = Append(Marks(s), Mark(f))
<1>1. PICK T : T = S \cup {f}
    OBVIOUS
<1>2. s \in Seq(T) /\ f \in T
    BY <1>1, WiderSeq
<1>3. PICK u \in Seq(T) : u = Append(s, f)
    BY <1>2, PushOne
<1>4. Len(u) = Len(s) + 1 /\ (\A i \in 1 .. Len(s) : u[i] = s[i]) /\ u[Len(s) + 1] = f /\ Len(s) \in Nat
    BY <1>2, <1>3, PushOne
<1>5. PICK R : R = {Mark(g) : g \in T}
    OBVIOUS
<1>6. Marks(s) \in Seq(R) /\ Mark(f) \in R /\ Len(Marks(s)) = Len(s)
      /\ \A k \in 1 .. Len(s) : Marks(s)[k] = Mark(s[k])
    BY <1>2, <1>5, MarksOf
<1>7. PICK v \in Seq(R) : v = Append(Marks(s), Mark(f))
    BY <1>6, PushOne
<1>8. Len(v) = Len(s) + 1 /\ (\A i \in 1 .. Len(s) : v[i] = Marks(s)[i]) /\ v[Len(s) + 1] = Mark(f)
    BY <1>6, <1>7, PushOne
<1>9. Marks(u) \in Seq(R) /\ Len(Marks(u)) = Len(u) /\ \A k \in 1 .. Len(u) : Marks(u)[k] = Mark(u[k])
    BY <1>5, MarksOf
<1>10. ASSUME NEW k \in 1 .. Len(u) PROVE Marks(u)[k] = v[k]
    <2>1. k \in 1 .. Len(s) \/ k = Len(s) + 1
        BY <1>4
    <2>2. CASE k \in 1 .. Len(s)
        BY <1>4, <1>6, <1>8, <1>9, <2>2
    <2>3. CASE k = Len(s) + 1
        BY <1>4, <1>8, <1>9, <2>3
    <2> QED
        BY <2>1, <2>2, <2>3
<1>11. Marks(u) = v
    <2>1. Len(Marks(u)) = Len(v) /\ \A k \in 1 .. Len(Marks(u)) : Marks(u)[k] = v[k]
        BY <1>4, <1>8, <1>9, <1>10
    <2> QED
        BY <1>9, <2>1, SameSeq
<1> QED
    BY <1>3, <1>7, <1>11

(* a return                                                                *)
LEMMA MarksPop ==
    ASSUME NEW S, NEW s \in Seq(S), s # <<>>
    PROVE  /\ Marks(Front(s)) = Front(Marks(s))
           /\ Last(Marks(s)) = Mark(Last(s))
<1>1. PICK R : R = {Mark(g) : g \in S}
    OBVIOUS
<1>2. PICK m \in Seq(R) : m = Marks(s)
    BY <1>1, MarksOf
<1>10. Len(Marks(s)) = Len(s) /\ \A k \in 1 .. Len(s) : Marks(s)[k] = Mark(s[k])
    BY MarksOf
<1>11. Marks(s) # <<>>
    BY MarksOf
<1>3. Len(m) = Len(s) /\ m # <<>> /\ \A k \in 1 .. Len(s) : m[k] = Mark(s[k])
    BY <1>2, <1>10, <1>11
<1>4. /\ Front(s) \in Seq(S) /\ Len(Front(s)) = Len(s) - 1 /\ \A i \in 1 .. Len(s) - 1 : Front(s)[i] = s[i]
      /\ Last(s) = s[Len(s)] /\ Len(s) \in Nat /\ Len(s) >= 1
    BY PopOne
<1>5. /\ Front(m) \in Seq(R) /\ Len(Front(m)) = Len(m) - 1 /\ \A i \in 1 .. Len(m) - 1 : Front(m)[i] = m[i]
      /\ Last(m) = m[Len(m)]
    BY <1>3, PopOne
<1>6. PICK v \in Seq(S) : v = Front(s)
    BY <1>4
<1>7. Marks(v) \in Seq(R) /\ Len(Marks(v)) = Len(v) /\ \A k \in 1 .. Len(v) : Marks(v)[k] = Mark(v[k])
    BY <1>1, MarksOf
<1>8. Marks(v) = Front(m)
    <2>1. Len(Marks(v)) = Len(Front(m)) /\ \A k \in 1 .. Len(Marks(v)) : Marks(v)[k] = Front(m)[k]
        BY <1>3, <1>4, <1>5, <1>6, <1>7
    <2> QED
        BY <1>5, <1>7, <2>1, SameSeq
<1>9. Last(m) = Mark(Last(s))
    BY <1>3, <1>4, <1>5
<1> QED
    BY <1>2, <1>6, <1>8, <1>9

(* and a call that waits for another one.                                  *)
LEMMA MarksTwo ==
    ASSUME NEW S, NEW s \in Seq(S), NEW f, NEW g
    PROVE  Marks(s \o <<f, g>>) = Append(Append(Marks(s), Mark(f)), Mark(g))
<1>1. PICK T : T = S \cup {f, g}
    OBVIOUS
<1>2. s \in Seq(T) /\ f \in T /\ g \in T
    BY <1>1, WiderSeq
<1>3. PICK u \in Seq(T) : u = Append(s, f)
    BY <1>2, PushOne
<1>4. Len(u) = Len(s) + 1 /\ (\A i \in 1 .. Len(s) : u[i] = s[i]) /\ u[Len(s) + 1] = f /\ Len(s) \in Nat
    BY <1>2, <1>3, PushOne
<1>5. PICK v \in Seq(T) : v = Append(u, g)
    BY <1>2, PushOne
<1>6. Len(v) = Len(u) + 1 /\ (\A i \in 1 .. Len(u) : v[i] = u[i]) /\ v[Len(u) + 1] = g
    BY <1>2, <1>5, PushOne
<1>7. PICK w \in Seq(T) : w = s \o <<f, g>>
    BY <1>2, PushTwo
<1>8. /\ Len(w) = Len(s) + 2 /\ (\A i \in 1 .. Len(s) : w[i] = s[i])
      /\ w[Len(s) + 1] = f /\ w[Len(s) + 2] = g
    BY <1>2, <1>7, PushTwo
<1>9. ASSUME NEW k \in 1 .. Len(v) PROVE v[k] = w[k]
    <2>1. k \in 1 .. Len(s) \/ k = Len(s) + 1 \/ k = Len(s) + 2
        BY <1>4, <1>6
    <2> QED
        BY <1>4, <1>6, <1>8, <2>1
<1>10. v = w
    BY <1>4, <1>6, <1>8, <1>9, SameSeq
<1>11. Marks(u) = Append(Marks(s), Mark(f))
    BY <1>2, <1>3, MarksPush
<1>12. Marks(v) = Append(Marks(u), Mark(g))
    BY <1>5, MarksPush
<1> QED
    BY <1>7, <1>10, <1>11, <1>12

(* The last element and the ones before it.                                *)
LEMMA FrontLast ==
    ASSUME NEW S, NEW s \in Seq(S)
    PROVE  /\ \A f : Last(Append(s, f)) = f /\ Front(Append(s, f)) = s /\ Append(s, f) # <<>>
           /\ s # <<>> => Append(Front(s), Last(s)) = s
<1>1. ASSUME NEW f
      PROVE  Last(Append(s, f)) = f /\ Front(Append(s, f)) = s /\ Append(s, f) # <<>>
    <2>1. PICK T : T = S \cup {f}
        OBVIOUS
    <2>2. s \in Seq(T) /\ f \in T
        BY <2>1, WiderSeq
    <2>3. PICK u \in Seq(T) : u = Append(s, f)
        BY <2>2, PushOne
    <2>4. Len(u) = Len(s) + 1 /\ (\A i \in 1 .. Len(s) : u[i] = s[i]) /\ Last(u) = f /\ u # <<>> /\ Len(s) \in Nat
        BY <2>2, <2>3, PushOne
    <2>5. Front(u) \in Seq(T) /\ Len(Front(u)) = Len(u) - 1 /\ \A i \in 1 .. Len(u) - 1 : Front(u)[i] = u[i]
        BY <2>4, PopOne
    <2>6. Front(u) = s
        BY <2>2, <2>4, <2>5, SameSeq
    <2> QED
        BY <2>3, <2>4, <2>6
<1>2. ASSUME s # <<>> PROVE Append(Front(s), Last(s)) = s
    <2>1. /\ Front(s) \in Seq(S) /\ Len(Front(s)) = Len(s) - 1 /\ \A i \in 1 .. Len(s) - 1 : Front(s)[i] = s[i]
          /\ Last(s) \in S /\ Last(s) = s[Len(s)] /\ Len(s) \in Nat /\ Len(s) >= 1
        BY <1>2, PopOne
    <2>2. PICK u \in Seq(S) : u = Append(Front(s), Last(s))
        BY <2>1
    <2>3. Len(u) = Len(s) /\ (\A i \in 1 .. Len(s) - 1 : u[i] = s[i]) /\ u[Len(s)] = s[Len(s)]
        BY <2>1, <2>2, PushOne
    <2>4. \A i \in 1 .. Len(u) : u[i] = s[i]
        BY <2>1, <2>3
    <2> QED
        BY <2>2, <2>3, <2>4, SameSeq
<1> QED
    BY <1>1, <1>2

(* Most of what the parsers do is said by pc, the cursor and the stack.    *)
LEMMA CourseOn ==
    ASSUME NEW p, NEW i, NEW n, NEW s
    PROVE  /\ p \notin {"exit", "crash", "return", "record_struct", "declspec"} =>
                  CourseOf(p, i, n, s) = Going(i, Doing(p), Marks(s))
           /\ p \in {"exit", "crash"} => CourseOf(p, i, n, s) = Failed
           /\ p = "return" /\ n # NULL => CourseOf(p, i, n, s) = Back(i, 1, Marks(s))
           /\ p = "return" /\ n = NULL => CourseOf(p, i, n, s) = Back(i, 0, Marks(s))
           /\ p \notin {"record_struct", "record_body"} => Doing(p) = p
<1>1. Count(TRUE) = 1 /\ Count(FALSE) = 0
    BY DEF Count
<1>2. CASE p \notin {"exit", "crash", "return", "record_struct", "declspec"}
    <2>1. Count(p = "declspec" /\ Last(s).id = {}) = 0
        BY <1>2 DEF Count
    <2> QED
        BY <1>2, <2>1 DEF CourseOf, Going, Doing
<1>3. CASE p = "return"
    <2>1. (n # NULL => Count(n # NULL) = 1) /\ (n = NULL => Count(n # NULL) = 0)
        BY DEF Count
    <2>2. CourseOf(p, i, n, s) = Back(i, Count(n # NULL), Marks(s))
        BY <1>3 DEF CourseOf
    <2> QED
        BY <1>3, <2>1, <2>2 DEF Doing
<1>4. CASE p \in {"exit", "crash", "record_struct", "declspec"}
    BY <1>4 DEF CourseOf, Doing
<1> QED
    BY <1>2, <1>3, <1>4

(* What a call of parse_precedence leaves to do.                           *)
LEMMA MarkOfFrame ==
    ASSUME NEW at \in FrameAt \ {"precedence"}, NEW tok, NEW lhs, NEW args
    PROVE  Mark(Frame(at, 0, tok, lhs, args)) = Waits(at)
<1>1. PICK f : f = Frame(at, 0, tok, lhs, args)
    OBVIOUS
<1>2. f.at = at
    BY <1>1 DEF Frame
<1>3. Place(at) = at /\ at # "precedence"
    BY DEF Place, FrameAt
<1> QED
    BY <1>1, <1>2, <1>3 DEF Mark, Waits

(* The marks of an operand, and of a call of parse_precedence.             *)
LEMMA MarkOfOperand ==
    ASSUME NEW min
    PROVE  Mark(PrecedenceFrame(min)) = Operand(min)
<1>1. PICK f : f = PrecedenceFrame(min)
    OBVIOUS
<1>2. f.at = "precedence" /\ f.min = min
    BY <1>1 DEF Frame, PrecedenceFrame
<1>3. Place("precedence") = "precedence"
    BY DEF Place
<1> QED
    BY <1>1, <1>2, <1>3 DEF Mark, Operand

(* A call leaves two marks more.                                           *)
LEMMA MarksOfCall ==
    ASSUME NEW S, NEW s \in Seq(S), NEW at \in FrameAt \ {"precedence"},
           NEW tok, NEW lhs, NEW args, NEW min
    PROVE  Marks(s \o <<Frame(at, 0, tok, lhs, args), PrecedenceFrame(min)>>) = Call(Marks(s), at, min)
<1>1. PICK f, g : f = Frame(at, 0, tok, lhs, args) /\ g = PrecedenceFrame(min)
    OBVIOUS
<1>2. Mark(f) = Waits(at) /\ Mark(g) = Operand(min)
    BY <1>1, MarkOfFrame, MarkOfOperand
<1>3. Marks(s \o <<f, g>>) = Append(Append(Marks(s), Mark(f)), Mark(g))
    BY MarksTwo
<1> QED
    BY <1>1, <1>2, <1>3 DEF Call

(* The tokens that match looks at.                                         *)
LEMMA MatchSees ==
    ASSUME NEW items
    PROVE  match(items) <=> Sees(tokens, toki, items)
    BY DEF match, Sees, Tok

(* The next state of a parser is given by its parts.                       *)
LEMMA CourseNext ==
    /\ pc' \notin {"exit", "crash", "return", "record_struct", "declspec", "record_body"} =>
           Course' = Going(toki', pc', Marks(stack'))
    /\ pc' \in {"exit", "crash"} => Course' = Failed
    /\ pc' = "return" /\ ret' # NULL => Course' = Back(toki', 1, Marks(stack'))
    /\ pc' = "return" /\ ret' = NULL => Course' = Back(toki', 0, Marks(stack'))
<1>1. Course' = CourseOf(pc', toki', ret', stack')
    BY DEF Course
<1> QED
    BY <1>1, CourseOn

(* A prefix operator and a primary go on as their course says,             *)
LEMMA GoesUnary ==
    ASSUME ParserInv, CursorSound,
           PrefixOperator \/ PrimaryIdentifier \/ PrimaryLiteral \/ PrimaryEnumLiteral
               \/ PrimaryGroup \/ PrimaryNone
    PROVE  CourseGoes
<1>0. PICK S : stack \in Seq(S)
    BY DEF ParserInv, StackOK
<1>1. toki \in Nat /\ Len(pool) \in Nat /\ current = Tok(toki)
    BY DEF ParserInv, CursorSound
<1>2. pc \in {"unary", "primary"} /\ tokens' = tokens
    BY DEF PrefixOperator, PrimaryIdentifier, PrimaryLiteral, PrimaryEnumLiteral, PrimaryGroup,
           PrimaryNone, AtPrimary
<1>3. PICK g : g = Course
    OBVIOUS
<1>4. g = Going(toki, pc, Marks(stack))
    BY <1>2, <1>3, CourseOn DEF Course
<1>5. g.i = toki /\ g.s = pc /\ g.a = Marks(stack)
    BY <1>4 DEF Going, State
<1>6. After(tokens, g) = AfterUnary(tokens, g)
    BY <1>2, <1>5 DEF After
<1>7. /\ DOMAIN LiteralAst \cap {"TOK_IDENTIFIER", "TOK_LPAREN", "TOK_PERIOD"} = {}
      /\ DOMAIN UnaryAst \cap {"TOK_IDENTIFIER", "TOK_LPAREN", "TOK_PERIOD"} = {}
      /\ DOMAIN UnaryAst \cap DOMAIN LiteralAst = {}
    BY DEF UnaryAst, LiteralAst
<1>8. PICK items : items = <<"TOK_PERIOD", "TOK_IDENTIFIER">>
    OBVIOUS
<1>9. match(items) => Tok(toki) = "TOK_PERIOD"
    <2>1. PICK x, y : x = "TOK_PERIOD" /\ y = "TOK_IDENTIFIER"
        OBVIOUS
    <2>2. match(<<x, y>>) => Tok(toki) = x
        BY <1>1, MatchTwo DEF ParserInv
    <2> QED
        BY <1>8, <2>1, <2>2
<1>10. match(items) <=> Sees(tokens, toki, items)
    BY MatchSees
<1>11. ASSUME NEW tag, NEW tok, NEW kids, new_node(tag, tok, kids) PROVE ret' # NULL
    BY <1>1, <1>11 DEF new_node, NULL
<1>12. CASE PrefixOperator
    <2>1. /\ stack' = stack \o <<Frame("operand", 0, toki, NULL, <<>>), PrecedenceFrame(PREC_UNARY)>>
          /\ pc = "unary" /\ pc' = "unary" /\ toki' = toki + 1 /\ Tok(toki) \in DOMAIN UnaryAst
        BY <1>12 DEF PrefixOperator, advance
    <2>2. Marks(stack') = Call(Marks(stack), "operand", PREC_UNARY)
        BY <1>0, <2>1, MarksOfCall DEF FrameAt
    <2>3. Course' = Going(toki + 1, "unary", Call(Marks(stack), "operand", PREC_UNARY))
        BY <1>2, <2>1, <2>2, CourseNext
    <2>4. AfterUnary(tokens, g) = Going(toki + 1, "unary", Call(Marks(stack), "operand", PREC_UNARY))
        BY <1>5, <2>1 DEF AfterUnary, Tok
    <2> QED
        BY <1>3, <1>6, <2>3, <2>4 DEF CourseGoes
<1>13. CASE PrimaryIdentifier
    <2>1. /\ stack' = stack /\ pc' = "postfix" /\ toki' = toki + 1 /\ Tok(toki) = "TOK_IDENTIFIER"
        BY <1>13 DEF PrimaryIdentifier, new_literal, advance
    <2>2. Course' = Going(toki + 1, "postfix", Marks(stack))
        BY <1>2, <2>1, CourseNext
    <2>3. AfterUnary(tokens, g) = Going(toki + 1, "postfix", Marks(stack))
        BY <1>5, <1>7, <2>1 DEF AfterUnary, Tok
    <2> QED
        BY <1>3, <1>6, <2>2, <2>3 DEF CourseGoes
<1>14. CASE PrimaryLiteral
    <2>1. /\ stack' = stack /\ pc' = "return" /\ toki' = toki + 1 /\ Tok(toki) \in DOMAIN LiteralAst
          /\ ret' # NULL
        BY <1>11, <1>14 DEF PrimaryLiteral, new_literal, advance
    <2>2. Course' = Back(toki + 1, 1, Marks(stack))
        BY <1>2, <2>1, CourseNext
    <2>3. AfterUnary(tokens, g) = Back(toki + 1, 1, Marks(stack))
        BY <1>5, <1>7, <2>1 DEF AfterUnary, Tok
    <2> QED
        BY <1>3, <1>6, <2>2, <2>3 DEF CourseGoes
<1>15. CASE PrimaryEnumLiteral
    <2>1. stack' = stack /\ pc' = "return" /\ toki' = toki + 2 /\ match(items) /\ ret' # NULL
        BY <1>8, <1>11, <1>15 DEF PrimaryEnumLiteral, advance
    <2>2. Course' = Back(toki + 2, 1, Marks(stack))
        BY <1>2, <2>1, CourseNext
    <2>3. AfterUnary(tokens, g) = Back(toki + 2, 1, Marks(stack))
        BY <1>5, <1>7, <1>8, <1>9, <1>10, <2>1 DEF AfterUnary, Tok
    <2> QED
        BY <1>3, <1>6, <2>2, <2>3 DEF CourseGoes
<1>16. CASE PrimaryGroup
    <2>1. /\ stack' = stack \o <<Frame("group", 0, toki, NULL, <<>>), PrecedenceFrame(0)>>
          /\ pc' = "unary" /\ toki' = toki + 1 /\ Tok(toki) = "TOK_LPAREN"
        BY <1>16 DEF PrimaryGroup, advance
    <2>2. Marks(stack') = Call(Marks(stack), "group", 0)
        BY <1>0, <2>1, MarksOfCall DEF FrameAt
    <2>3. Course' = Going(toki + 1, "unary", Call(Marks(stack), "group", 0))
        BY <1>2, <2>1, <2>2, CourseNext
    <2>4. AfterUnary(tokens, g) = Going(toki + 1, "unary", Call(Marks(stack), "group", 0))
        BY <1>5, <1>7, <2>1 DEF AfterUnary, Tok
    <2> QED
        BY <1>3, <1>6, <2>3, <2>4 DEF CourseGoes
<1>17. CASE PrimaryNone
    <2>1. /\ stack' = stack /\ pc' = "return" /\ toki' = toki /\ ret' = NULL /\ ~match(items)
          /\ Tok(toki) \notin {"TOK_IDENTIFIER", "TOK_LPAREN"} \cup DOMAIN LiteralAst
          /\ pc = "unary" => Tok(toki) \notin DOMAIN UnaryAst
        BY <1>8, <1>17 DEF PrimaryNone, AtPrimary
    <2>2. Course' = Back(toki, 0, Marks(stack))
        BY <1>2, <2>1, CourseNext
    <2>3. AfterUnary(tokens, g) = Back(toki, 0, Marks(stack))
        BY <1>5, <1>8, <1>10, <2>1 DEF AfterUnary, Tok
    <2> QED
        BY <1>3, <1>6, <2>2, <2>3 DEF CourseGoes
<1> QED
    BY <1>12, <1>13, <1>14, <1>15, <1>16, <1>17

(* and so does what stands behind a primary,                               *)
LEMMA GoesPostfix ==
    ASSUME ParserInv, CursorSound,
           PostfixMember \/ PostfixEmptyCall \/ PostfixCall \/ PostfixIndex \/ PostfixEnd
    PROVE  CourseGoes
<1>0. PICK S : stack \in Seq(S)
    BY DEF ParserInv, StackOK
<1>1. toki \in Nat /\ Len(pool) \in Nat /\ current = Tok(toki)
    BY DEF ParserInv, CursorSound
<1>2. pc = "postfix" /\ tokens' = tokens
    BY DEF PostfixMember, PostfixEmptyCall, PostfixCall, PostfixIndex, PostfixEnd
<1>3. PICK g : g = Course
    OBVIOUS
<1>4. g = Going(toki, pc, Marks(stack))
    BY <1>2, <1>3, CourseOn DEF Course
<1>5. g.i = toki /\ g.s = pc /\ g.a = Marks(stack)
    BY <1>4 DEF Going, State
<1>6. After(tokens, g) = AfterPostfix(tokens, g)
    BY <1>2, <1>5 DEF After
<1>8. PICK items : items = <<"TOK_LPAREN", "TOK_RPAREN">>
    OBVIOUS
<1>9. match(items) => Tok(toki) = "TOK_LPAREN"
    <2>1. PICK x, y : x = "TOK_LPAREN" /\ y = "TOK_RPAREN"
        OBVIOUS
    <2>2. match(<<x, y>>) => Tok(toki) = x
        BY <1>1, MatchTwo DEF ParserInv
    <2> QED
        BY <1>8, <2>1, <2>2
<1>10. match(items) <=> Sees(tokens, toki, items)
    BY MatchSees
<1>12. CASE PostfixMember
    <2>1. /\ stack' = Append(stack, Frame("member", 0, toki, ret, <<>>))
          /\ pc' = "primary" /\ toki' = toki + 1 /\ Tok(toki) = "TOK_PERIOD"
        BY <1>1, <1>12 DEF PostfixMember, advance
    <2>2. Marks(stack') = Append(Marks(stack), Waits("member"))
        BY <1>0, <2>1, MarksPush, MarkOfFrame DEF FrameAt
    <2>3. Course' = Going(toki + 1, "primary", Append(Marks(stack), Waits("member")))
        BY <2>1, <2>2, CourseNext
    <2>4. AfterPostfix(tokens, g) = Going(toki + 1, "primary", Append(Marks(stack), Waits("member")))
        BY <1>5, <2>1 DEF AfterPostfix, Tok
    <2> QED
        BY <1>3, <1>6, <2>3, <2>4 DEF CourseGoes
<1>13. CASE PostfixEmptyCall
    <2>1. stack' = stack /\ pc' = "postfix" /\ toki' = toki + 2 /\ match(items)
        BY <1>2, <1>8, <1>13 DEF PostfixEmptyCall, advance
    <2>2. Course' = Going(toki + 2, "postfix", Marks(stack))
        BY <2>1, CourseNext
    <2>3. AfterPostfix(tokens, g) = Going(toki + 2, "postfix", Marks(stack))
        BY <1>5, <1>8, <1>9, <1>10, <2>1 DEF AfterPostfix, Tok
    <2> QED
        BY <1>3, <1>6, <2>2, <2>3 DEF CourseGoes
<1>14. CASE PostfixCall
    <2>1. /\ stack' = stack \o <<Frame("args", 0, toki, ret, <<>>), PrecedenceFrame(0)>>
          /\ pc' = "unary" /\ toki' = toki + 1 /\ Tok(toki) = "TOK_LPAREN" /\ ~match(items)
        BY <1>1, <1>8, <1>14 DEF PostfixCall, advance
    <2>2. Marks(stack') = Call(Marks(stack), "args", 0)
        BY <1>0, <2>1, MarksOfCall DEF FrameAt
    <2>3. Course' = Going(toki + 1, "unary", Call(Marks(stack), "args", 0))
        BY <2>1, <2>2, CourseNext
    <2>4. AfterPostfix(tokens, g) = Going(toki + 1, "unary", Call(Marks(stack), "args", 0))
        BY <1>5, <1>8, <1>10, <2>1 DEF AfterPostfix, Tok
    <2> QED
        BY <1>3, <1>6, <2>3, <2>4 DEF CourseGoes
<1>15. CASE PostfixIndex
    <2>1. /\ stack' = stack \o <<Frame("index", 0, toki, ret, <<>>), PrecedenceFrame(0)>>
          /\ pc' = "unary" /\ toki' = toki + 1 /\ Tok(toki) = "TOK_LBRACKET"
        BY <1>1, <1>15 DEF PostfixIndex, advance
    <2>2. Marks(stack') = Call(Marks(stack), "index", 0)
        BY <1>0, <2>1, MarksOfCall DEF FrameAt
    <2>3. Course' = Going(toki + 1, "unary", Call(Marks(stack), "index", 0))
        BY <2>1, <2>2, CourseNext
    <2>4. AfterPostfix(tokens, g) = Going(toki + 1, "unary", Call(Marks(stack), "index", 0))
        BY <1>5, <1>8, <1>9, <1>10, <2>1 DEF AfterPostfix, Tok
    <2> QED
        BY <1>3, <1>6, <2>3, <2>4 DEF CourseGoes
<1>16. CASE PostfixEnd
    <2>1. /\ stack' = stack /\ pc' = "return" /\ toki' = toki /\ ret' # NULL
          /\ Tok(toki) \notin {"TOK_PERIOD", "TOK_LPAREN", "TOK_LBRACKET"}
        BY <1>1, <1>2, <1>16 DEF PostfixEnd, ParserInv
    <2>2. Course' = Back(toki, 1, Marks(stack))
        BY <2>1, CourseNext
    <2>3. AfterPostfix(tokens, g) = Back(toki, 1, Marks(stack))
        BY <1>5, <1>8, <1>9, <1>10, <2>1 DEF AfterPostfix, Tok
    <2> QED
        BY <1>3, <1>6, <2>2, <2>3 DEF CourseGoes
<1> QED
    BY <1>12, <1>13, <1>14, <1>15, <1>16

(* A return.                                                               *)
LEMMA CourseBack ==
    ASSUME ParserInv, NEW at, ReturnTo(at)
    PROVE  /\ Course.i = toki /\ Course.a = Marks(stack) /\ Course.a # <<>> /\ Course.s = "return"
           /\ Last(Course.a)[1] = Place(at)
           /\ at = "precedence" => Last(Course.a)[2] = Caller.min
           /\ at \in FrameAt /\ ret # NULL => Course.r = 1
           /\ at \in FrameAt /\ ret = NULL => Course.r = 0
           /\ After(tokens, Course) = AfterReturn(tokens, Course)
           /\ Marks(Front(stack)) = Front(Marks(stack))
<1>0. PICK S : stack \in Seq(S)
    BY DEF ParserInv, StackOK
<1>1. pc = "return" /\ stack # <<>> /\ Caller.at = at
    BY DEF ReturnTo
<1>2. PICK n : n \in {0, 1} /\ (ret # NULL => n = 1) /\ (ret = NULL => n = 0)
    OBVIOUS
<1>3. Course = Back(toki, n, Marks(stack))
    BY <1>1, <1>2, CourseOn DEF Course
<1>4. /\ Course.i = toki /\ Course.a = Marks(stack) /\ Course.s = "return"
      /\ Course.r = IF Marks(stack) # <<>> /\ Last(Marks(stack))[1] \in FrameAt THEN n ELSE 0
    BY <1>3 DEF Back, State
<1>5. Marks(stack) # <<>>
    BY <1>0, <1>1, MarksOf
<1>6. Marks(Front(stack)) = Front(Marks(stack)) /\ Last(Marks(stack)) = Mark(Caller)
    BY <1>0, <1>1, MarksPop DEF Caller
<1>7. Mark(Caller)[1] = Place(at) /\ Mark(Caller)[2] = IF at = "precedence" THEN Caller.min ELSE 0
    BY <1>1 DEF Mark
<1>8. at \in FrameAt => Place(at) \in FrameAt
    BY DEF FrameAt, Place
<1>9. After(tokens, Course) = AfterReturn(tokens, Course)
    BY <1>4 DEF After
<1> QED
    BY <1>2, <1>4, <1>5, <1>6, <1>7, <1>8, <1>9

(* the return of an operand,                                               *)
LEMMA GoesOperand ==
    ASSUME ParserInv, CursorSound,
           TakeOperator \/ LeaveLoop \/ new_binary \/ new_unary \/ CloseGroup
    PROVE  CourseGoes
<1>0. PICK S : stack \in Seq(S)
    BY DEF ParserInv, StackOK
<1>1. toki \in Nat /\ Len(pool) \in Nat /\ current = Tok(toki)
    BY DEF ParserInv, CursorSound
<1>2. PICK g : g = Course
    OBVIOUS
<1>3. PICK m : m = Marks(stack)
    OBVIOUS
<1>4. PICK T : m \in Seq(T)
    BY <1>0, <1>3, MarksOf
<1>5. ASSUME NEW at, ReturnTo(at)
      PROVE  /\ g.i = toki /\ g.a = m /\ m # <<>> /\ Last(m)[1] = Place(at)
             /\ at = "precedence" => Last(m)[2] = Caller.min
             /\ at \in FrameAt /\ ret # NULL => g.r = 1
             /\ at \in FrameAt /\ ret = NULL => g.r = 0
             /\ After(tokens, g) = AfterReturn(tokens, g)
             /\ Marks(Front(stack)) = Front(m)
    BY <1>2, <1>3, <1>5, CourseBack
<1>6. ASSUME NEW tag, NEW tok, NEW kids, new_node(tag, tok, kids) PROVE ret' # NULL
    BY <1>1, <1>6 DEF new_node, NULL
<1>7. \A at \in FrameAt : Place(at) = at
    BY DEF Place, FrameAt
<1>8. CASE TakeOperator
    <2>1. /\ stack' = stack \o <<Frame("rhs", 0, toki, ret, <<>>), PrecedenceFrame(next_prec(Tok(toki)))>>
          /\ pc' = "unary" /\ toki' = toki + 1
          /\ ReturnTo("precedence") /\ TakesOperator(Caller.min)
        BY <1>8 DEF TakeOperator, advance
    <2>2. Marks(stack') = Call(m, "rhs", next_prec(Tok(toki)))
        BY <1>0, <1>3, <2>1, MarksOfCall DEF FrameAt
    <2>3. Course' = Going(toki + 1, "unary", Call(m, "rhs", next_prec(Tok(toki))))
        BY <2>1, <2>2, CourseNext
    <2>4. /\ g.i = toki /\ g.a = m /\ m # <<>> /\ Last(m)[1] = "precedence" /\ Last(m)[2] = Caller.min
          /\ After(tokens, g) = AfterReturn(tokens, g)
        BY <1>5, <1>7, <2>1 DEF FrameAt
    <2>5. AfterReturn(tokens, g) = AfterOperand(tokens, g)
        BY <2>4 DEF AfterReturn
    <2>6. AfterOperand(tokens, g) = Going(toki + 1, "unary", Call(m, "rhs", next_prec(Tok(toki))))
        BY <2>1, <2>4 DEF AfterOperand, Tok, TakesOperator
    <2> QED
        BY <1>2, <2>3, <2>4, <2>5, <2>6 DEF CourseGoes
<1>9. CASE LeaveLoop
    <2>1. /\ stack' = Front(stack) /\ pc' = "return" /\ toki' = toki /\ ret' = ret
          /\ ReturnTo("precedence") /\ ~TakesOperator(Caller.min)
        BY <1>9 DEF LeaveLoop, Pop, ReturnTo
    <2>2. /\ g.i = toki /\ g.a = m /\ m # <<>> /\ Last(m)[1] = "precedence" /\ Last(m)[2] = Caller.min
          /\ After(tokens, g) = AfterReturn(tokens, g) /\ Marks(Front(stack)) = Front(m)
        BY <1>5, <1>7, <2>1 DEF FrameAt
    <2>3. (ret # NULL => g.r = 1) /\ (ret = NULL => g.r = 0)
        BY <1>5, <2>1 DEF FrameAt
    <2>4. Course' = Back(toki, g.r, Front(m))
        BY <2>1, <2>2, <2>3, CourseNext
    <2>5. AfterReturn(tokens, g) = AfterOperand(tokens, g)
        BY <2>2 DEF AfterReturn
    <2>6. AfterOperand(tokens, g) = Back(toki, g.r, Front(m))
        BY <2>1, <2>2 DEF AfterOperand, Tok, TakesOperator
    <2> QED
        BY <1>2, <2>2, <2>4, <2>5, <2>6 DEF CourseGoes
<1>10. CASE new_binary \/ new_unary
    <2>1. PICK at : at \in {"rhs", "operand"} /\ ReturnTo(at)
        BY <1>10 DEF new_binary, new_unary
    <2>2. \E tag, tok, kids : new_node(tag, tok, kids)
        BY <1>10 DEF new_binary, new_unary
    <2>3. stack' = Front(stack) /\ pc' = "return" /\ toki' = toki /\ ret' # NULL
        BY <1>6, <1>10, <2>2 DEF new_binary, new_unary, Pop, ReturnTo
    <2>4. /\ g.i = toki /\ g.a = m /\ m # <<>> /\ Last(m)[1] = at
          /\ After(tokens, g) = AfterReturn(tokens, g) /\ Marks(Front(stack)) = Front(m)
        BY <1>5, <1>7, <2>1 DEF FrameAt
    <2>5. Course' = Back(toki, 1, Front(m))
        BY <2>3, <2>4, CourseNext
    <2>6. AfterReturn(tokens, g) = Back(toki, 1, Front(m))
        BY <2>1, <2>4 DEF AfterReturn
    <2> QED
        BY <1>2, <2>4, <2>5, <2>6 DEF CourseGoes
<1>11. CASE CloseGroup
    <2>1. ReturnTo("group") /\ Tok(toki) = "TOK_RPAREN" /\ \E tag, tok, kids : new_node(tag, tok, kids)
        BY <1>1, <1>11 DEF CloseGroup
    <2>2. stack' = Front(stack) /\ pc' = "return" /\ toki' = toki + 1 /\ ret' # NULL
        BY <1>6, <1>11, <2>1 DEF CloseGroup, Pop, ReturnTo, advance
    <2>3. /\ g.i = toki /\ g.a = m /\ m # <<>> /\ Last(m)[1] = "group"
          /\ After(tokens, g) = AfterReturn(tokens, g) /\ Marks(Front(stack)) = Front(m)
        BY <1>5, <1>7, <2>1 DEF FrameAt
    <2>4. Course' = Back(toki + 1, 1, Front(m))
        BY <2>2, <2>3, CourseNext
    <2>5. AfterReturn(tokens, g) = Back(toki + 1, 1, Front(m))
        BY <2>1, <2>3 DEF AfterReturn, Tok
    <2> QED
        BY <1>2, <2>3, <2>4, <2>5 DEF CourseGoes
<1> QED
    BY <1>8, <1>9, <1>10, <1>11

(* and an argument of a call.                                              *)
LEMMA GoesArgument ==
    ASSUME ParserInv, CursorSound,
           MemberField \/ MemberMissing \/ NextArgument \/ RepeatArgument \/ CloseCall
               \/ CloseIndex \/ IndexMissing \/ ExpectTokenFails
    PROVE  CourseGoes
<1>0. PICK S : stack \in Seq(S)
    BY DEF ParserInv, StackOK
<1>1. toki \in Nat /\ Len(pool) \in Nat /\ current = Tok(toki)
    BY DEF ParserInv, CursorSound
<1>2. PICK g : g = Course
    OBVIOUS
<1>3. PICK m : m = Marks(stack)
    OBVIOUS
<1>4. PICK T : m \in Seq(T)
    BY <1>0, <1>3, MarksOf
<1>5. ASSUME NEW at \in FrameAt, ReturnTo(at)
      PROVE  /\ g.i = toki /\ g.a = m /\ m # <<>> /\ Last(m)[1] = at
             /\ ret # NULL => g.r = 1
             /\ ret = NULL => g.r = 0
             /\ After(tokens, g) = AfterReturn(tokens, g)
             /\ Marks(Front(stack)) = Front(m)
    <2>1. Place(at) = at
        BY DEF Place, FrameAt
    <2> QED
        BY <1>2, <1>3, <1>5, <2>1, CourseBack
<1>6. ASSUME NEW tag, NEW tok, NEW kids, new_node(tag, tok, kids) PROVE ret' # NULL
    BY <1>1, <1>6 DEF new_node, NULL
<1>7. {"group", "member", "args", "index"} \subseteq FrameAt
    BY DEF FrameAt
<1>8. CASE MemberField
    <2>1. ReturnTo("member") /\ ret # NULL /\ stack' = Front(stack) /\ pc' = "postfix" /\ toki' = toki
        BY <1>8 DEF MemberField, Pop
    <2>2. /\ g.i = toki /\ g.a = m /\ m # <<>> /\ Last(m)[1] = "member" /\ g.r = 1
          /\ After(tokens, g) = AfterReturn(tokens, g) /\ Marks(Front(stack)) = Front(m)
        BY <1>5, <1>7, <2>1
    <2>3. Course' = Going(toki, "postfix", Front(m))
        BY <2>1, <2>2, CourseNext
    <2>4. AfterReturn(tokens, g) = Going(toki, "postfix", Front(m))
        BY <2>2 DEF AfterReturn
    <2> QED
        BY <1>2, <2>2, <2>3, <2>4 DEF CourseGoes
<1>9. CASE MemberMissing
    <2>1. /\ ReturnTo("member") /\ ret = NULL /\ ret' = NULL
          /\ stack' = Front(stack) /\ pc' = "return" /\ toki' = toki
        BY <1>9 DEF MemberMissing, Pop, ReturnTo
    <2>2. /\ g.i = toki /\ g.a = m /\ m # <<>> /\ Last(m)[1] = "member" /\ g.r = 0
          /\ After(tokens, g) = AfterReturn(tokens, g) /\ Marks(Front(stack)) = Front(m)
        BY <1>5, <1>7, <2>1
    <2>3. Course' = Back(toki, 0, Front(m))
        BY <2>1, <2>2, CourseNext
    <2>4. AfterReturn(tokens, g) = Back(toki, 0, Front(m))
        BY <2>2 DEF AfterReturn
    <2> QED
        BY <1>2, <2>2, <2>3, <2>4 DEF CourseGoes
<1>10. CASE NextArgument \/ RepeatArgument
    <2>1. ReturnTo("args") /\ pc' = "unary" /\ stack # <<>> /\ Caller.at = "args"
        BY <1>10 DEF NextArgument, RepeatArgument, ReturnTo
    <2>2. PICK f, h : f = [Caller EXCEPT !.args = ArgsAppended] /\ h = PrecedenceFrame(0)
        OBVIOUS
    <2>3. stack' = Front(stack) \o <<f, h>>
        BY <1>10, <2>2 DEF NextArgument, RepeatArgument, ParseNextArgument
    <2>4. Mark(f) = Mark(Caller) /\ Mark(h) = Operand(0)
        <3>1. Caller \in ExprFrames(Len(pool))
            <4>1. Caller \in Frames(Len(pool), Len(types))
                BY <2>1, PopOne DEF ParserInv, StackOK, Caller
            <4>2. Caller.at \in FrameAt /\ Len(types) \in Nat
                BY <1>7, <2>1 DEF ParserInv
            <4> QED
                BY <1>1, <4>1, <4>2, FrameKinds
        <3>2. f.at = Caller.at
            BY <2>2, <3>1 DEF ExprFrames
        <3>3. Mark(f) = Mark(Caller)
            BY <2>1, <3>2 DEF Mark
        <3> QED
            BY <2>2, <3>3, MarkOfOperand
    <2>5. /\ g.i = toki /\ g.a = m /\ m # <<>> /\ Last(m)[1] = "args"
          /\ After(tokens, g) = AfterReturn(tokens, g) /\ Marks(Front(stack)) = Front(m)
        BY <1>5, <1>7, <2>1
    <2>6. Marks(stack') = Append(m, Operand(0))
        <3>1. Front(stack) \in Seq(S) /\ Last(m) = Mark(Caller)
            BY <1>0, <1>3, <2>1, PopOne, MarksPop DEF Caller
        <3>2. Marks(stack') = Append(Append(Front(m), Last(m)), Operand(0))
            BY <2>3, <2>4, <2>5, <3>1, MarksTwo
        <3>3. Append(Front(m), Last(m)) = m
            BY <1>4, <2>5, FrontLast
        <3> QED
            BY <3>2, <3>3
    <2>7. AfterReturn(tokens, g) = AfterArgument(tokens, g)
        BY <2>5 DEF AfterReturn
    <2>8. CASE NextArgument
        <3>1. toki' = toki + 1 /\ Tok(toki) = "TOK_COMMA"
            BY <1>1, <2>8 DEF NextArgument, advance
        <3>2. Course' = Going(toki + 1, "unary", Append(m, Operand(0)))
            BY <2>1, <2>6, <3>1, CourseNext
        <3>3. AfterArgument(tokens, g) = Going(toki + 1, "unary", Append(m, Operand(0)))
            BY <2>5, <3>1 DEF AfterArgument, Tok
        <3> QED
            BY <1>2, <2>5, <2>7, <3>2, <3>3 DEF CourseGoes
    <2>9. CASE RepeatArgument
        <3>1. toki' = toki /\ Tok(toki) \notin {"TOK_COMMA", "TOK_RPAREN"}
            BY <1>1, <2>9 DEF RepeatArgument
        <3>2. Course' = Going(toki, "unary", Append(m, Operand(0)))
            BY <2>1, <2>6, <3>1, CourseNext
        <3>3. AfterArgument(tokens, g) = Going(toki, "unary", Append(m, Operand(0)))
            BY <2>5, <3>1 DEF AfterArgument, Tok
        <3> QED
            BY <1>2, <2>5, <2>7, <3>2, <3>3 DEF CourseGoes
    <2> QED
        BY <1>10, <2>8, <2>9
<1>11. CASE CloseCall
    <2>1. /\ ReturnTo("args") /\ Tok(toki) = "TOK_RPAREN"
          /\ stack' = Front(stack) /\ pc' = "postfix" /\ toki' = toki + 1
        BY <1>1, <1>11 DEF CloseCall, Pop, advance
    <2>2. /\ g.i = toki /\ g.a = m /\ m # <<>> /\ Last(m)[1] = "args"
          /\ After(tokens, g) = AfterReturn(tokens, g) /\ Marks(Front(stack)) = Front(m)
        BY <1>5, <1>7, <2>1
    <2>3. Course' = Going(toki + 1, "postfix", Front(m))
        BY <2>1, <2>2, CourseNext
    <2>4. AfterReturn(tokens, g) = Going(toki + 1, "postfix", Front(m))
        BY <2>1, <2>2 DEF AfterReturn, AfterArgument, Tok
    <2> QED
        BY <1>2, <2>2, <2>3, <2>4 DEF CourseGoes
<1>12. CASE CloseIndex
    <2>1. /\ ReturnTo("index") /\ Tok(toki) = "TOK_RBRACKET" /\ ret # NULL
          /\ stack' = Front(stack) /\ pc' = "postfix" /\ toki' = toki + 1
        BY <1>1, <1>12 DEF CloseIndex, Pop, advance
    <2>2. /\ g.i = toki /\ g.a = m /\ m # <<>> /\ Last(m)[1] = "index" /\ g.r = 1
          /\ After(tokens, g) = AfterReturn(tokens, g) /\ Marks(Front(stack)) = Front(m)
        BY <1>5, <1>7, <2>1
    <2>3. Course' = Going(toki + 1, "postfix", Front(m))
        BY <2>1, <2>2, CourseNext
    <2>4. AfterReturn(tokens, g) = Going(toki + 1, "postfix", Front(m))
        BY <2>1, <2>2 DEF AfterReturn, Tok
    <2> QED
        BY <1>2, <2>2, <2>3, <2>4 DEF CourseGoes
<1>13. CASE IndexMissing \/ ExpectTokenFails
    <2>1. PICK at : /\ at \in {"group", "index"} /\ ReturnTo(at)
                    /\ at = "group" => Tok(toki) # "TOK_RPAREN"
                    /\ at = "index" => ret = NULL \/ Tok(toki) # "TOK_RBRACKET"
        BY <1>1, <1>13 DEF IndexMissing, ExpectTokenFails
    <2>2. pc' \in {"exit", "crash"}
        BY <1>13 DEF IndexMissing, ExpectTokenFails
    <2>3. /\ g.i = toki /\ g.a = m /\ m # <<>> /\ Last(m)[1] = at /\ (ret = NULL => g.r = 0)
          /\ After(tokens, g) = AfterReturn(tokens, g)
        BY <1>5, <1>7, <2>1
    <2>4. Course' = Failed
        BY <2>2, CourseNext
    <2>5. AfterReturn(tokens, g) = Failed
        BY <2>1, <2>3 DEF AfterReturn, Tok
    <2> QED
        BY <1>2, <2>3, <2>4, <2>5 DEF CourseGoes
<1> QED
    BY <1>8, <1>9, <1>10, <1>11, <1>12, <1>13

(* So does each step of the parser of expressions.                         *)
LEMMA ExprGoes ==
    ASSUME ParserInv, CursorSound, parse_expr
    PROVE  CourseGoes
<1>1. \/ PrefixOperator \/ PrimaryIdentifier \/ PrimaryLiteral \/ PrimaryEnumLiteral
             \/ PrimaryGroup \/ PrimaryNone
      \/ PostfixMember \/ PostfixEmptyCall \/ PostfixCall \/ PostfixIndex \/ PostfixEnd
      \/ TakeOperator \/ LeaveLoop \/ new_binary \/ new_unary \/ CloseGroup
      \/ MemberField \/ MemberMissing \/ NextArgument \/ RepeatArgument \/ CloseCall
             \/ CloseIndex \/ IndexMissing \/ ExpectTokenFails
    BY DEF parse_expr, Primary
<1> QED
    BY <1>1, GoesUnary, GoesPostfix, GoesOperand, GoesArgument

(* The marks of a declaration, and of an activation that goes on.          *)
LEMMA MarkOfDecl ==
    ASSUME NEW f, f.at \in DeclAt
    PROVE  Mark(f) = Waits(f.at)
<1>1. f.at # "precedence" /\ Place(f.at) = f.at
    BY DEF DeclAt, Place
<1> QED
    BY <1>1 DEF Mark, Waits

(* The marks of an activation that has become another.                     *)
LEMMA MarksBecome ==
    ASSUME NEW S, NEW s \in Seq(S), s # <<>>, NEW f
    PROVE  /\ Marks(Append(Front(s), f)) = Append(Front(Marks(s)), Mark(f))
           /\ Mark(f) = Mark(Last(s)) => Marks(Append(Front(s), f)) = Marks(s)
<1>1. PICK v \in Seq(S) : v = Front(s)
    BY PopOne
<1>2. Marks(Append(v, f)) = Append(Marks(v), Mark(f))
    BY MarksPush
<1>3. Marks(v) = Front(Marks(s)) /\ Last(Marks(s)) = Mark(Last(s))
    BY <1>1, MarksPop
<1>4. PICK T : Marks(s) \in Seq(T) /\ Marks(s) # <<>>
    BY MarksOf
<1>5. Append(Front(Marks(s)), Last(Marks(s))) = Marks(s)
    BY <1>4, FrontLast
<1> QED
    BY <1>1, <1>2, <1>3, <1>5

(* In a declspec it matters whether a type was seen.                       *)
LEMMA CourseSpec ==
    ASSUME NEW i, NEW n, NEW s
    PROVE  /\ Last(s).id = {} => CourseOf("declspec", i, n, s) = State(i, "declspec", 0, 1, Marks(s))
           /\ Last(s).id # {} => CourseOf("declspec", i, n, s) = Going(i, "declspec", Marks(s))
<1>1. PICK p : p = "declspec"
    OBVIOUS
<1>2. CourseOf(p, i, n, s) = State(i, p, 0, Count(p = "declspec" /\ Last(s).id = {}), Marks(s))
    BY <1>1 DEF CourseOf, Doing
<1>3. /\ Last(s).id = {} => Count(p = "declspec" /\ Last(s).id = {}) = 1
      /\ Last(s).id # {} => Count(p = "declspec" /\ Last(s).id = {}) = 0
    BY <1>1 DEF Count
<1> QED
    BY <1>1, <1>2, <1>3 DEF Going

(* The head of a declaration goes on as its course says,                   *)
LEMMA GoesDeclaration ==
    ASSUME ParserInv, CursorSound,
           parse_inferred_var_decl \/ parse_const_var_decl \/ Qualifiers
    PROVE  CourseGoes
<1>0. PICK S : stack \in Seq(S)
    BY DEF ParserInv, StackOK
<1>1. toki \in Nat /\ current = Tok(toki) /\ pc = "var_decl" /\ tokens' = tokens
    BY DEF ParserInv, CursorSound, parse_inferred_var_decl, parse_const_var_decl, Qualifiers, Inferred, Typed
<1>2. PICK g : g = Course
    OBVIOUS
<1>3. PICK m : m = Marks(stack)
    OBVIOUS
<1>4. g = Going(toki, "var_decl", m)
    BY <1>1, <1>2, <1>3, CourseOn DEF Course
<1>5. g.i = toki /\ g.s = "var_decl" /\ g.a = m
    BY <1>4 DEF Going, State
<1>6. After(tokens, g) = AfterVarDecl(tokens, g)
    BY <1>5 DEF After
<1>7. PICK let, const : /\ let = <<"TOK_LET", "TOK_IDENTIFIER", "TOK_EQUAL">>
                        /\ const = <<"TOK_CONST", "TOK_IDENTIFIER", "TOK_EQUAL">>
    OBVIOUS
<1>8. (match(let) <=> Sees(tokens, toki, let)) /\ (match(const) <=> Sees(tokens, toki, const))
    BY MatchSees
<1>9. CASE parse_inferred_var_decl \/ parse_const_var_decl
    <2>1. PICK kw, tag : Inferred(kw, tag) /\ (match(let) \/ match(const))
        BY <1>7, <1>9 DEF parse_inferred_var_decl, parse_const_var_decl, Inferred
    <2>2. PICK f, h : f = DeclFrame("initializer", tag, toki, toki + 1) /\ h = PrecedenceFrame(0)
        OBVIOUS
    <2>3. stack' = stack \o <<f, h>> /\ pc' = "unary" /\ toki' = toki + 3
        BY <2>1, <2>2 DEF Inferred, advance
    <2>4. Mark(f) = Waits("initializer") /\ Mark(h) = Operand(0)
        <3>1. f.at = "initializer" /\ f.at \in DeclAt
            BY <2>2 DEF DeclFrame, DeclAt
        <3> QED
            BY <2>2, <3>1, MarkOfDecl, MarkOfOperand
    <2>5. Marks(stack') = Call(m, "initializer", 0)
        <3>1. Marks(stack') = Append(Append(m, Mark(f)), Mark(h))
            BY <1>0, <1>3, <2>3, MarksTwo
        <3> QED
            BY <2>4, <3>1 DEF Call
    <2>6. Course' = Going(toki + 3, "unary", Call(m, "initializer", 0))
        BY <2>3, <2>5, CourseNext
    <2>7. AfterVarDecl(tokens, g) = Going(toki + 3, "unary", Call(m, "initializer", 0))
        BY <1>5, <1>7, <1>8, <2>1 DEF AfterVarDecl
    <2> QED
        BY <1>2, <1>6, <2>6, <2>7 DEF CourseGoes
<1>10. CASE Qualifiers
    <2>1. PICK c, s : /\ c = Count(current = "TOK_CONST") /\ s = Count(Tok(toki + c) = "TOK_STATIC")
        OBVIOUS
    <2>2. PICK f : /\ f = [DeclFrame("declaration", "AST_VAR_DECL", NULL, NULL)
                           EXCEPT !.is_const = (current = "TOK_CONST"),
                                  !.is_static = (Tok(toki + c) = "TOK_STATIC")]
        OBVIOUS
    <2>3. /\ stack' = Append(stack, f) /\ pc' = "declspec" /\ toki' = toki + (c + s)
          /\ current # "TOK_LET" /\ ~match(const)
        BY <1>7, <1>10, <2>1, <2>2 DEF Qualifiers, Typed, advance
    <2>4. f.at = "declaration" /\ f.id = {} /\ f.at \in DeclAt
        BY <2>2 DEF DeclFrame, DeclAt
    <2>5. Marks(stack') = Append(m, Waits("declaration"))
        BY <1>0, <1>3, <2>3, <2>4, MarksPush, MarkOfDecl
    <2>6. Last(stack') = f
        BY <1>0, <2>3, FrontLast
    <2>7. c \in Nat /\ s \in Nat /\ toki + (c + s) = toki + c + s
        BY <1>1, <2>1 DEF Count
    <2>8. Course' = State(toki + c + s, "declspec", 0, 1, Append(m, Waits("declaration")))
        <3>1. Course' = CourseOf("declspec", toki', ret', stack')
            BY <2>3 DEF Course
        <3>2. Last(stack').id = {}
            BY <2>4, <2>6
        <3>3. Course' = State(toki', "declspec", 0, 1, Marks(stack'))
            BY <3>1, <3>2, CourseSpec
        <3> QED
            BY <2>3, <2>5, <2>7, <3>3
    <2>9. ~match(let)
        <3>1. match(let) => let[1] = Tok(toki)
            <4>1. Len(let) = 3 /\ 1 \in 1 .. Len(let)
                BY <1>7
            <4>2. match(let) => let[1] = Tok(toki + 1 - 1)
                BY <4>1 DEF match
            <4> QED
                BY <1>1, <4>2
        <3>2. let[1] = "TOK_LET"
            BY <1>7
        <3> QED
            BY <1>1, <2>3, <3>1, <3>2
    <2>10. AfterVarDecl(tokens, g) = State(toki + c + s, "declspec", 0, 1, Append(m, Waits("declaration")))
        <3>1. tokens[toki + 1] = current /\ tokens[toki + c + 1] = Tok(toki + c)
            BY <1>1 DEF Tok
        <3>2. ~Sees(tokens, toki, let) /\ ~Sees(tokens, toki, const)
            BY <1>8, <2>3, <2>9
        <3> QED
            BY <1>5, <1>7, <2>1, <2>3, <3>1, <3>2 DEF AfterVarDecl
    <2> QED
        BY <1>2, <1>6, <2>8, <2>10 DEF CourseGoes
<1> QED
    BY <1>9, <1>10

(* A declaration that goes on: its mark stays.                             *)
LEMMA DeclarationOnTop ==
    ASSUME ParserInv, stack # <<>>, Caller.at = "declaration"
    PROVE  /\ Caller \in DeclFrames(Len(types))
           /\ Marks(stack) # <<>> /\ Last(Marks(stack)) = Waits("declaration")
           /\ Marks(Front(stack)) = Front(Marks(stack))
           /\ \A f : Become(f) /\ f.at = "declaration" => Marks(stack') = Marks(stack) /\ Last(stack') = f
<1>0. PICK S : stack \in Seq(S)
    BY DEF ParserInv, StackOK
<1>1. Caller.at \in DeclAt
    BY DEF DeclAt
<1>2. Caller \in DeclFrames(Len(types))
    BY <1>1, DeclCaller
<1>3. Mark(Caller) = Waits("declaration")
    BY <1>1, MarkOfDecl
<1>4. Marks(stack) # <<>> /\ Last(Marks(stack)) = Waits("declaration") /\ Marks(Front(stack)) = Front(Marks(stack))
    <2>1. Marks(stack) # <<>>
        BY <1>0, MarksOf
    <2>2. Last(Marks(stack)) = Mark(Caller) /\ Marks(Front(stack)) = Front(Marks(stack))
        BY <1>0, MarksPop DEF Caller
    <2> QED
        BY <1>3, <2>1, <2>2
<1>5. ASSUME NEW f, Become(f), f.at = "declaration"
      PROVE  Marks(stack') = Marks(stack) /\ Last(stack') = f
    <2>1. Mark(f) = Waits("declaration")
        BY <1>1, <1>5, MarkOfDecl
    <2>2. stack' = Append(Front(stack), f)
        BY <1>5 DEF Become
    <2>3. Marks(stack') = Marks(stack)
        BY <1>0, <1>3, <2>1, <2>2, MarksBecome DEF Caller
    <2>4. PICK v \in Seq(S) : v = Front(stack)
        BY <1>0, PopOne
    <2>5. Last(Append(v, f)) = f
        BY FrontLast
    <2> QED
        BY <2>2, <2>3, <2>4, <2>5
<1> QED
    BY <1>2, <1>4, <1>5

(* its specifiers,                                                         *)
LEMMA GoesSpecifier ==
    ASSUME ParserInv, CursorSound,
           SpecPrimitive \/ SpecName \/ (SpecEnd /\ pc = "declspec")
    PROVE  CourseGoes
<1>1. /\ toki \in Nat /\ current = Tok(toki) /\ pc = "declspec" /\ stack # <<>> /\ Caller.at = "declaration"
    BY DEF ParserInv, CursorSound, SpecPrimitive, SpecName, TopOK, Caller
<1>2. PICK g : g = Course
    OBVIOUS
<1>3. PICK m : m = Marks(stack)
    OBVIOUS
<1>4. /\ g.i = toki /\ g.s = "declspec" /\ g.a = m
      /\ Caller.id = {} => g.b = 1
      /\ Caller.id # {} => g.b = 0
    BY <1>1, <1>2, <1>3, CourseSpec DEF Course, Going, State, Caller
<1>5. After(tokens, g) = AfterSpecifier(tokens, g)
    BY <1>4 DEF After
<1>6. Caller \in DeclFrames(Len(types))
    BY <1>1, DeclarationOnTop
<1>7. ASSUME NEW f, Become(f), f.at = "declaration"
      PROVE  Marks(stack') = m /\ Last(stack') = f
    BY <1>1, <1>3, <1>7, DeclarationOnTop
<1>8. "TOK_IDENTIFIER" \notin DOMAIN tag_to_primitive
    BY DEF tag_to_primitive
<1>9. CASE SpecPrimitive
    <2>1. PICK f : f = [Caller EXCEPT !.id = Caller.id \cup tag_to_primitive[current]]
        OBVIOUS
    <2>2. Become(f) /\ Tok(toki) \in DOMAIN tag_to_primitive /\ toki' = toki + 1 /\ pc' = "declspec"
        BY <1>1, <1>9, <2>1 DEF SpecPrimitive, advance
    <2>3. f.at = "declaration" /\ f.id # {}
        <3>1. f.at = "declaration" /\ f.id = Caller.id \cup tag_to_primitive[current]
            BY <1>1, <1>6, <2>1 DEF DeclFrames
        <3>2. \A t \in DOMAIN tag_to_primitive : tag_to_primitive[t] # {}
            BY DEF tag_to_primitive
        <3> QED
            BY <1>1, <2>2, <3>1, <3>2
    <2>4. Marks(stack') = m /\ Last(stack').id # {}
        BY <1>7, <2>2, <2>3
    <2>5. Course' = Going(toki + 1, "declspec", m)
        BY <2>2, <2>4, CourseSpec DEF Course
    <2>6. AfterSpecifier(tokens, g) = Going(toki + 1, "declspec", m)
        BY <1>4, <2>2 DEF AfterSpecifier, Tok
    <2> QED
        BY <1>2, <1>5, <2>5, <2>6 DEF CourseGoes
<1>10. CASE SpecName
    <2>1. PICK f : f = [Caller EXCEPT !.id = {"NAME"}]
        OBVIOUS
    <2>2. /\ Become(f) /\ Tok(toki) = "TOK_IDENTIFIER" /\ Caller.id = {} /\ toki' = toki + 1
          /\ pc' = "qualified"
        BY <1>1, <1>10, <2>1 DEF SpecName, TakesName, advance
    <2>3. f.at = "declaration"
        BY <1>1, <1>6, <2>1 DEF DeclFrames
    <2>4. Marks(stack') = m
        BY <1>7, <2>2, <2>3
    <2>5. Course' = Going(toki + 1, "qualified", m)
        BY <2>2, <2>4, CourseNext
    <2>6. AfterSpecifier(tokens, g) = Going(toki + 1, "qualified", m)
        BY <1>4, <1>8, <2>2 DEF AfterSpecifier, Tok
    <2> QED
        BY <1>2, <1>5, <2>5, <2>6 DEF CourseGoes
<1>11. CASE SpecEnd /\ pc = "declspec"
    <2>1. PICK f : f = [Caller EXCEPT !.type = NewType]
        OBVIOUS
    <2>2. /\ Become(f) /\ Tok(toki) \notin DOMAIN tag_to_primitive
          /\ ~(Tok(toki) = "TOK_IDENTIFIER" /\ Caller.id = {}) /\ toki' = toki
          /\ pc' = "pointers"
        BY <1>1, <1>11, <2>1 DEF SpecEnd, TakesName
    <2>3. f.at = "declaration"
        BY <1>1, <1>6, <2>1 DEF DeclFrames
    <2>4. Marks(stack') = m
        BY <1>7, <2>2, <2>3
    <2>5. Course' = Going(toki, "pointers", m)
        BY <2>2, <2>4, CourseNext
    <2>6. AfterSpecifier(tokens, g) = Going(toki, "pointers", m)
        BY <1>4, <2>2 DEF AfterSpecifier, Tok
    <2> QED
        BY <1>2, <1>5, <2>5, <2>6 DEF CourseGoes
<1> QED
    BY <1>9, <1>10, <1>11

(* its pointers and its name,                                              *)
LEMMA GoesDeclarator ==
    ASSUME ParserInv, CursorSound,
           SpecMember \/ (SpecEnd /\ pc # "declspec") \/ PointerType \/ DeclaratorName
    PROVE  CourseGoes
<1>1. /\ toki \in Nat /\ current = Tok(toki) /\ pc \in {"qualified", "pointers"}
      /\ stack # <<>> /\ Caller.at = "declaration"
    BY DEF ParserInv, CursorSound, SpecMember, SpecEnd, PointerType, DeclaratorName, TopOK, Caller
<1>2. PICK g : g = Course
    OBVIOUS
<1>3. PICK m : m = Marks(stack)
    OBVIOUS
<1>4. g = Going(toki, pc, m)
    BY <1>1, <1>2, <1>3, CourseOn DEF Course
<1>5. g.i = toki /\ g.s = pc /\ g.a = m
    BY <1>4 DEF Going, State
<1>6. After(tokens, g) = AfterDeclarator(tokens, g)
    BY <1>1, <1>5 DEF After
<1>7. Caller \in DeclFrames(Len(types))
    BY <1>1, DeclarationOnTop
<1>8. ASSUME NEW f, Become(f), f.at = "declaration"
      PROVE  Marks(stack') = m
    BY <1>1, <1>3, <1>8, DeclarationOnTop
<1>9. CASE SpecMember
    <2>1. /\ pc = "qualified" /\ pc' = "qualified" /\ stack' = stack /\ toki' = toki + 2
          /\ Tok(toki) \in Separators /\ Tok(toki + 1) = "TOK_IDENTIFIER"
        BY <1>1, <1>9 DEF SpecMember, advance
    <2>2. Course' = Going(toki + 2, "qualified", m)
        BY <1>3, <2>1, CourseNext
    <2>3. AfterDeclarator(tokens, g) = Going(toki + 2, "qualified", m)
        BY <1>5, <2>1 DEF AfterDeclarator, Tok
    <2> QED
        BY <1>2, <1>6, <2>2, <2>3 DEF CourseGoes
<1>10. CASE SpecEnd /\ pc # "declspec"
    <2>1. PICK f : f = [Caller EXCEPT !.type = NewType]
        OBVIOUS
    <2>2. /\ Become(f) /\ Tok(toki) \notin Separators /\ pc = "qualified" /\ toki' = toki
          /\ pc' = "pointers"
        BY <1>1, <1>10, <2>1 DEF SpecEnd
    <2>3. f.at = "declaration"
        BY <1>1, <1>7, <2>1 DEF DeclFrames
    <2>4. Marks(stack') = m
        BY <1>8, <2>2, <2>3
    <2>5. Course' = Going(toki, "pointers", m)
        BY <2>2, <2>4, CourseNext
    <2>6. AfterDeclarator(tokens, g) = Going(toki, "pointers", m)
        BY <1>5, <2>2 DEF AfterDeclarator, Tok
    <2> QED
        BY <1>2, <1>6, <2>5, <2>6 DEF CourseGoes
<1>11. CASE PointerType
    <2>1. PICK f : f = [Caller EXCEPT !.type = NewType]
        OBVIOUS
    <2>2. /\ Become(f) /\ Tok(toki) = "TOK_ASTERISK" /\ pc = "pointers" /\ toki' = toki + 1
          /\ pc' = "pointers"
        BY <1>1, <1>11, <2>1 DEF PointerType, advance
    <2>3. f.at = "declaration"
        BY <1>1, <1>7, <2>1 DEF DeclFrames
    <2>4. Marks(stack') = m
        BY <1>8, <2>2, <2>3
    <2>5. Course' = Going(toki + 1, "pointers", m)
        BY <2>2, <2>4, CourseNext
    <2>6. AfterDeclarator(tokens, g) = Going(toki + 1, "pointers", m)
        BY <1>5, <2>2 DEF AfterDeclarator, Tok
    <2> QED
        BY <1>2, <1>6, <2>5, <2>6 DEF CourseGoes
<1>12. CASE DeclaratorName
    <2>1. PICK f : f = [Caller EXCEPT !.tok = toki, !.name = toki]
        OBVIOUS
    <2>2. /\ Become(f) /\ Tok(toki) = "TOK_IDENTIFIER" /\ pc = "pointers" /\ toki' = toki + 1
          /\ pc' = "arrays"
        BY <1>1, <1>12, <2>1 DEF DeclaratorName, advance
    <2>3. f.at = "declaration"
        BY <1>1, <1>7, <2>1 DEF DeclFrames
    <2>4. Marks(stack') = m
        BY <1>8, <2>2, <2>3
    <2>5. Course' = Going(toki + 1, "arrays", m)
        BY <2>2, <2>4, CourseNext
    <2>6. AfterDeclarator(tokens, g) = Going(toki + 1, "arrays", m)
        BY <1>5, <2>2 DEF AfterDeclarator, Tok
    <2> QED
        BY <1>2, <1>6, <2>5, <2>6 DEF CourseGoes
<1> QED
    BY <1>9, <1>10, <1>11, <1>12

(* A declaration that waits for an expression.                             *)
LEMMA MarksOfAwait ==
    ASSUME ParserInv, stack # <<>>, Caller.at = "declaration", NEW at \in DeclAt, AwaitExpr(at)
    PROVE  Marks(stack') = Call(Front(Marks(stack)), at, 0)
<1>0. PICK S : stack \in Seq(S)
    BY DEF ParserInv, StackOK
<1>1. PICK f, h : f = [Caller EXCEPT !.at = at] /\ h = PrecedenceFrame(0)
    OBVIOUS
<1>2. Caller \in DeclFrames(Len(types)) /\ Marks(Front(stack)) = Front(Marks(stack))
    BY DeclarationOnTop
<1>3. f.at = at
    BY <1>1, <1>2 DEF DeclFrames
<1>4. Mark(f) = Waits(at) /\ Mark(h) = Operand(0)
    BY <1>1, <1>3, MarkOfDecl, MarkOfOperand
<1>5. stack' = Front(stack) \o <<f, h>>
    BY <1>1 DEF AwaitExpr
<1>6. PICK v \in Seq(S) : v = Front(stack)
    BY <1>0, PopOne
<1>7. Marks(v \o <<f, h>>) = Append(Append(Marks(v), Mark(f)), Mark(h))
    BY MarksTwo
<1> QED
    BY <1>2, <1>4, <1>5, <1>6, <1>7 DEF Call

(* the sizes of its arrays,                                                *)
LEMMA GoesArrays ==
    ASSUME ParserInv, CursorSound, ArrayUnsized \/ ArrayLength \/ Initializer \/ NoInitializer
    PROVE  CourseGoes
<1>1. /\ toki \in Nat /\ Len(pool) \in Nat /\ current = Tok(toki) /\ pc = "arrays"
      /\ stack # <<>> /\ Caller.at = "declaration"
    <2>1. pc = "arrays"
        BY DEF ArrayUnsized, ArrayLength, Initializer, NoInitializer
    <2> QED
        BY <2>1 DEF ParserInv, CursorSound, TopOK, Caller
<1>2. PICK g : g = Course
    OBVIOUS
<1>3. PICK m : m = Marks(stack)
    OBVIOUS
<1>4. g = Going(toki, "arrays", m)
    BY <1>1, <1>2, <1>3, CourseOn DEF Course
<1>5. g.i = toki /\ g.s = "arrays" /\ g.a = m
    BY <1>4 DEF Going, State
<1>6. After(tokens, g) = AfterArrays(tokens, g)
    BY <1>5 DEF After
<1>7. Caller \in DeclFrames(Len(types)) /\ Marks(Front(stack)) = Front(m)
    BY <1>1, <1>3, DeclarationOnTop
<1>8. PICK items : items = <<"TOK_LBRACKET", "TOK_RBRACKET">>
    OBVIOUS
<1>9. match(items) => Tok(toki) = "TOK_LBRACKET"
    <2>1. PICK x, y : x = "TOK_LBRACKET" /\ y = "TOK_RBRACKET"
        OBVIOUS
    <2>2. match(<<x, y>>) => Tok(toki) = x
        BY <1>1, MatchTwo DEF ParserInv
    <2> QED
        BY <1>8, <2>1, <2>2
<1>10. match(items) <=> Sees(tokens, toki, items)
    BY MatchSees
<1>11. CASE ArrayUnsized
    <2>1. PICK f : f = [Caller EXCEPT !.type = NewType]
        OBVIOUS
    <2>2. Become(f) /\ match(items) /\ toki' = toki + 2 /\ pc' = "arrays"
        BY <1>8, <1>11, <2>1 DEF ArrayUnsized, advance
    <2>3. f.at = "declaration"
        BY <1>1, <1>7, <2>1 DEF DeclFrames
    <2>4. Marks(stack') = m
        BY <1>1, <1>3, <2>2, <2>3, DeclarationOnTop
    <2>5. Course' = Going(toki + 2, "arrays", m)
        BY <2>2, <2>4, CourseNext
    <2>6. AfterArrays(tokens, g) = Going(toki + 2, "arrays", m)
        BY <1>5, <1>8, <1>10, <2>2 DEF AfterArrays, Tok
    <2> QED
        BY <1>2, <1>6, <2>5, <2>6 DEF CourseGoes
<1>12. CASE ArrayLength
    <2>1. /\ AwaitExpr("array_len") /\ ~match(items) /\ Tok(toki) = "TOK_LBRACKET" /\ toki' = toki + 1
          /\ pc' = "unary"
        BY <1>1, <1>8, <1>12 DEF ArrayLength, advance, AwaitExpr
    <2>2. Marks(stack') = Call(Front(m), "array_len", 0)
        BY <1>1, <1>3, <2>1, MarksOfAwait DEF DeclAt
    <2>3. Course' = Going(toki + 1, "unary", Call(Front(m), "array_len", 0))
        BY <2>1, <2>2, CourseNext
    <2>4. AfterArrays(tokens, g) = Going(toki + 1, "unary", Call(Front(m), "array_len", 0))
        BY <1>5, <1>8, <1>10, <2>1 DEF AfterArrays, Tok
    <2> QED
        BY <1>2, <1>6, <2>3, <2>4 DEF CourseGoes
<1>13. CASE Initializer
    <2>1. AwaitExpr("initializer") /\ Tok(toki) = "TOK_EQUAL" /\ toki' = toki + 1 /\ pc' = "unary"
        BY <1>1, <1>13 DEF Initializer, advance, AwaitExpr
    <2>2. Marks(stack') = Call(Front(m), "initializer", 0)
        BY <1>1, <1>3, <2>1, MarksOfAwait DEF DeclAt
    <2>3. Course' = Going(toki + 1, "unary", Call(Front(m), "initializer", 0))
        BY <2>1, <2>2, CourseNext
    <2>4. AfterArrays(tokens, g) = Going(toki + 1, "unary", Call(Front(m), "initializer", 0))
        BY <1>5, <1>8, <1>9, <1>10, <2>1 DEF AfterArrays, Tok
    <2> QED
        BY <1>2, <1>6, <2>3, <2>4 DEF CourseGoes
<1>14. CASE NoInitializer
    <2>1. /\ Tok(toki) \notin {"TOK_LBRACKET", "TOK_EQUAL"} /\ toki' = toki /\ pc' = "return"
          /\ stack' = Front(stack) /\ ret' # NULL
        BY <1>1, <1>14 DEF NoInitializer, new_var_decl, Pop, NULL
    <2>2. Course' = Back(toki, 1, Front(m))
        BY <1>7, <2>1, CourseNext
    <2>3. AfterArrays(tokens, g) = Back(toki, 1, Front(m))
        BY <1>5, <1>8, <1>9, <1>10, <2>1 DEF AfterArrays, Tok
    <2> QED
        BY <1>2, <1>6, <2>2, <2>3 DEF CourseGoes
<1> QED
    BY <1>11, <1>12, <1>13, <1>14

(* what follows the length of an array, or an initializer,                 *)
LEMMA GoesLength ==
    ASSUME ParserInv, CursorSound, CloseArray \/ Initialized
    PROVE  CourseGoes
<1>0. PICK S : stack \in Seq(S)
    BY DEF ParserInv, StackOK
<1>1. toki \in Nat /\ Len(pool) \in Nat /\ current = Tok(toki)
    BY DEF ParserInv, CursorSound
<1>2. PICK g : g = Course
    OBVIOUS
<1>3. PICK m : m = Marks(stack)
    OBVIOUS
<1>4. ASSUME NEW at \in DeclAt, ReturnTo(at)
      PROVE  /\ g.i = toki /\ g.a = m /\ m # <<>> /\ Last(m)[1] = at
             /\ After(tokens, g) = AfterReturn(tokens, g)
             /\ Marks(Front(stack)) = Front(m)
             /\ stack # <<>> /\ Caller \in DeclFrames(Len(types))
    <2>1. Place(at) = at
        BY DEF Place, DeclAt
    <2>2. stack # <<>> /\ Caller.at \in DeclAt
        BY <1>4 DEF ReturnTo
    <2> QED
        BY <1>2, <1>3, <1>4, <2>1, <2>2, CourseBack, DeclCaller
<1>5. "array_len" \in DeclAt /\ "initializer" \in DeclAt /\ "declaration" \in DeclAt
    BY DEF DeclAt
<1>6. CASE CloseArray
    <2>1. PICK f : f = [Caller EXCEPT !.at = "declaration", !.type = NewType]
        OBVIOUS
    <2>2. /\ ReturnTo("array_len") /\ Tok(toki) = "TOK_RBRACKET" /\ toki' = toki + 1 /\ pc' = "arrays"
          /\ stack' = Append(Front(stack), f)
        BY <1>1, <1>6, <2>1 DEF CloseArray, Become, advance
    <2>3. /\ g.i = toki /\ g.a = m /\ m # <<>> /\ Last(m)[1] = "array_len"
          /\ After(tokens, g) = AfterReturn(tokens, g) /\ stack # <<>> /\ Caller \in DeclFrames(Len(types))
        BY <1>4, <1>5, <2>2
    <2>4. Mark(f) = Waits("declaration")
        <3>1. f.at = "declaration"
            BY <2>1, <2>3 DEF DeclFrames
        <3> QED
            BY <1>5, <3>1, MarkOfDecl
    <2>5. Marks(stack') = Append(Front(m), Waits("declaration"))
        <3>1. Marks(stack') = Append(Front(m), Mark(f))
            BY <1>0, <1>3, <2>2, <2>3, MarksBecome
        <3> QED
            BY <2>4, <3>1
    <2>6. Course' = Going(toki + 1, "arrays", Append(Front(m), Waits("declaration")))
        BY <2>2, <2>5, CourseNext
    <2>7. AfterReturn(tokens, g) = Going(toki + 1, "arrays", Append(Front(m), Waits("declaration")))
        BY <2>2, <2>3 DEF AfterReturn, Tok
    <2> QED
        BY <1>2, <2>3, <2>6, <2>7 DEF CourseGoes
<1>7. CASE Initialized
    <2>1. /\ ReturnTo("initializer") /\ stack' = Front(stack) /\ pc' = "return" /\ toki' = toki /\ ret' # NULL
        BY <1>1, <1>7 DEF Initialized, new_var_decl, Pop, NULL
    <2>2. /\ g.i = toki /\ g.a = m /\ m # <<>> /\ Last(m)[1] = "initializer"
          /\ After(tokens, g) = AfterReturn(tokens, g) /\ Marks(Front(stack)) = Front(m)
        BY <1>4, <1>5, <2>1
    <2>3. Course' = Back(toki, 1, Front(m))
        BY <2>1, <2>2, CourseNext
    <2>4. AfterReturn(tokens, g) = Back(toki, 1, Front(m))
        BY <2>2 DEF AfterReturn
    <2> QED
        BY <1>2, <2>2, <2>3, <2>4 DEF CourseGoes
<1> QED
    BY <1>6, <1>7

(* and its end at an unexpected token.                                     *)
LEMMA GoesWrong ==
    ASSUME ParserInv, CursorSound, DeclarationFails
    PROVE  CourseGoes
<1>1. toki \in Nat /\ current = Tok(toki)
    BY DEF ParserInv, CursorSound
<1>2. PICK g : g = Course
    OBVIOUS
<1>3. Course' = Failed
    <2>1. pc' = "exit"
        BY DEF DeclarationFails, Exit
    <2> QED
        BY <2>1, CourseNext
<1>4. pc \in {"var_decl", "qualified", "pointers"} => g.i = toki /\ g.s = pc
    <2>1. pc \in {"var_decl", "qualified", "pointers"} => g = Going(toki, pc, Marks(stack))
        BY <1>2, CourseOn DEF Course
    <2> QED
        BY <2>1 DEF Going, State
<1>5. CASE pc = "var_decl" /\ ~Typed /\ ~match(<<current, "TOK_IDENTIFIER", "TOK_EQUAL">>)
    <2>1. PICK let, const : /\ let = <<"TOK_LET", "TOK_IDENTIFIER", "TOK_EQUAL">>
                            /\ const = <<"TOK_CONST", "TOK_IDENTIFIER", "TOK_EQUAL">>
        OBVIOUS
    <2>2. ASSUME NEW items, items \in {let, const}, match(items) PROVE items[1] = current
        <3>1. Len(items) = 3 /\ 1 \in 1 .. Len(items)
            BY <2>1, <2>2
        <3>2. items[1] = Tok(toki + 1 - 1)
            BY <2>2, <3>1 DEF match
        <3> QED
            BY <1>1, <3>2
    <2>3. ~match(const)
        <3>1. match(const) => const[1] = current
            BY <2>2
        <3>2. match(const) => const = <<current, "TOK_IDENTIFIER", "TOK_EQUAL">>
            BY <2>1, <3>1
        <3> QED
            BY <1>5, <3>2
    <2>4. current = "TOK_LET"
        BY <1>5, <2>1, <2>3 DEF Typed
    <2>5. ~match(let)
        BY <1>5, <2>1, <2>4
    <2>6. ~Sees(tokens, toki, let) /\ ~Sees(tokens, toki, const)
        BY <2>3, <2>5, MatchSees
    <2>7. After(tokens, g) = AfterVarDecl(tokens, g)
        BY <1>4, <1>5 DEF After
    <2>8. AfterVarDecl(tokens, g) = Failed
        BY <1>1, <1>4, <1>5, <2>1, <2>4, <2>6 DEF AfterVarDecl, Tok
    <2> QED
        BY <1>2, <1>3, <2>7, <2>8 DEF CourseGoes
<1>6. CASE \/ pc = "qualified" /\ current \in Separators /\ Tok(toki + 1) # "TOK_IDENTIFIER"
           \/ pc = "pointers" /\ current \notin {"TOK_ASTERISK", "TOK_IDENTIFIER"}
    <2>1. After(tokens, g) = AfterDeclarator(tokens, g)
        BY <1>4, <1>6 DEF After
    <2>2. AfterDeclarator(tokens, g) = Failed
        BY <1>1, <1>4, <1>6 DEF AfterDeclarator, Tok
    <2> QED
        BY <1>2, <1>3, <2>1, <2>2 DEF CourseGoes
<1>7. CASE ReturnTo("array_len") /\ current # "TOK_RBRACKET"
    <2>1. /\ g.i = toki /\ g.a # <<>> /\ Last(g.a)[1] = "array_len"
          /\ After(tokens, g) = AfterReturn(tokens, g)
        BY <1>2, <1>7, CourseBack DEF Place
    <2>2. AfterReturn(tokens, g) = Failed
        BY <1>1, <1>7, <2>1 DEF AfterReturn, Tok
    <2> QED
        BY <1>2, <1>3, <2>1, <2>2 DEF CourseGoes
<1> QED
    BY <1>5, <1>6, <1>7 DEF DeclarationFails

(* The parser of declarations goes on as its course says.                  *)
LEMMA DeclGoes ==
    ASSUME ParserInv, CursorSound, parse_var_decl
    PROVE  CourseGoes
<1>1. \/ parse_inferred_var_decl \/ parse_const_var_decl \/ Qualifiers
      \/ SpecPrimitive \/ SpecName \/ (SpecEnd /\ pc = "declspec")
      \/ SpecMember \/ (SpecEnd /\ pc # "declspec") \/ PointerType \/ DeclaratorName
      \/ ArrayUnsized \/ ArrayLength \/ Initializer \/ NoInitializer
      \/ CloseArray \/ Initialized
      \/ DeclarationFails
    BY DEF parse_var_decl
<1> QED
    BY <1>1, GoesDeclaration, GoesSpecifier, GoesDeclarator, GoesArrays, GoesLength, GoesWrong

(* The activations of the parsers of structs.                              *)
LEMMA StructOnTop ==
    ASSUME ParserInv, stack # <<>>, Caller.at \in RecordAt \cup StructAt
    PROVE  /\ Marks(Front(stack)) = Front(Marks(stack))
           /\ Front(Marks(stack)) = <<>> \/ Last(Front(Marks(stack)))[1] = "struct_nested"
           /\ \A f : f.at \in RecordAt \cup StructAt =>
                  Marks(Append(Front(stack), f)) = Append(Front(Marks(stack)), Waits(Place(f.at)))
<1>0. PICK S : stack \in Seq(S)
    BY DEF ParserInv, StackOK
<1>1. Marks(Front(stack)) = Front(Marks(stack))
    BY <1>0, MarksPop
<1>2. PICK v \in Seq(S) : v = Front(stack)
    BY <1>0, PopOne
<1>3. v # <<>> => Last(v).at \in {"record_nested", "struct_nested"}
    BY <1>2, RecordCaller, StructCaller
<1>4. v # <<>> => Last(Marks(v))[1] = "struct_nested"
    <2>1. v # <<>> => Last(Marks(v)) = Mark(Last(v))
        BY MarksPop
    <2> QED
        BY <1>3, <2>1 DEF Mark, Place
<1>5. v = <<>> => Marks(v) = <<>>
    BY MarksOf
<1>6. ASSUME NEW f, f.at \in RecordAt \cup StructAt
      PROVE  Marks(Append(v, f)) = Append(Marks(v), Waits(Place(f.at)))
    <2>1. f.at # "precedence"
        BY <1>6 DEF RecordAt, StructAt
    <2>2. Mark(f) = Waits(Place(f.at))
        BY <2>1 DEF Mark, Waits
    <2>3. Marks(Append(v, f)) = Append(Marks(v), Mark(f))
        BY MarksPush
    <2> QED
        BY <2>2, <2>3
<1> QED
    BY <1>1, <1>2, <1>4, <1>5, <1>6

(* A struct returns nothing that its caller looks at.                      *)
LEMMA BackPlain ==
    ASSUME NEW i, NEW n, NEW s, Marks(s) = <<>> \/ Last(Marks(s))[1] \notin FrameAt
    PROVE  CourseOf("return", i, n, s) = Back(i, 0, Marks(s))
<1>1. PICK p : p = "return"
    OBVIOUS
<1>2. \/ CourseOf(p, i, n, s) = Back(i, 0, Marks(s))
      \/ CourseOf(p, i, n, s) = Back(i, 1, Marks(s))
    BY <1>1, CourseOn
<1>3. Back(i, 1, Marks(s)) = Back(i, 0, Marks(s))
    BY DEF Back
<1> QED
    BY <1>1, <1>2, <1>3

(* The head of a struct, in either pass,                                   *)
LEMMA HeadGoes ==
    ASSUME NEW a, CursorSound, toki \in Nat, Course = Going(toki, "struct_decl", a),
           current = "TOK_STRUCT", advance_head,
           HasBody => Course' = Going(toki', "struct_body", Append(a, Waits("struct"))),
           ~HasBody => Course' = Back(toki', 0, a)
    PROVE  CourseGoes
<1>1. PICK g : g = Course
    OBVIOUS
<1>2. g.i = toki /\ g.s = "struct_decl" /\ g.a = a
    BY <1>1 DEF Going, State
<1>3. After(tokens, g) = AfterHead(tokens, g)
    BY <1>2 DEF After
<1>4. PICK n : n \in {0, 1} /\ n = Count(Named)
    BY DEF Count
<1>5. n = Count(tokens[toki + 1 + 1] = "TOK_IDENTIFIER")
    BY <1>4 DEF Named, Tok
<1>6. HasBody <=> tokens[toki + (1 + n) + 1] = "TOK_LBRACE"
    <2>1. toki + (1 + n) + 1 = toki + 1 + n + 1
        BY <1>4
    <2> QED
        BY <1>4, <2>1 DEF HasBody, Tok
<1>7. tokens[toki + 1] = "TOK_STRUCT"
    BY DEF CursorSound, Tok
<1>8. PICK k : k = 1 + n
    OBVIOUS
<1>9. CASE HasBody
    <2>1. toki' = toki + k + 1
        <3>1. Count(HasBody) = 1
            BY <1>9 DEF Count
        <3>2. toki' = toki + (1 + n + 1)
            BY <1>4, <3>1 DEF advance_head, advance
        <3> QED
            BY <1>4, <1>8, <3>2
    <2>2. AfterHead(tokens, g) = Going(toki + k + 1, "struct_body", Append(a, Waits("struct")))
        BY <1>2, <1>5, <1>6, <1>7, <1>8, <1>9 DEF AfterHead
    <2> QED
        BY <1>1, <1>3, <1>9, <2>1, <2>2 DEF CourseGoes
<1>10. CASE ~HasBody
    <2>1. toki' = toki + k
        <3>1. Count(HasBody) = 0
            BY <1>10 DEF Count
        <3>2. toki' = toki + (1 + n + 0)
            BY <1>4, <3>1 DEF advance_head, advance
        <3> QED
            BY <1>4, <1>8, <3>2
    <2>2. AfterHead(tokens, g) = Back(toki + k, 0, a)
        BY <1>2, <1>5, <1>6, <1>7, <1>8, <1>10 DEF AfterHead
    <2> QED
        BY <1>1, <1>3, <1>10, <2>1, <2>2 DEF CourseGoes
<1> QED
    BY <1>9, <1>10

(* its body,                                                               *)
LEMMA BodyGoes ==
    ASSUME NEW m, CursorSound, Course = Going(toki, "struct_body", m),
           \/ /\ current \in Records
              /\ Course' = Going(toki, "struct_decl", Append(Front(m), Waits("struct_nested")))
           \/ current = "TOK_RBRACE" /\ Course' = Back(toki + 1, 0, Front(m))
           \/ current = "TOK_EOF" /\ Course' = Failed
           \/ /\ current \notin Records \cup {"TOK_RBRACE", "TOK_EOF"}
              /\ Course' = Going(toki, "var_decl", Append(Front(m), Waits("struct_field")))
    PROVE  CourseGoes
<1>1. PICK g : g = Course
    OBVIOUS
<1>2. g.i = toki /\ g.s = "struct_body" /\ g.a = m
    BY <1>1 DEF Going, State
<1>3. After(tokens, g) = AfterField(tokens, g)
    BY <1>2 DEF After
<1>4. tokens[toki + 1] = current
    BY DEF CursorSound, Tok
<1>5. "TOK_RBRACE" \notin Records /\ "TOK_EOF" \notin Records
    BY DEF Records
<1>6. AfterField(tokens, g) = Course'
    BY <1>2, <1>4, <1>5 DEF AfterField
<1> QED
    BY <1>1, <1>3, <1>6 DEF CourseGoes

(* and the semicolon behind a field.                                       *)
LEMMA FieldGoes ==
    ASSUME ParserInv, CursorSound, NEW at \in {"record_field", "struct_field"}, ReturnTo(at),
           \/ current # "TOK_SEMICOLON" /\ Course' = Failed
           \/ /\ current = "TOK_SEMICOLON"
              /\ Course' = Going(toki + 1, "struct_body", Append(Front(Marks(stack)), Waits("struct")))
    PROVE  CourseGoes
<1>1. PICK g : g = Course
    OBVIOUS
<1>2. Place(at) = "struct_field"
    BY DEF Place
<1>3. /\ g.i = toki /\ g.a = Marks(stack) /\ g.a # <<>> /\ Last(g.a)[1] = "struct_field"
      /\ After(tokens, g) = AfterReturn(tokens, g)
    BY <1>1, <1>2, CourseBack
<1>4. tokens[toki + 1] = current
    BY DEF CursorSound, Tok
<1>5. AfterReturn(tokens, g) = Course'
    BY <1>3, <1>4 DEF AfterReturn
<1> QED
    BY <1>1, <1>3, <1>5 DEF CourseGoes

(* What comes next is in the body.                                         *)
LEMMA CourseBody ==
    /\ pc \in {"record_body", "struct_body"} => Course = Going(toki, "struct_body", Marks(stack))
    /\ pc' \in {"record_body", "struct_body"} => Course' = Going(toki', "struct_body", Marks(stack'))
<1>1. Doing("record_body") = "struct_body" /\ Doing("struct_body") = "struct_body"
    BY DEF Doing
<1>2. Course' = CourseOf(pc', toki', ret', stack') /\ Course = CourseOf(pc, toki, ret, stack)
    BY DEF Course
<1> QED
    BY <1>1, <1>2, CourseOn

(* Pass 1 goes on as its course says,                                      *)
LEMMA RecordGoes ==
    ASSUME ParserInv, CursorSound,
           record_struct_decl \/ RecordNested \/ RecordNestedEnd \/ RecordField
               \/ RecordFieldEnd \/ RecordClose
    PROVE  CourseGoes
<1>0. PICK S : stack \in Seq(S)
    BY DEF ParserInv, StackOK
<1>1. toki \in Nat /\ current = Tok(toki)
    BY DEF ParserInv, CursorSound
<1>2. stack # <<>> /\ Caller.at \in RecordAt
    <2>1. \/ pc \in {"record_struct", "record_body"} \/ ReturnTo("record_nested") \/ ReturnTo("record_field")
        BY DEF record_struct_decl, RecordNested, RecordNestedEnd, RecordField, RecordFieldEnd, RecordClose
    <2> QED
        BY <2>1 DEF ParserInv, TopOK, ReturnTo, Caller, RecordAt
<1>3. PICK m : m = Marks(stack)
    OBVIOUS
<1>4. /\ Marks(Front(stack)) = Front(m)
      /\ Front(m) = <<>> \/ Last(Front(m))[1] = "struct_nested"
      /\ \A f : f.at \in RecordAt => Marks(Append(Front(stack), f)) = Append(Front(m), Waits(Place(f.at)))
    BY <1>2, <1>3, StructOnTop
<1>5. "struct_nested" \notin FrameAt
    BY DEF FrameAt
<1>6. Caller \in RecordFrames
    BY <1>2, RecordCaller
<1>7. /\ Place("record") = "struct" /\ Place("record_nested") = "struct_nested"
      /\ Place("record_field") = "struct_field"
    BY DEF Place
<1>8. \A at \in RecordAt : [Caller EXCEPT !.at = at].at = at
    BY <1>6 DEF RecordFrames
<1>9. "record" \in RecordAt /\ "record_nested" \in RecordAt /\ "record_field" \in RecordAt
    BY DEF RecordAt
<1>10. ASSUME NEW at \in RecordAt, Resume(at)
       PROVE  Marks(stack') = Append(Front(m), Waits(Place(at)))
    <2>1. PICK f : f = [Caller EXCEPT !.at = at]
        OBVIOUS
    <2>2. f.at = at /\ stack' = Append(Front(stack), f)
        BY <1>8, <1>10, <2>1 DEF Resume, Become
    <2> QED
        BY <1>4, <2>2
<1>11. ASSUME Pop, pc' = "return" PROVE Course' = Back(toki', 0, Front(m))
    <2>1. Marks(stack') = Front(m)
        BY <1>4, <1>11 DEF Pop
    <2>2. Course' = CourseOf("return", toki', ret', stack')
        BY <1>11 DEF Course
    <2> QED
        BY <1>4, <1>5, <2>1, <2>2, BackPlain
<1>12. CASE record_struct_decl
    <2>1. Course = Going(toki, "struct_decl", Front(m))
        <3>1. pc = "record_struct"
            BY <1>12 DEF record_struct_decl
        <3> QED
            BY <1>3, <3>1 DEF Course, CourseOf
    <2>2. current = "TOK_STRUCT" /\ advance_head
        BY <1>12 DEF record_struct_decl
    <2>3. HasBody => Course' = Going(toki', "struct_body", Append(Front(m), Waits("struct")))
        <3>1. PICK full_type_name : HasBody =>
                  Become([Caller EXCEPT !.name = full_type_name]) /\ pc' = "record_body"
            BY <1>12 DEF record_struct_decl
        <3>2. PICK f : f = [Caller EXCEPT !.name = full_type_name]
            OBVIOUS
        <3>3. pc = "record_struct"
            BY <1>12 DEF record_struct_decl
        <3>4. Caller.at = "record"
            BY <3>3 DEF ParserInv, TopOK, Caller
        <3>5. f.at = "record"
            BY <1>6, <3>2, <3>4 DEF RecordFrames
        <3>6. HasBody => Marks(stack') = Append(Front(m), Waits("struct"))
            BY <1>4, <1>7, <1>9, <3>1, <3>2, <3>5 DEF Become
        <3> QED
            BY <3>1, <3>6, CourseBody
    <2>4. ~HasBody => Course' = Back(toki', 0, Front(m))
        BY <1>11, <1>12 DEF record_struct_decl
    <2> QED
        BY <1>1, <2>1, <2>2, <2>3, <2>4, HeadGoes
<1>13. CASE RecordNested
    <2>1. pc = "record_body" /\ current \in Records /\ pc' = "record_struct" /\ toki' = toki
        BY <1>13 DEF RecordNested
    <2>2. PICK f, h : /\ f = [Caller EXCEPT !.at = "record_nested"]
                      /\ h = RecordFrame("record", next_prefix(Caller.name))
        OBVIOUS
    <2>3. stack' = Front(stack) \o <<f, h>> /\ f.at = "record_nested"
        BY <1>8, <1>9, <1>13, <2>2 DEF RecordNested
    <2>4. PICK v \in Seq(S) : v = Front(stack)
        BY <1>0, <1>2, PopOne
    <2>5. Marks(v \o <<f, h>>) = Append(Append(Marks(v), Mark(f)), Mark(h))
        BY MarksTwo
    <2>6. Mark(f) = Waits("struct_nested")
        BY <1>7, <2>3 DEF Mark, Waits
    <2>7. Front(Marks(stack')) = Append(Front(m), Waits("struct_nested"))
        <3>1. PICK T : Marks(v) \in Seq(T)
            BY MarksOf
        <3>2. PICK T2 : T2 = T \cup {Mark(f)}
            OBVIOUS
        <3>3. Marks(v) \in Seq(T2) /\ Mark(f) \in T2
            BY <3>1, <3>2, WiderSeq
        <3>4. PICK u \in Seq(T2) : u = Append(Marks(v), Mark(f))
            BY <3>3, PushOne
        <3>5. Front(Append(u, Mark(h))) = u
            BY FrontLast
        <3> QED
            BY <1>4, <2>3, <2>4, <2>5, <2>6, <3>4, <3>5
    <2>8. Course' = Going(toki, "struct_decl", Append(Front(m), Waits("struct_nested")))
        BY <2>1, <2>7 DEF Course, CourseOf
    <2>9. Course = Going(toki, "struct_body", m)
        BY <1>3, <2>1, CourseBody
    <2> QED
        BY <2>1, <2>8, <2>9, BodyGoes
<1>14. CASE RecordNestedEnd
    <2>1. /\ ReturnTo("record_nested") /\ Resume("record") /\ pc' = "record_body"
          /\ current = "TOK_IDENTIFIER" => Tok(toki + 1) = "TOK_SEMICOLON"
          /\ toki' = toki + IF current = "TOK_IDENTIFIER" THEN 2 ELSE 0
        BY <1>14 DEF RecordNestedEnd, advance
    <2>2. Course' = Going(toki', "struct_body", Append(Front(m), Waits("struct")))
        BY <1>7, <1>9, <1>10, <2>1, CourseBody
    <2>3. PICK g : g = Course
        OBVIOUS
    <2>4. /\ g.i = toki /\ g.a = m /\ g.a # <<>> /\ Last(g.a)[1] = "struct_nested"
          /\ After(tokens, g) = AfterReturn(tokens, g)
        BY <1>3, <1>7, <2>1, <2>3, CourseBack
    <2>5. AfterReturn(tokens, g) = AfterNested(tokens, g)
        BY <2>4 DEF AfterReturn
    <2>6. tokens[toki + 1] = current /\ tokens[toki + 1 + 1] = Tok(toki + 1)
        BY <1>1 DEF Tok
    <2>7. current # "TOK_IDENTIFIER" => toki' = toki
        BY <1>1, <2>1
    <2>8. AfterNested(tokens, g) = Going(toki', "struct_body", Append(Front(m), Waits("struct")))
        BY <2>1, <2>4, <2>6, <2>7 DEF AfterNested
    <2> QED
        BY <2>2, <2>3, <2>4, <2>5, <2>8 DEF CourseGoes
<1>15. CASE RecordField
    <2>1. /\ pc = "record_body" /\ current \notin Records \cup {"TOK_RBRACE", "TOK_EOF"}
          /\ Resume("record_field") /\ pc' = "var_decl" /\ toki' = toki
        BY <1>15 DEF RecordField
    <2>2. Course' = Going(toki, "var_decl", Append(Front(m), Waits("struct_field")))
        BY <1>7, <1>9, <1>10, <2>1, CourseNext
    <2>3. Course = Going(toki, "struct_body", m)
        BY <1>3, <2>1, CourseBody
    <2> QED
        BY <2>1, <2>2, <2>3, BodyGoes
<1>16. CASE RecordFieldEnd
    <2>1. /\ ReturnTo("record_field") /\ current = "TOK_SEMICOLON" /\ Resume("record")
          /\ pc' = "record_body" /\ toki' = toki + 1
        BY <1>16 DEF RecordFieldEnd, advance
    <2>2. Course' = Going(toki + 1, "struct_body", Append(Front(m), Waits("struct")))
        BY <1>7, <1>9, <1>10, <2>1, CourseBody
    <2> QED
        BY <1>3, <2>1, <2>2, FieldGoes
<1>17. CASE RecordClose
    <2>1. pc = "record_body" /\ current = "TOK_RBRACE" /\ Pop /\ pc' = "return" /\ toki' = toki + 1
        BY <1>17 DEF RecordClose, advance
    <2>2. Course' = Back(toki + 1, 0, Front(m))
        BY <1>11, <2>1
    <2>3. Course = Going(toki, "struct_body", m)
        BY <1>3, <2>1, CourseBody
    <2> QED
        BY <2>1, <2>2, <2>3, BodyGoes
<1> QED
    BY <1>12, <1>13, <1>14, <1>15, <1>16, <1>17

(* and so does pass 2, until a struct inside has returned.                 *)
LEMMA StructGoes ==
    ASSUME ParserInv, CursorSound,
           parse_struct_decl \/ StructField \/ StructFieldEnd \/ StructNested \/ StructClose
    PROVE  CourseGoes
<1>0. PICK S : stack \in Seq(S)
    BY DEF ParserInv, StackOK
<1>1. toki \in Nat /\ current = Tok(toki)
    BY DEF ParserInv, CursorSound
<1>3. PICK m : m = Marks(stack)
    OBVIOUS
<1>5. "struct_nested" \notin FrameAt
    BY DEF FrameAt
<1>7. \A at \in StructAt : Place(at) = at
    BY DEF Place, StructAt
<1>9. "struct" \in StructAt /\ "struct_nested" \in StructAt /\ "struct_field" \in StructAt
    BY DEF StructAt
<1>12. CASE parse_struct_decl
    <2>1. Course = Going(toki, "struct_decl", m)
        <3>1. pc = "struct_decl"
            BY <1>12 DEF parse_struct_decl
        <3> QED
            BY <1>3, <3>1, CourseOn DEF Course
    <2>2. current = "TOK_STRUCT" /\ advance_head
        BY <1>12 DEF parse_struct_decl
    <2>3. HasBody => Course' = Going(toki', "struct_body", Append(m, Waits("struct")))
        <3>1. PICK f : f = StructFrame("struct", Len(pool) + 1, NULL, NULL)
            OBVIOUS
        <3>2. HasBody => stack' = Append(stack, f) /\ pc' = "struct_body"
            BY <1>12, <3>1 DEF parse_struct_decl
        <3>3. f.at = "struct"
            BY <3>1 DEF StructFrame
        <3>4. Mark(f) = Waits("struct")
            BY <1>7, <1>9, <3>3 DEF Mark, Waits
        <3>5. Marks(Append(stack, f)) = Append(m, Waits("struct"))
            BY <1>0, <1>3, <3>4, MarksPush
        <3> QED
            BY <3>2, <3>5, CourseBody
    <2>4. ~HasBody => Course' = Back(toki', 0, m)
        <3>1. ~HasBody => stack' = stack /\ pc' = "return"
            BY <1>12 DEF parse_struct_decl
        <3>2. m = <<>> \/ Last(m)[1] \notin FrameAt
            <4>1. stack = <<>> \/ Caller.at = "struct_nested"
                BY <1>12 DEF parse_struct_decl, ParserInv, TopOK, Caller
            <4>2. CASE stack = <<>>
                BY <1>0, <1>3, <4>2, MarksOf
            <4>3. CASE stack # <<>> /\ Caller.at = "struct_nested"
                <5>1. Last(m) = Mark(Caller)
                    BY <1>0, <1>3, <4>3, MarksPop DEF Caller
                <5>2. Mark(Caller)[1] = "struct_nested"
                    BY <1>7, <1>9, <4>3 DEF Mark
                <5> QED
                    BY <1>5, <5>1, <5>2
            <4> QED
                BY <4>1, <4>2, <4>3
        <3>3. Course' = CourseOf(pc', toki', ret', stack')
            BY DEF Course
        <3> QED
            BY <1>3, <3>1, <3>2, <3>3, BackPlain
    <2> QED
        BY <1>1, <2>1, <2>2, <2>3, <2>4, HeadGoes
<1>13. CASE StructField \/ StructFieldEnd \/ StructNested \/ StructClose
    <2>1. stack # <<>> /\ Caller.at \in StructAt
        <3>1. pc = "struct_body" \/ ReturnTo("struct_field")
            BY <1>13 DEF StructField, StructFieldEnd, StructNested, StructClose
        <3> QED
            BY <1>9, <3>1 DEF ParserInv, TopOK, ReturnTo, Caller
    <2>2. /\ Marks(Front(stack)) = Front(m)
          /\ Front(m) = <<>> \/ Last(Front(m))[1] = "struct_nested"
          /\ \A f : f.at \in StructAt => Marks(Append(Front(stack), f)) = Append(Front(m), Waits(Place(f.at)))
        BY <1>3, <2>1, StructOnTop
    <2>3. Caller \in StructFrames(Len(pool))
        BY <2>1, StructCaller
    <2>4. ASSUME NEW at \in StructAt, Resume(at)
          PROVE  Marks(stack') = Append(Front(m), Waits(at))
        <3>1. PICK f : f = [Caller EXCEPT !.at = at]
            OBVIOUS
        <3>2. f.at = at /\ stack' = Append(Front(stack), f)
            BY <2>3, <2>4, <3>1 DEF Resume, Become, StructFrames
        <3> QED
            BY <1>7, <2>2, <3>2
    <2>5. pc = "struct_body" => Course = Going(toki, "struct_body", m)
        BY <1>3, CourseBody
    <2>6. CASE StructField
        <3>1. /\ pc = "struct_body" /\ current \notin Records \cup {"TOK_RBRACE", "TOK_EOF"}
              /\ Resume("struct_field") /\ pc' = "var_decl" /\ toki' = toki
            BY <2>6 DEF StructField
        <3>2. Course' = Going(toki, "var_decl", Append(Front(m), Waits("struct_field")))
            BY <1>9, <2>4, <3>1, CourseNext
        <3> QED
            BY <2>5, <3>1, <3>2, BodyGoes
    <2>7. CASE StructFieldEnd
        <3>1. /\ ReturnTo("struct_field") /\ current = "TOK_SEMICOLON" /\ Resume("struct")
              /\ pc' = "struct_body" /\ toki' = toki + 1
            BY <2>7 DEF StructFieldEnd, advance
        <3>2. Course' = Going(toki + 1, "struct_body", Append(Front(m), Waits("struct")))
            BY <1>9, <2>4, <3>1, CourseBody
        <3> QED
            BY <1>3, <3>1, <3>2, FieldGoes
    <2>8. CASE StructNested
        <3>1. /\ pc = "struct_body" /\ current \in Records
              /\ Resume("struct_nested") /\ pc' = "struct_decl" /\ toki' = toki
            BY <2>8 DEF StructNested
        <3>2. Course' = Going(toki, "struct_decl", Append(Front(m), Waits("struct_nested")))
            BY <1>9, <2>4, <3>1, CourseNext
        <3> QED
            BY <2>5, <3>1, <3>2, BodyGoes
    <2>9. CASE StructClose
        <3>1. pc = "struct_body" /\ current = "TOK_RBRACE" /\ Pop /\ pc' = "return" /\ toki' = toki + 1
            BY <2>9 DEF StructClose, advance
        <3>2. Marks(stack') = Front(m)
            BY <2>2, <3>1 DEF Pop
        <3>3. Course' = CourseOf("return", toki', ret', stack')
            BY <3>1 DEF Course
        <3>4. Course' = Back(toki + 1, 0, Front(m))
            BY <1>5, <2>2, <3>1, <3>2, <3>3, BackPlain
        <3> QED
            BY <2>5, <3>1, <3>4, BodyGoes
    <2> QED
        BY <1>13, <2>6, <2>7, <2>8, <2>9
<1> QED
    BY <1>12, <1>13

(* What they refuse.                                                       *)
LEMMA FailsGoes ==
    ASSUME ParserInv, CursorSound, StructFails, ~ReturnTo("nested_field")
    PROVE  CourseGoes
<1>1. toki \in Nat /\ current = Tok(toki)
    BY DEF ParserInv, CursorSound
<1>2. PICK g : g = Course
    OBVIOUS
<1>3. Course' = Failed
    <2>1. pc' = "exit"
        BY DEF StructFails, Exit
    <2> QED
        BY <2>1, CourseNext
<1>4. CASE pc \in {"record_struct", "struct_decl"} /\ current # "TOK_STRUCT"
    <2>1. g.i = toki /\ g.s = "struct_decl"
        <3>1. pc = "record_struct" => g = Going(toki, "struct_decl", Front(Marks(stack)))
            BY <1>2 DEF Course, CourseOf
        <3>2. pc = "struct_decl" => g = Going(toki, "struct_decl", Marks(stack))
            BY <1>2, CourseOn DEF Course
        <3> QED
            BY <1>4, <3>1, <3>2 DEF Going, State
    <2>2. After(tokens, g) = AfterHead(tokens, g)
        BY <2>1 DEF After
    <2>3. AfterHead(tokens, g) = Failed
        BY <1>1, <1>4, <2>1 DEF AfterHead, Tok
    <2> QED
        BY <1>2, <1>3, <2>2, <2>3 DEF CourseGoes
<1>5. CASE pc \in {"record_body", "struct_body"} /\ current = "TOK_EOF"
    <2>1. Course = Going(toki, "struct_body", Marks(stack))
        BY <1>5, CourseBody
    <2> QED
        BY <1>3, <1>5, <2>1, BodyGoes
<1>6. CASE ReturnTo("record_nested") /\ current = "TOK_IDENTIFIER" /\ Tok(toki + 1) # "TOK_SEMICOLON"
    <2>1. Place("record_nested") = "struct_nested"
        BY DEF Place
    <2>2. /\ g.i = toki /\ g.a # <<>> /\ Last(g.a)[1] = "struct_nested"
          /\ After(tokens, g) = AfterReturn(tokens, g)
        BY <1>2, <1>6, <2>1, CourseBack
    <2>3. AfterReturn(tokens, g) = AfterNested(tokens, g)
        BY <2>2 DEF AfterReturn
    <2>4. AfterNested(tokens, g) = Failed
        BY <1>1, <1>6, <2>2 DEF AfterNested, Tok
    <2> QED
        BY <1>2, <1>3, <2>2, <2>3, <2>4 DEF CourseGoes
<1>7. CASE (ReturnTo("record_field") \/ ReturnTo("struct_field")) /\ current # "TOK_SEMICOLON"
    BY <1>3, <1>7, FieldGoes
<1> QED
    BY <1>4, <1>5, <1>6, <1>7 DEF StructFails

(* A course that pass 1 may take, and one that has come to the end of the  *)
(* first struct.  No activation of pass 1 is at a field named behind a     *)
(* nested struct.                                                          *)
Fine(g) ==
    g.s # "exit" /\ (g.s = "return" /\ g.a # <<>> => Last(g.a)[1] # "nested_field")

Final(g) == g.s = "return" /\ g.a = <<>>

Start == Going(0, "struct_decl", <<>>)

(* The courses from the first token on to g, and those up to the end.      *)
Leads(ts, G, g) ==
    /\ Start \in G /\ g \in G
    /\ \A h \in G : Fine(h) /\ (h = g \/ Final(h) \/ After(ts, h) \in G)

Complete(ts, G) ==
    /\ Start \in G
    /\ \A h \in G : Fine(h) /\ (Final(h) \/ After(ts, h) \in G)

Accepted == \E G : Complete(tokens, G)

(* Pass 1: it is at the first token, in the first struct, or behind it.    *)
PassOne ==
    \/ pc \in {"exit", "crash"}
    \/ pc = "record_types" /\ toki = 0
    \/ pc \notin {"record_types", "recorded"} /\ \E G : Leads(tokens, G, Course)
    \/ Accepted

(* The text goes on with the first struct.                                 *)
LEMMA LeadsOn ==
    ASSUME NEW ts, NEW G, NEW g, Leads(ts, G, g), Fine(After(ts, g))
    PROVE  \E H : Leads(ts, H, After(ts, g))
<1>1. PICK a : a = After(ts, g)
    OBVIOUS
<1>2. PICK H : H = G \cup {a}
    OBVIOUS
<1>3. \A h \in H : Fine(h) /\ (h = a \/ Final(h) \/ After(ts, h) \in H)
    BY <1>1, <1>2 DEF Leads
<1>4. Leads(ts, H, a)
    BY <1>2, <1>3 DEF Leads
<1> QED
    BY <1>1, <1>4

(* It begins,                                                              *)
LEMMA LeadsFirst ==
    ASSUME NEW ts
    PROVE  \E G : Leads(ts, G, Start)
<1>1. Fine(Start)
    BY DEF Fine, Start, Going, State
<1>2. Leads(ts, {Start}, Start)
    BY <1>1 DEF Leads
<1> QED
    BY <1>2

(* and it ends.                                                            *)
LEMMA LeadsToEnd ==
    ASSUME NEW ts, NEW G, NEW g, Leads(ts, G, g), Final(g)
    PROVE  Complete(ts, G)
BY DEF Leads, Complete

(* What the front end does not do: go on after an end, change the text, or *)
(* go on from the return of the first struct but for the end of a pass.    *)
LEMMA NothingAfter ==
    ASSUME FrontNext
    PROVE  /\ pc \notin {"exit", "crash", "done"}
           /\ pc = "return" /\ stack = <<>> => RecordAgain \/ main
           /\ pc = "record_types" => record_types \/ record_types_default
           /\ pc' = "record_types" => RecordAgain
           /\ pc' = "done" => main
<1>1. CASE parse_expr \/ parse_var_decl
    BY <1>1, FieldPlaces
<1>2. CASE RecordTypes
    BY <1>2 DEF RecordTypes, record_types, new_ast, record_struct_decl, RecordAgain, RecordNested,
                RecordNestedEnd, RecordField, RecordFieldEnd, RecordClose, ReturnTo,
                record_types_default
<1>3. CASE ParseStruct \/ StructFails
    BY <1>3 DEF ParseStruct, parse_struct_decl, StructField, StructFieldEnd, StructClose,
                StructNested, StructNestedEnd, NestedField, NestedFieldEnd, LookupFails, main,
                StructFails, Exit, ReturnTo, ReturnEarly
<1> QED
    BY <1>1, <1>2, <1>3 DEF FrontNext

(* No step changes the text.                                               *)
LEMMA FrontKeepsText ==
    ASSUME FrontInv, FrontNext
    PROVE  tokens' = tokens
<1>1. CASE parse_expr \/ parse_var_decl
    <2>1. ParserInv /\ CursorSound
        <3>1. pc # "recorded"
            BY <1>1, FieldPlaces
        <3> QED
            BY <3>1 DEF FrontInv
    <2> QED
        BY <1>1, <2>1, ExprMoves, DeclMoves DEF PlainMove
<1>2. CASE RecordTypes
    BY <1>2 DEF RecordTypes, record_types, new_ast, record_struct_decl, RecordAgain, RecordNested,
                RecordNestedEnd, RecordField, RecordFieldEnd, RecordClose, record_types_default
<1>3. CASE ParseStruct \/ StructFails
    BY <1>3 DEF ParseStruct, parse_struct_decl, StructField, StructFieldEnd, StructClose,
                StructNested, StructNestedEnd, NestedField, NestedFieldEnd, LookupFails, main,
                StructFails, Exit
<1> QED
    BY <1>1, <1>2, <1>3 DEF FrontNext

(* Both passes go on as After says, but for what is done behind a nested   *)
(* struct in pass 2, and where a lookup fails.                             *)
LEMMA Steady ==
    ASSUME ParserInv, CursorSound, FrontNext, pc \notin {"record_types", "recorded"},
           pc = "return" => stack # <<>>,
           ~ReturnTo("struct_nested"), ~ReturnTo("nested_field"), ~LookupFails
    PROVE  CourseGoes
<1>1. CASE RecordTypes
    <2>1. ~record_types /\ ~record_types_default /\ ~new_ast /\ ~RecordAgain
        BY DEF record_types, record_types_default, new_ast, RecordAgain
    <2> QED
        BY <1>1, <2>1, RecordGoes, Zenon DEF RecordTypes
<1>2. CASE ParseStruct
    <2>1. ~main /\ ~StructNestedEnd /\ ~NestedField /\ ~NestedFieldEnd
        BY DEF main, StructNestedEnd, NestedField, NestedFieldEnd
    <2> QED
        BY <1>2, <2>1, StructGoes, Zenon DEF ParseStruct
<1>3. CASE StructFails
    BY <1>3, FailsGoes
<1>4. CASE (parse_expr \/ parse_var_decl) /\ UNCHANGED <<known_types, pass>>
    BY <1>4, ExprGoes, DeclGoes
<1> QED
    BY <1>1, <1>2, <1>3, <1>4 DEF FrontNext

(* Where a course ends.                                                    *)
LEMMA CourseEnds ==
    ASSUME ParserInv
    PROVE  /\ Course.s = "exit" <=> pc \in {"exit", "crash"}
           /\ Final(Course) <=> pc = "return" /\ stack = <<>>
           /\ Course.s = "return" <=> pc = "return"
           /\ pc = "return" => Course.a = Marks(stack)
           /\ pc # "return" /\ pc # "record_struct" /\ pc \notin {"exit", "crash"} => Course.a = Marks(stack)
<1>1. PICK S : stack \in Seq(S)
    BY DEF ParserInv, StackOK
<1>2. Marks(stack) = <<>> <=> stack = <<>>
    BY <1>1, MarksOf
<1>3. CASE pc \in {"exit", "crash"}
    BY <1>3 DEF Course, CourseOf, Failed, Going, State, Final
<1>4. CASE pc = "return"
    BY <1>2, <1>4 DEF Course, CourseOf, Back, State, Final
<1>5. CASE pc = "record_struct"
    BY <1>5 DEF Course, CourseOf, Going, State, Final
<1>6. CASE pc \notin {"exit", "crash", "return", "record_struct"}
    <2>1. Course = State(toki, Doing(pc), 0, Count(pc = "declspec" /\ Last(stack).id = {}), Marks(stack))
        BY <1>6 DEF Course, CourseOf
    <2>2. Doing(pc) \notin {"exit", "return"}
        BY <1>6 DEF Doing
    <2> QED
        BY <1>6, <2>1, <2>2 DEF State, Final
<1> QED
    BY <1>3, <1>4, <1>5, <1>6

(* Where pass 1 stands it has not refused the text.                        *)
LEMMA FineInPassOne ==
    ParserInv /\ NamesInv /\ pass = 1 /\ pc \notin {"exit", "crash"} => Fine(Course)
<1> SUFFICES ASSUME ParserInv, NamesInv, pass = 1, pc \notin {"exit", "crash"} PROVE Fine(Course)
    OBVIOUS
<1>1. PICK S : stack \in Seq(S)
    BY DEF ParserInv, StackOK
<1>2. Course.s # "exit"
    BY CourseEnds
<1>3. ASSUME Course.s = "return", Course.a # <<>>
      PROVE  Last(Course.a)[1] # "nested_field"
    <2>1. pc = "return" /\ Course.a = Marks(stack)
        BY <1>3, CourseEnds
    <2>2. stack # <<>>
        BY <1>1, <1>3, <2>1, MarksOf
    <2>3. Last(Course.a) = Mark(Caller)
        BY <1>1, <2>1, <2>2, MarksPop DEF Caller
    <2>4. Caller.at # "nested_field"
        BY <2>1, <2>2, PassOneAlone DEF ReturnTo
    <2>5. Place(Caller.at) # "nested_field"
        BY <2>4 DEF Place
    <2> QED
        BY <2>3, <2>5 DEF Mark
<1> QED
    BY <1>2, <1>3 DEF Fine

(* A step of pass 1 leads on, and pass 2 begins when the first struct has  *)
(* been read.                                                              *)
LEMMA PassOneStep ==
    ASSUME FrontInv, NamesInv, FrontInv', NamesInv', FrontNext,
           Tok(0) = "TOK_STRUCT", pass = 1, PassOne
    PROVE  /\ new_ast => Accepted
           /\ pass' = 1 => PassOne'
<1>1. tokens' = tokens
    BY FrontKeepsText
<1>2. CASE Accepted
    BY <1>1, <1>2 DEF PassOne, Accepted
<1>3. CASE pc = "record_types" /\ toki = 0
    <2>1. CursorSound
        BY <1>3 DEF FrontInv
    <2>2. record_types
        BY <1>3, <2>1, NothingAfter DEF CursorSound, record_types_default
    <2>3. pc' = "record_struct" /\ toki' = 0 /\ stack' = <<RecordFrame("record", <<>>)>>
        BY <1>3, <2>2 DEF record_types
    <2>4. Course' = Start
        <3>1. PICK S : S = {RecordFrame("record", <<>>)}
            OBVIOUS
        <3>2. stack' \in Seq(S) /\ stack' # <<>>
            BY <2>3, <3>1
        <3>3. PICK s \in Seq(S) : s = stack' /\ s # <<>> /\ Len(s) = 1
            BY <2>3, <3>2
        <3>4. Front(s) \in Seq(S) /\ Len(Front(s)) = 0
            <4>1. Front(s) \in Seq(S) /\ Len(Front(s)) = Len(s) - 1
                BY <3>3, PopOne
            <4> QED
                BY <3>3, <4>1
        <3>5. Marks(Front(s)) = <<>>
            <4>1. PICK f \in Seq(S) : f = Front(s) /\ Len(f) = 0
                BY <3>4
            <4>2. f = <<>>
                BY <4>1
            <4> QED
                BY <4>1, <4>2, MarksOf
        <3>6. Front(Marks(s)) = <<>>
            BY <3>3, <3>5, MarksPop
        <3> QED
            BY <2>3, <3>3, <3>6 DEF Course, CourseOf, Start
    <2>5. \E G : Leads(tokens', G, Course')
        BY <2>4, LeadsFirst
    <2> QED
        BY <1>3, <2>2, <2>3, <2>5 DEF PassOne, new_ast
<1>4. CASE pc \notin {"record_types", "recorded", "exit", "crash"} /\ \E G : Leads(tokens, G, Course)
    <2>1. PICK G : Leads(tokens, G, Course)
        BY <1>4
    <2>2. ParserInv /\ CursorSound
        BY <1>4 DEF FrontInv
    <2>3. CASE pc = "return" /\ stack = <<>>
        <3>1. Final(Course)
            BY <2>2, <2>3, CourseEnds
        <3>2. Accepted
            BY <2>1, <3>1, LeadsToEnd DEF Accepted
        <3> QED
            BY <1>2, <3>2
    <2>4. CASE pc = "return" => stack # <<>>
        <3>1. ~ParseStruct /\ ~ReturnTo("struct_nested") /\ ~ReturnTo("nested_field")
            BY <2>2, PassOneAlone
        <3>2. ~LookupFails
            BY <3>1 DEF ParseStruct
        <3>3. Course' = After(tokens, Course)
            BY <1>4, <2>2, <2>4, <3>1, <3>2, Steady DEF CourseGoes
        <3>4. pc' \notin {"record_types", "recorded"}
            BY <1>4, <2>4, NothingAfter, Skipping DEF RecordAgain, record_types_default
        <3>5. ASSUME pass' = 1, pc' \notin {"exit", "crash"} PROVE PassOne'
            <4>1. (ParserInv /\ NamesInv /\ pass = 1 /\ pc \notin {"exit", "crash"} => Fine(Course))'
                BY FineInPassOne, PTL
            <4>2. ParserInv'
                BY DEF FrontInv
            <4>3. Fine(Course')
                BY <3>5, <4>1, <4>2
            <4>4. \E H : Leads(tokens, H, Course')
                BY <2>1, <3>3, <4>3, LeadsOn
            <4>5. \E H : Leads(tokens', H, Course')
                BY <1>1, <4>4
            <4> QED
                BY <3>4, <4>5 DEF PassOne
        <3> QED
            BY <1>4, <3>5 DEF new_ast, PassOne
    <2> QED
        BY <2>3, <2>4
<1> QED
    BY <1>2, <1>3, <1>4, NothingAfter DEF PassOne

(* Pass 2 goes along a course that pass 1 has taken, until it returns      *)
(* early from a struct.  Then the activations left are those that wait for *)
(* a nested struct, and pass 1 was there too, behind the nested struct or  *)
(* behind a field named after it.                                          *)
Along(G) == Course \in G /\ pc \notin {"record_types", "recorded"}

Behind(G, i) ==
    \E g \in G :
        /\ g.i = i
        /\ \/ g.s = "struct_body"
           \/ g.s = "return" /\ g.a # <<>> /\ Last(g.a)[1] = "struct_nested"

Early(G) ==
    \/ pc = "exit"
    \/ /\ pc = "return"
       /\ stack # <<>> =>
              \/ Caller.at = "struct_nested" /\ Behind(G, toki)
              \/ /\ Caller.at = "nested_field" /\ Behind(G, toki - 1)
                 /\ Tok(toki - 1) = "TOK_IDENTIFIER"

PassTwo ==
    \E G :
        /\ Complete(tokens, G)
        /\ \/ pc \in {"done", "crash"}
           \/ Along(G)
           \/ ~NoNesting /\ Early(G)

(* Pass 1 has refused a name behind a nested struct that is not followed   *)
(* by a semicolon, and a field that is only a name.                        *)
LEMMA NameBehind ==
    ASSUME NEW ts, NEW G, Complete(ts, G), NEW i \in Int, Behind(G, i), ts[i + 1] = "TOK_IDENTIFIER"
    PROVE  /\ ts[i + 1 + 1] # "TOK_EQUAL"
           /\ ts[i + 1 + 1] = "TOK_SEMICOLON" => Behind(G, i + 2)
<1>1. PICK g \in G :
          /\ g.i = i
          /\ \/ g.s = "struct_body"
             \/ g.s = "return" /\ g.a # <<>> /\ Last(g.a)[1] = "struct_nested"
    BY DEF Behind
<1>2. \A h \in G : h.s # "return" \/ h.a # <<>> => After(ts, h) \in G
    BY DEF Complete, Final
<1>3. Failed \notin G
    BY DEF Complete, Fine, Failed, Going, State
<1>4. CASE g.s = "return" /\ g.a # <<>> /\ Last(g.a)[1] = "struct_nested"
    <2>1. After(ts, g) = AfterNested(ts, g)
        <3>1. After(ts, g) = AfterReturn(ts, g)
            BY <1>4 DEF After
        <3> QED
            BY <1>4, <3>1 DEF AfterReturn
    <2>2. ts[i + 1 + 1] = "TOK_SEMICOLON"
          /\ \E a : AfterNested(ts, g) = Going(i + 2, "struct_body", a)
        BY <1>1, <1>2, <1>3, <1>4, <2>1 DEF AfterNested
    <2>3. Behind(G, i + 2)
        <3>1. PICK a : Going(i + 2, "struct_body", a) \in G
            BY <1>2, <1>4, <2>1, <2>2
        <3>2. PICK h \in G : h = Going(i + 2, "struct_body", a)
            BY <3>1
        <3>3. h.i = i + 2 /\ h.s = "struct_body"
            BY <3>2 DEF Going, State
        <3> QED
            BY <3>3 DEF Behind
    <2> QED
        BY <2>2, <2>3
<1>5. CASE g.s = "struct_body"
    <2>1. \E a : After(ts, g) = Going(i, "var_decl", a)
        BY <1>1, <1>5 DEF After, AfterField, Records
    <2>2. PICK a : Going(i, "var_decl", a) \in G
        BY <1>2, <1>5, <2>1
    <2>3. \E b : After(ts, Going(i, "var_decl", a)) = State(i, "declspec", 0, 1, b)
        <3>1. PICK h : h = Going(i, "var_decl", a)
            OBVIOUS
        <3>2. h.i = i /\ h.s = "var_decl"
            BY <3>1 DEF Going, State
        <3>3. /\ ~Sees(ts, i, <<"TOK_LET", "TOK_IDENTIFIER", "TOK_EQUAL">>)
              /\ ~Sees(ts, i, <<"TOK_CONST", "TOK_IDENTIFIER", "TOK_EQUAL">>)
            <4>1. \A x, y, z : Sees(ts, i, <<x, y, z>>) => ts[i + 1] = x
                <5> SUFFICES ASSUME NEW x, NEW y, NEW z, Sees(ts, i, <<x, y, z>>) PROVE ts[i + 1] = x
                    OBVIOUS
                <5>1. \A k \in 1 .. 3 : <<x, y, z>>[k] = ts[i + k - 1 + 1]
                    BY DEF Sees
                <5>2. <<x, y, z>>[1] = ts[i + 1 - 1 + 1] /\ i + 1 - 1 + 1 = i + 1
                    BY <5>1
                <5> QED
                    BY <5>2
            <4> QED
                BY <4>1
        <3>4. Count(ts[i + 1] = "TOK_CONST") = 0 /\ Count(ts[i + 1] = "TOK_STATIC") = 0
            BY DEF Count
        <3>5. AfterVarDecl(ts, h) = State(i, "declspec", 0, 1, Append(h.a, Waits("declaration")))
            <4>1. PICK k : k = Count(ts[h.i + 1] = "TOK_CONST") /\ k = 0
                BY <3>2, <3>4
            <4>2. i + k = i /\ i + k + 1 = i + 1
                BY <4>1
            <4>3. AfterVarDecl(ts, h) =
                      State(i + k + Count(ts[i + k + 1] = "TOK_STATIC"), "declspec", 0, 1,
                            Append(h.a, Waits("declaration")))
                BY <3>2, <3>3, <4>1 DEF AfterVarDecl
            <4> QED
                BY <3>4, <4>2, <4>3
        <3>6. After(ts, h) = AfterVarDecl(ts, h)
            BY <3>2 DEF After
        <3> QED
            BY <3>1, <3>5, <3>6
    <2>4. PICK b : State(i, "declspec", 0, 1, b) \in G
        <3>1. Going(i, "var_decl", a).s # "return"
            BY DEF Going, State
        <3> QED
            BY <1>2, <2>2, <2>3, <3>1
    <2>5. After(ts, State(i, "declspec", 0, 1, b)) = Going(i + 1, "qualified", b)
        <3>1. PICK h : h = State(i, "declspec", 0, 1, b)
            OBVIOUS
        <3>2. h.i = i /\ h.s = "declspec" /\ h.b = 1 /\ h.a = b
            BY <3>1 DEF State
        <3>3. "TOK_IDENTIFIER" \notin DOMAIN tag_to_primitive
            BY DEF tag_to_primitive
        <3>4. After(ts, h) = AfterSpecifier(ts, h)
            BY <3>2 DEF After
        <3> QED
            BY <3>1, <3>2, <3>3, <3>4 DEF AfterSpecifier
    <2>6. Going(i + 1, "qualified", b) \in G
        <3>1. State(i, "declspec", 0, 1, b).s # "return"
            BY DEF State
        <3> QED
            BY <1>2, <2>4, <2>5, <3>1
    <2>7. ASSUME ts[i + 1 + 1] \in {"TOK_SEMICOLON", "TOK_EQUAL"}
          PROVE  FALSE
        <3>1. After(ts, Going(i + 1, "qualified", b)) = Going(i + 1, "pointers", b)
            <4>1. PICK h : h = Going(i + 1, "qualified", b)
                OBVIOUS
            <4>2. h.i = i + 1 /\ h.s = "qualified" /\ h.a = b
                BY <4>1 DEF Going, State
            <4>3. ts[i + 1 + 1] \notin Separators
                BY <2>7 DEF Separators
            <4> QED
                BY <4>1, <4>2, <4>3 DEF After, AfterDeclarator
        <3>2. Going(i + 1, "pointers", b) \in G
            <4>1. Going(i + 1, "qualified", b).s # "return"
                BY DEF Going, State
            <4> QED
                BY <1>2, <2>6, <3>1, <4>1
        <3>3. After(ts, Going(i + 1, "pointers", b)) = Failed
            <4>1. PICK h : h = Going(i + 1, "pointers", b)
                OBVIOUS
            <4>2. h.i = i + 1 /\ h.s = "pointers"
                BY <4>1 DEF Going, State
            <4> QED
                BY <2>7, <4>1, <4>2 DEF After, AfterDeclarator
        <3>4. Going(i + 1, "pointers", b).s # "return"
            BY DEF Going, State
        <3> QED
            BY <1>2, <1>3, <3>2, <3>3, <3>4
    <2> QED
        BY <2>7
<1> QED
    BY <1>1, <1>4, <1>5

(* What is done when a nested struct, or the name behind one, has been     *)
(* read.                                                                   *)
LEMMA NestedOnly ==
    ASSUME FrontNext
    PROVE  /\ ReturnTo("struct_nested") => StructNestedEnd \/ NestedField \/ LookupFails
           /\ ReturnTo("nested_field") => NestedFieldEnd \/ StructFails
<1> SUFFICES ASSUME NEW at \in {"struct_nested", "nested_field"}, ReturnTo(at)
             PROVE  IF at = "struct_nested" THEN StructNestedEnd \/ NestedField \/ LookupFails
                    ELSE NestedFieldEnd \/ StructFails
    OBVIOUS
<1>0. pc = "return" /\ stack # <<>> /\ Caller.at = at
    BY DEF ReturnTo
<1>1. CASE parse_expr
    BY <1>0, <1>1 DEF parse_expr, PrefixOperator, new_unary, Primary, PrimaryIdentifier, AtPrimary,
                PrimaryLiteral, PrimaryEnumLiteral, PrimaryGroup, PrimaryNone, CloseGroup,
                PostfixMember, MemberField, MemberMissing, PostfixEmptyCall, PostfixCall,
                NextArgument, RepeatArgument, ParseNextArgument, CloseCall, PostfixIndex,
                IndexMissing, CloseIndex, ExpectTokenFails, PostfixEnd, TakeOperator, LeaveLoop,
                new_binary, ReturnTo
<1>2. CASE parse_var_decl
    BY <1>0, <1>2 DEF parse_var_decl, parse_inferred_var_decl, parse_const_var_decl, Inferred,
                Qualifiers, Typed, SpecPrimitive, SpecName, SpecMember, SpecEnd, PointerType,
                DeclaratorName, ArrayUnsized, ArrayLength, AwaitExpr, CloseArray, Initializer,
                Initialized, NoInitializer, new_var_decl, DeclarationFails, Exit, ReturnTo
<1>3. CASE RecordTypes
    BY <1>0, <1>3 DEF RecordTypes, record_types, new_ast, record_struct_decl, RecordAgain, RecordNested,
                RecordNestedEnd, RecordField, RecordFieldEnd, RecordClose, ReturnTo,
                record_types_default
<1>4. CASE ParseStruct
    BY <1>0, <1>4 DEF ParseStruct, parse_struct_decl, StructField, StructFieldEnd, StructClose,
                StructNested, StructNestedEnd, NestedField, NestedFieldEnd, LookupFails, main,
                ReturnTo
<1>5. CASE StructFails
    BY <1>0, <1>5 DEF StructFails, ReturnTo
<1> QED
    BY <1>1, <1>2, <1>3, <1>4, <1>5 DEF FrontNext

(* Returning early: from the structs around a nested one,                  *)
LEMMA EarlyFromNested ==
    ASSUME ParserInv, CursorSound, FrontNext, NEW G, ReturnTo("struct_nested"), Behind(G, toki)
    PROVE  pc' = "crash" \/ Early(G)'
<1>1. PICK S : stack \in Seq(S)
    BY DEF ParserInv, StackOK
<1>2. stack # <<>> /\ Caller.at = "struct_nested"
    BY DEF ReturnTo
<1>3. CASE StructNestedEnd
    <2>1. pc' = "return" /\ stack' = Front(stack) /\ toki' = toki
        BY <1>3 DEF StructNestedEnd, ReturnEarly, Pop
    <2>2. stack' # <<>> => Caller'.at = "struct_nested"
        <3>1. "struct_nested" \in StructAt
            BY DEF StructAt
        <3>2. Front(stack) # <<>> => Last(Front(stack)).at = "struct_nested"
            BY <1>2, <3>1, StructCaller
        <3> QED
            BY <2>1, <3>2 DEF Caller
    <2>3. Behind(G, toki')
        BY <2>1
    <2> QED
        BY <2>1, <2>2, <2>3 DEF Early
<1>4. CASE NestedField
    <2>1. /\ current = "TOK_IDENTIFIER" /\ toki' = toki + 1 /\ pc' = pc /\ tokens' = tokens
          /\ \E f : stack' = Append(Front(stack), f) /\ f.at = "nested_field"
        <3>1. \A a, b, c : StructFrame("nested_field", a, b, c).at = "nested_field"
            BY DEF StructFrame
        <3> QED
            BY <1>4, <3>1 DEF NestedField, advance, Become
    <2>2. PICK f : stack' = Append(Front(stack), f) /\ f.at = "nested_field"
        BY <2>1
    <2>3. Last(stack') = f
        <3>1. PICK u \in Seq(S) : u = Front(stack)
            BY <1>1, <1>2, PopOne
        <3>2. Last(Append(u, f)) = f
            BY <3>1, FrontLast
        <3> QED
            BY <2>2, <3>1, <3>2
    <2>4. toki' - 1 = toki /\ tokens'[toki' - 1 + 1] = "TOK_IDENTIFIER"
        <3>1. toki \in Nat /\ tokens[toki + 1] = "TOK_IDENTIFIER"
            BY <2>1 DEF ParserInv, CursorSound, Tok
        <3>2. toki + 1 - 1 = toki /\ toki + 1 - 1 + 1 = toki + 1
            BY <3>1
        <3> QED
            BY <2>1, <3>1, <3>2
    <2>5. Behind(G, toki' - 1)
        BY <2>4
    <2>6. pc' = "return" /\ Caller'.at = "nested_field"
        BY <2>1, <2>2, <2>3 DEF ReturnTo, Caller
    <2> QED
        BY <2>4, <2>5, <2>6 DEF Early, Tok
<1>5. CASE LookupFails
    BY <1>5 DEF LookupFails
<1> QED
    BY <1>3, <1>4, <1>5, NestedOnly

(* and behind the field that is named after it.                            *)
LEMMA EarlyFromField ==
    ASSUME ParserInv, CursorSound, FrontNext, NEW G, Complete(tokens, G), ReturnTo("nested_field"),
           Behind(G, toki - 1), Tok(toki - 1) = "TOK_IDENTIFIER"
    PROVE  Early(G)'
<1>1. CASE NestedFieldEnd
    <2>1. /\ current = "TOK_SEMICOLON" /\ toki' = toki + 1 /\ pc' = "return" /\ stack' = Front(stack)
          /\ stack # <<>> /\ Caller.at = "nested_field"
        BY <1>1 DEF NestedFieldEnd, ReturnEarly, Pop, advance, ReturnTo
    <2>2. stack' # <<>> => Caller'.at = "struct_nested"
        <3>1. "nested_field" \in StructAt
            BY DEF StructAt
        <3>2. Front(stack) # <<>> => Last(Front(stack)).at = "struct_nested"
            BY <2>1, <3>1, StructCaller
        <3> QED
            BY <2>1, <3>2 DEF Caller
    <2>3. PICK i \in Int : i = toki - 1 /\ i + 1 + 1 = toki + 1 /\ i + 2 = toki'
        BY <2>1 DEF ParserInv
    <2>4. Behind(G, i) /\ tokens[i + 1] = "TOK_IDENTIFIER" /\ tokens[i + 1 + 1] = "TOK_SEMICOLON"
        BY <2>1, <2>3 DEF Tok, CursorSound
    <2>5. Behind(G, i + 2)
        BY <2>3, <2>4, NameBehind
    <2>6. Behind(G, toki')
        BY <2>3, <2>5
    <2> QED
        BY <2>1, <2>2, <2>6 DEF Early
<1>2. CASE StructFails
    BY <1>2 DEF StructFails, Exit, Early
<1> QED
    BY <1>1, <1>2, NestedOnly

(* A step of pass 2.                                                       *)
LEMMA PassTwoStep ==
    ASSUME FrontInv, FrontNext, pass = 2, PassTwo, NoNesting => ~ReturnTo("struct_nested")
    PROVE  PassTwo'
<1>1. PICK G : /\ Complete(tokens, G)
               /\ pc \in {"done", "crash"} \/ Along(G) \/ (~NoNesting /\ Early(G))
    BY DEF PassTwo
<1>2. tokens' = tokens /\ (NoNesting' <=> NoNesting)
    <2>1. tokens' = tokens
        BY FrontKeepsText
    <2>2. Scopes' = Scopes
        BY <2>1, NamesNow
    <2> QED
        BY <2>1, <2>2 DEF NoNesting, Tok
<1>3. ASSUME pc' \in {"done", "crash"} \/ Along(G)' \/ (~NoNesting /\ Early(G)')
      PROVE  PassTwo'
    BY <1>1, <1>2, <1>3 DEF PassTwo
<1>4. CASE pc = "return" /\ stack = <<>>
    <2>1. main
        BY <1>4, NothingAfter DEF RecordAgain
    <2> QED
        BY <1>3, <2>1 DEF main
<1>5. CASE Along(G) /\ (pc = "return" => stack # <<>>)
    <2>1. ParserInv /\ CursorSound /\ pc \notin {"record_types", "recorded"} /\ Course \in G
        BY <1>5 DEF Along, FrontInv
    <2>2. Fine(Course) /\ (Final(Course) \/ After(tokens, Course) \in G)
        BY <1>1, <2>1 DEF Complete
    <2>3. ~Final(Course)
        BY <1>5, <2>1, CourseEnds
    <2>4. ASSUME NEW at, ReturnTo(at)
          PROVE  Course.i = toki /\ Course.s = "return" /\ Course.a # <<>> /\ Last(Course.a)[1] = Place(at)
        BY <2>1, <2>4, CourseBack
    <2>5. CASE ReturnTo("struct_nested")
        <3>1. Behind(G, toki)
            <4>1. Place("struct_nested") = "struct_nested"
                BY DEF Place
            <4>2. Course.i = toki /\ Course.s = "return" /\ Course.a # <<>> /\ Last(Course.a)[1] = "struct_nested"
                BY <2>4, <2>5, <4>1
            <4> QED
                BY <2>1, <4>2 DEF Behind
        <3>2. pc' = "crash" \/ Early(G)'
            BY <2>1, <2>5, <3>1, EarlyFromNested
        <3> QED
            BY <1>3, <2>5, <3>2
    <2>6. CASE ~ReturnTo("struct_nested") /\ ~LookupFails
        <3>1. ~ReturnTo("nested_field")
            <4>1. Place("nested_field") = "nested_field"
                BY DEF Place
            <4> QED
                BY <2>2, <2>4, <4>1 DEF Fine
        <3>2. Course' = After(tokens, Course)
            BY <1>5, <2>1, <2>6, <3>1, Steady DEF CourseGoes
        <3>3. Course' \in G
            BY <2>2, <2>3, <3>2
        <3>4. pc' \notin {"record_types", "recorded"}
            BY <1>5, <2>1, NothingAfter, Skipping DEF RecordAgain, record_types_default
        <3> QED
            BY <1>3, <3>3, <3>4 DEF Along
    <2>7. CASE LookupFails
        BY <1>3, <2>7 DEF LookupFails
    <2> QED
        BY <2>5, <2>6, <2>7
<1>6. CASE ~NoNesting /\ Early(G) /\ (pc = "return" => stack # <<>>)
    <2>1. pc = "return" /\ stack # <<>>
        BY <1>6, NothingAfter DEF Early
    <2>2. ParserInv /\ CursorSound
        BY <2>1 DEF FrontInv
    <2>3. CASE Caller.at = "struct_nested" /\ Behind(G, toki)
        BY <1>3, <1>6, <2>1, <2>2, <2>3, EarlyFromNested DEF ReturnTo
    <2>4. CASE Caller.at = "nested_field" /\ Behind(G, toki - 1) /\ Tok(toki - 1) = "TOK_IDENTIFIER"
        BY <1>1, <1>3, <1>6, <2>1, <2>2, <2>4, EarlyFromField DEF ReturnTo
    <2> QED
        BY <1>6, <2>1, <2>3, <2>4 DEF Early
<1>7. pc \notin {"done", "crash"}
    BY NothingAfter
<1> QED
    BY <1>1, <1>4, <1>5, <1>6, <1>7

(* Pass 2 in a text that starts with a struct and has none inside another: *)
(* below the activations that parse a field there is one, of that struct.  *)
(* Its body was entered and no brace has closed it yet.                    *)
HeadEnd == 1 + Count(Tok(1) = "TOK_IDENTIFIER")

InBody(i) ==
    /\ Tok(HeadEnd) = "TOK_LBRACE"
    /\ Scopes[i] # <<>> /\ NameRead(i)
    /\ \A k \in 0 .. i - 1 : Tok(k) # "TOK_RBRACE"

OneStruct ==
    /\ pc = "struct_decl" => stack = <<>> /\ toki = 0
    /\ stack = <<>> =>
           /\ pc \in {"struct_decl", "return", "done", "exit", "crash"}
           /\ pc \in {"return", "done"} => toki = FirstStructEnd
    /\ stack # <<>> =>
           /\ pc # "done"
           /\ stack[1].at \in {"struct", "struct_field"}
           /\ \A k \in 2 .. Len(stack) : stack[k].at \in FieldAt
           /\ InBody(toki)

(* What the next state has to be like.                                     *)
LEMMA OneAgain ==
    ASSUME tokens' = tokens,
           pc' = "struct_decl" => stack' = <<>> /\ toki' = 0,
           stack' = <<>> =>
               /\ pc' \in {"struct_decl", "return", "done", "exit", "crash"}
               /\ pc' \in {"return", "done"} => toki' = FirstStructEnd,
           stack' # <<>> =>
               /\ pc' # "done"
               /\ stack'[1].at \in {"struct", "struct_field"}
               /\ \A k \in 2 .. Len(stack') : stack'[k].at \in FieldAt
               /\ InBody(toki')
    PROVE  OneStruct'
<1>1. Scopes' = Scopes
    BY NamesNow
<1>2. FirstStructEnd' = FirstStructEnd
    BY DEF FirstStructEnd, Tok
<1>3. InBody(toki') => InBody(toki)'
    BY <1>1 DEF InBody, HeadEnd, NameRead, Tok
<1> QED
    BY <1>2, <1>3 DEF OneStruct

(* The activation on top is that of the struct, or one above it.           *)
LEMMA OneTop ==
    ASSUME ParserInv, OneStruct, stack # <<>>
    PROVE  /\ Caller.at \in StructAt =>
                  Len(stack) = 1 /\ Caller.at \in {"struct", "struct_field"}
           /\ Caller.at \notin RecordAt
           /\ Caller.at \in FieldAt => Len(stack) >= 2
           /\ Len(stack) \in Nat /\ Len(stack) >= 1
<1>1. PICK S : stack \in Seq(S)
    BY DEF ParserInv, StackOK
<1>2. Caller = stack[Len(stack)] /\ Len(stack) \in Nat /\ Len(stack) >= 1
    <2>1. Last(stack) = stack[Len(stack)] /\ Len(stack) \in Nat /\ Len(stack) >= 1
        BY <1>1, PopOne
    <2> QED
        BY <2>1 DEF Caller
<1>3. StructAt \cap FieldAt = {} /\ RecordAt \cap FieldAt = {} /\ RecordAt \cap StructAt = {}
      /\ {"struct", "struct_field"} \subseteq StructAt
    BY DEF StructAt, FieldAt, FrameAt, DeclAt, RecordAt
<1>4. CASE Len(stack) = 1
    <2>1. Caller.at \in {"struct", "struct_field"}
        BY <1>2, <1>4 DEF OneStruct
    <2> QED
        BY <1>2, <1>3, <1>4, <2>1
<1>5. CASE Len(stack) >= 2
    <2>1. Len(stack) \in 2 .. Len(stack)
        BY <1>2, <1>5
    <2>2. Caller.at \in FieldAt
        BY <1>2, <2>1 DEF OneStruct
    <2> QED
        BY <1>2, <1>3, <1>5, <2>2
<1>6. Len(stack) = 1 \/ Len(stack) >= 2
    <2>1. PICK n \in Nat : n = Len(stack) /\ n >= 1
        BY <1>2
    <2>2. n = 1 \/ n >= 2
        BY <2>1
    <2> QED
        BY <2>1, <2>2
<1> QED
    BY <1>4, <1>5, <1>6, Zenon

(* Inside the braces of a text without nested structs no struct begins.    *)
LEMMA NoneInside ==
    ASSUME ParserInv, CursorSound, NoNesting, InBody(toki)
    PROVE  current \notin Records
<1>1. toki \in Nat /\ Len(tokens) \in Nat /\ toki < Len(tokens) /\ current = Tok(toki)
    BY InputsAssumption DEF ParserInv, CursorSound
<1>2. toki \in 0 .. Len(tokens) - 1
    BY <1>1
<1> QED
    BY <1>1, <1>2 DEF NoNesting, InBody

(* Pass 2 begins,                                                          *)
LEMMA OneFirst ==
    ASSUME FrontInv, new_ast
    PROVE  OneStruct'
<1>1. stack = <<>>
    BY DEF FrontInv, ParserInv, TopOK, new_ast
<1> QED
    BY <1>1, OneAgain DEF new_ast

(* enters the struct                                                       *)
LEMMA OneHead ==
    ASSUME FrontInv, CursorSound, OneStruct, Tok(0) = "TOK_STRUCT", parse_struct_decl
    PROVE  OneStruct'
<1>1. stack = <<>> /\ toki = 0 /\ tokens' = tokens
    BY DEF parse_struct_decl, OneStruct
<1>2. PICK c \in {0, 1} : c = Count(Named) /\ HeadEnd = 1 + c /\ (c = 1 => Tok(1) = "TOK_IDENTIFIER")
    <2>1. Named <=> Tok(1) = "TOK_IDENTIFIER"
        BY <1>1 DEF Named
    <2> QED
        BY <2>1 DEF Count, HeadEnd
<1>3. HasBody <=> Tok(HeadEnd) = "TOK_LBRACE"
    <2>1. toki + 1 + c = HeadEnd
        BY <1>1, <1>2
    <2> QED
        BY <1>2, <2>1 DEF HasBody
<1>4. HeadEnd \in Nat /\ HeadEnd >= 1
    BY <1>2
<1>5. CASE HasBody
    <2>1. toki' = HeadEnd + 1 /\ pc' = "struct_body"
        <3>1. Count(HasBody) = 1
            BY <1>5 DEF Count
        <3>2. toki' = toki + (1 + Count(Named) + Count(HasBody))
            BY DEF parse_struct_decl, advance_head, advance
        <3> QED
            BY <1>1, <1>2, <1>5, <3>1, <3>2 DEF parse_struct_decl
    <2>2. \E f : stack' = <<f>> /\ f.at = "struct"
        <3>1. stack' = Append(stack, StructFrame("struct", Len(pool) + 1, NULL, NULL))
            BY <1>5 DEF parse_struct_decl
        <3>2. StructFrame("struct", Len(pool) + 1, NULL, NULL).at = "struct"
            BY DEF StructFrame
        <3>3. \A f : Append(<<>>, f) = <<f>>
            OBVIOUS
        <3> QED
            BY <1>1, <3>1, <3>2, <3>3
    <2>3. Len(stack') = 1 /\ stack'[1].at = "struct"
        <3>1. \A f : Len(<<f>>) = 1 /\ <<f>>[1] = f
            OBVIOUS
        <3> QED
            BY <2>2, <3>1
    <2>4. PICK h \in Nat : h = HeadEnd + 1 /\ h - 1 = HeadEnd
        BY <1>4
    <2>6. InBody(h)
        <3>1. Tok(HeadEnd) = "TOK_LBRACE"
            BY <1>3, <1>5
        <3>2. Scopes[h] # <<>>
            <4>1. Scopes[HeadEnd] \in Seq(Seq(Int))
                BY <1>4, OneToken
            <4>2. PICK T : T = Seq(Int)
                OBVIOUS
            <4>3. \A x : Append(Scopes[HeadEnd], x) # <<>>
                BY <4>1, <4>2, FrontLast
            <4>4. CASE Tok(HeadEnd - 1) = "TOK_IDENTIFIER"
                <5>1. Scopes[h] = Append(Scopes[HeadEnd], FullName(Scopes[HeadEnd], HeadEnd - 1))
                    BY <1>4, <2>4, <3>1, <4>4, OneToken
                <5> QED
                    BY <4>3, <5>1
            <4>5. CASE Tok(HeadEnd - 1) # "TOK_IDENTIFIER"
                <5>1. Scopes[h] = Append(Scopes[HeadEnd], <<>>)
                    BY <1>4, <2>4, <3>1, <4>5, OneToken
                <5> QED
                    BY <4>3, <5>1
            <4> QED
                BY <4>4, <4>5
        <3>3. NameRead(h)
            BY <2>4, <3>1 DEF NameRead
        <3>4. ASSUME NEW k \in 0 .. h - 1
              PROVE  Tok(k) # "TOK_RBRACE"
            <4>1. k = 0 \/ k = HeadEnd \/ (k = 1 /\ c = 1)
                BY <1>2, <2>4
            <4> QED
                BY <1>2, <3>1, <4>1
        <3> QED
            BY <3>1, <3>2, <3>3, <3>4 DEF InBody
    <2>5. 2 .. Len(stack') = {} /\ stack' # <<>>
        BY <2>3
    <2> QED
        BY <1>1, <2>1, <2>3, <2>4, <2>5, <2>6, OneAgain
<1>6. CASE ~HasBody
    <2>1. toki' = HeadEnd /\ pc' = "return" /\ stack' = <<>>
        <3>1. Count(HasBody) = 0
            BY <1>6 DEF Count
        <3>2. toki' = toki + (1 + Count(Named) + Count(HasBody))
            BY DEF parse_struct_decl, advance_head, advance
        <3> QED
            BY <1>1, <1>2, <1>6, <3>1, <3>2 DEF parse_struct_decl
    <2>2. FirstStructEnd = HeadEnd
        BY <1>3, <1>6 DEF FirstStructEnd, HeadEnd
    <2> QED
        BY <1>1, <2>1, <2>2, OneAgain
<1> QED
    BY <1>5, <1>6

(* parses its fields                                                       *)
LEMMA OneResumed ==
    ASSUME ParserInv, OneStruct, stack # <<>>, Caller.at \in StructAt,
           NEW at \in {"struct", "struct_field"}, Resume(at)
    PROVE  stack' # <<>> /\ stack'[1].at \in {"struct", "struct_field"} /\ 2 .. Len(stack') = {}
<1>1. PICK S : stack \in Seq(S)
    BY DEF ParserInv, StackOK
<1>2. PICK f : f = [Caller EXCEPT !.at = at]
    OBVIOUS
<1>3. f.at = at
    <2>1. PICK n \in Nat : n = Len(pool)
        BY PoolSize
    <2>2. PICK c \in StructFrames(n) : c = Caller
        BY <2>1, StructCaller
    <2>3. [c EXCEPT !.at = at].at = at
        BY <2>2 DEF StructFrames
    <2> QED
        BY <1>2, <2>2, <2>3
<1>4. stack' = Append(Front(stack), f)
    BY <1>2 DEF Resume, Become
<1>5. Len(stack') = Len(stack) /\ stack'[Len(stack)] = f
    <2>1. PICK A : A = {f.at}
        OBVIOUS
    <2> QED
        BY <1>1, <1>4, <2>1, AboveBecome
<1>6. Len(stack) = 1
    BY OneTop
<1>7. Len(stack') = 1 /\ stack'[1] = f
    BY <1>5, <1>6
<1>8. stack' # <<>>
    BY <1>7
<1> QED
    BY <1>3, <1>7, <1>8

(* and those that belong to it,                                            *)
LEMMA OneField ==
    ASSUME ParserInv, CursorSound, OneStruct, StructField \/ StructFieldEnd
    PROVE  OneStruct'
<1>1. stack # <<>> /\ Caller.at \in StructAt
    <2>1. CASE StructField
        BY <2>1 DEF StructField, ParserInv, TopOK, Caller, StructAt
    <2>2. CASE StructFieldEnd
        BY <2>2 DEF StructFieldEnd, ReturnTo, StructAt
    <2> QED
        BY <2>1, <2>2
<1>2. toki \in Nat /\ InBody(toki)
    BY <1>1 DEF ParserInv, OneStruct
<1>3. CASE StructField
    <2>1. Resume("struct_field") /\ pc' = "var_decl" /\ tokens' = tokens /\ toki' = toki
        BY <1>3 DEF StructField
    <2>2. stack' # <<>> /\ stack'[1].at \in {"struct", "struct_field"} /\ 2 .. Len(stack') = {}
        BY <1>1, <2>1, OneResumed
    <2> QED
        BY <1>2, <2>1, <2>2, OneAgain
<1>4. CASE StructFieldEnd
    <2>1. /\ Resume("struct") /\ pc' = "struct_body" /\ tokens' = tokens /\ toki' = toki + 1
          /\ Tok(toki) = "TOK_SEMICOLON"
        BY <1>4 DEF StructFieldEnd, advance, CursorSound
    <2>2. stack' # <<>> /\ stack'[1].at \in {"struct", "struct_field"} /\ 2 .. Len(stack') = {}
        BY <1>1, <2>1, OneResumed
    <2>3. PICK j \in Nat : j = toki + 1 /\ j - 1 = toki
        BY <1>2
    <2>4. Scopes[j] = Scopes[toki]
        BY <1>2, <2>1, <2>3, OneToken
    <2>5. NameRead(j)
        BY <2>1, <2>3 DEF NameRead
    <2>6. ASSUME NEW k \in 0 .. j - 1
          PROVE  Tok(k) # "TOK_RBRACE"
        <3>1. k = toki \/ k \in 0 .. toki - 1
            BY <1>2, <2>3
        <3> QED
            BY <1>2, <2>1, <3>1 DEF InBody
    <2>7. InBody(j)
        BY <1>2, <2>4, <2>5, <2>6 DEF InBody
    <2> QED
        BY <2>1, <2>2, <2>3, <2>7, OneAgain
<1> QED
    BY <1>3, <1>4

(* with the parsers of declarations and expressions,                       *)
LEMMA OneDeep ==
    ASSUME ParserInv, CursorSound, OneStruct, parse_expr \/ parse_var_decl
    PROVE  OneStruct'
<1>1. PICK m \in 0 .. Len(stack) :
          /\ Above(stack, stack', m, FieldAt)
          /\ m = Len(stack) \/ (m = Len(stack) - 1 /\ Caller.at \in FieldAt)
    BY FieldRises DEF DeclRises
<1>2. PlainMove
    BY ExprMoves, DeclMoves
<1>3. pc' \notin {"struct_decl", "done"}
    BY FieldPlaces
<1>4. stack # <<>>
    BY FieldPlaces DEF OneStruct
<1>5. m \in Nat /\ m >= 1 /\ m <= Len(stack) /\ m <= Len(stack') /\ Len(stack') \in Nat
    <2>1. Len(stack) \in Nat /\ Len(stack) >= 1 /\ (Caller.at \in FieldAt => Len(stack) >= 2)
        BY <1>4, OneTop
    <2>2. m <= Len(stack') /\ Len(stack') \in Nat
        BY <1>1 DEF Above
    <2>3. m >= 1
        BY <1>1, <2>1
    <2> QED
        BY <2>1, <2>2, <2>3
<1>6. stack'[1].at \in {"struct", "struct_field"} /\ stack' # <<>>
    <2>1. 1 \in 1 .. m
        BY <1>5
    <2>2. stack'[1] = stack[1]
        BY <1>1, <2>1 DEF Above
    <2>3. stack' # <<>>
        BY <1>5
    <2> QED
        BY <1>4, <2>2, <2>3 DEF OneStruct
<1>7. ASSUME NEW k \in 2 .. Len(stack')
      PROVE  stack'[k].at \in FieldAt
    <2>1. CASE k <= m
        <3>1. k \in 1 .. m /\ k \in 2 .. Len(stack)
            BY <1>5, <2>1
        <3>2. stack'[k] = stack[k]
            BY <1>1, <3>1 DEF Above
        <3> QED
            BY <1>4, <3>1, <3>2 DEF OneStruct
    <2>2. CASE k > m
        <3>1. k \in m + 1 .. Len(stack')
            BY <1>5, <2>2
        <3> QED
            BY <1>1, <3>1 DEF Above
    <2> QED
        BY <1>5, <2>1, <2>2
<1>8. toki \in Nat /\ InBody(toki)
    BY <1>4 DEF ParserInv, OneStruct
<1>9. PICK j \in Nat : j = toki' /\ toki <= j
    BY <1>2 DEF PlainMove
<1>10. \A k \in toki .. j - 1 : tokens[k + 1] \notin Control
    BY <1>2, <1>9 DEF PlainMove
<1>11. Scopes[j] = Scopes[toki] /\ NameRead(j)
    BY <1>8, <1>9, <1>10, FieldsPlain DEF InBody
<1>12. ASSUME NEW k \in 0 .. j - 1
       PROVE  Tok(k) # "TOK_RBRACE"
    <2>1. CASE k < toki
        <3>1. k \in 0 .. toki - 1
            BY <1>8, <2>1
        <3> QED
            BY <1>8, <3>1 DEF InBody
    <2>2. CASE k >= toki
        <3>1. k \in toki .. j - 1
            <4>1. PICK i \in Nat : i = toki
                BY <1>8
            <4>2. k \in Nat /\ k <= j - 1 /\ k >= i
                BY <2>2, <4>1
            <4>3. k \in i .. j - 1
                BY <4>2
            <4> QED
                BY <4>1, <4>3
        <3>2. "TOK_RBRACE" \in Control
            BY DEF Control
        <3> QED
            BY <1>10, <3>1, <3>2 DEF Tok
    <2> QED
        BY <1>8, <2>1, <2>2
<1>13. InBody(j)
    BY <1>8, <1>11, <1>12 DEF InBody
<1>14. tokens' = tokens /\ InBody(toki')
    BY <1>2, <1>9, <1>13 DEF PlainMove
<1> QED
    BY <1>3, <1>6, <1>7, <1>14, OneAgain

(* and ends behind its closing brace.                                      *)
LEMMA OneEnd ==
    ASSUME ParserInv, CursorSound, OneStruct, StructClose
    PROVE  OneStruct'
<1>1. stack # <<>> /\ Caller.at \in StructAt
    BY DEF StructClose, ParserInv, TopOK, Caller, StructAt
<1>2. /\ toki' = toki + 1 /\ tokens' = tokens /\ pc' = "return" /\ stack' = Front(stack)
      /\ Tok(toki) = "TOK_RBRACE"
    BY DEF StructClose, advance, Pop, CursorSound
<1>3. stack' = <<>>
    <2>1. PICK S : stack \in Seq(S)
        BY DEF ParserInv, StackOK
    <2>2. Len(stack) = 1
        BY <1>1, OneTop
    <2>3. Front(stack) \in Seq(S) /\ Len(Front(stack)) = Len(stack) - 1
        BY <1>1, <2>1, PopOne
    <2>4. PICK u \in Seq(S) : u = Front(stack) /\ Len(u) = Len(stack) - 1
        BY <2>3
    <2>5. Len(u) = 0
        BY <2>2, <2>4
    <2>6. u = <<>>
        BY <2>5
    <2> QED
        BY <1>2, <2>4, <2>6
<1>4. toki \in Nat /\ toki < Len(tokens) /\ Len(tokens) \in Nat
    BY InputsAssumption DEF ParserInv, CursorSound
<1>5. InBody(toki)
    BY <1>1 DEF OneStruct
<1>6. PICK R : R = {i \in 0 .. Len(tokens) - 1 : Tok(i) = "TOK_RBRACE"}
    OBVIOUS
<1>7. toki \in R /\ R \subseteq Nat
    BY <1>2, <1>4, <1>6
<1>8. \A i \in R : toki <= i
    <2> SUFFICES ASSUME NEW i \in R PROVE toki <= i
        OBVIOUS
    <2>1. i \in Nat /\ Tok(i) = "TOK_RBRACE"
        BY <1>6, <1>7
    <2>2. i \notin 0 .. toki - 1
        BY <1>5, <2>1 DEF InBody
    <2> QED
        BY <1>4, <2>1, <2>2
<1>9. Min(R) = toki
    <2>1. Min(R) \in R /\ \A i \in R : Min(R) <= i
        BY <1>7, MinIsLeast
    <2>2. PICK k \in Nat : k = Min(R) /\ k <= toki /\ toki <= k
        BY <1>7, <1>8, <2>1
    <2> QED
        BY <1>4, <2>2
<1>10. FirstStructEnd = 1 + Min(R)
    BY <1>5, <1>6 DEF FirstStructEnd, InBody, HeadEnd
<1>11. toki' = FirstStructEnd
    BY <1>2, <1>4, <1>9, <1>10
<1> QED
    BY <1>2, <1>3, <1>11, OneAgain

(* Nothing else happens in such a text.                                    *)
LEMMA OneStep ==
    ASSUME FrontInv, FrontNext, OneStruct, pass = 2, Tok(0) = "TOK_STRUCT", NoNesting
    PROVE  OneStruct'
<1>1. pc \notin {"record_types", "recorded"} /\ ParserInv /\ CursorSound
    <2>1. ParserInv
        BY DEF FrontInv
    <2>2. pc \notin {"record_types", "recorded"}
        BY <2>1 DEF ParserInv, TopOK, OneStruct
    <2> QED
        BY <2>1, <2>2 DEF FrontInv
<1>2. stack # <<>> =>
          /\ Caller.at \notin RecordAt
          /\ Caller.at \in StructAt => Caller.at \in {"struct", "struct_field"}
    BY <1>1, OneTop
<1>3. ~RecordTypes
    <2>1. pc \notin {"record_struct", "record_body"}
        BY <1>1, <1>2 DEF ParserInv, TopOK, Caller, RecordAt
    <2>2. ~ReturnTo("record_nested") /\ ~ReturnTo("record_field")
        BY <1>2 DEF ReturnTo, RecordAt
    <2> QED
        BY <1>1, <2>1, <2>2 DEF RecordTypes, record_types, record_types_default, new_ast,
                    record_struct_decl, RecordAgain, RecordNested, RecordNestedEnd, RecordField,
                    RecordFieldEnd, RecordClose
<1>4. ~StructNested /\ ~StructNestedEnd /\ ~NestedField /\ ~NestedFieldEnd
    <2>1. ~ReturnTo("struct_nested") /\ ~ReturnTo("nested_field")
        BY <1>2 DEF ReturnTo, StructAt
    <2>2. ~StructNested
        <3>1. pc = "struct_body" => InBody(toki)
            BY <1>1 DEF ParserInv, TopOK, OneStruct
        <3> QED
            BY <1>1, <3>1, NoneInside DEF StructNested
    <2> QED
        BY <2>1, <2>2 DEF StructNestedEnd, NestedField, NestedFieldEnd
<1>5. CASE LookupFails \/ main \/ StructFails
    <2>1. tokens' = tokens /\ toki' = toki /\ stack' = stack /\ pc' \in {"crash", "exit", "done"}
        BY <1>5 DEF LookupFails, main, StructFails, Exit
    <2>2. pc' = "done" => stack = <<>> /\ pc = "return"
        BY <1>5 DEF LookupFails, main, StructFails, Exit
    <2> QED
        BY <2>1, <2>2, OneAgain DEF OneStruct
<1>6. CASE parse_struct_decl
    BY <1>1, <1>6, OneHead
<1>7. CASE StructField \/ StructFieldEnd
    BY <1>1, <1>7, OneField
<1>8. CASE StructClose
    BY <1>1, <1>8, OneEnd
<1>9. CASE parse_expr \/ parse_var_decl
    BY <1>1, <1>9, OneDeep
<1> QED
    BY <1>3, <1>4, <1>5, <1>6, <1>7, <1>8, <1>9 DEF FrontNext, ParseStruct

(* While pass 1 runs, the text is one it may still accept; pass 2 reads a  *)
(* text that pass 1 has accepted.                                          *)
PassInv ==
    Tok(0) = "TOK_STRUCT" =>
        /\ pass = 1 => PassOne
        /\ pass = 2 => PassTwo /\ (NoNesting => OneStruct)

(* Only new_ast begins pass 2, and nothing goes back to pass 1.            *)
LEMMA PassBegins ==
    ASSUME FrontNext
    PROVE  pass' = pass \/ new_ast
<1>1. CASE RecordTypes
    BY <1>1 DEF RecordTypes, record_types, record_struct_decl, RecordAgain, RecordNested,
                RecordNestedEnd, RecordField, RecordFieldEnd, RecordClose, record_types_default
<1>2. CASE ParseStruct \/ StructFails
    BY <1>2 DEF ParseStruct, parse_struct_decl, StructField, StructFieldEnd, StructClose,
                StructNested, StructNestedEnd, NestedField, NestedFieldEnd, LookupFails, main,
                StructFails
<1> QED
    BY <1>1, <1>2 DEF FrontNext

(* Pass 2 sets out on a course that pass 1 has taken.                      *)
LEMMA PassTwoFirst ==
    ASSUME FrontInv, new_ast, Accepted
    PROVE  PassTwo'
<1>1. stack = <<>>
    BY DEF FrontInv, ParserInv, TopOK, new_ast
<1>2. /\ pc' = "struct_decl" /\ toki' = 0 /\ stack' = <<>> /\ tokens' = tokens
    BY <1>1 DEF new_ast
<1>3. Course' = Start
    <2>1. <<>> \in Seq(Nat)
        OBVIOUS
    <2>2. Marks(<<>>) = <<>>
        BY <2>1, MarksOf
    <2>3. Count(FALSE) = 0 /\ Doing("struct_decl") = "struct_decl"
        BY DEF Count, Doing
    <2> QED
        BY <1>2, <2>2, <2>3 DEF Course, CourseOf, Start, Going, Count
<1>4. PICK G : Complete(tokens, G)
    BY DEF Accepted
<1>5. Along(G)'
    BY <1>2, <1>3, <1>4 DEF Along, Complete
<1> QED
    BY <1>2, <1>4, <1>5 DEF PassTwo

(* A step of the front end keeps what both passes know of the text,        *)
LEMMA PassStep ==
    ASSUME FrontInv, NamesInv, FrontInv', NamesInv', FrontNext, PassInv
    PROVE  PassInv'
<1> SUFFICES ASSUME Tok(0) = "TOK_STRUCT"
             PROVE  /\ pass' = 1 => PassOne'
                    /\ pass' = 2 => PassTwo' /\ (NoNesting => OneStruct')
    <2>1. tokens' = tokens
        BY FrontKeepsText
    <2>2. Scopes' = Scopes
        BY <2>1, NamesNow
    <2> QED
        BY <2>1, <2>2 DEF PassInv, NoNesting, Tok
<1>1. CASE new_ast
    <2>1. pc = "recorded" /\ pass' = 2
        BY <1>1 DEF new_ast
    <2>2. pass = 1
        <3>1. pass \in {1, 2}
            BY DEF FrontInv
        <3>2. ~PassTwo
            BY <2>1 DEF PassTwo, Along, Early
        <3> QED
            BY <3>1, <3>2 DEF PassInv
    <2>3. Accepted
        BY <1>1, <2>2, PassOneStep DEF PassInv
    <2> QED
        BY <1>1, <2>1, <2>3, PassTwoFirst, OneFirst
<1>2. CASE pass' = pass /\ pass = 1
    BY <1>2, PassOneStep DEF PassInv
<1>3. CASE pass' = pass /\ pass = 2
    <2>1. PassTwo /\ (NoNesting => OneStruct)
        BY <1>3 DEF PassInv
    <2>2. NoNesting => ~ReturnTo("struct_nested")
        <3> SUFFICES ASSUME NoNesting, ReturnTo("struct_nested") PROVE FALSE
            OBVIOUS
        <3>1. pc = "return" /\ stack # <<>> /\ Caller.at = "struct_nested"
            BY DEF ReturnTo
        <3>2. ParserInv
            BY <3>1 DEF FrontInv
        <3>3. "struct_nested" \in StructAt
            BY DEF StructAt
        <3>4. Caller.at \in {"struct", "struct_field"}
            BY <2>1, <3>1, <3>2, <3>3, OneTop
        <3> QED
            BY <3>1, <3>4
    <2>3. PassTwo'
        BY <1>3, <2>1, <2>2, PassTwoStep
    <2>4. NoNesting => OneStruct'
        BY <1>3, <2>1, OneStep
    <2> QED
        BY <1>3, <2>3, <2>4
<1>4. pass \in {1, 2}
    BY DEF FrontInv
<1> QED
    BY <1>1, <1>2, <1>3, <1>4, PassBegins

(* and so does a step that changes nothing.                                *)
LEMMA PassAgain ==
    ASSUME PassInv, UNCHANGED frontVars
    PROVE  PassInv'
<1>1. /\ tokens' = tokens /\ toki' = toki /\ pc' = pc /\ stack' = stack /\ ret' = ret
      /\ pass' = pass
    BY DEF frontVars, declVars, vars
<1>2. Scopes' = Scopes
    BY <1>1, NamesNow
<1>3. Tok(0)' = Tok(0) /\ (NoNesting' <=> NoNesting)
    BY <1>1, <1>2 DEF NoNesting, Tok
<1>4. Course' = Course
    BY <1>1 DEF Course
<1>5. PassOne' <=> PassOne
    BY <1>1, <1>4 DEF PassOne, Accepted
<1>6. PassTwo => PassTwo'
    <2>1. ASSUME NEW G PROVE (Along(G)' <=> Along(G)) /\ (Early(G)' <=> Early(G))
        <3>1. Caller' = Caller
            BY <1>1 DEF Caller
        <3>2. Tok(toki - 1)' = Tok(toki - 1)
            BY <1>1 DEF Tok
        <3> QED
            BY <1>1, <1>4, <3>1, <3>2 DEF Along, Early
    <2> QED
        BY <1>1, <1>3, <2>1 DEF PassTwo
<1>7. OneStruct => OneStruct'
    <2>1. FirstStructEnd' = FirstStructEnd
        BY <1>1 DEF FirstStructEnd, Tok
    <2>2. InBody(toki)' <=> InBody(toki)
        BY <1>1, <1>2 DEF InBody, HeadEnd, NameRead, Tok
    <2> QED
        BY <1>1, <2>1, <2>2 DEF OneStruct
<1> QED
    BY <1>1, <1>3, <1>5, <1>6, <1>7 DEF PassInv

(* What pass 1 has accepted is not refused, and where pass 2 stands.       *)
LEMMA Agreed ==
    ASSUME FrontInv, PassInv
    PROVE  PassesAgree
<1> SUFFICES ASSUME pass = 2, Tok(0) = "TOK_STRUCT"
             PROVE  /\ NoNesting => pc # "exit" /\ (pc = "done" => toki = FirstStructEnd)
                    /\ ReturnTo("struct_nested") => ~match(<<"TOK_IDENTIFIER", "TOK_EQUAL">>)
    BY DEF PassesAgree
<1>1. PassTwo /\ (NoNesting => OneStruct)
    BY DEF PassInv
<1>2. PICK G : /\ Complete(tokens, G)
               /\ pc \in {"done", "crash"} \/ Along(G) \/ (~NoNesting /\ Early(G))
    BY <1>1 DEF PassTwo
<1>3. ASSUME NoNesting, pc = "exit"
      PROVE  FALSE
    <2>1. Along(G) /\ ParserInv
        BY <1>2, <1>3 DEF FrontInv
    <2>2. Course.s = "exit" /\ Course \in G
        BY <1>3, <2>1, CourseEnds DEF Along
    <2> QED
        BY <1>2, <2>2 DEF Complete, Fine
<1>4. ASSUME NoNesting, pc = "done"
      PROVE  toki = FirstStructEnd
    BY <1>1, <1>4 DEF OneStruct
<1>5. ASSUME ReturnTo("struct_nested"), match(<<"TOK_IDENTIFIER", "TOK_EQUAL">>)
      PROVE  FALSE
    <2>1. pc = "return" /\ stack # <<>> /\ Caller.at = "struct_nested"
        BY <1>5 DEF ReturnTo
    <2>2. ParserInv /\ CursorSound
        BY <2>1 DEF FrontInv
    <2>3. PICK i \in Int : i = toki
        BY <2>2 DEF ParserInv
    <2>4. tokens[i + 1] = "TOK_IDENTIFIER" /\ tokens[i + 1 + 1] = "TOK_EQUAL"
        <3>1. Tok(toki) = "TOK_IDENTIFIER" /\ Tok(toki + 1) = "TOK_EQUAL"
            BY <1>5, <2>2, MatchTwo DEF ParserInv
        <3> QED
            BY <2>3, <3>1 DEF Tok
    <2>5. Behind(G, toki)
        <3>1. CASE Along(G)
            <4>1. Place("struct_nested") = "struct_nested"
                BY DEF Place
            <4>2. /\ Course.i = toki /\ Course.s = "return" /\ Course.a # <<>>
                  /\ Last(Course.a)[1] = "struct_nested"
                BY <1>5, <2>2, <4>1, CourseBack
            <4> QED
                BY <3>1, <4>2 DEF Along, Behind
        <3>2. CASE Early(G)
            BY <2>1, <3>2 DEF Early
        <3> QED
            BY <1>2, <2>1, <3>1, <3>2
    <2> QED
        BY <1>2, <2>3, <2>4, <2>5, NameBehind
<1> QED
    BY <1>3, <1>4, <1>5

(* For every set of texts: pass 2 never refuses a text that begins with a  *)
(* struct, has none inside another and was accepted by pass 1, and it ends *)
(* right behind that struct; and it never meets an initializer behind the  *)
(* name of a nested struct, in any text that begins with a struct.         *)
THEOREM PassesReadTheSame == FrontSpec => []PassesAgree
<1>1. FrontSpec => [](FrontInv /\ NamesInv)
    BY FrontNamesHold
<1>2. FrontInit => PassInv
    <2> SUFFICES ASSUME FrontInit PROVE PassInv
        OBVIOUS
    <2>1. pc = "record_types" /\ toki = 0 /\ pass = 1
        BY DEF FrontInit
    <2>2. PassOne
        BY <2>1 DEF PassOne
    <2> QED
        BY <2>1, <2>2 DEF PassInv
<1>3. FrontInv /\ NamesInv /\ (FrontInv /\ NamesInv)' /\ PassInv /\ [FrontNext]_frontVars => PassInv'
    BY PassStep, PassAgain
<1>4. FrontInv /\ PassInv => PassesAgree
    BY Agreed
<1> QED
    BY <1>1, <1>2, <1>3, <1>4, PTL DEF FrontSpec
=============================================================================
