-------------------------- MODULE ExprParserProofs --------------------------
(***************************************************************************)
(* Proofs about ExprParser, for every set of token sequences.              *)
(***************************************************************************)
EXTENDS ExprParser, SequenceTheorems, MinMax, TLAPS

(***************************************************************************)
(* The stack operations of the model.                                      *)
(***************************************************************************)

(* A call on top of the stack: the activations below keep their places.    *)
LEMMA PushOne ==
    ASSUME NEW S, NEW s \in Seq(S), NEW f \in S
    PROVE  /\ Append(s, f) \in Seq(S)
           /\ Append(s, f) # <<>>
           /\ Len(Append(s, f)) = Len(s) + 1
           /\ \A i \in 1 .. Len(s) : Append(s, f)[i] = s[i]
           /\ Append(s, f)[Len(s) + 1] = f
           /\ Last(Append(s, f)) = f
    BY DEF Last

(* Two nested calls on top of the stack.                                   *)
LEMMA PushTwo ==
    ASSUME NEW S, NEW s \in Seq(S), NEW f \in S, NEW g \in S
    PROVE  /\ s \o <<f, g>> \in Seq(S)
           /\ s \o <<f, g>> # <<>>
           /\ Len(s \o <<f, g>>) = Len(s) + 2
           /\ \A i \in 1 .. Len(s) : (s \o <<f, g>>)[i] = s[i]
           /\ (s \o <<f, g>>)[Len(s) + 1] = f
           /\ (s \o <<f, g>>)[Len(s) + 2] = g
           /\ Last(s \o <<f, g>>) = g
<1>1. <<f, g>> \in Seq(S) /\ Len(<<f, g>>) = 2
    OBVIOUS
<1>2. s \o <<f, g>> \in Seq(S) /\ Len(s \o <<f, g>>) = Len(s) + 2
    BY <1>1
<1>3. \A i \in 1 .. Len(s) : (s \o <<f, g>>)[i] = s[i]
    BY <1>1
<1>4. (s \o <<f, g>>)[Len(s) + 1] = f /\ (s \o <<f, g>>)[Len(s) + 2] = g
    BY <1>1
<1> QED
    BY <1>2, <1>3, <1>4 DEF Last

(* A return: the caller is on top again.                                   *)
LEMMA PopOne ==
    ASSUME NEW S, NEW s \in Seq(S), s # <<>>
    PROVE  /\ Front(s) \in Seq(S)
           /\ Len(Front(s)) = Len(s) - 1
           /\ \A i \in 1 .. Len(s) - 1 : Front(s)[i] = s[i]
           /\ Last(s) \in S
           /\ Last(s) = s[Len(s)]
           /\ Len(s) \in Nat /\ Len(s) >= 1
<1>1. Len(s) \in Nat /\ Len(s) >= 1
    OBVIOUS
<1>2. \A i \in 1 .. Len(s) - 1 : s[i] \in S
    OBVIOUS
<1>3. PICK n \in Nat : n = Len(s) - 1
    BY <1>1
<1>4. /\ SubSeq(s, 1, n) \in Seq(S)
      /\ Len(SubSeq(s, 1, n)) = IF 1 <= n THEN n - 1 + 1 ELSE 0
      /\ \A i \in 1 .. n - 1 + 1 : SubSeq(s, 1, n)[i] = s[1 + i - 1]
    BY <1>2, <1>3, SubSeqProperties
<1>5. n - 1 + 1 = n /\ (~(1 <= n) => n = 0) /\ \A i \in 1 .. n : 1 + i - 1 = i
    OBVIOUS
<1>6. /\ SubSeq(s, 1, n) \in Seq(S)
      /\ Len(SubSeq(s, 1, n)) = n
      /\ \A i \in 1 .. n : SubSeq(s, 1, n)[i] = s[i]
    BY <1>4, <1>5, Zenon
<1>7. Front(s) = SubSeq(s, 1, n) /\ Last(s) = s[Len(s)]
    BY <1>3 DEF Front, Last
<1>8. s[Len(s)] \in S
    BY <1>1
<1> QED
    BY <1>1, <1>3, <1>6, <1>7, <1>8, Zenon

(* A node added to the pool: the ones before it are where they were.       *)
LEMMA GrowPool ==
    ASSUME NEW S, NEW s \in Seq(S), NEW x \in S, NEW t, t = Append(s, x)
    PROVE  /\ t \in Seq(S)
           /\ Len(s) \in Nat
           /\ Len(t) = Len(s) + 1
           /\ \A n \in 1 .. Len(s) : t[n] = s[n]
           /\ t[Len(s) + 1] = x
    BY PushOne

(***************************************************************************)
(* The operator tables.                                                    *)
(***************************************************************************)

(* Precedences are the levels 1 to 11, and 0 for what is no operator.      *)
LEMMA PrecedenceRange ==
    ASSUME NEW kind
    PROVE  /\ get_precedence(kind) \in 0 .. 11
           /\ get_precedence(kind) # PREC_NONE =>
                 kind \in PrecedenceLevels[get_precedence(kind)]
<1>1. CASE \E p \in Levels : kind \in PrecedenceLevels[p]
    <2>1. get_precedence(kind) = CHOOSE p \in Levels : kind \in PrecedenceLevels[p]
        BY <1>1 DEF get_precedence
    <2>2. get_precedence(kind) \in Levels /\ kind \in PrecedenceLevels[get_precedence(kind)]
        BY <1>1, <2>1, Zenon
    <2> QED
        BY <2>2 DEF Levels
<1>2. CASE ~\E p \in Levels : kind \in PrecedenceLevels[p]
    BY <1>2 DEF get_precedence, PREC_NONE
<1> QED
    BY <1>1, <1>2

(* The right operand's minimum is the operator's level or the next one.    *)
LEMMA NextPrecRange ==
    ASSUME NEW kind
    PROVE  next_prec(kind) \in get_precedence(kind) .. 12
           /\ next_prec(kind) <= get_precedence(kind) + 1
    BY PrecedenceRange DEF next_prec, is_right_associative, PREC_ASSIGN

(* What an operator token is.                                              *)
LEMMA OperatorTokens ==
    ASSUME NEW kind, get_precedence(kind) # PREC_NONE
    PROVE  \/ kind \in PrecedenceLevels[1]
           \/ kind \in {"TOK_PIPE_PIPE", "TOK_AMPERSAND_AMPERSAND", "TOK_PIPE",
                        "TOK_CARET", "TOK_AMPERSAND", "TOK_EQUAL_EQ", "TOK_BANG_EQ",
                        "TOK_LESS_THAN", "TOK_LESS_EQ", "TOK_GREATER_THAN",
                        "TOK_GREATER_EQ", "TOK_SHL", "TOK_SHR", "TOK_PLUS",
                        "TOK_MINUS", "TOK_ASTERISK", "TOK_SLASH", "TOK_PERCENT"}
<1>1. get_precedence(kind) \in 1 .. 11
    BY PrecedenceRange DEF PREC_NONE
<1>2. kind \in PrecedenceLevels[get_precedence(kind)]
    BY PrecedenceRange
<1>3. \A p \in 1 .. 11 : p = 1 \/ p = 2 \/ p = 3 \/ p = 4 \/ p = 5 \/ p = 6
                         \/ p = 7 \/ p = 8 \/ p = 9 \/ p = 10 \/ p = 11
    OBVIOUS
<1>4. /\ PrecedenceLevels[2] = {"TOK_PIPE_PIPE"}
      /\ PrecedenceLevels[3] = {"TOK_AMPERSAND_AMPERSAND"}
      /\ PrecedenceLevels[4] = {"TOK_PIPE"}
      /\ PrecedenceLevels[5] = {"TOK_CARET"}
      /\ PrecedenceLevels[6] = {"TOK_AMPERSAND"}
      /\ PrecedenceLevels[7] = {"TOK_EQUAL_EQ", "TOK_BANG_EQ"}
      /\ PrecedenceLevels[8] = {"TOK_LESS_THAN", "TOK_LESS_EQ", "TOK_GREATER_THAN", "TOK_GREATER_EQ"}
      /\ PrecedenceLevels[9] = {"TOK_SHL", "TOK_SHR"}
      /\ PrecedenceLevels[10] = {"TOK_PLUS", "TOK_MINUS"}
      /\ PrecedenceLevels[11] = {"TOK_ASTERISK", "TOK_SLASH", "TOK_PERCENT"}
    BY DEF PrecedenceLevels
<1>5. PICK p \in 1 .. 11 : kind \in PrecedenceLevels[p]
    BY <1>1, <1>2, Zenon
<1> QED
    BY <1>3, <1>4, <1>5, SMT

(* token_to_binary_ast_kind knows every token get_precedence calls an      *)
(* operator: its exit(1) is never reached.                                 *)
THEOREM OperatorsHaveNodes ==
    ASSUME NEW kind, get_precedence(kind) # PREC_NONE
    PROVE  BinaryAst(kind) \in BinaryTags
<1>1. CASE kind \in PrecedenceLevels[1]
    <2>1. kind \in {"TOK_EQUAL", "TOK_PLUS_EQ", "TOK_MINUS_EQ", "TOK_ASTERISK_EQ",
             "TOK_SLASH_EQ", "TOK_PERCENT_EQ", "TOK_PIPE_EQ", "TOK_AMPERSAND_EQ",
             "TOK_CARET_EQ", "TOK_SHL_EQ", "TOK_SHR_EQ"}
        BY <1>1 DEF PrecedenceLevels
    <2>2. BinaryAst(kind) = "AST_ASSIGN"
        BY <1>1, <2>1 DEF BinaryAst, PREC_ASSIGN
    <2> QED
        BY <2>2 DEF BinaryTags
<1>2. CASE kind \notin PrecedenceLevels[1]
    BY <1>2, OperatorTokens DEF BinaryAst, BinaryTags, PREC_ASSIGN
<1> QED
    BY <1>1, <1>2

(* The end of the file is no operator: the loop of parse_precedence stops. *)
LEMMA EofIsNoOperator == get_precedence("TOK_EOF") = PREC_NONE
<1>1. "TOK_EOF" \notin PrecedenceLevels[1]
    BY DEF PrecedenceLevels
<1> QED
    BY <1>1, OperatorTokens

(***************************************************************************)
(* The inductive invariant.                                                *)
(***************************************************************************)

IndInv ==
    /\ TypeOK
    /\ CursorSound
    /\ CallChain
    /\ PrecedenceRespected
    /\ UnaryBindsTightest

(* The constants of the type invariant that need no state.                 *)
LEMMA FrameTypes ==
    ASSUME NEW at \in FrameAt, NEW m \in 0 .. 12, NEW t \in Nat, NEW l \in Nat,
           NEW args \in Seq(Nat)
    PROVE  Frame(at, m, t, l, args) \in FrameType
    BY DEF Frame, FrameType, PREC_UNARY

(* The frame of a call of parse_precedence is well typed.                  *)
LEMMA PrecedenceFrameType ==
    ASSUME NEW m \in 0 .. 12
    PROVE  PrecedenceFrame(m) \in FrameType
<1>1. "precedence" \in FrameAt /\ 0 \in Nat /\ <<>> \in Seq(Nat)
    BY DEF FrameAt
<1> QED
    BY <1>1, FrameTypes DEF PrecedenceFrame, NULL

(* Where the cursor stands: the tokens up to it, and the next one when     *)
(* this one does not end the file.                                         *)
LEMMA CursorFacts ==
    ASSUME TypeOK, CursorSound
    PROVE  /\ tokens \in Seq(STRING)
           /\ toki \in Nat
           /\ Len(tokens) \in Nat
           /\ Tok(toki) \in STRING
           /\ Tok(toki) # "TOK_EOF" => toki + 1 < Len(tokens) /\ Tok(toki + 1) \in STRING
           /\ Tok(toki) # "TOK_EOF" /\ Tok(toki + 1) # "TOK_EOF" =>
                 toki + 2 < Len(tokens) /\ Tok(toki + 2) \in STRING
    BY InputsAssumption DEF TypeOK, CursorSound, Tok

(* No step changes the tokens.                                             *)
LEMMA TokensKept == [Next]_vars => tokens' = tokens
    BY DEF Next, Primary, vars, PrefixOperator, new_unary, PrimaryIdentifier, PrimaryLiteral,
       PrimaryEnumLiteral, PrimaryGroup, PrimaryNone, PostfixMember, PostfixEmptyCall,
       PostfixCall, PostfixIndex, PostfixEnd, MemberField, MemberMissing, NextArgument,
       RepeatArgument, CloseCall, CloseIndex, IndexMissing, CloseGroup, ExpectTokenFails,
       TakeOperator, LeaveLoop, new_binary, Finish

(* A step that consumes tokens before the end of the file keeps the        *)
(* cursor in the array and its cached copy fresh.                          *)
THEOREM CursorStep == IndInv /\ [Next]_vars => CursorSound'
<1> SUFFICES ASSUME IndInv, [Next]_vars
             PROVE  CursorSound'
    OBVIOUS
<1> USE DEF IndInv
<1>0. /\ Tok(toki) # "TOK_EOF" => toki + 1 < Len(tokens)
      /\ Tok(toki) # "TOK_EOF" /\ Tok(toki + 1) # "TOK_EOF" => toki + 2 < Len(tokens)
      /\ current = Tok(toki) /\ toki < Len(tokens)
    BY CursorFacts DEF CursorSound
<1>1. tokens' = tokens
    BY TokensKept
<1>2. ASSUME advance(1), Tok(toki) # "TOK_EOF"
      PROVE  CursorSound'
    BY <1>0, <1>1, <1>2 DEF advance, CursorSound, Tok
<1>3. ASSUME advance(2), Tok(toki) # "TOK_EOF", Tok(toki + 1) # "TOK_EOF"
      PROVE  CursorSound'
    BY <1>0, <1>1, <1>3 DEF advance, CursorSound, Tok
<1>4. ASSUME toki' = toki, current' = current
      PROVE  CursorSound'
    BY <1>0, <1>1, <1>4 DEF CursorSound, Tok
<1>5. ASSUME NEW x, NEW y, match(<<x, y>>), x # "TOK_EOF", y # "TOK_EOF"
      PROVE  Tok(toki) # "TOK_EOF" /\ Tok(toki + 1) # "TOK_EOF"
    <2>1. Len(<<x, y>>) = 2 /\ <<x, y>>[1] = x /\ <<x, y>>[2] = y
        OBVIOUS
    <2>2. x = Tok(toki + 1 - 1) /\ y = Tok(toki + 2 - 1)
        BY <1>5, <2>1 DEF match
    <2> QED
        BY <1>5, <2>2, CursorFacts
<1>6. CASE PrefixOperator
    BY <1>2, <1>6 DEF PrefixOperator, UnaryAst
<1>7. CASE PrimaryIdentifier
    BY <1>2, <1>7 DEF PrimaryIdentifier, new_literal
<1>8. CASE PrimaryLiteral
    BY <1>2, <1>8 DEF PrimaryLiteral, new_literal, LiteralAst
<1>9. CASE PrimaryEnumLiteral
    BY <1>3, <1>5, <1>9 DEF PrimaryEnumLiteral
<1>10. CASE PrimaryGroup
    BY <1>2, <1>10 DEF PrimaryGroup
<1>11. CASE PostfixMember
    BY <1>0, <1>2, <1>11 DEF PostfixMember
<1>12. CASE PostfixEmptyCall
    BY <1>3, <1>5, <1>12 DEF PostfixEmptyCall
<1>13. CASE PostfixCall \/ PostfixIndex
    BY <1>0, <1>2, <1>13 DEF PostfixCall, PostfixIndex
<1>14. CASE TakeOperator
    BY <1>2, <1>14, EofIsNoOperator DEF TakeOperator, TakesOperator
<1>15. CASE CloseGroup \/ CloseCall \/ CloseIndex \/ NextArgument
    BY <1>0, <1>2, <1>15 DEF CloseGroup, CloseCall, CloseIndex, NextArgument
<1>16. CASE \/ PrimaryNone \/ PostfixEnd \/ MemberField \/ MemberMissing \/ RepeatArgument
            \/ IndexMissing \/ ExpectTokenFails \/ LeaveLoop \/ new_binary \/ new_unary
            \/ Finish \/ UNCHANGED vars
    BY <1>4, <1>16 DEF PrimaryNone, PostfixEnd, MemberField, MemberMissing, RepeatArgument,
       IndexMissing, ExpectTokenFails, LeaveLoop, new_binary, new_unary, Finish, vars
<1> QED
    BY <1>6, <1>7, <1>8, <1>9, <1>10, <1>11, <1>12, <1>13, <1>14, <1>15, <1>16
       DEF Next, Primary

(***************************************************************************)
(* The type invariant.                                                     *)
(***************************************************************************)

(* A new node of the right shape leaves the pool and ret well typed.       *)
LEMMA NewNodeType ==
    ASSUME TypeOK, NEW tag, NEW tok \in Nat, NEW kids \in Seq(Nat),
           tag \in BinaryTags \cup UnaryTags \cup LeafTags \cup PostfixTags,
           new_node(tag, tok, kids)
    PROVE  pool' \in Seq(NodeType) /\ ret' \in Nat
<1>1. [tag |-> tag, tok |-> tok, kids |-> kids] \in NodeType
    BY DEF NodeType
<1>2. pool \in Seq(NodeType)
    BY DEF TypeOK
<1> QED
    BY <1>1, <1>2, GrowPool DEF new_node

(* A caller that is about to be resumed is a frame, and its locals point   *)
(* into the pool.                                                          *)
LEMMA CallerFacts ==
    ASSUME IndInv, stack # <<>>
    PROVE  /\ Caller \in FrameType
           /\ Caller = stack[Len(stack)]
           /\ Len(stack) \in Nat \ {0}
           /\ FrameSound(Caller)
           /\ Front(stack) \in Seq(FrameType)
           /\ Len(Front(stack)) = Len(stack) - 1
           /\ \A i \in 1 .. Len(stack) - 1 : Front(stack)[i] = stack[i]
<1>1. stack \in Seq(FrameType)
    BY DEF IndInv, TypeOK
<1>2. /\ Caller \in FrameType /\ Caller = stack[Len(stack)]
      /\ Len(stack) \in Nat \ {0}
      /\ Front(stack) \in Seq(FrameType)
      /\ Len(Front(stack)) = Len(stack) - 1
      /\ \A i \in 1 .. Len(stack) - 1 : Front(stack)[i] = stack[i]
    BY <1>1, PopOne DEF Caller
<1>3. Len(stack) \in 1 .. Len(stack)
    BY <1>2
<1>4. FrameSound(stack[Len(stack)])
    BY <1>3, Zenon DEF IndInv, CallChain
<1> QED
    BY <1>2, <1>4, Zenon

(* Every state of the parser is well typed.                                *)
THEOREM TypeStep == IndInv /\ [Next]_vars => TypeOK'
<1> SUFFICES ASSUME IndInv, [Next]_vars
             PROVE  TypeOK'
    OBVIOUS
<1>0. CursorSound' /\ TypeOK /\ CursorSound /\ ret <= Len(pool)
    BY CursorStep DEF IndInv, CallChain, ReturnSound
<1>1. tokens' = tokens
    BY TokensKept
<1>2. ASSUME toki' \in Nat
      PROVE  current' \in STRING
    BY <1>0, <1>1, <1>2, InputsAssumption DEF CursorSound, TypeOK, Tok
<1>3. ASSUME NEW n \in {1, 2}, advance(n)
      PROVE  toki' \in Nat
    BY <1>0, <1>3 DEF advance, TypeOK
<1>4. toki \in Nat /\ NULL \in Nat /\ <<>> \in Seq(Nat) /\ ret \in Nat
      /\ stack \in Seq(FrameType) /\ pool \in Seq(NodeType)
      /\ 0 \in 0 .. 12 /\ 12 \in 0 .. 12 /\ toki + 1 \in Nat
    BY <1>0 DEF TypeOK, NULL
<1>5. ASSUME NEW at \in FrameAt, NEW l \in Nat, NEW m \in 0 .. 12,
             stack' = stack \o <<Frame(at, 0, toki, l, <<>>), PrecedenceFrame(m)>>
      PROVE  stack' \in Seq(FrameType)
    <2>1. Frame(at, 0, toki, l, <<>>) \in FrameType
        BY <1>4, FrameTypes
    <2> QED
        BY <1>4, <1>5, <2>1, PrecedenceFrameType, PushTwo
<1>6. ASSUME NEW n \in 1 .. Len(pool)
      PROVE  pool[n] \in NodeType
    BY <1>4
<1>7. /\ \A f \in DOMAIN UnaryAst : UnaryAst[f] \in UnaryTags
      /\ \A f \in DOMAIN LiteralAst : LiteralAst[f] \in LeafTags
    BY DEF UnaryAst, UnaryTags, LiteralAst, LeafTags
<1> USE DEF FrameAt
<1>10. CASE PrefixOperator
    <2>1. stack' \in Seq(FrameType)
        BY <1>4, <1>5, <1>10 DEF PrefixOperator, PREC_UNARY
    <2> QED
        BY <1>0, <1>1, <1>2, <1>3, <1>10, <2>1 DEF PrefixOperator, TypeOK
<1>11. CASE PrimaryIdentifier
    <2>1. pool' \in Seq(NodeType) /\ ret' \in Nat
        BY <1>0, <1>4, <1>11, NewNodeType DEF PrimaryIdentifier, new_literal, LeafTags
    <2> QED
        BY <1>0, <1>1, <1>2, <1>3, <1>11, <2>1 DEF PrimaryIdentifier, new_literal, TypeOK
<1>12. CASE PrimaryLiteral
    <2>1. pool' \in Seq(NodeType) /\ ret' \in Nat
        BY <1>0, <1>4, <1>7, <1>12, NewNodeType DEF PrimaryLiteral, new_literal
    <2> QED
        BY <1>0, <1>1, <1>2, <1>3, <1>12, <2>1 DEF PrimaryLiteral, new_literal, TypeOK
<1>13. CASE PrimaryEnumLiteral
    <2>1. pool' \in Seq(NodeType) /\ ret' \in Nat
        BY <1>0, <1>4, <1>13, NewNodeType DEF PrimaryEnumLiteral, LeafTags
    <2> QED
        BY <1>0, <1>1, <1>2, <1>3, <1>13, <2>1 DEF PrimaryEnumLiteral, TypeOK
<1>14. CASE PrimaryGroup
    <2>1. stack' \in Seq(FrameType)
        BY <1>4, <1>5, <1>14 DEF PrimaryGroup
    <2> QED
        BY <1>0, <1>1, <1>2, <1>3, <1>14, <2>1 DEF PrimaryGroup, TypeOK
<1>15. CASE PostfixMember
    <2>1. Frame("member", 0, toki, ret, <<>>) \in FrameType
        BY <1>4, FrameTypes
    <2>2. stack' \in Seq(FrameType)
        BY <1>4, <1>15, <2>1, PushOne DEF PostfixMember
    <2> QED
        BY <1>0, <1>1, <1>2, <1>3, <1>15, <2>2 DEF PostfixMember, TypeOK
<1>16. CASE PostfixEmptyCall
    <2>1. ret \in 1 .. Len(pool)
        BY <1>0, <1>4, <1>16 DEF PostfixEmptyCall, IndInv, CallChain, ReturnSound, NULL
    <2>2. pool[ret].tok \in Nat /\ <<ret>> \in Seq(Nat)
        BY <1>4, <1>6, <2>1 DEF NodeType
    <2>3. pool' \in Seq(NodeType) /\ ret' \in Nat
        BY <1>0, <1>16, <2>2, NewNodeType DEF PostfixEmptyCall, PostfixTags
    <2> QED
        BY <1>0, <1>1, <1>2, <1>3, <1>16, <2>3 DEF PostfixEmptyCall, TypeOK
<1>17. CASE PostfixCall \/ PostfixIndex
    <2>1. stack' \in Seq(FrameType)
        BY <1>4, <1>5, <1>17 DEF PostfixCall, PostfixIndex
    <2> QED
        BY <1>0, <1>1, <1>2, <1>3, <1>17, <2>1 DEF PostfixCall, PostfixIndex, TypeOK
<1>18. CASE TakeOperator
    <2>1. next_prec(Tok(toki)) \in 0 .. 12
        BY NextPrecRange, PrecedenceRange
    <2>2. stack' \in Seq(FrameType)
        BY <1>4, <1>5, <1>18, <2>1 DEF TakeOperator
    <2> QED
        BY <1>0, <1>1, <1>2, <1>3, <1>18, <2>2 DEF TakeOperator, TypeOK
<1>19. CASE LeaveLoop \/ MemberMissing
    BY <1>0, <1>1, <1>19, CallerFacts DEF LeaveLoop, MemberMissing, ReturnTo, Pop, TypeOK
<1>20. ASSUME stack # <<>>
       PROVE  /\ Caller.tok \in Nat /\ Caller.lhs \in Nat /\ Caller.args \in Seq(Nat)
              /\ <<Caller.lhs, ret>> \in Seq(Nat) /\ <<ret>> \in Seq(Nat)
              /\ ArgsAppended \in Seq(Nat)
              /\ <<Caller.lhs>> \o ArgsAppended \in Seq(Nat)
              /\ Caller.at \in {"args", "index"} => pool[Caller.lhs].tok \in Nat
    <2>1. Caller.tok \in Nat /\ Caller.lhs \in Nat /\ Caller.args \in Seq(Nat)
        BY <1>20, CallerFacts DEF FrameType
    <2>2. Append(Caller.args, ret) \in Seq(Nat)
        BY <1>4, <2>1
    <2>3. ArgsAppended \in Seq(Nat)
        BY <2>1, <2>2 DEF ArgsAppended
    <2>4. Caller.at \in {"args", "index"} => Caller.lhs \in 1 .. Len(pool)
        BY <1>4, <1>20, <2>1, CallerFacts DEF FrameSound, NULL
    <2>5. Caller.at \in {"args", "index"} => pool[Caller.lhs].tok \in Nat
        BY <1>6, <2>4 DEF NodeType
    <2>6. <<Caller.lhs>> \o ArgsAppended \in Seq(Nat)
        <3>1. <<Caller.lhs>> \in Seq(Nat)
            BY <2>1
        <3> QED
            BY <2>3, <3>1
    <2> QED
        BY <1>4, <2>1, <2>3, <2>5, <2>6
<1>21. CASE new_binary
    <2>1. BinaryAst(Tok(Caller.tok)) \in BinaryTags
        BY <1>21, CallerFacts, OperatorsHaveNodes DEF new_binary, ReturnTo, FrameSound
    <2>2. pool' \in Seq(NodeType) /\ ret' \in Nat
        BY <1>0, <1>20, <1>21, <2>1, NewNodeType DEF new_binary, ReturnTo
    <2> QED
        BY <1>0, <1>1, <1>21, <2>2, CallerFacts DEF new_binary, ReturnTo, Pop, TypeOK
<1>22. CASE new_unary
    <2>1. UnaryAst[Tok(Caller.tok)] \in UnaryTags
        BY <1>7, <1>22, CallerFacts DEF new_unary, ReturnTo, FrameSound
    <2>2. pool' \in Seq(NodeType) /\ ret' \in Nat
        BY <1>0, <1>20, <1>22, <2>1, NewNodeType DEF new_unary, ReturnTo
    <2> QED
        BY <1>0, <1>1, <1>22, <2>2, CallerFacts DEF new_unary, ReturnTo, Pop, TypeOK
<1>23. CASE CloseGroup
    <2>1. pool' \in Seq(NodeType) /\ ret' \in Nat
        BY <1>0, <1>20, <1>23, NewNodeType DEF CloseGroup, ReturnTo, PostfixTags
    <2> QED
        BY <1>0, <1>1, <1>2, <1>3, <1>23, <2>1, CallerFacts DEF CloseGroup, ReturnTo, Pop, TypeOK
<1>24. CASE MemberField
    <2>1. pool' \in Seq(NodeType) /\ ret' \in Nat
        BY <1>0, <1>20, <1>24, NewNodeType DEF MemberField, ReturnTo, PostfixTags
    <2> QED
        BY <1>0, <1>1, <1>24, <2>1, CallerFacts DEF MemberField, ReturnTo, Pop, TypeOK
<1>25. CASE CloseCall
    <2>1. pool' \in Seq(NodeType) /\ ret' \in Nat
        BY <1>0, <1>20, <1>25, NewNodeType DEF CloseCall, ReturnTo, PostfixTags
    <2> QED
        BY <1>0, <1>1, <1>2, <1>3, <1>25, <2>1, CallerFacts DEF CloseCall, ReturnTo, Pop, TypeOK
<1>26. CASE CloseIndex
    <2>1. pool' \in Seq(NodeType) /\ ret' \in Nat
        BY <1>0, <1>20, <1>26, NewNodeType DEF CloseIndex, ReturnTo, PostfixTags
    <2> QED
        BY <1>0, <1>1, <1>2, <1>3, <1>26, <2>1, CallerFacts DEF CloseIndex, ReturnTo, Pop, TypeOK
<1>27. CASE NextArgument \/ RepeatArgument
    <2>1. stack # <<>> /\ ParseNextArgument
        BY <1>27 DEF NextArgument, RepeatArgument, ReturnTo
    <2>2. [Caller EXCEPT !.args = ArgsAppended] \in FrameType
        BY <1>20, <2>1, CallerFacts DEF FrameType
    <2>3. stack' \in Seq(FrameType)
        BY <2>1, <2>2, CallerFacts, PrecedenceFrameType, PushTwo DEF ParseNextArgument
    <2> QED
        BY <1>0, <1>1, <1>2, <1>3, <1>27, <2>3 DEF NextArgument, RepeatArgument, TypeOK
<1>28. CASE PrimaryNone \/ PostfixEnd
    BY <1>0, <1>4, <1>28 DEF PrimaryNone, PostfixEnd, TypeOK
<1>29. CASE IndexMissing \/ ExpectTokenFails
    BY <1>0, <1>29 DEF IndexMissing, ExpectTokenFails, TypeOK
<1>30. CASE Finish \/ UNCHANGED vars
    BY <1>0, <1>30 DEF Finish, vars, TypeOK
<1> QED
    BY <1>10, <1>11, <1>12, <1>13, <1>14, <1>15, <1>16, <1>17, <1>18, <1>19, <1>21, <1>22,
       <1>23, <1>24, <1>25, <1>26, <1>27, <1>28, <1>29, <1>30 DEF Next, Primary

(***************************************************************************)
(* The call stack stays a chain of calls.                                  *)
(***************************************************************************)

(* One call more.                                                          *)
LEMMA ChainPush ==
    ASSUME NEW s \in Seq(FrameType), s # <<>>, IsCallChain(s),
           NEW f \in FrameType, Calls(Last(s), f)
    PROVE  IsCallChain(Append(s, f))
<1>1. /\ Append(s, f) # <<>> /\ Len(Append(s, f)) = Len(s) + 1
      /\ \A i \in 1 .. Len(s) : Append(s, f)[i] = s[i]
      /\ Append(s, f)[Len(s) + 1] = f
    BY PushOne
<1>2. Len(s) \in Nat /\ Len(s) >= 1 /\ Last(s) = s[Len(s)]
    BY PopOne
<1>3. Append(s, f)[1].at = "precedence"
    BY <1>1, <1>2 DEF IsCallChain
<1>4. ASSUME NEW i \in 1 .. Len(Append(s, f)) - 1
      PROVE  Calls(Append(s, f)[i], Append(s, f)[i + 1])
    <2>1. CASE i = Len(s)
        BY <1>1, <1>2, <2>1
    <2>2. CASE i # Len(s)
        <3>1. i \in 1 .. Len(s) - 1 /\ i + 1 \in 1 .. Len(s) /\ i \in 1 .. Len(s)
            BY <1>1, <1>2, <2>2
        <3>2. Calls(s[i], s[i + 1])
            BY <3>1 DEF IsCallChain
        <3> QED
            BY <1>1, <3>1, <3>2
    <2> QED
        BY <2>1, <2>2
<1> QED
    BY <1>3, <1>4 DEF IsCallChain

(* Two calls more.                                                         *)
LEMMA ChainPushTwo ==
    ASSUME NEW s \in Seq(FrameType), s # <<>>, IsCallChain(s),
           NEW f \in FrameType, NEW g \in FrameType, Calls(Last(s), f), Calls(f, g)
    PROVE  IsCallChain(s \o <<f, g>>)
<1>1. Append(s, f) \in Seq(FrameType) /\ Append(s, f) # <<>> /\ Last(Append(s, f)) = f
    BY PushOne
<1>2. IsCallChain(Append(s, f))
    BY ChainPush
<1>3. IsCallChain(Append(Append(s, f), g))
    BY <1>1, <1>2, ChainPush
<1>4. Append(Append(s, f), g) = s \o <<f, g>>
    OBVIOUS
<1> QED
    BY <1>3, <1>4

(* One call less.                                                          *)
LEMMA ChainPop ==
    ASSUME NEW s \in Seq(FrameType), s # <<>>, IsCallChain(s)
    PROVE  /\ IsCallChain(Front(s))
           /\ Last(s).at # "precedence" => Front(s) # <<>>
           /\ Front(s) # <<>> =>
                /\ Last(Front(s)) \in FrameType
                /\ Calls(Last(Front(s)), Last(s))
                /\ Len(s) >= 2 /\ Last(Front(s)) = s[Len(s) - 1]
<1>1. /\ Front(s) \in Seq(FrameType)
      /\ Len(Front(s)) = Len(s) - 1
      /\ \A i \in 1 .. Len(s) - 1 : Front(s)[i] = s[i]
      /\ Last(s) = s[Len(s)]
      /\ Len(s) \in Nat /\ Len(s) >= 1
    BY PopOne
<1>2. Last(s).at # "precedence" => Front(s) # <<>>
    <2>1. ASSUME Front(s) = <<>>
          PROVE  Len(s) = 1
        BY <1>1, <2>1
    <2> QED
        BY <1>1, <2>1 DEF IsCallChain
<1>3. ASSUME Front(s) # <<>>
      PROVE  /\ Front(s)[1].at = "precedence"
             /\ Last(Front(s)) \in FrameType
             /\ Calls(Last(Front(s)), Last(s))
             /\ Len(s) >= 2 /\ Last(Front(s)) = s[Len(s) - 1]
    <2>1. Len(s) >= 2 /\ Last(Front(s)) \in FrameType /\ Last(Front(s)) = Front(s)[Len(s) - 1]
        BY <1>1, <1>3, PopOne
    <2>2. Len(s) - 1 \in 1 .. Len(s) - 1 /\ 1 \in 1 .. Len(s) - 1 /\ (Len(s) - 1) + 1 = Len(s)
        BY <1>1, <2>1
    <2>3. Calls(s[Len(s) - 1], s[Len(s)])
        BY <2>2 DEF IsCallChain
    <2>4. Front(s)[1].at = "precedence"
        BY <1>1, <2>2 DEF IsCallChain
    <2> QED
        BY <1>1, <2>1, <2>2, <2>3, <2>4
<1>4. ASSUME NEW i \in 1 .. Len(Front(s)) - 1
      PROVE  Calls(Front(s)[i], Front(s)[i + 1])
    <2>1. i \in 1 .. Len(s) - 1 /\ i + 1 \in 1 .. Len(s) - 1
        BY <1>1
    <2> QED
        BY <1>1, <2>1 DEF IsCallChain
<1> QED
    BY <1>2, <1>3, <1>4 DEF IsCallChain

(* Whether one frame may call another depends on the tokens only.          *)
LEMMA ChainKept ==
    ASSUME tokens' = tokens, IsCallChain(stack')
    PROVE  IsCallChain(stack)'
    BY DEF IsCallChain, Calls, CalleeMin, Tok

(* Every step keeps the chain of calls, and leaves on top of it the        *)
(* activation that the next step needs.                                    *)
THEOREM ShapeStep == IndInv /\ [Next]_vars => StackShape'
<1> SUFFICES ASSUME IndInv, [Next]_vars
             PROVE  StackShape'
    OBVIOUS
<1>1. tokens' = tokens /\ stack \in Seq(FrameType) /\ toki \in Nat /\ ret \in Nat
      /\ NULL \in Nat /\ <<>> \in Seq(Nat) /\ 0 \in 0 .. 12 /\ 12 \in 0 .. 12
    BY TokensKept DEF IndInv, TypeOK, NULL
<1>2. StackShape
    BY DEF IndInv, CallChain
<1>3. ASSUME IsCallChain(stack'), pc' \in {"unary", "primary", "postfix"} => stack' # <<>>,
             pc' = "unary" => Last(stack').at = "precedence",
             pc' \in {"primary", "postfix"} => Last(stack').at \in {"precedence", "member"}
      PROVE  StackShape'
    BY <1>1, <1>3, ChainKept DEF StackShape, Caller
<1>5. ASSUME stack # <<>>, NEW at \in FrameAt, at # "precedence", NEW l \in Nat, NEW m \in 0 .. 12,
             pc' = "unary",
             stack' = stack \o <<Frame(at, 0, toki, l, <<>>), PrecedenceFrame(m)>>,
             Calls(Caller, Frame(at, 0, toki, l, <<>>)),
             Calls(Frame(at, 0, toki, l, <<>>), PrecedenceFrame(m))
      PROVE  StackShape'
    <2>1. Frame(at, 0, toki, l, <<>>) \in FrameType /\ PrecedenceFrame(m) \in FrameType
        BY <1>1, FrameTypes, PrecedenceFrameType
    <2>2. IsCallChain(stack')
        BY <1>1, <1>2, <1>5, <2>1, ChainPushTwo DEF StackShape, Caller
    <2>3. stack' # <<>> /\ Last(stack') = PrecedenceFrame(m)
        BY <1>1, <1>5, <2>1, PushTwo
    <2> QED
        BY <1>3, <1>5, <2>2, <2>3 DEF PrecedenceFrame, Frame
<1>6. ASSUME stack # <<>>, stack' = Front(stack), pc' \notin {"unary", "primary"},
             pc' = "postfix" => Caller.at \in {"group", "member", "args", "index"}
      PROVE  StackShape'
    <2>1. IsCallChain(stack')
        BY <1>1, <1>2, <1>6, ChainPop DEF StackShape
    <2>2. pc' = "postfix" => stack' # <<>> /\ Last(stack').at \in {"precedence", "member"}
        BY <1>1, <1>2, <1>6, ChainPop DEF StackShape, Caller, Calls
    <2> QED
        BY <1>3, <1>6, <2>1, <2>2
<1>7. ASSUME stack' = stack, pc' \in {"return", "done", "exit", "crash"}
      PROVE  StackShape'
    BY <1>2, <1>3, <1>7 DEF StackShape
<1> USE DEF FrameAt
<1>10. CASE PrefixOperator
    <2>1. stack # <<>> /\ Caller.at = "precedence" /\ pc' = "unary" /\ Tok(toki) \in DOMAIN UnaryAst
        BY <1>2, <1>10 DEF PrefixOperator, StackShape
    <2>2. Calls(Caller, Frame("operand", 0, toki, NULL, <<>>))
        BY <2>1 DEF Calls, Frame
    <2>3. Calls(Frame("operand", 0, toki, NULL, <<>>), PrecedenceFrame(PREC_UNARY))
        BY DEF Calls, Frame, PrecedenceFrame, CalleeMin
    <2> QED
        BY <1>1, <1>5, <1>10, <2>1, <2>2, <2>3 DEF PrefixOperator, PREC_UNARY
<1>11. CASE PrimaryIdentifier
    <2>1. stack' = stack /\ stack # <<>> /\ Caller.at \in {"precedence", "member"} /\ pc' = "postfix"
        BY <1>2, <1>11 DEF PrimaryIdentifier, AtPrimary, StackShape
    <2> QED
        BY <1>2, <1>3, <2>1 DEF StackShape, Caller
<1>12. CASE PrimaryLiteral \/ PrimaryEnumLiteral \/ PrimaryNone \/ PostfixEnd
    BY <1>7, <1>12 DEF PrimaryLiteral, PrimaryEnumLiteral, PrimaryNone, PostfixEnd
<1>13. CASE IndexMissing \/ ExpectTokenFails \/ Finish
    BY <1>7, <1>13 DEF IndexMissing, ExpectTokenFails, Finish
<1>14. ASSUME NEW at \in {"group", "args", "index"}, NEW f, f.at \in {"precedence", "member"}, NEW l
       PROVE  /\ Calls(f, Frame(at, 0, toki, l, <<>>))
              /\ Calls(Frame(at, 0, toki, l, <<>>), PrecedenceFrame(0))
    BY <1>14 DEF Calls, CalleeMin, Frame, PrecedenceFrame
<1>15. CASE PrimaryGroup
    <2>1. stack # <<>> /\ Caller.at \in {"precedence", "member"} /\ pc' = "unary"
        BY <1>2, <1>15 DEF PrimaryGroup, AtPrimary, StackShape
    <2>2. /\ Calls(Caller, Frame("group", 0, toki, NULL, <<>>))
          /\ Calls(Frame("group", 0, toki, NULL, <<>>), PrecedenceFrame(0))
        BY <1>14, <2>1
    <2> QED
        BY <1>1, <1>5, <1>15, <2>1, <2>2 DEF PrimaryGroup
<1>16. CASE PostfixCall
    <2>1. stack # <<>> /\ Caller.at \in {"precedence", "member"} /\ pc' = "unary"
        BY <1>2, <1>16 DEF PostfixCall, StackShape
    <2>2. /\ Calls(Caller, Frame("args", 0, toki, ret, <<>>))
          /\ Calls(Frame("args", 0, toki, ret, <<>>), PrecedenceFrame(0))
        BY <1>14, <2>1
    <2> QED
        BY <1>1, <1>5, <1>16, <2>1, <2>2 DEF PostfixCall
<1>24. CASE PostfixIndex
    <2>1. stack # <<>> /\ Caller.at \in {"precedence", "member"} /\ pc' = "unary"
        BY <1>2, <1>24 DEF PostfixIndex, StackShape
    <2>2. /\ Calls(Caller, Frame("index", 0, toki, ret, <<>>))
          /\ Calls(Frame("index", 0, toki, ret, <<>>), PrecedenceFrame(0))
        BY <1>14, <2>1
    <2> QED
        BY <1>1, <1>5, <1>24, <2>1, <2>2 DEF PostfixIndex
<1>17. CASE PostfixMember
    <2>1. stack # <<>> /\ Caller.at \in {"precedence", "member"} /\ pc' = "primary"
          /\ stack' = Append(stack, Frame("member", 0, toki, ret, <<>>))
        BY <1>2, <1>17 DEF PostfixMember, StackShape
    <2>2. Calls(Caller, Frame("member", 0, toki, ret, <<>>))
        BY <2>1 DEF Calls, Frame
    <2>3. Frame("member", 0, toki, ret, <<>>) \in FrameType
        BY <1>1, FrameTypes
    <2>4. IsCallChain(stack') /\ stack' # <<>> /\ Last(stack') = Frame("member", 0, toki, ret, <<>>)
        BY <1>1, <1>2, <2>1, <2>2, <2>3, ChainPush, PushOne DEF StackShape, Caller
    <2> QED
        BY <1>3, <2>1, <2>4 DEF Frame
<1>18. CASE PostfixEmptyCall
    <2>1. stack' = stack /\ stack # <<>> /\ Caller.at \in {"precedence", "member"} /\ pc' = "postfix"
        BY <1>2, <1>18 DEF PostfixEmptyCall, StackShape
    <2> QED
        BY <1>2, <1>3, <2>1 DEF StackShape, Caller
<1>19. CASE TakeOperator
    <2>1. stack # <<>> /\ Caller.at = "precedence" /\ pc' = "unary" /\ TakesOperator(Caller.min)
        BY <1>19 DEF TakeOperator, ReturnTo
    <2>2. Calls(Caller, Frame("rhs", 0, toki, ret, <<>>))
        BY <2>1 DEF Calls, Frame, TakesOperator
    <2>3. Calls(Frame("rhs", 0, toki, ret, <<>>), PrecedenceFrame(next_prec(Tok(toki))))
        BY DEF Calls, Frame, PrecedenceFrame, CalleeMin
    <2>4. next_prec(Tok(toki)) \in 0 .. 12
        BY NextPrecRange, PrecedenceRange
    <2> QED
        BY <1>1, <1>5, <1>19, <2>1, <2>2, <2>3, <2>4 DEF TakeOperator
<1>20. CASE LeaveLoop \/ new_binary \/ new_unary \/ CloseGroup \/ MemberMissing
    BY <1>6, <1>20 DEF LeaveLoop, new_binary, new_unary, CloseGroup, MemberMissing, Pop, ReturnTo
<1>21. CASE MemberField \/ CloseCall \/ CloseIndex
    BY <1>6, <1>21 DEF MemberField, CloseCall, CloseIndex, Pop, ReturnTo
<1>22. CASE NextArgument \/ RepeatArgument
    <2> DEFINE g == [Caller EXCEPT !.args = ArgsAppended]
    <2>1. /\ stack # <<>> /\ Caller.at = "args" /\ pc' = "unary"
          /\ stack' = Front(stack) \o <<g, PrecedenceFrame(0)>>
        BY <1>22 DEF NextArgument, RepeatArgument, ReturnTo, ParseNextArgument
    <2>2. /\ Caller \in FrameType /\ Caller.args \in Seq(Nat)
          /\ ArgsAppended \in Seq(Nat) /\ Front(stack) \in Seq(FrameType)
        BY <1>1, <2>1, CallerFacts DEF FrameType, ArgsAppended
    <2>3. g \in FrameType /\ g.at = "args" /\ PrecedenceFrame(0) \in FrameType
        BY <1>1, <2>1, <2>2, PrecedenceFrameType DEF FrameType
    <2>4. /\ IsCallChain(Front(stack)) /\ Front(stack) # <<>>
          /\ Last(Front(stack)).at \in {"precedence", "member"}
        BY <1>1, <1>2, <2>1, ChainPop DEF StackShape, Caller, Calls
    <2>5. Calls(Last(Front(stack)), g) /\ Calls(g, PrecedenceFrame(0))
        BY <2>3, <2>4 DEF Calls, CalleeMin, PrecedenceFrame, Frame
    <2> HIDE DEF g
    <2>6. IsCallChain(stack')
        BY <2>1, <2>2, <2>3, <2>4, <2>5, ChainPushTwo
    <2>7. stack' # <<>> /\ Last(stack') = PrecedenceFrame(0)
        BY <2>1, <2>2, <2>3, PushTwo
    <2> QED
        BY <1>3, <2>1, <2>6, <2>7 DEF PrecedenceFrame, Frame
<1>23. CASE UNCHANGED vars
    BY <1>2, <1>3, <1>23 DEF StackShape, Caller, vars
<1> QED
    BY <1>10, <1>11, <1>12, <1>13, <1>15, <1>16, <1>17, <1>18, <1>19, <1>20, <1>21, <1>22, <1>23, <1>24
       DEF Next, Primary

(***************************************************************************)
(* The nodes.  What IndInv says of a node or a frame, as a relation        *)
(* between it, a pool p and a token sequence t, so that it can be compared *)
(* before and after a step.                                                *)
(***************************************************************************)

BinaryIn(n, p) == n # NULL /\ p[n].tag \in BinaryTags
OperatorIn(n, p, t) == t[p[n].tok + 1]

NodeIn(n, p, t) ==
    /\ \A i \in 1 .. Len(p[n].kids) : p[n].kids[i] < n
    /\ p[n].tag \in BinaryTags =>
        /\ Len(p[n].kids) = 2
        /\ BinaryIn(p[n].kids[1], p) =>
            get_precedence(OperatorIn(n, p, t)) < next_prec(OperatorIn(p[n].kids[1], p, t))
        /\ BinaryIn(p[n].kids[2], p) =>
            get_precedence(OperatorIn(p[n].kids[2], p, t)) >= next_prec(OperatorIn(n, p, t))
    /\ p[n].tag \in UnaryTags =>
        Len(p[n].kids) = 1 /\ ~BinaryIn(p[n].kids[1], p)

FrameIn(f, p, t) ==
    /\ f.lhs <= Len(p)
    /\ \A i \in 1 .. Len(f.args) : f.args[i] <= Len(p)
    /\ f.at = "rhs" =>
        /\ get_precedence(t[f.tok + 1]) # PREC_NONE
        /\ BinaryIn(f.lhs, p) =>
            get_precedence(t[f.tok + 1]) < next_prec(OperatorIn(f.lhs, p, t))
    /\ f.at = "operand" => t[f.tok + 1] \in DOMAIN UnaryAst
    /\ f.at \in {"args", "index", "member"} => f.lhs # NULL

(* PrecedenceRespected and UnaryBindsTightest, node by node.               *)
LEMMA NodesUnfold ==
    (/\ \A n \in 1 .. Len(pool) : NodeSound(n)
     /\ PrecedenceRespected
     /\ UnaryBindsTightest)
    <=> \A n \in 1 .. Len(pool) : NodeIn(n, pool, tokens)
<1>1. \A n \in 1 .. Len(pool) : n # NULL
    BY DEF NULL
<1>2. ASSUME NEW n \in 1 .. Len(pool)
      PROVE  NodeIn(n, pool, tokens) <=>
               (/\ NodeSound(n)
                /\ IsBinary(n) =>
                    /\ IsBinary(LeftOperand(n)) =>
                         get_precedence(Operator(n)) < next_prec(Operator(LeftOperand(n)))
                    /\ IsBinary(RightOperand(n)) =>
                         get_precedence(Operator(RightOperand(n))) >= next_prec(Operator(n))
                /\ pool[n].tag \in UnaryTags => ~IsBinary(pool[n].kids[1]))
    BY <1>1 DEF NodeSound, IsBinary, Operator, LeftOperand, RightOperand, NodeIn, BinaryIn,
       OperatorIn, Tok
<1>3. (PrecedenceRespected <=>
        \A n \in 1 .. Len(pool) : IsBinary(n) =>
            /\ IsBinary(LeftOperand(n)) =>
                 get_precedence(Operator(n)) < next_prec(Operator(LeftOperand(n)))
            /\ IsBinary(RightOperand(n)) =>
                 get_precedence(Operator(RightOperand(n))) >= next_prec(Operator(n)))
    BY DEF PrecedenceRespected
<1>4. (UnaryBindsTightest <=>
        \A n \in 1 .. Len(pool) : pool[n].tag \in UnaryTags => ~IsBinary(pool[n].kids[1]))
    BY DEF UnaryBindsTightest
<1> QED
    BY <1>2, <1>3, <1>4

(* The same of the next state.                                             *)
LEMMA NodesUnfoldNext ==
    (/\ \A n \in 1 .. Len(pool) : NodeSound(n)
     /\ PrecedenceRespected
     /\ UnaryBindsTightest)'
    <=> \A n \in 1 .. Len(pool') : NodeIn(n, pool', tokens')
<1>1. \A n \in 1 .. Len(pool') : n # NULL
    BY DEF NULL
<1>2. ASSUME NEW n \in 1 .. Len(pool')
      PROVE  NodeIn(n, pool', tokens') <=>
               (/\ NodeSound(n)
                /\ IsBinary(n) =>
                    /\ IsBinary(LeftOperand(n)) =>
                         get_precedence(Operator(n)) < next_prec(Operator(LeftOperand(n)))
                    /\ IsBinary(RightOperand(n)) =>
                         get_precedence(Operator(RightOperand(n))) >= next_prec(Operator(n))
                /\ pool[n].tag \in UnaryTags => ~IsBinary(pool[n].kids[1]))'
    BY <1>1 DEF NodeSound, IsBinary, Operator, LeftOperand, RightOperand, NodeIn, BinaryIn,
       OperatorIn, Tok
<1>3. (PrecedenceRespected <=>
        \A n \in 1 .. Len(pool) : IsBinary(n) =>
            /\ IsBinary(LeftOperand(n)) =>
                 get_precedence(Operator(n)) < next_prec(Operator(LeftOperand(n)))
            /\ IsBinary(RightOperand(n)) =>
                 get_precedence(Operator(RightOperand(n))) >= next_prec(Operator(n)))'
    BY DEF PrecedenceRespected
<1>4. (UnaryBindsTightest <=>
        \A n \in 1 .. Len(pool) : pool[n].tag \in UnaryTags => ~IsBinary(pool[n].kids[1]))'
    BY DEF UnaryBindsTightest
<1> QED
    BY <1>2, <1>3, <1>4

(* The part of CallChain about frames, frame by frame.                     *)
LEMMA FramesUnfold ==
    (\A i \in 1 .. Len(stack) : FrameSound(stack[i]))
    <=> \A i \in 1 .. Len(stack) : FrameIn(stack[i], pool, tokens)
    BY DEF FrameSound, FrameIn, BindsLooser, IsBinary, Operator, BinaryIn, OperatorIn, Tok

(* The same of the next state.                                             *)
LEMMA FramesUnfoldNext ==
    (\A i \in 1 .. Len(stack) : FrameSound(stack[i]))'
    <=> \A i \in 1 .. Len(stack') : FrameIn(stack'[i], pool', tokens')
    BY DEF FrameSound, FrameIn, BindsLooser, IsBinary, Operator, BinaryIn, OperatorIn, Tok

(* A node that is added changes nothing for a node that was there.         *)
LEMMA NodeKept ==
    ASSUME NEW p \in Seq(NodeType), NEW x \in NodeType, NEW t,
           NEW n \in 1 .. Len(p), NodeIn(n, p, t)
    PROVE  NodeIn(n, Append(p, x), t)
<1> DEFINE q == Append(p, x)
<1>1. \A m \in 1 .. Len(p) : q[m] = p[m]
    BY PushOne
<1>2. q[n] = p[n] /\ p[n] \in NodeType /\ p[n].kids \in Seq(Nat)
    <2>1. p[n] \in NodeType
        OBVIOUS
    <2> QED
        BY <1>1, <2>1 DEF NodeType
<1>3. ASSUME NEW i \in 1 .. Len(p[n].kids)
      PROVE  /\ BinaryIn(p[n].kids[i], q) <=> BinaryIn(p[n].kids[i], p)
             /\ p[n].kids[i] # NULL =>
                  OperatorIn(p[n].kids[i], q, t) = OperatorIn(p[n].kids[i], p, t)
    <2>1. p[n].kids[i] \in Nat /\ p[n].kids[i] < n
        BY <1>2 DEF NodeIn
    <2>2. p[n].kids[i] # NULL => p[n].kids[i] \in 1 .. Len(p)
        BY <2>1 DEF NULL
    <2> QED
        BY <1>1, <2>2 DEF BinaryIn, OperatorIn
<1>4. OperatorIn(n, q, t) = OperatorIn(n, p, t)
    BY <1>2 DEF OperatorIn
<1> HIDE DEF q
<1>5. p[n].tag \in BinaryTags => Len(p[n].kids) = 2 /\ 1 \in 1 .. Len(p[n].kids) /\ 2 \in 1 .. Len(p[n].kids)
    BY DEF NodeIn
<1>6. p[n].tag \in UnaryTags => Len(p[n].kids) = 1 /\ 1 \in 1 .. Len(p[n].kids)
    BY DEF NodeIn
<1>7. NodeIn(n, q, t)
    BY <1>2, <1>3, <1>4, <1>5, <1>6 DEF NodeIn, BinaryIn
<1> QED
    BY <1>7 DEF q

(* Nor for a frame.                                                        *)
LEMMA FrameKept ==
    ASSUME NEW p \in Seq(NodeType), NEW x \in NodeType, NEW t,
           NEW f \in FrameType, FrameIn(f, p, t)
    PROVE  FrameIn(f, Append(p, x), t)
<1> DEFINE q == Append(p, x)
<1>1. Len(q) = Len(p) + 1 /\ Len(p) \in Nat /\ \A m \in 1 .. Len(p) : q[m] = p[m]
    BY PushOne
<1>2. f.lhs \in Nat /\ f.args \in Seq(Nat)
    BY DEF FrameType
<1>3. f.lhs # NULL => f.lhs \in 1 .. Len(p)
    BY <1>2 DEF FrameIn, NULL
<1>4. /\ BinaryIn(f.lhs, q) <=> BinaryIn(f.lhs, p)
      /\ f.lhs # NULL => OperatorIn(f.lhs, q, t) = OperatorIn(f.lhs, p, t)
    BY <1>1, <1>3 DEF BinaryIn, OperatorIn
<1>5. \A i \in 1 .. Len(f.args) : f.args[i] \in Nat
    BY <1>2
<1> HIDE DEF q
<1>6. FrameIn(f, q, t)
    BY <1>1, <1>2, <1>4, <1>5 DEF FrameIn, BinaryIn
<1> QED
    BY <1>6 DEF q

(* The three kinds of new nodes.                                           *)
LEMMA NewOther ==
    ASSUME NEW p \in Seq(NodeType), NEW x \in NodeType, NEW t,
           x.tag \in LeafTags \cup PostfixTags,
           \A i \in 1 .. Len(x.kids) : x.kids[i] <= Len(p)
    PROVE  NodeIn(Len(p) + 1, Append(p, x), t) /\ ~BinaryIn(Len(p) + 1, Append(p, x))
<1>1. Append(p, x)[Len(p) + 1] = x /\ Len(p) \in Nat
    BY PushOne
<1>2. x.tag \notin BinaryTags /\ x.tag \notin UnaryTags
    BY DEF LeafTags, PostfixTags, BinaryTags, UnaryTags
<1>3. x.kids \in Seq(Nat)
    BY DEF NodeType
<1>4. ASSUME NEW i \in 1 .. Len(x.kids)
      PROVE  x.kids[i] < Len(p) + 1
    <2>1. x.kids[i] \in Nat /\ x.kids[i] <= Len(p)
        BY <1>3
    <2> QED
        BY <1>1, <2>1
<1> QED
    BY <1>1, <1>2, <1>4 DEF NodeIn, BinaryIn

(* ... a prefix operator with its operand...                               *)
LEMMA NewUnary ==
    ASSUME NEW p \in Seq(NodeType), NEW x \in NodeType, NEW t, NEW k \in Nat,
           x.tag \in UnaryTags, x.kids = <<k>>, k <= Len(p), ~BinaryIn(k, p)
    PROVE  NodeIn(Len(p) + 1, Append(p, x), t) /\ ~BinaryIn(Len(p) + 1, Append(p, x))
<1>1. /\ Append(p, x)[Len(p) + 1] = x /\ Len(p) \in Nat
      /\ \A m \in 1 .. Len(p) : Append(p, x)[m] = p[m]
    BY PushOne
<1>2. x.tag \notin BinaryTags
    BY DEF BinaryTags, UnaryTags
<1>3. Len(x.kids) = 1 /\ x.kids[1] = k /\ \A i \in 1 .. 1 : i = 1
    OBVIOUS
<1>4. ~BinaryIn(k, Append(p, x))
    BY <1>1 DEF BinaryIn, NULL
<1>5. \A i \in 1 .. Len(x.kids) : x.kids[i] < Len(p) + 1
    BY <1>1, <1>3
<1> DEFINE q == Append(p, x)
           n == Len(p) + 1
<1>6. q[n] = x /\ ~BinaryIn(k, q)
    BY <1>1, <1>4
<1>7. \A i \in 1 .. Len(q[n].kids) : q[n].kids[i] < n
    BY <1>5, <1>6
<1> HIDE DEF q, n
<1>8. q[n].tag \notin BinaryTags /\ Len(q[n].kids) = 1 /\ q[n].kids[1] = k
    BY <1>2, <1>3, <1>6
<1>9. NodeIn(n, q, t) /\ ~BinaryIn(n, q)
    <2>1. ~BinaryIn(n, q)
        BY <1>8 DEF BinaryIn
    <2> QED
        BY <1>6, <1>7, <1>8, <2>1 DEF NodeIn
<1> QED
    BY <1>9 DEF q, n

(* ... and an operator with its two operands.                              *)
LEMMA NewBinary ==
    ASSUME NEW p \in Seq(NodeType), NEW x \in NodeType, NEW t, NEW l \in Nat, NEW r \in Nat,
           x.tag \in BinaryTags, x.kids = <<l, r>>, l <= Len(p), r <= Len(p),
           BinaryIn(l, p) => get_precedence(t[x.tok + 1]) < next_prec(OperatorIn(l, p, t)),
           BinaryIn(r, p) => get_precedence(OperatorIn(r, p, t)) >= next_prec(t[x.tok + 1])
    PROVE  NodeIn(Len(p) + 1, Append(p, x), t)
<1>1. /\ Append(p, x)[Len(p) + 1] = x /\ Len(p) \in Nat
      /\ \A m \in 1 .. Len(p) : Append(p, x)[m] = p[m]
    BY PushOne
<1>2. x.tag \notin UnaryTags
    BY DEF BinaryTags, UnaryTags
<1>3. Len(x.kids) = 2 /\ x.kids[1] = l /\ x.kids[2] = r /\ \A i \in 1 .. 2 : i = 1 \/ i = 2
    OBVIOUS
<1>4. /\ BinaryIn(l, Append(p, x)) <=> BinaryIn(l, p)
      /\ BinaryIn(r, Append(p, x)) <=> BinaryIn(r, p)
      /\ l # NULL => OperatorIn(l, Append(p, x), t) = OperatorIn(l, p, t)
      /\ r # NULL => OperatorIn(r, Append(p, x), t) = OperatorIn(r, p, t)
      /\ OperatorIn(Len(p) + 1, Append(p, x), t) = t[x.tok + 1]
    BY <1>1 DEF BinaryIn, OperatorIn, NULL
<1>5. l < Len(p) + 1 /\ r < Len(p) + 1
    BY <1>1
<1>7. \A i \in 1 .. Len(x.kids) : x.kids[i] < Len(p) + 1
    BY <1>3, <1>5
<1>8. /\ BinaryIn(l, p) => l # NULL
      /\ BinaryIn(r, p) => r # NULL
    BY DEF BinaryIn
<1> DEFINE q == Append(p, x)
           n == Len(p) + 1
<1>9. q[n] = x
    BY <1>1
<1>10. /\ BinaryIn(l, q) => get_precedence(OperatorIn(n, q, t)) < next_prec(OperatorIn(l, q, t))
       /\ BinaryIn(r, q) => get_precedence(OperatorIn(r, q, t)) >= next_prec(OperatorIn(n, q, t))
    BY <1>4, <1>8
<1> HIDE DEF q, n
<1>11. NodeIn(n, q, t)
    <2>1. \A i \in 1 .. Len(q[n].kids) : q[n].kids[i] < n
        BY <1>7, <1>9 DEF n
    <2>2. q[n].tag \notin UnaryTags /\ Len(q[n].kids) = 2 /\ q[n].kids[1] = l /\ q[n].kids[2] = r
        BY <1>2, <1>3, <1>9
    <2> QED
        BY <1>10, <2>1, <2>2 DEF NodeIn
<1> QED
    BY <1>11 DEF q, n

(***************************************************************************)
(* Steps on the pool and the frames.                                       *)
(***************************************************************************)

Node(tag, tok, kids) == [tag |-> tag, tok |-> tok, kids |-> kids]

(* What new_node did, once the types of the next state are known.          *)
LEMMA NewNodeFacts ==
    ASSUME TypeOK, TypeOK', NEW tag, NEW tok, NEW kids, new_node(tag, tok, kids)
    PROVE  /\ pool \in Seq(NodeType)
           /\ Node(tag, tok, kids) \in NodeType
           /\ pool' = Append(pool, Node(tag, tok, kids))
           /\ ret' = Len(pool) + 1 /\ ret' = Len(pool') /\ ret' # NULL
           /\ pool'[ret'] = Node(tag, tok, kids)
           /\ tok \in Nat /\ kids \in Seq(Nat)
<1>1. pool \in Seq(NodeType) /\ pool' \in Seq(NodeType) /\ pool' = Append(pool, Node(tag, tok, kids))
      /\ ret' = Len(pool) + 1
    BY DEF TypeOK, new_node, Node
<1>2. Len(pool') = Len(pool) + 1 /\ pool'[Len(pool) + 1] = Node(tag, tok, kids) /\ Len(pool) \in Nat
    BY <1>1
<1>3. pool'[Len(pool) + 1] \in NodeType
    BY <1>1, <1>2
<1>4. Node(tag, tok, kids) \in NodeType
    BY <1>2, <1>3
<1>5. tok \in Nat /\ kids \in Seq(Nat)
    BY <1>4 DEF NodeType, Node
<1> QED
    BY <1>1, <1>2, <1>4, <1>5 DEF NULL

(* Precedence is respected in every node a step adds.                      *)
THEOREM NodesStep ==
    IndInv /\ [Next]_vars => \A n \in 1 .. Len(pool') : NodeIn(n, pool', tokens')
<1> SUFFICES ASSUME IndInv, [Next]_vars
             PROVE  \A n \in 1 .. Len(pool') : NodeIn(n, pool', tokens')
    OBVIOUS
<1>1. /\ tokens' = tokens /\ TypeOK /\ TypeOK' /\ ReturnSound
      /\ pool \in Seq(NodeType) /\ ret \in Nat /\ ret <= Len(pool) /\ Len(pool) \in Nat
    BY TokensKept, TypeStep DEF IndInv, TypeOK, CallChain, ReturnSound
<1>2. \A n \in 1 .. Len(pool) : NodeIn(n, pool, tokens)
    BY NodesUnfold DEF IndInv, CallChain
<1>3. ASSUME NEW tag, NEW tok, NEW kids, new_node(tag, tok, kids),
             NodeIn(Len(pool) + 1, Append(pool, Node(tag, tok, kids)), tokens)
      PROVE  \A n \in 1 .. Len(pool') : NodeIn(n, pool', tokens')
    <2>1. /\ pool' = Append(pool, Node(tag, tok, kids)) /\ Node(tag, tok, kids) \in NodeType
          /\ Len(pool') = Len(pool) + 1
        BY <1>1, <1>3, NewNodeFacts
    <2>2. ASSUME NEW n \in 1 .. Len(pool')
          PROVE  NodeIn(n, pool', tokens')
        <3>1. CASE n = Len(pool) + 1
            BY <1>1, <1>3, <2>1, <3>1
        <3>2. CASE n # Len(pool) + 1
            <4>1. n \in 1 .. Len(pool)
                BY <1>1, <2>1, <3>2
            <4> QED
                BY <1>1, <1>2, <2>1, <4>1, NodeKept
        <3> QED
            BY <3>1, <3>2
    <2> QED
        BY <2>2
<1>4. ASSUME NEW tag \in LeafTags \cup PostfixTags, NEW tok, NEW kids, new_node(tag, tok, kids),
             \A i \in 1 .. Len(kids) : kids[i] <= Len(pool)
      PROVE  \A n \in 1 .. Len(pool') : NodeIn(n, pool', tokens')
    <2>1. Node(tag, tok, kids) \in NodeType
        BY <1>1, <1>4, NewNodeFacts
    <2>2. /\ Node(tag, tok, kids).tag \in LeafTags \cup PostfixTags
          /\ \A i \in 1 .. Len(Node(tag, tok, kids).kids) : Node(tag, tok, kids).kids[i] <= Len(pool)
        BY <1>4 DEF Node
    <2>3. NodeIn(Len(pool) + 1, Append(pool, Node(tag, tok, kids)), tokens)
        BY <1>1, <2>1, <2>2, NewOther
    <2> QED
        BY <1>3, <1>4, <2>3
<1>5. ASSUME pool' = pool
      PROVE  \A n \in 1 .. Len(pool') : NodeIn(n, pool', tokens')
    BY <1>1, <1>2, <1>5
<1>6. ASSUME stack # <<>>
      PROVE  /\ FrameIn(Caller, pool, tokens) /\ Caller.lhs \in Nat /\ Caller.args \in Seq(Nat)
             /\ \A i \in 1 .. Len(<<Caller.lhs>> \o ArgsAppended) :
                  (<<Caller.lhs>> \o ArgsAppended)[i] <= Len(pool)
             /\ \A i \in 1 .. Len(<<Caller.lhs, ret>>) : <<Caller.lhs, ret>>[i] <= Len(pool)
             /\ \A i \in 1 .. Len(<<ret>>) : <<ret>>[i] <= Len(pool)
    <2>1. Caller \in FrameType /\ FrameSound(Caller)
        BY <1>6, CallerFacts
    <2>2. FrameIn(Caller, pool, tokens)
        BY <2>1 DEF FrameSound, FrameIn, BindsLooser, IsBinary, Operator, BinaryIn, OperatorIn, Tok
    <2>3. Caller.lhs \in Nat /\ Caller.args \in Seq(Nat) /\ Caller.lhs <= Len(pool)
          /\ \A i \in 1 .. Len(Caller.args) : Caller.args[i] <= Len(pool)
        BY <2>1 DEF FrameType, FrameSound
    <2>4. \A i \in 1 .. Len(ArgsAppended) : ArgsAppended[i] <= Len(pool)
        BY <1>1, <2>3 DEF ArgsAppended
    <2>5. ArgsAppended \in Seq(Nat)
        BY <1>1, <2>3 DEF ArgsAppended
    <2>6. ASSUME NEW i \in 1 .. Len(<<Caller.lhs>> \o ArgsAppended)
          PROVE  (<<Caller.lhs>> \o ArgsAppended)[i] <= Len(pool)
        <3>1. CASE i = 1
            <4>1. (<<Caller.lhs>> \o ArgsAppended)[1] = Caller.lhs
                BY <2>3, <2>5
            <4> QED
                BY <2>3, <3>1, <4>1
        <3>2. CASE i # 1
            <4>1. <<Caller.lhs>> \in Seq(Nat) /\ Len(<<Caller.lhs>>) = 1
                BY <2>3
            <4>2. i - 1 \in 1 .. Len(ArgsAppended)
                BY <2>5, <3>2, <4>1
            <4>3. (<<Caller.lhs>> \o ArgsAppended)[i] = ArgsAppended[i - 1]
                BY <2>5, <3>2, <4>1, <4>2
            <4> QED
                BY <2>4, <4>2, <4>3
        <3> QED
            BY <3>1, <3>2
    <2>7. \A i \in 1 .. 2 : i = 1 \/ i = 2
        OBVIOUS
    <2> QED
        BY <1>1, <2>2, <2>3, <2>6, <2>7
<1>7. \A i \in 1 .. Len(<<>>) : <<>>[i] <= Len(pool)
    OBVIOUS
<1>8. CASE PrimaryIdentifier
    BY <1>4, <1>7, <1>8 DEF PrimaryIdentifier, new_literal, LeafTags
<1>9. CASE PrimaryLiteral
    <2>1. \A f \in DOMAIN LiteralAst : LiteralAst[f] \in LeafTags
        BY DEF LiteralAst, LeafTags
    <2>2. Tok(toki) \in DOMAIN LiteralAst /\ new_node(LiteralAst[Tok(toki)], toki, <<>>)
        BY <1>9 DEF PrimaryLiteral, new_literal
    <2>3. LiteralAst[Tok(toki)] \in LeafTags \cup PostfixTags
        BY <2>1, <2>2
    <2> QED
        BY <1>4, <1>7, <2>2, <2>3
<1>10. CASE PrimaryEnumLiteral
    BY <1>4, <1>7, <1>10 DEF PrimaryEnumLiteral, LeafTags
<1>11. CASE PostfixEmptyCall
    <2>1. \A i \in 1 .. Len(<<ret>>) : <<ret>>[i] <= Len(pool)
        BY <1>1
    <2> QED
        BY <1>4, <1>11, <2>1 DEF PostfixEmptyCall, PostfixTags
<1>12. CASE MemberField
    BY <1>4, <1>6, <1>12 DEF MemberField, ReturnTo, PostfixTags
<1>13. CASE CloseCall
    BY <1>4, <1>6, <1>13 DEF CloseCall, ReturnTo, PostfixTags
<1>14. CASE CloseIndex
    BY <1>4, <1>6, <1>14 DEF CloseIndex, ReturnTo, PostfixTags
<1>15. CASE CloseGroup
    BY <1>4, <1>6, <1>15 DEF CloseGroup, ReturnTo, PostfixTags
<1>16. CASE new_binary
    <2> DEFINE x == Node(BinaryAst(Tok(Caller.tok)), Caller.tok, <<Caller.lhs, ret>>)
    <2>1. /\ stack # <<>> /\ Caller.at = "rhs" /\ pc = "return"
          /\ new_node(BinaryAst(Tok(Caller.tok)), Caller.tok, <<Caller.lhs, ret>>)
        BY <1>16 DEF new_binary, ReturnTo
    <2>2. x \in NodeType
        BY <1>1, <2>1, NewNodeFacts
    <2>3. /\ Caller.lhs \in Nat /\ Caller.lhs <= Len(pool)
          /\ get_precedence(tokens[Caller.tok + 1]) # PREC_NONE
          /\ BinaryIn(Caller.lhs, pool) =>
               get_precedence(tokens[Caller.tok + 1]) < next_prec(OperatorIn(Caller.lhs, pool, tokens))
        BY <1>6, <2>1 DEF FrameIn
    <2>4. BinaryIn(ret, pool) =>
            get_precedence(OperatorIn(ret, pool, tokens)) >= next_prec(tokens[Caller.tok + 1])
        BY <1>1, <2>1 DEF ReturnSound, IsBinary, Operator, BinaryIn, OperatorIn, Tok
    <2>5. x.tag \in BinaryTags /\ x.kids = <<Caller.lhs, ret>> /\ x.tok = Caller.tok
        BY <2>3, OperatorsHaveNodes DEF Node, Tok
    <2> HIDE DEF x
    <2>6. NodeIn(Len(pool) + 1, Append(pool, x), tokens)
        BY <1>1, <2>2, <2>3, <2>4, <2>5, NewBinary
    <2> QED
        BY <1>3, <2>1, <2>6 DEF x
<1>17. CASE new_unary
    <2> DEFINE x == Node(UnaryAst[Tok(Caller.tok)], Caller.tok, <<ret>>)
    <2>1. /\ stack # <<>> /\ Caller.at = "operand" /\ pc = "return"
          /\ new_node(UnaryAst[Tok(Caller.tok)], Caller.tok, <<ret>>)
        BY <1>17 DEF new_unary, ReturnTo
    <2>2. x \in NodeType
        BY <1>1, <2>1, NewNodeFacts
    <2>3. tokens[Caller.tok + 1] \in DOMAIN UnaryAst
        BY <1>6, <2>1 DEF FrameIn
    <2>4. ~BinaryIn(ret, pool)
        BY <1>1, <2>1 DEF ReturnSound, IsBinary, BinaryIn
    <2>5. \A f \in DOMAIN UnaryAst : UnaryAst[f] \in UnaryTags
        BY DEF UnaryAst, UnaryTags
    <2>6. x.tag \in UnaryTags /\ x.kids = <<ret>>
        BY <2>3, <2>5 DEF Node, Tok
    <2> HIDE DEF x
    <2>7. NodeIn(Len(pool) + 1, Append(pool, x), tokens)
        BY <1>1, <2>2, <2>4, <2>6, NewUnary
    <2> QED
        BY <1>3, <2>1, <2>7 DEF x
<1>18. CASE \/ PrefixOperator \/ PrimaryGroup \/ PrimaryNone \/ PostfixMember \/ PostfixCall
            \/ PostfixIndex \/ PostfixEnd \/ MemberMissing \/ NextArgument \/ RepeatArgument
            \/ IndexMissing \/ ExpectTokenFails \/ TakeOperator \/ LeaveLoop \/ Finish
            \/ UNCHANGED vars
    <2>1. pool' = pool
        BY <1>18 DEF PrefixOperator, PrimaryGroup, PrimaryNone, PostfixMember, PostfixCall,
           PostfixIndex, PostfixEnd, MemberMissing, NextArgument, RepeatArgument, IndexMissing,
           ExpectTokenFails, TakeOperator, LeaveLoop, Finish, vars
    <2> QED
        BY <1>5, <2>1
<1> QED
    BY <1>8, <1>9, <1>10, <1>11, <1>12, <1>13, <1>14, <1>15, <1>16, <1>17, <1>18 DEF Next, Primary

(* The pool only grows, by at most one node a step: no node is changed or  *)
(* removed while Node* to it are in use.                                   *)
LEMMA PoolGrows ==
    IndInv /\ [Next]_vars => pool' = pool \/ \E x \in NodeType : pool' = Append(pool, x)
<1> SUFFICES ASSUME IndInv, [Next]_vars
             PROVE  pool' = pool \/ \E x \in NodeType : pool' = Append(pool, x)
    OBVIOUS
<1>1. TypeOK /\ TypeOK'
    BY TypeStep DEF IndInv
<1>2. pool' = pool \/ \E tag, tok, kids : new_node(tag, tok, kids)
    <2>1. CASE \/ PrimaryIdentifier \/ PrimaryLiteral \/ PrimaryEnumLiteral
               \/ PostfixEmptyCall \/ MemberField
        BY <2>1 DEF PrimaryIdentifier, PrimaryLiteral, PrimaryEnumLiteral, PostfixEmptyCall,
           MemberField, new_literal
    <2>2. CASE CloseCall \/ CloseIndex \/ CloseGroup \/ new_binary \/ new_unary
        BY <2>2 DEF CloseCall, CloseIndex, CloseGroup, new_binary, new_unary
    <2>3. CASE \/ PrefixOperator \/ PrimaryGroup \/ PrimaryNone \/ PostfixMember \/ PostfixCall
               \/ PostfixIndex \/ PostfixEnd \/ MemberMissing \/ NextArgument \/ RepeatArgument
               \/ IndexMissing \/ ExpectTokenFails \/ TakeOperator \/ LeaveLoop \/ Finish
               \/ UNCHANGED vars
        BY <2>3 DEF PrefixOperator, PrimaryGroup, PrimaryNone, PostfixMember, PostfixCall,
           PostfixIndex, PostfixEnd, MemberMissing, NextArgument, RepeatArgument, IndexMissing,
           ExpectTokenFails, TakeOperator, LeaveLoop, Finish, vars
    <2> QED
        BY <2>1, <2>2, <2>3 DEF Next, Primary
<1>3. ASSUME NEW tag, NEW tok, NEW kids, new_node(tag, tok, kids)
      PROVE  \E x \in NodeType : pool' = Append(pool, x)
    BY <1>1, <1>3, NewNodeFacts
<1> QED
    BY <1>2, <1>3

(* A frame that waits for an operand keeps a sound left operand.           *)
THEOREM FramesStep ==
    IndInv /\ [Next]_vars => \A i \in 1 .. Len(stack') : FrameIn(stack'[i], pool', tokens')
<1> SUFFICES ASSUME IndInv, [Next]_vars
             PROVE  \A i \in 1 .. Len(stack') : FrameIn(stack'[i], pool', tokens')
    OBVIOUS
<1>1. /\ tokens' = tokens /\ TypeOK' /\ ReturnSound /\ pool \in Seq(NodeType) /\ Len(pool) \in Nat
      /\ stack \in Seq(FrameType) /\ toki \in Nat /\ ret \in Nat /\ ret <= Len(pool)
      /\ NULL \in Nat /\ NULL <= Len(pool) /\ <<>> \in Seq(Nat) /\ 0 \in 0 .. 12 /\ 12 \in 0 .. 12
    BY TokensKept, TypeStep DEF IndInv, TypeOK, CallChain, ReturnSound, NULL
<1>2. \A i \in 1 .. Len(stack) : FrameIn(stack[i], pool, tokens)
    BY FramesUnfold DEF IndInv, CallChain
<1>3. \A i \in 1 .. Len(stack) : FrameIn(stack[i], pool', tokens')
    <2> SUFFICES ASSUME NEW i \in 1 .. Len(stack)
                 PROVE  FrameIn(stack[i], pool', tokens')
        OBVIOUS
    <2>1. stack[i] \in FrameType /\ FrameIn(stack[i], pool, tokens)
        BY <1>1, <1>2
    <2> QED
        BY <1>1, <2>1, PoolGrows, FrameKept
<1>4. ASSUME NEW m \in 0 .. 12
      PROVE  PrecedenceFrame(m) \in FrameType /\ FrameIn(PrecedenceFrame(m), pool, tokens)
    <2>1. \A i \in 1 .. Len(<<>>) : <<>>[i] <= Len(pool)
        OBVIOUS
    <2> QED
        BY <1>1, <2>1, PrecedenceFrameType DEF FrameIn, PrecedenceFrame, Frame
<1>5. ASSUME stack' = stack
      PROVE  \A i \in 1 .. Len(stack') : FrameIn(stack'[i], pool', tokens')
    BY <1>3, <1>5
<1>6. ASSUME stack # <<>>, stack' = Front(stack)
      PROVE  \A i \in 1 .. Len(stack') : FrameIn(stack'[i], pool', tokens')
    <2>1. Len(stack') = Len(stack) - 1 /\ \A i \in 1 .. Len(stack') : stack'[i] = stack[i]
        BY <1>1, <1>6, PopOne
    <2>2. \A i \in 1 .. Len(stack') : i \in 1 .. Len(stack)
        BY <1>1, <2>1
    <2> QED
        BY <1>3, <2>1, <2>2
<1>7. ASSUME NEW s \in Seq(FrameType), NEW f \in FrameType, NEW g \in FrameType,
             \A i \in 1 .. Len(s) : FrameIn(s[i], pool, tokens),
             FrameIn(f, pool, tokens), FrameIn(g, pool, tokens),
             stack' = s \o <<f, g>>, pool' = pool
      PROVE  \A i \in 1 .. Len(stack') : FrameIn(stack'[i], pool', tokens')
    <2>1. /\ Len(stack') = Len(s) + 2 /\ Len(s) \in Nat
          /\ \A i \in 1 .. Len(s) : stack'[i] = s[i]
          /\ stack'[Len(s) + 1] = f /\ stack'[Len(s) + 2] = g
        BY <1>7, PushTwo
    <2>2. \A i \in 1 .. Len(stack') : i \in 1 .. Len(s) \/ i = Len(s) + 1 \/ i = Len(s) + 2
        BY <2>1
    <2> QED
        BY <1>1, <1>7, <2>1, <2>2
<1>8. ASSUME NEW at \in FrameAt, NEW l \in Nat, NEW m \in 0 .. 12, l <= Len(pool), pool' = pool,
             stack' = stack \o <<Frame(at, 0, toki, l, <<>>), PrecedenceFrame(m)>>,
             FrameIn(Frame(at, 0, toki, l, <<>>), pool, tokens)
      PROVE  \A i \in 1 .. Len(stack') : FrameIn(stack'[i], pool', tokens')
    <2>1. Frame(at, 0, toki, l, <<>>) \in FrameType
        BY <1>1, FrameTypes
    <2> QED
        BY <1>1, <1>2, <1>4, <1>7, <1>8, <2>1
<1>9. ASSUME NEW at, NEW l, l <= Len(pool), at \in {"group", "args", "index", "member"},
             at # "group" => l # NULL
      PROVE  FrameIn(Frame(at, 0, toki, l, <<>>), pool, tokens)
    <2>1. \A i \in 1 .. Len(<<>>) : <<>>[i] <= Len(pool)
        OBVIOUS
    <2> QED
        BY <1>9, <2>1 DEF FrameIn, Frame
<1> USE DEF FrameAt
<1>10. CASE PrefixOperator
    <2>1. Tok(toki) \in DOMAIN UnaryAst /\ pool' = pool
          /\ stack' = stack \o <<Frame("operand", 0, toki, NULL, <<>>), PrecedenceFrame(12)>>
        BY <1>10 DEF PrefixOperator, PREC_UNARY
    <2>2. \A i \in 1 .. Len(<<>>) : <<>>[i] <= Len(pool)
        OBVIOUS
    <2>3. FrameIn(Frame("operand", 0, toki, NULL, <<>>), pool, tokens)
        BY <1>1, <2>1, <2>2 DEF FrameIn, Frame, Tok
    <2> QED
        BY <1>1, <1>8, <2>1, <2>3
<1>11. CASE PrimaryGroup
    <2>1. FrameIn(Frame("group", 0, toki, NULL, <<>>), pool, tokens)
        BY <1>1, <1>9
    <2> QED
        BY <1>1, <1>8, <1>11, <2>1 DEF PrimaryGroup
<1>12. CASE PostfixCall
    <2>1. ret # NULL
        BY <1>1, <1>12 DEF PostfixCall, ReturnSound
    <2>2. FrameIn(Frame("args", 0, toki, ret, <<>>), pool, tokens)
        BY <1>1, <1>9, <2>1
    <2> QED
        BY <1>1, <1>8, <1>12, <2>2 DEF PostfixCall
<1>13. CASE PostfixIndex
    <2>1. ret # NULL
        BY <1>1, <1>13 DEF PostfixIndex, ReturnSound
    <2>2. FrameIn(Frame("index", 0, toki, ret, <<>>), pool, tokens)
        BY <1>1, <1>9, <2>1
    <2> QED
        BY <1>1, <1>8, <1>13, <2>2 DEF PostfixIndex
<1>14. CASE PostfixMember
    <2>1. ret # NULL /\ pool' = pool
        BY <1>1, <1>14 DEF PostfixMember, ReturnSound
    <2>2. FrameIn(Frame("member", 0, toki, ret, <<>>), pool, tokens)
        BY <1>1, <1>9, <2>1
    <2>3. Frame("member", 0, toki, ret, <<>>) \in FrameType
        BY <1>1, FrameTypes
    <2>4. /\ Len(stack') = Len(stack) + 1
          /\ \A i \in 1 .. Len(stack) : stack'[i] = stack[i]
          /\ stack'[Len(stack) + 1] = Frame("member", 0, toki, ret, <<>>)
        BY <1>1, <1>14, <2>3, PushOne DEF PostfixMember
    <2>5. \A i \in 1 .. Len(stack') : i \in 1 .. Len(stack) \/ i = Len(stack) + 1
        BY <1>1, <2>4
    <2> QED
        BY <1>1, <1>2, <2>1, <2>2, <2>4, <2>5
<1>15. CASE TakeOperator
    <2>1. /\ pc = "return" /\ stack # <<>> /\ Caller.at = "precedence" /\ pool' = pool
          /\ get_precedence(tokens[toki + 1]) # PREC_NONE
          /\ stack' = stack \o <<Frame("rhs", 0, toki, ret, <<>>),
                                 PrecedenceFrame(next_prec(Tok(toki)))>>
        BY <1>15 DEF TakeOperator, ReturnTo, TakesOperator, Tok
    <2>2. BinaryIn(ret, pool) =>
            get_precedence(tokens[toki + 1]) < next_prec(OperatorIn(ret, pool, tokens))
        <3>1. IsBinary(ret) => ~TakesOperator(next_prec(Operator(ret)))
            BY <1>1, <2>1 DEF ReturnSound
        <3>2. IsBinary(ret) => ~(get_precedence(tokens[toki + 1]) >= next_prec(Operator(ret)))
            BY <2>1, <3>1 DEF TakesOperator, Tok
        <3>3. get_precedence(tokens[toki + 1]) \in Int /\ next_prec(Operator(ret)) \in Int
            BY PrecedenceRange, NextPrecRange
        <3>4. (IsBinary(ret) <=> BinaryIn(ret, pool)) /\ Operator(ret) = OperatorIn(ret, pool, tokens)
            BY DEF IsBinary, BinaryIn, Operator, OperatorIn, Tok
        <3> QED
            BY <3>2, <3>3, <3>4
    <2>3. \A i \in 1 .. Len(<<>>) : <<>>[i] <= Len(pool)
        OBVIOUS
    <2>4. FrameIn(Frame("rhs", 0, toki, ret, <<>>), pool, tokens)
        BY <1>1, <2>1, <2>2, <2>3 DEF FrameIn, Frame
    <2>5. next_prec(Tok(toki)) \in 0 .. 12
        BY NextPrecRange, PrecedenceRange
    <2> QED
        BY <1>1, <1>8, <2>1, <2>4, <2>5
<1>16. CASE NextArgument \/ RepeatArgument
    <2> DEFINE g == [Caller EXCEPT !.args = ArgsAppended]
    <2>1. /\ stack # <<>> /\ Caller.at = "args" /\ pool' = pool
          /\ stack' = Front(stack) \o <<g, PrecedenceFrame(0)>>
        BY <1>16 DEF NextArgument, RepeatArgument, ReturnTo, ParseNextArgument
    <2>2. /\ Caller \in FrameType /\ Caller.args \in Seq(Nat) /\ Caller.lhs \in Nat
          /\ Caller.lhs <= Len(pool) /\ Caller.lhs # NULL
          /\ \A i \in 1 .. Len(Caller.args) : Caller.args[i] <= Len(pool)
          /\ Front(stack) \in Seq(FrameType) /\ Len(Front(stack)) = Len(stack) - 1
          /\ \A i \in 1 .. Len(stack) - 1 : Front(stack)[i] = stack[i]
        BY <2>1, CallerFacts DEF FrameType, FrameSound
    <2>3. ArgsAppended \in Seq(Nat) /\ \A i \in 1 .. Len(ArgsAppended) : ArgsAppended[i] <= Len(pool)
        BY <1>1, <2>2 DEF ArgsAppended
    <2>4. g \in FrameType /\ g.at = "args" /\ g.lhs = Caller.lhs /\ g.args = ArgsAppended
        BY <2>1, <2>2, <2>3 DEF FrameType
    <2> HIDE DEF g
    <2>5. FrameIn(g, pool, tokens)
        BY <2>2, <2>3, <2>4 DEF FrameIn
    <2>6. \A i \in 1 .. Len(Front(stack)) : FrameIn(Front(stack)[i], pool, tokens)
        BY <1>1, <1>2, <2>2
    <2> QED
        BY <1>1, <1>4, <1>7, <2>1, <2>2, <2>4, <2>5, <2>6
<1>17. CASE \/ LeaveLoop \/ new_binary \/ new_unary \/ CloseGroup \/ MemberField
            \/ MemberMissing \/ CloseCall \/ CloseIndex
    BY <1>6, <1>17 DEF LeaveLoop, new_binary, new_unary, CloseGroup, MemberField, MemberMissing,
       CloseCall, CloseIndex, ReturnTo, Pop
<1>18. CASE \/ PrimaryIdentifier \/ PrimaryLiteral \/ PrimaryEnumLiteral \/ PrimaryNone
            \/ PostfixEmptyCall \/ PostfixEnd \/ IndexMissing \/ ExpectTokenFails \/ Finish
            \/ UNCHANGED vars
    BY <1>5, <1>18 DEF PrimaryIdentifier, PrimaryLiteral, PrimaryEnumLiteral, PrimaryNone,
       PostfixEmptyCall, PostfixEnd, IndexMissing, ExpectTokenFails, Finish, vars
<1> QED
    BY <1>10, <1>11, <1>12, <1>13, <1>14, <1>15, <1>16, <1>17, <1>18 DEF Next, Primary

(* What a call returns fits where its caller is going to put it.           *)
THEOREM ReturnStep == IndInv /\ [Next]_vars => ReturnSound'
<1> SUFFICES ASSUME IndInv, [Next]_vars
             PROVE  ReturnSound'
    OBVIOUS
<1>1. /\ tokens' = tokens /\ TypeOK /\ TypeOK' /\ ReturnSound /\ StackShape
      /\ pool \in Seq(NodeType) /\ stack \in Seq(FrameType)
      /\ ret \in Nat /\ ret <= Len(pool) /\ Len(pool) \in Nat
    BY TokensKept, TypeStep DEF IndInv, TypeOK, CallChain, ReturnSound
<1>2. ASSUME ret' <= Len(pool'), pc' \notin {"postfix", "return"}
      PROVE  ReturnSound'
    BY <1>2 DEF ReturnSound
<1>3. ASSUME ret' <= Len(pool'), ~BinaryIn(ret', pool'), pc' = "postfix" => ret' # NULL,
             pc' = "return" /\ stack' # <<>> => Last(stack').at # "rhs"
      PROVE  ReturnSound'
    BY <1>3 DEF ReturnSound, IsBinary, BinaryIn, Caller
<1>4. ASSUME NEW tag \in LeafTags \cup PostfixTags \cup UnaryTags, NEW tok, NEW kids,
             new_node(tag, tok, kids)
      PROVE  ret' <= Len(pool') /\ ~BinaryIn(ret', pool') /\ ret' # NULL
    <2>1. /\ ret' = Len(pool') /\ ret' # NULL /\ pool'[ret'] = Node(tag, tok, kids)
          /\ ret' = Len(pool) + 1
        BY <1>1, <1>4, NewNodeFacts
    <2>2. Node(tag, tok, kids).tag \notin BinaryTags
        BY DEF Node, LeafTags, PostfixTags, UnaryTags, BinaryTags
    <2> QED
        BY <1>1, <2>1, <2>2 DEF BinaryIn
<1>5. ASSUME stack # <<>>, stack' = Front(stack),
             Caller.at \in {"operand", "group", "member", "args", "index"}
      PROVE  stack' # <<>> /\ Last(stack').at \in {"precedence", "member"}
    BY <1>1, <1>5, ChainPop DEF StackShape, Caller, Calls
<1>6. /\ \A f \in DOMAIN LiteralAst : LiteralAst[f] \in LeafTags
      /\ \A f \in DOMAIN UnaryAst : UnaryAst[f] \in UnaryTags
    BY DEF LiteralAst, LeafTags, UnaryAst, UnaryTags
<1>7. ~BinaryIn(NULL, pool') /\ NULL <= Len(pool)
    BY <1>1 DEF BinaryIn, NULL
<1>8. pc \in {"unary", "primary", "postfix"} => stack # <<>> /\ Last(stack).at \in {"precedence", "member"}
    BY <1>1 DEF StackShape, Caller
<1>10. CASE PrefixOperator \/ PrimaryGroup \/ PostfixMember \/ PostfixCall \/ PostfixIndex
    BY <1>1, <1>2, <1>10 DEF PrefixOperator, PrimaryGroup, PostfixMember, PostfixCall, PostfixIndex
<1>11. CASE TakeOperator \/ NextArgument \/ RepeatArgument
    BY <1>1, <1>2, <1>11 DEF TakeOperator, NextArgument, RepeatArgument
<1>12. CASE IndexMissing \/ ExpectTokenFails \/ Finish
    BY <1>1, <1>2, <1>12 DEF IndexMissing, ExpectTokenFails, Finish
<1>13. CASE PrimaryIdentifier
    <2>1. new_node("AST_IDENTIFIER", toki, <<>>) /\ pc' = "postfix"
        BY <1>13 DEF PrimaryIdentifier, new_literal
    <2> QED
        BY <1>3, <1>4, <2>1 DEF LeafTags
<1>14. CASE PrimaryLiteral
    <2>1. /\ new_node(LiteralAst[Tok(toki)], toki, <<>>) /\ stack' = stack
          /\ Tok(toki) \in DOMAIN LiteralAst /\ pc \in {"unary", "primary"}
        BY <1>14 DEF PrimaryLiteral, new_literal, AtPrimary
    <2>2. LiteralAst[Tok(toki)] \in LeafTags
        BY <1>6, <2>1
    <2> QED
        BY <1>3, <1>4, <1>8, <2>1, <2>2
<1>15. CASE PrimaryEnumLiteral
    <2>1. /\ new_node("AST_ENUM_LITERAL", toki + 1, <<>>) /\ stack' = stack
          /\ pc \in {"unary", "primary"}
        BY <1>15 DEF PrimaryEnumLiteral, AtPrimary
    <2> QED
        BY <1>3, <1>4, <1>8, <2>1 DEF LeafTags
<1>16. CASE PrimaryNone
    <2>1. ret' = NULL /\ pool' = pool /\ stack' = stack /\ pc \in {"unary", "primary"} /\ pc' = "return"
        BY <1>16 DEF PrimaryNone, AtPrimary
    <2> QED
        BY <1>3, <1>7, <1>8, <2>1
<1>17. CASE PostfixEmptyCall
    <2>1. new_node("AST_CALL", pool[ret].tok, <<ret>>) /\ pc' = "postfix"
        BY <1>17 DEF PostfixEmptyCall
    <2> QED
        BY <1>3, <1>4, <2>1 DEF PostfixTags
<1>18. CASE PostfixEnd
    <2>1. ret' = ret /\ pool' = pool /\ stack' = stack /\ pc = "postfix" /\ pc' = "return"
        BY <1>18 DEF PostfixEnd
    <2>2. ~BinaryIn(ret', pool')
        BY <1>1, <2>1 DEF ReturnSound, IsBinary, BinaryIn
    <2> QED
        BY <1>1, <1>3, <1>8, <2>1, <2>2
<1>19. CASE MemberField \/ CloseCall \/ CloseIndex
    <2>1. PICK tag, tok, kids : tag \in PostfixTags /\ new_node(tag, tok, kids)
        BY <1>19 DEF MemberField, CloseCall, CloseIndex, PostfixTags
    <2>2. pc' = "postfix"
        BY <1>19 DEF MemberField, CloseCall, CloseIndex
    <2> QED
        BY <1>3, <1>4, <2>1, <2>2
<1>20. CASE CloseGroup
    <2>1. /\ new_node("AST_GROUPED_EXPR", Caller.tok, <<ret>>) /\ stack' = Front(stack)
          /\ stack # <<>> /\ Caller.at = "group" /\ pc' = "return"
        BY <1>20 DEF CloseGroup, ReturnTo, Pop
    <2> QED
        BY <1>3, <1>4, <1>5, <2>1 DEF PostfixTags
<1>21. CASE MemberMissing
    <2>1. /\ ret' = NULL /\ pool' = pool /\ stack' = Front(stack)
          /\ stack # <<>> /\ Caller.at = "member" /\ pc' = "return"
        BY <1>21 DEF MemberMissing, ReturnTo, Pop
    <2> QED
        BY <1>3, <1>5, <1>7, <2>1
<1>22. CASE new_unary
    <2>1. /\ new_node(UnaryAst[Tok(Caller.tok)], Caller.tok, <<ret>>) /\ stack' = Front(stack)
          /\ stack # <<>> /\ Caller.at = "operand" /\ pc' = "return"
        BY <1>22 DEF new_unary, ReturnTo, Pop
    <2>2. UnaryAst[Tok(Caller.tok)] \in UnaryTags
        BY <1>6, <2>1, CallerFacts DEF FrameSound
    <2> QED
        BY <1>3, <1>4, <1>5, <2>1, <2>2
<1>23. CASE new_binary
    <2> DEFINE kind == Tok(Caller.tok)
    <2>1. /\ new_node(BinaryAst(kind), Caller.tok, <<Caller.lhs, ret>>) /\ stack' = Front(stack)
          /\ stack # <<>> /\ Caller.at = "rhs" /\ pc = "return" /\ pc' = "return" /\ toki' = toki
        BY <1>23 DEF new_binary, ReturnTo, Pop
    <2>2. /\ stack' # <<>> /\ Last(stack').at = "precedence"
          /\ get_precedence(kind) >= Last(stack').min
        BY <1>1, <2>1, ChainPop DEF StackShape, Caller, Calls
    <2>3. /\ ret' = Len(pool') /\ pool'[ret'] = Node(BinaryAst(kind), Caller.tok, <<Caller.lhs, ret>>)
        BY <1>1, <2>1, NewNodeFacts
    <2>4. Operator(ret)' = kind
        BY <1>1, <2>3 DEF Operator, Tok, Node
    <2>5. ~TakesOperator(next_prec(kind))
        BY <1>1, <2>1 DEF ReturnSound
    <2>6. (~TakesOperator(next_prec(Operator(ret))))'
        BY <1>1, <2>1, <2>4, <2>5 DEF TakesOperator, Tok
    <2>7. ret' <= Len(pool')
        BY <1>1, <2>1, <2>3, NewNodeFacts
    <2> HIDE DEF kind
    <2> QED
        BY <2>1, <2>2, <2>4, <2>6, <2>7 DEF ReturnSound, Caller
<1>24. CASE LeaveLoop
    <2>1. /\ stack # <<>> /\ Caller.at = "precedence" /\ pc = "return" /\ pc' = "return"
          /\ ~TakesOperator(Caller.min) /\ stack' = Front(stack)
          /\ toki' = toki /\ pool' = pool /\ ret' = ret
        BY <1>24 DEF LeaveLoop, ReturnTo, Pop
    <2>2. IsBinary(ret) => get_precedence(Operator(ret)) >= Caller.min
        BY <1>1, <2>1 DEF ReturnSound
    <2>3. CASE stack' = <<>>
        BY <1>1, <2>1, <2>3 DEF ReturnSound
    <2>4. CASE stack' # <<>>
        <3>1. /\ Last(stack').at \in {"operand", "rhs", "group", "args", "index"}
              /\ Caller.min = CalleeMin(Last(stack'))
            BY <1>1, <2>1, <2>4, ChainPop DEF StackShape, Caller, Calls
        <3>2. CASE Last(stack').at = "rhs"
            <4>1. Caller.min = next_prec(Tok(Last(stack').tok))
                BY <3>1, <3>2 DEF CalleeMin
            <4>2. /\ IsBinary(ret)' => IsBinary(ret)
                  /\ Operator(ret)' = Operator(ret)
                BY <1>1, <2>1 DEF IsBinary, Operator, Tok
            <4>3. (~TakesOperator(next_prec(Tok(Caller.tok))))'
                BY <1>1, <2>1, <4>1 DEF TakesOperator, Tok, Caller
            <4>4. (next_prec(Tok(Caller.tok)))' = Caller.min
                BY <1>1, <4>1 DEF Tok, Caller
            <4>5. Caller' = Last(stack')
                BY DEF Caller
            <4> QED
                BY <1>1, <2>1, <2>2, <3>2, <4>2, <4>3, <4>4, <4>5 DEF ReturnSound
        <3>3. CASE Last(stack').at # "rhs"
            <4>1. Last(stack').at = "operand" => ~IsBinary(ret)
                <5>1. Last(stack').at = "operand" => Caller.min = 12
                    BY <3>1 DEF CalleeMin, PREC_UNARY
                <5>2. get_precedence(Operator(ret)) \in 0 .. 11
                    BY PrecedenceRange
                <5> QED
                    BY <2>2, <5>1, <5>2
            <4>2. IsBinary(ret)' => IsBinary(ret)
                BY <2>1 DEF IsBinary
            <4> QED
                BY <1>1, <2>1, <3>1, <3>3, <4>1, <4>2 DEF ReturnSound, Caller
        <3> QED
            BY <3>2, <3>3
    <2> QED
        BY <2>3, <2>4
<1>25. CASE UNCHANGED vars
    BY <1>1, <1>25 DEF vars, ReturnSound, Caller, TakesOperator, IsBinary, Operator, Tok
<1> QED
    BY <1>10, <1>11, <1>12, <1>13, <1>14, <1>15, <1>16, <1>17, <1>18, <1>19, <1>20, <1>21, <1>22,
       <1>23, <1>24, <1>25 DEF Next, Primary

(***************************************************************************)
(* The theorems.                                                           *)
(***************************************************************************)

(* The parser starts in the strengthening.                                 *)
THEOREM InitInv == Init => IndInv
<1> SUFFICES ASSUME Init
             PROVE  IndInv
    OBVIOUS
<1>1. /\ tokens \in Inputs /\ toki = 0 /\ current = tokens[1] /\ pool = <<>> /\ ret = 0
      /\ stack = <<PrecedenceFrame(0)>> /\ reported = FALSE /\ pc = "unary"
    BY DEF Init, NULL
<1>2. tokens \in Seq(STRING) /\ Len(tokens) \in Nat /\ 0 < Len(tokens) /\ current \in STRING
    BY <1>1, InputsAssumption
<1>3. PrecedenceFrame(0) \in FrameType /\ PrecedenceFrame(0).at = "precedence"
      /\ PrecedenceFrame(0).lhs = 0 /\ PrecedenceFrame(0).args = <<>>
    <2>1. 0 \in 0 .. 12
        OBVIOUS
    <2> QED
        BY <2>1, PrecedenceFrameType DEF PrecedenceFrame, Frame, NULL
<1>4. /\ stack \in Seq(FrameType) /\ Len(stack) = 1 /\ stack[1] = PrecedenceFrame(0)
      /\ Caller = PrecedenceFrame(0) /\ stack # <<>>
    BY <1>1, <1>3 DEF Caller, Last
<1>5. pool \in Seq(NodeType) /\ Len(pool) = 0 /\ \A n \in 1 .. Len(pool) : FALSE
    BY <1>1
<1>6. TypeOK
    BY <1>1, <1>2, <1>4, <1>5 DEF TypeOK
<1>7. CursorSound
    BY <1>1, <1>2 DEF CursorSound, Tok
<1>8. PrecedenceRespected /\ UnaryBindsTightest /\ \A n \in 1 .. Len(pool) : NodeSound(n)
    BY <1>5 DEF PrecedenceRespected, UnaryBindsTightest
<1>9. StackShape
    <2>1. \A i \in 1 .. Len(stack) - 1 : FALSE
        BY <1>4
    <2> QED
        BY <1>1, <1>3, <1>4, <2>1 DEF StackShape, IsCallChain
<1>10. \A i \in 1 .. Len(stack) : FrameSound(stack[i])
    <2>1. \A i \in 1 .. Len(<<>>) : FALSE
        OBVIOUS
    <2>2. FrameSound(PrecedenceFrame(0))
        BY <1>3, <1>5, <2>1 DEF FrameSound
    <2>3. \A i \in 1 .. Len(stack) : i = 1
        BY <1>4
    <2> QED
        BY <1>4, <2>2, <2>3
<1>11. ReturnSound
    BY <1>1, <1>5 DEF ReturnSound
<1> QED
    BY <1>6, <1>7, <1>8, <1>9, <1>10, <1>11 DEF IndInv, CallChain

(* ... every step of the parser keeps it...                                *)
THEOREM NextInv == IndInv /\ [Next]_vars => IndInv'
<1> SUFFICES ASSUME IndInv, [Next]_vars
             PROVE  IndInv'
    OBVIOUS
<1>1. TypeOK' /\ CursorSound' /\ StackShape' /\ ReturnSound'
    BY TypeStep, CursorStep, ShapeStep, ReturnStep
<1>2. (/\ \A n \in 1 .. Len(pool) : NodeSound(n)
       /\ PrecedenceRespected
       /\ UnaryBindsTightest)'
    BY NodesStep, NodesUnfoldNext
<1>3. (\A i \in 1 .. Len(stack) : FrameSound(stack[i]))'
    BY FramesStep, FramesUnfoldNext
<1> QED
    BY <1>1, <1>2, <1>3 DEF IndInv, CallChain

(* ... so it holds in every run on every text.                             *)
THEOREM Invariance == Spec => []IndInv
    BY InitInv, NextInv, PTL DEF Spec

(* In every run on every text the parser's state is well typed.            *)
THEOREM TypeCorrect == Spec => []TypeOK
    BY Invariance, PTL DEF IndInv

(* The cursor never leaves the token array, and Ast::current is never      *)
(* stale, whatever is parsed.                                              *)
THEOREM CursorIsSound == Spec => []CursorSound
    BY Invariance, PTL DEF IndInv

(* The inductive strengthening holds in every state.                       *)
THEOREM CallChainHolds == Spec => []CallChain
    BY Invariance, PTL DEF IndInv

(* Every tree the parser builds respects precedence and associativity.     *)
THEOREM PrecedenceIsRespected == Spec => []PrecedenceRespected
    BY Invariance, PTL DEF IndInv

(* A prefix operator never has a binary operand.                           *)
THEOREM UnaryIsTightest == Spec => []UnaryBindsTightest
    BY Invariance, PTL DEF IndInv

(* Both together, for every text.                                          *)
THEOREM OperatorsBindRight == Spec => []OperatorsBind
    BY PrecedenceIsRespected, UnaryIsTightest, PTL DEF OperatorsBind

(***************************************************************************)
(* The depth of the recursion.                                             *)
(***************************************************************************)

Depth(s) == Len(s) + (IF s # <<>> /\ Last(s).at # "precedence" THEN 1 ELSE 0)

(* A step that calls deeper has consumed a token.                          *)
THEOREM DepthStep == IndInv /\ DepthBounded /\ [Next]_vars => DepthBounded'
<1> SUFFICES ASSUME IndInv, DepthBounded, [Next]_vars
             PROVE  Depth(stack') <= 2 * toki' + 1
    BY DEF DepthBounded, Depth, Caller
<1>1. /\ TypeOK /\ StackShape /\ stack \in Seq(FrameType) /\ toki \in Nat /\ ret \in Nat
      /\ Len(stack) \in Nat /\ Depth(stack) <= 2 * toki + 1
      /\ NULL \in Nat /\ <<>> \in Seq(Nat) /\ 0 \in 0 .. 12 /\ 12 \in 0 .. 12
    BY DEF IndInv, TypeOK, CallChain, DepthBounded, Depth, Caller, NULL
<1>2. Len(stack) <= 2 * toki + 1
    BY <1>1 DEF Depth
<1>3. ASSUME NEW at \in FrameAt, NEW l \in Nat, NEW m \in 0 .. 12, toki' = toki + 1,
             stack' = stack \o <<Frame(at, 0, toki, l, <<>>), PrecedenceFrame(m)>>
      PROVE  Depth(stack') <= 2 * toki' + 1
    <2>1. Frame(at, 0, toki, l, <<>>) \in FrameType /\ PrecedenceFrame(m) \in FrameType
        BY <1>1, FrameTypes, PrecedenceFrameType
    <2>2. Len(stack') = Len(stack) + 2 /\ Last(stack') = PrecedenceFrame(m)
        BY <1>1, <1>3, <2>1, PushTwo
    <2>3. Last(stack').at = "precedence"
        BY <2>2 DEF PrecedenceFrame, Frame
    <2> QED
        BY <1>1, <1>2, <1>3, <2>2, <2>3 DEF Depth
<1>4. ASSUME stack # <<>>, stack' = Front(stack), toki' = toki \/ toki' = toki + 1
      PROVE  Depth(stack') <= 2 * toki' + 1
    <2>1. Len(stack') = Len(stack) - 1
        BY <1>1, <1>4, PopOne
    <2>2. Depth(stack') = Len(stack') \/ Depth(stack') = Len(stack') + 1
        BY <1>1, <2>1 DEF Depth
    <2> QED
        BY <1>1, <1>2, <1>4, <2>1, <2>2
<1>5. ASSUME stack' = stack, toki' \in {toki, toki + 1, toki + 2}
      PROVE  Depth(stack') <= 2 * toki' + 1
    <2>1. Depth(stack) \in Nat
        BY <1>1 DEF Depth
    <2> QED
        BY <1>1, <1>5, <2>1
<1> USE DEF FrameAt, advance
<1>6. CASE PrefixOperator
    BY <1>1, <1>3, <1>6 DEF PrefixOperator, PREC_UNARY
<1>7. CASE PrimaryGroup
    BY <1>1, <1>3, <1>7 DEF PrimaryGroup
<1>8. CASE PostfixCall
    BY <1>1, <1>3, <1>8 DEF PostfixCall
<1>9. CASE PostfixIndex
    BY <1>1, <1>3, <1>9 DEF PostfixIndex
<1>10. CASE TakeOperator
    <2>1. next_prec(Tok(toki)) \in 0 .. 12
        BY NextPrecRange, PrecedenceRange
    <2> QED
        BY <1>1, <1>3, <1>10, <2>1 DEF TakeOperator
<1>11. CASE PostfixMember
    <2>1. Frame("member", 0, toki, ret, <<>>) \in FrameType
        BY <1>1, FrameTypes
    <2>2. Len(stack') = Len(stack) + 1 /\ toki' = toki + 1
        BY <1>1, <1>11, <2>1, PushOne DEF PostfixMember
    <2>3. Depth(stack') = Len(stack') \/ Depth(stack') = Len(stack') + 1
        BY <1>1, <2>2 DEF Depth
    <2> QED
        BY <1>1, <1>2, <2>2, <2>3
<1>12. CASE NextArgument \/ RepeatArgument
    <2> DEFINE g == [Caller EXCEPT !.args = ArgsAppended]
    <2>1. /\ stack # <<>> /\ Caller.at = "args" /\ toki' \in {toki, toki + 1}
          /\ stack' = Front(stack) \o <<g, PrecedenceFrame(0)>>
        BY <1>12 DEF NextArgument, RepeatArgument, ReturnTo, ParseNextArgument
    <2>2. Caller \in FrameType /\ ArgsAppended \in Seq(Nat)
        BY <1>1, <2>1, CallerFacts DEF FrameType, ArgsAppended
    <2>3. g \in FrameType /\ PrecedenceFrame(0) \in FrameType
        BY <1>1, <2>2, PrecedenceFrameType DEF FrameType
    <2> HIDE DEF g
    <2>4. /\ Len(stack') = Len(stack) + 1 /\ Last(stack') = PrecedenceFrame(0)
        BY <1>1, <2>1, <2>3, CallerFacts, PushTwo
    <2>5. Last(stack').at = "precedence"
        BY <2>4 DEF PrecedenceFrame, Frame
    <2>6. Depth(stack) = Len(stack) + 1
        BY <2>1 DEF Depth, Caller
    <2> QED
        BY <1>1, <2>1, <2>4, <2>5, <2>6 DEF Depth
<1>13. CASE \/ LeaveLoop \/ new_binary \/ new_unary \/ CloseGroup \/ MemberField
            \/ MemberMissing \/ CloseCall \/ CloseIndex
    BY <1>4, <1>13 DEF LeaveLoop, new_binary, new_unary, CloseGroup, MemberField, MemberMissing,
       CloseCall, CloseIndex, ReturnTo, Pop
<1>14. CASE \/ PrimaryIdentifier \/ PrimaryLiteral \/ PrimaryEnumLiteral \/ PrimaryNone
            \/ PostfixEmptyCall \/ PostfixEnd
    BY <1>5, <1>14 DEF PrimaryIdentifier, PrimaryLiteral, PrimaryEnumLiteral, PrimaryNone,
       PostfixEmptyCall, PostfixEnd, new_literal
<1>15. CASE IndexMissing \/ ExpectTokenFails \/ Finish \/ UNCHANGED vars
    BY <1>5, <1>15 DEF IndexMissing, ExpectTokenFails, Finish, vars
<1> QED
    BY <1>6, <1>7, <1>8, <1>9, <1>10, <1>11, <1>12, <1>13, <1>14, <1>15 DEF Next, Primary

(* The recursion of the parser never goes deeper than twice the number of  *)
(* tokens it has consumed, plus one: it cannot overflow the C++ stack      *)
(* without consuming input.                                                *)
THEOREM DepthIsBounded == Spec => []DepthBounded
<1>1. Init => DepthBounded
    <2> SUFFICES ASSUME Init
                 PROVE  DepthBounded
        OBVIOUS
    <2>1. toki = 0 /\ Len(stack) = 1 /\ Caller = PrecedenceFrame(0)
        BY DEF Init, Caller, Last
    <2> QED
        BY <2>1 DEF DepthBounded, PrecedenceFrame, Frame
<1>2. IndInv /\ DepthBounded /\ [Next]_vars => DepthBounded'
    BY DepthStep
<1> QED
    BY <1>1, <1>2, Invariance, PTL DEF Spec

(***************************************************************************)
(* SingleOwner.  A step moves pointers: each one in the state after comes  *)
(* from one place of the state before, and no two come from the same one.  *)
(***************************************************************************)

(* The places whose pointer is not null.                                   *)
Held == {p \in Places : Pointer(p) # NULL}

(* The pointer the last call returned.                                     *)
RetPlace == <<"ret", 0, 0>>

(* What stands for the node a step makes, which is at no place before.     *)
NewPlace == <<"new", 0, 0>>

(* The places, kind by kind.                                               *)
PlacesAre ==
    /\ \A n, i : <<"node", n, i>> \in Places <=>
           n \in 1 .. Len(pool) /\ i \in 1 .. Len(pool[n].kids)
    /\ \A k, i : <<"frame", k, i>> \in Places <=>
           k \in 1 .. Len(stack) /\ i \in 0 .. Len(stack[k].args)
    /\ RetPlace \in Places <=> pc \in {"postfix", "return", "done"}
    /\ NewPlace \notin Places
    /\ \A p \in Places : \/ \E n, i : p = <<"node", n, i>>
                         \/ \E k, i : p = <<"frame", k, i>>
                         \/ p = RetPlace

(* What a place is, before a step and after it.                            *)
LEMMA PlaceKinds == PlacesAre /\ PlacesAre'
    BY DEF PlacesAre, Places, NodePlaces, FramePlaces, RetPlace, NewPlace

(* The pointer at a place, kind by kind.                                   *)
PointersAre ==
    /\ \A n, i : Pointer(<<"node", n, i>>) = pool[n].kids[i]
    /\ \A k, i : Pointer(<<"frame", k, i>>) = IF i = 0 THEN stack[k].lhs ELSE stack[k].args[i]
    /\ Pointer(RetPlace) = ret

(* What is there.                                                          *)
LEMMA PlaceValues == PointersAre /\ PointersAre'
    BY DEF PointersAre, Pointer, RetPlace

(* Every pointer is to a node of the pool.                                 *)
LEMMA PointersInPool ==
    ASSUME IndInv, NEW p \in Held
    PROVE  Pointer(p) \in 1 .. Len(pool)
<1>1. /\ stack \in Seq(FrameType) /\ pool \in Seq(NodeType) /\ ret \in Nat
      /\ p \in Places /\ Pointer(p) # NULL
      /\ \A i \in 1 .. Len(stack) : FrameSound(stack[i])
      /\ \A n \in 1 .. Len(pool) : NodeSound(n)
      /\ ret <= Len(pool)
    BY DEF IndInv, TypeOK, CallChain, ReturnSound, Held
<1>2. CASE p = RetPlace
    BY <1>1, <1>2, PlaceValues DEF PointersAre, NULL
<1>3. CASE \E n, i : p = <<"node", n, i>>
    <2>1. PICK n, i : p = <<"node", n, i>>
        BY <1>3
    <2>2. n \in 1 .. Len(pool) /\ i \in 1 .. Len(pool[n].kids)
        BY <1>1, <2>1, PlaceKinds DEF PlacesAre
    <2>4. pool[n] \in NodeType /\ NodeSound(n)
        BY <1>1, <2>2
    <2>5. pool[n].kids \in Seq(Nat)
        BY <2>4 DEF NodeType
    <2>3. pool[n].kids[i] < n /\ pool[n].kids[i] \in Nat
        BY <2>2, <2>4, <2>5 DEF NodeSound
    <2> QED
        BY <1>1, <2>1, <2>2, <2>3, PlaceValues DEF PointersAre, NULL
<1>4. CASE \E k, i : p = <<"frame", k, i>>
    <2>1. PICK k, i : p = <<"frame", k, i>>
        BY <1>4
    <2>2. k \in 1 .. Len(stack) /\ i \in 0 .. Len(stack[k].args)
        BY <1>1, <2>1, PlaceKinds DEF PlacesAre
    <2>6. FrameSound(stack[k]) /\ stack[k] \in FrameType
        BY <1>1, <2>2
    <2>7. stack[k].lhs \in Nat /\ stack[k].args \in Seq(Nat)
        BY <2>6 DEF FrameType
    <2>3. /\ FrameSound(stack[k]) /\ stack[k].lhs \in Nat
          /\ \A j \in 1 .. Len(stack[k].args) : stack[k].args[j] \in Nat
        BY <2>6, <2>7
    <2>4. CASE i = 0
        BY <1>1, <2>1, <2>3, <2>4, PlaceValues DEF PointersAre, NULL, FrameSound
    <2>5. CASE i # 0
        <3>1. i \in 1 .. Len(stack[k].args)
            BY <2>2, <2>5
        <3>2. Pointer(p) = stack[k].args[i]
            BY <2>1, <2>5, PlaceValues DEF PointersAre
        <3> QED
            BY <1>1, <2>3, <3>1, <3>2 DEF NULL, FrameSound
    <2> QED
        BY <2>4, <2>5
<1> QED
    BY <1>1, <1>2, <1>3, <1>4, PlaceKinds DEF PlacesAre

(* The strengthening of SingleOwner: the second conjunct of it, which with   *)
(* IndInv is inductive.                                                    *)
OwnInv == \A p, q \in Held : Pointer(p) = Pointer(q) => p = q

(* A step in which every pointer comes from one place of the state before, *)
(* or is the one to the new node.                                          *)
LEMMA Moved ==
    ASSUME IndInv, OwnInv,
           NEW from \in [Held' -> Held \cup {NewPlace}],
           \A p \in Held' : from[p] = NewPlace => Pointer(p)' > Len(pool),
           \A p \in Held' : from[p] # NewPlace => Pointer(p)' = Pointer(from[p]),
           \A p, q \in Held' : from[p] = from[q] => p = q
    PROVE  OwnInv'
<1> SUFFICES ASSUME NEW p \in Held', NEW q \in Held', Pointer(p)' = Pointer(q)'
             PROVE  p = q
    BY DEF OwnInv
<1>1. from[p] \in Held \cup {NewPlace} /\ from[q] \in Held \cup {NewPlace}
    OBVIOUS
<1>0. Len(pool) \in Nat
    BY DEF IndInv, TypeOK
<1>2. CASE from[p] = NewPlace /\ from[q] = NewPlace
    BY <1>2
<1>3. CASE from[p] = NewPlace /\ from[q] # NewPlace
    BY <1>0, <1>1, <1>3, PointersInPool
<1>4. CASE from[p] # NewPlace /\ from[q] = NewPlace
    BY <1>0, <1>1, <1>4, PointersInPool
<1>5. CASE from[p] # NewPlace /\ from[q] # NewPlace
    BY <1>1, <1>5 DEF OwnInv
<1> QED
    BY <1>2, <1>3, <1>4, <1>5

(* A step that makes no node and hands the pointer that was returned to a  *)
(* place x at most.                                                        *)
LEMMA HandedOver ==
    ASSUME IndInv, OwnInv, NEW x,
           \A p \in Held' : p # x => p \in Held /\ Pointer(p)' = Pointer(p),
           x \in Held' => /\ RetPlace \in Places /\ RetPlace \notin Places'
                          /\ Pointer(x)' = Pointer(RetPlace)
    PROVE  OwnInv'
<1> DEFINE from == [p \in Held' |-> IF p = x THEN RetPlace ELSE p]
<1>0. NewPlace \notin Held
    BY PlaceKinds DEF PlacesAre, Held
<1>1. ASSUME NEW p \in Held'
      PROVE  from[p] \in Held /\ Pointer(p)' = Pointer(from[p])
    <2>1. CASE p = x
        BY <2>1 DEF Held
    <2>2. CASE p # x
        BY <2>2
    <2> QED
        BY <2>1, <2>2
<1>2. RetPlace \in Held' => x \notin Held'
    BY DEF Held
<1>3. \A p, q \in Held' : from[p] = from[q] => p = q
    BY <1>2
<1>4. from \in [Held' -> Held \cup {NewPlace}]
    BY <1>1
<1> HIDE DEF from
<1>5. \A p \in Held' : from[p] # NewPlace
    BY <1>0, <1>1
<1> QED
    BY <1>1, <1>3, <1>4, <1>5, Moved

(* Each kid is the pointer at a place of its own, which is gone after the  *)
(* step: what was returned, or the locals of the activation that ends.     *)
TakenFrom(src, kids) ==
    /\ \A i \in 1 .. Len(kids) :
           /\ src[i] \in Places /\ Pointer(src[i]) = kids[i]
           /\ \/ src[i] = RetPlace
              \/ stack' # stack /\ \E j : src[i] = <<"frame", Len(stack), j>>
    /\ \A i, j \in 1 .. Len(kids) : src[i] = src[j] => i = j

(* No activation ends, or the innermost one does.                          *)
EndsOne == stack' = stack \/ (stack # <<>> /\ stack' = Front(stack))

(* A step that makes a node of pointers it takes.                          *)
LEMMA NodeMade ==
    ASSUME IndInv, OwnInv, NEW tag, NEW tok, NEW kids \in Seq(Nat), new_node(tag, tok, kids),
           EndsOne, NEW src, TakenFrom(src, kids)
    PROVE  OwnInv'
<1>t. /\ stack' = stack \/ (stack # <<>> /\ stack' = Front(stack))
      /\ \A i \in 1 .. Len(kids) :
            /\ src[i] \in Places /\ Pointer(src[i]) = kids[i]
            /\ \/ src[i] = RetPlace
               \/ stack' # stack /\ \E j : src[i] = <<"frame", Len(stack), j>>
      /\ \A i, j \in 1 .. Len(kids) : src[i] = src[j] => i = j
    BY DEF EndsOne, TakenFrom
<1>s. /\ Len(stack') \in Nat /\ Len(stack') <= Len(stack)
      /\ \A k \in 1 .. Len(stack') : stack'[k] = stack[k]
      /\ stack' # stack => Len(stack) > Len(stack')
    <2>1. stack \in Seq(FrameType) /\ Len(stack) \in Nat
        BY DEF IndInv, TypeOK
    <2>2. CASE stack' = stack
        BY <2>1, <2>2
    <2>3. CASE stack # <<>> /\ stack' = Front(stack)
        <3>1. /\ Front(stack) \in Seq(FrameType) /\ Len(Front(stack)) = Len(stack) - 1
              /\ \A k \in 1 .. Len(stack) - 1 : Front(stack)[k] = stack[k] /\ Len(stack) >= 1
            BY <2>3, CallerFacts
        <3> QED
            BY <2>1, <2>3, <3>1
    <2> QED
        BY <1>t, <2>2, <2>3
<1>p. /\ Len(pool') = Len(pool) + 1 /\ \A n \in 1 .. Len(pool) : pool'[n] = pool[n]
      /\ pool'[Len(pool) + 1].kids = kids /\ ret' = Len(pool) + 1
    <2>1. pool \in Seq(NodeType)
        BY DEF IndInv, TypeOK
    <2> QED
        BY <2>1 DEF new_node
<1>f. \A i \in 1 .. Len(kids) :
          src[i] = RetPlace \/ (\E k, j : src[i] = <<"frame", k, j>> /\ k > Len(stack'))
    BY <1>s, <1>t
<1>n. PICK N \in Nat : N = Len(pool) + 1
    BY DEF IndInv, TypeOK
<1> DEFINE from == [p \in Held' |-> IF p = RetPlace THEN NewPlace
                                    ELSE IF p[1] = "node" /\ p[2] = N THEN src[p[3]] ELSE p]
<1>0. /\ Len(pool) \in Nat /\ Len(stack) \in Nat /\ NewPlace \notin Held
      /\ RetPlace # NewPlace /\ \A n, i : RetPlace # <<"node", n, i>>
      /\ \A k, i : RetPlace # <<"frame", k, i>>
    BY PlaceKinds DEF IndInv, TypeOK, PlacesAre, Held, RetPlace, NewPlace
<1>1. ASSUME NEW i, <<"node", N, i>> \in Held'
      PROVE  /\ i \in 1 .. Len(kids) /\ from[<<"node", N, i>>] = src[i] /\ src[i] \in Held
             /\ Pointer(<<"node", N, i>>)' = Pointer(src[i])
    <2>1. <<"node", N, i>> \in Places' /\ Pointer(<<"node", N, i>>)' # NULL
        BY <1>1 DEF Held
    <2>2. i \in 1 .. Len(kids)
        BY <1>n, <1>p, <2>1, PlaceKinds DEF PlacesAre
    <2>3. Pointer(<<"node", N, i>>)' = kids[i]
        BY <1>n, <1>p, PlaceValues DEF PointersAre
    <2> QED
        BY <1>0, <1>t, <1>1, <2>1, <2>2, <2>3 DEF Held
<1>2. ASSUME NEW n, NEW i, n # N, <<"node", n, i>> \in Held'
      PROVE  /\ from[<<"node", n, i>>] = <<"node", n, i>> /\ <<"node", n, i>> \in Held
             /\ Pointer(<<"node", n, i>>)' = Pointer(<<"node", n, i>>)
    <2>1. <<"node", n, i>> \in Places' /\ Pointer(<<"node", n, i>>)' # NULL
        BY <1>2 DEF Held
    <2>2. n \in 1 .. Len(pool') /\ i \in 1 .. Len(pool'[n].kids)
        BY <2>1, PlaceKinds DEF PlacesAre
    <2>3. n \in 1 .. Len(pool) /\ pool'[n] = pool[n]
        BY <1>n, <1>p, <1>0, <1>2, <2>2
    <2>4. <<"node", n, i>> \in Places
        BY <2>2, <2>3, PlaceKinds DEF PlacesAre
    <2>5. Pointer(<<"node", n, i>>)' = Pointer(<<"node", n, i>>)
        BY <2>3, PlaceValues DEF PointersAre
    <2> QED
        BY <1>0, <1>2, <2>1, <2>4, <2>5 DEF Held
<1>3. ASSUME NEW k, NEW i, <<"frame", k, i>> \in Held'
      PROVE  /\ from[<<"frame", k, i>>] = <<"frame", k, i>> /\ <<"frame", k, i>> \in Held
             /\ Pointer(<<"frame", k, i>>)' = Pointer(<<"frame", k, i>>)
             /\ k \in 1 .. Len(stack')
    <2>1. <<"frame", k, i>> \in Places' /\ Pointer(<<"frame", k, i>>)' # NULL
        BY <1>3 DEF Held
    <2>2. k \in 1 .. Len(stack') /\ i \in 0 .. Len(stack'[k].args)
        BY <2>1, PlaceKinds DEF PlacesAre
    <2>3. k \in 1 .. Len(stack) /\ stack'[k] = stack[k]
        BY <1>s, <1>0, <2>2
    <2>4. <<"frame", k, i>> \in Places
        BY <2>2, <2>3, PlaceKinds DEF PlacesAre
    <2>5. Pointer(<<"frame", k, i>>)' = Pointer(<<"frame", k, i>>)
        BY <2>3, PlaceValues DEF PointersAre
    <2> QED
        BY <1>0, <1>3, <2>1, <2>2, <2>4, <2>5 DEF Held
<1>4. RetPlace \in Held' => from[RetPlace] = NewPlace /\ Pointer(RetPlace)' = N
    BY <1>n, <1>p, PlaceValues DEF PointersAre
<1>5. ASSUME NEW p \in Held'
      PROVE  \/ p = RetPlace
             \/ \E i : p = <<"node", N, i>>
             \/ \E n, i : n # N /\ p = <<"node", n, i>>
             \/ \E k, i : p = <<"frame", k, i>>
    BY PlaceKinds DEF PlacesAre, Held
<1> HIDE DEF from
<1>d. /\ \A n, i, k, j : <<"node", n, i>> # <<"frame", k, j>>
      /\ \A m, i, k, j : <<"frame", m, i>> = <<"frame", k, j>> => m = k
    OBVIOUS
<1>6. ASSUME NEW p \in Held'
      PROVE  \/ p = RetPlace
             \/ from[p] \in Held /\ from[p] # NewPlace /\ Pointer(p)' = Pointer(from[p])
    <2>1. ASSUME NEW i, p = <<"node", N, i>>
          PROVE  from[p] \in Held /\ Pointer(p)' = Pointer(from[p])
        BY <1>1, <2>1
    <2>2. ASSUME NEW n, NEW i, n # N, p = <<"node", n, i>>
          PROVE  from[p] \in Held /\ Pointer(p)' = Pointer(from[p])
        <3>1. <<"node", n, i>> \in Held'
            BY <2>2
        <3>2. /\ from[<<"node", n, i>>] = <<"node", n, i>> /\ <<"node", n, i>> \in Held
              /\ Pointer(<<"node", n, i>>)' = Pointer(<<"node", n, i>>)
            BY <1>2, <2>2, <3>1, Zenon
        <3> QED
            BY <2>2, <3>2
    <2>3. ASSUME NEW k, NEW i, p = <<"frame", k, i>>
          PROVE  from[p] \in Held /\ Pointer(p)' = Pointer(from[p])
        BY <1>3, <2>3
    <2> QED
        BY <1>0, <1>5, <2>1, <2>2, <2>3
<1>7. \A p, q \in Held' : from[p] = from[q] => p = q
    <2> SUFFICES ASSUME NEW p \in Held', NEW q \in Held', from[p] = from[q]
                 PROVE  p = q
        OBVIOUS
    <2>1. CASE p = RetPlace \/ q = RetPlace
        BY <1>4, <1>6, <2>1
    <2>2. ASSUME NEW r \in Held', NEW i, r = <<"node", N, i>>, NEW s \in Held', s # RetPlace,
                 \A j : s # <<"node", N, j>>
          PROVE  from[r] # from[s]
        <3>1. from[r] = src[i] /\ i \in 1 .. Len(kids)
            BY <1>1, <2>2
        <3>2. CASE \E n, j : n # N /\ s = <<"node", n, j>>
            <4>1. PICK n, j : n # N /\ s = <<"node", n, j>>
                BY <3>2
            <4>2. from[s] = <<"node", n, j>>
                BY <1>2, <2>2, <4>1
            <4>3. src[i] = RetPlace \/ \E k, l : src[i] = <<"frame", k, l>>
                BY <1>f, <3>1
            <4>4. CASE src[i] = RetPlace
                BY <1>0, <3>1, <4>2, <4>4
            <4>5. ASSUME NEW k, NEW l, src[i] = <<"frame", k, l>>, from[r] = from[s]
                  PROVE  FALSE
                BY <1>d, <3>1, <4>2, <4>5
            <4> QED
                BY <4>3, <4>4, <4>5
        <3>3. CASE \E k, j : s = <<"frame", k, j>>
            <4>1. PICK k, j : s = <<"frame", k, j>>
                BY <3>3
            <4>2. from[s] = <<"frame", k, j>> /\ k \in 1 .. Len(stack')
                BY <1>3, <2>2, <4>1
            <4>3. src[i] = RetPlace \/ \E m, l : src[i] = <<"frame", m, l>> /\ m > Len(stack')
                BY <1>f, <3>1
            <4>4. CASE src[i] = RetPlace
                BY <1>0, <3>1, <4>2, <4>4
            <4>5. ASSUME NEW m, NEW l, src[i] = <<"frame", m, l>>, m > Len(stack'), from[r] = from[s]
                  PROVE  FALSE
                <5>1. m = k
                    BY <1>d, <3>1, <4>2, <4>5
                <5> QED
                    BY <4>2, <4>5, <5>1
            <4> QED
                BY <4>3, <4>4, <4>5
        <3> QED
            BY <1>5, <2>2, <3>2, <3>3
    <2>3. CASE (\E i : p = <<"node", N, i>>) /\ (\E i : q = <<"node", N, i>>)
        <3>1. PICK i, j : p = <<"node", N, i>> /\ q = <<"node", N, j>>
            BY <2>3
        <3> QED
            BY <1>t, <1>1, <3>1
    <2>4. CASE /\ p # RetPlace /\ q # RetPlace
               /\ ~(\E i : p = <<"node", N, i>>) /\ ~(\E i : q = <<"node", N, i>>)
        BY <1>2, <1>3, <1>5, <2>4
    <2> QED
        BY <2>1, <2>2, <2>3, <2>4
<1>8. \A p \in Held' : from[p] = NewPlace => Pointer(p)' > Len(pool)
    BY <1>n, <1>p, <1>0, <1>4, <1>6
<1>9. from \in [Held' -> Held \cup {NewPlace}]
    <2>1. \A p \in Held' : from[p] \in Held \cup {NewPlace}
        BY <1>4, <1>6
    <2>2. from = [p \in Held' |-> from[p]]
        BY DEF from
    <2> QED
        BY <2>1, <2>2
<1>10. \A p \in Held' : from[p] # NewPlace => Pointer(p)' = Pointer(from[p])
    BY <1>4, <1>6
<1> QED
    BY <1>7, <1>8, <1>9, <1>10, Moved

(* A step that makes no node: activations end, or begin with nothing but   *)
(* the pointer that was returned, which the first of them takes over.      *)
LEMMA NothingMade ==
    ASSUME IndInv, OwnInv, pool' = pool, Len(stack') \in Nat,
           \A k \in 1 .. Len(stack') : k <= Len(stack) => stack'[k] = stack[k],
           \A k \in 1 .. Len(stack') : k > Len(stack) =>
               /\ stack'[k].args = <<>>
               /\ \/ stack'[k].lhs = NULL
                  \/ k = Len(stack) + 1 /\ stack'[k].lhs = ret
                        /\ pc \in {"postfix", "return"}
                        /\ pc' \notin {"postfix", "return", "done"},
           pc' \in {"postfix", "return", "done"} =>
               ret' = NULL \/ (ret' = ret /\ pc \in {"postfix", "return", "done"})
    PROVE  OwnInv'
<1>n. PICK N : N = Len(stack) + 1
    OBVIOUS
<1>0. Len(stack) \in Nat /\ N \in Nat
    BY <1>n DEF IndInv, TypeOK
<1> DEFINE x == <<"frame", N, 0>>
<1>d. /\ \A n, i, k, j : <<"node", n, i>> # <<"frame", k, j>>
      /\ \A k, j : RetPlace # <<"frame", k, j>>
    BY DEF RetPlace
<1>1. ASSUME x \in Held'
      PROVE  RetPlace \in Places /\ RetPlace \notin Places' /\ Pointer(x)' = Pointer(RetPlace)
    <2>1. x \in Places' /\ Pointer(x)' # NULL
        BY <1>1 DEF Held
    <2>2. N \in 1 .. Len(stack') /\ Pointer(x)' = stack'[N].lhs
        BY <2>1, PlaceKinds, PlaceValues DEF PlacesAre, PointersAre
    <2>3. stack'[N].lhs = ret /\ pc \in {"postfix", "return"}
          /\ pc' \notin {"postfix", "return", "done"}
        BY <1>n, <1>0, <2>1, <2>2
    <2> QED
        BY <2>2, <2>3, PlaceKinds, PlaceValues DEF PlacesAre, PointersAre
<1>2. ASSUME NEW p \in Held', p # x
      PROVE  p \in Held /\ Pointer(p)' = Pointer(p)
    <2>1. p \in Places' /\ Pointer(p)' # NULL
        BY <1>2 DEF Held
    <2>2. CASE p = RetPlace
        <3>1. pc' \in {"postfix", "return", "done"} /\ ret' # NULL
            BY <2>1, <2>2, PlaceKinds, PlaceValues DEF PlacesAre, PointersAre
        <3>2. ret' = ret /\ pc \in {"postfix", "return", "done"}
            BY <3>1
        <3> QED
            BY <2>2, <3>1, <3>2, PlaceKinds, PlaceValues DEF PlacesAre, PointersAre, Held
    <2>3. CASE \E n, i : p = <<"node", n, i>>
        <3>1. PICK n, i : p = <<"node", n, i>>
            BY <2>3
        <3>2. n \in 1 .. Len(pool) /\ i \in 1 .. Len(pool[n].kids) /\ Pointer(p)' = pool[n].kids[i]
            BY <2>1, <3>1, PlaceKinds, PlaceValues DEF PlacesAre, PointersAre
        <3> QED
            BY <2>1, <3>1, <3>2, PlaceKinds, PlaceValues DEF PlacesAre, PointersAre, Held
    <2>4. CASE \E k, i : p = <<"frame", k, i>>
        <3>1. PICK k, i : p = <<"frame", k, i>>
            BY <2>4
        <3>2. /\ k \in 1 .. Len(stack') /\ i \in 0 .. Len(stack'[k].args)
              /\ Pointer(p)' = IF i = 0 THEN stack'[k].lhs ELSE stack'[k].args[i]
            BY <2>1, <3>1, PlaceKinds, PlaceValues DEF PlacesAre, PointersAre
        <3>3. CASE k > Len(stack)
            <4>1. stack'[k].args = <<>>
                BY <3>2, <3>3
            <4>2. i = 0
                BY <3>2, <4>1
            <4>3. k = N
                BY <1>n, <2>1, <3>2, <3>3, <4>2
            <4> QED
                BY <1>2, <3>1, <4>2, <4>3
        <3>4. CASE k <= Len(stack)
            <4>1. k \in 1 .. Len(stack) /\ stack'[k] = stack[k]
                BY <1>0, <3>2, <3>4
            <4>2. p \in Places /\ Pointer(p) = Pointer(p)'
                BY <3>1, <3>2, <4>1, PlaceKinds, PlaceValues DEF PlacesAre, PointersAre
            <4> QED
                BY <2>1, <4>2 DEF Held
        <3> QED
            BY <1>0, <3>2, <3>3, <3>4
    <2> QED
        BY <2>1, <2>2, <2>3, <2>4, PlaceKinds DEF PlacesAre
<1> HIDE DEF x
<1> QED
    BY <1>1, <1>2, HandedOver

(* The caller resumes: what it holds is at the places of the last frame.   *)
LEMMA CallerPlaces ==
    ASSUME IndInv, stack # <<>>, pc \in {"postfix", "return", "done"}
    PROVE  /\ <<"frame", Len(stack), 0>> \in Places
           /\ Pointer(<<"frame", Len(stack), 0>>) = Caller.lhs
           /\ \A i \in 1 .. Len(Caller.args) :
                  /\ <<"frame", Len(stack), i>> \in Places
                  /\ Pointer(<<"frame", Len(stack), i>>) = Caller.args[i]
           /\ RetPlace \in Places /\ Pointer(RetPlace) = ret
           /\ Caller.lhs \in Nat /\ Caller.args \in Seq(Nat)
<1>1. Caller = stack[Len(stack)] /\ Len(stack) \in 1 .. Len(stack) /\ Caller \in FrameType
    BY CallerFacts
<1>2. Caller.lhs \in Nat /\ Caller.args \in Seq(Nat)
    BY <1>1 DEF FrameType
<1>3. 0 \in 0 .. Len(Caller.args) /\ \A i \in 1 .. Len(Caller.args) : i \in 0 .. Len(Caller.args) /\ i # 0
    BY <1>2
<1> QED
    BY <1>1, <1>2, <1>3, PlaceKinds, PlaceValues DEF PlacesAre, PointersAre

(* The node is made without a call that returns.                           *)
LEMMA MakesNode ==
    ASSUME IndInv, OwnInv, NEW tag, NEW tok, NEW kids, new_node(tag, tok, kids),
           stack' = stack, kids = <<>> \/ (kids = <<ret>> /\ pc = "postfix")
    PROVE  OwnInv'
<1> DEFINE src == <<RetPlace>>
<1>0. ret \in Nat /\ EndsOne
    BY DEF IndInv, TypeOK, EndsOne
<1>1. CASE kids = <<>>
    <2>1. kids \in Seq(Nat) /\ \A i \in 1 .. Len(kids) : FALSE
        BY <1>1
    <2> HIDE DEF src
    <2>2. TakenFrom(src, kids)
        BY <2>1 DEF TakenFrom
    <2> QED
        BY <1>0, <2>1, <2>2, NodeMade
<1>2. CASE kids = <<ret>> /\ pc = "postfix"
    <2>1. /\ <<ret>> \in Seq(Nat) /\ 1 .. Len(<<ret>>) = {1} /\ <<ret>>[1] = ret
          /\ src[1] = RetPlace /\ RetPlace \in Places /\ Pointer(RetPlace) = ret
        BY <1>0, <1>2, PlaceKinds, PlaceValues DEF PlacesAre, PointersAre
    <2> HIDE DEF src
    <2>2. TakenFrom(src, <<ret>>)
        BY <2>1 DEF TakenFrom
    <2>3. kids \in Seq(Nat) /\ TakenFrom(src, kids)
        BY <1>2, <2>1, <2>2
    <2> QED
        BY <1>0, <2>3, NodeMade
<1> QED
    BY <1>1, <1>2

(* parse_primary goes on to the next argument.                             *)
LEMMA ArgumentKept ==
    ASSUME IndInv, OwnInv, ReturnTo("args"), ParseNextArgument, pool' = pool, pc' = "unary"
    PROVE  OwnInv'
<1> DEFINE g == [Caller EXCEPT !.args = ArgsAppended]
<1>n. PICK N : N = Len(stack)
    OBVIOUS
<1>m. PICK m : m = Len(Caller.args) + 1
    OBVIOUS
<1>0. /\ stack # <<>> /\ pc = "return" /\ Caller = stack[N] /\ N \in 1 .. N
      /\ Caller \in FrameType /\ Front(stack) \in Seq(FrameType)
      /\ Len(Front(stack)) = N - 1 /\ \A k \in 1 .. N - 1 : Front(stack)[k] = stack[k]
    BY <1>n, CallerFacts DEF ReturnTo
<1>1. Caller.lhs \in Nat /\ Caller.args \in Seq(Nat) /\ ret \in Nat /\ m \in Nat \ {0}
    <2>1. Caller.lhs \in Nat /\ Caller.args \in Seq(Nat)
        BY <1>0 DEF FrameType
    <2> QED
        BY <1>m, <2>1 DEF IndInv, TypeOK
<1>2. /\ ArgsAppended \in Seq(Nat)
      /\ Len(ArgsAppended) \in {m - 1, m}
      /\ \A i \in 1 .. m - 1 : ArgsAppended[i] = Caller.args[i]
      /\ Len(ArgsAppended) = m => ArgsAppended[m] = ret
    BY <1>1, <1>m DEF ArgsAppended
<1>3. g \in FrameType /\ PrecedenceFrame(0) \in FrameType /\ g.lhs = Caller.lhs /\ g.args = ArgsAppended
    <2>1. g \in FrameType
        BY <1>0, <1>2 DEF FrameType
    <2>2. g.lhs = Caller.lhs /\ g.args = ArgsAppended
        BY <1>0 DEF FrameType
    <2> QED
        BY <2>1, <2>2, PrecedenceFrameType
<1> HIDE DEF g
<1>4. stack' = Front(stack) \o <<g, PrecedenceFrame(0)>>
    BY DEF ParseNextArgument, g
<1>5. /\ Len(stack') = N + 1 /\ \A k \in 1 .. N - 1 : stack'[k] = stack[k]
      /\ stack'[N] = g /\ stack'[N + 1] = PrecedenceFrame(0)
    BY <1>0, <1>3, <1>4, PushTwo
<1>d. \A k, i, n, j : <<"frame", k, i>> = <<"frame", n, j>> <=> k = n /\ i = j
    OBVIOUS
<1> DEFINE x == <<"frame", N, m>>
<1>6. ASSUME x \in Held'
      PROVE  RetPlace \in Places /\ RetPlace \notin Places' /\ Pointer(x)' = Pointer(RetPlace)
    <2>1. x \in Places'
        BY <1>6 DEF Held
    <2>2. m \in 0 .. Len(ArgsAppended) /\ Pointer(x)' = ArgsAppended[m]
        BY <1>1, <1>3, <1>5, <2>1, PlaceKinds, PlaceValues DEF PlacesAre, PointersAre
    <2>3. Len(ArgsAppended) = m
        BY <1>1, <1>2, <2>2
    <2>4. ArgsAppended[m] = ret
        BY <1>2, <2>3
    <2> QED
        BY <1>0, <2>2, <2>4, PlaceKinds, PlaceValues DEF PlacesAre, PointersAre
<1>7. ASSUME NEW p \in Held', p # x
      PROVE  p \in Held /\ Pointer(p)' = Pointer(p)
    <2>1. p \in Places' /\ Pointer(p)' # NULL
        BY <1>7 DEF Held
    <2>2. p # RetPlace
        BY <2>1, PlaceKinds DEF PlacesAre
    <2>3. CASE \E n, i : p = <<"node", n, i>>
        <3>1. PICK n, i : p = <<"node", n, i>>
            BY <2>3
        <3>2. n \in 1 .. Len(pool) /\ i \in 1 .. Len(pool[n].kids) /\ Pointer(p)' = pool[n].kids[i]
            BY <2>1, <3>1, PlaceKinds, PlaceValues DEF PlacesAre, PointersAre
        <3> QED
            BY <2>1, <3>1, <3>2, PlaceKinds, PlaceValues DEF PlacesAre, PointersAre, Held
    <2>4. CASE \E k, i : p = <<"frame", k, i>>
        <3>1. PICK k, i : p = <<"frame", k, i>>
            BY <2>4
        <3>2. /\ k \in 1 .. N + 1 /\ i \in 0 .. Len(stack'[k].args)
              /\ Pointer(p)' = IF i = 0 THEN stack'[k].lhs ELSE stack'[k].args[i]
            BY <1>5, <2>1, <3>1, PlaceKinds, PlaceValues DEF PlacesAre, PointersAre
        <3>3. k # N + 1
            <4>1. PrecedenceFrame(0).args = <<>> /\ PrecedenceFrame(0).lhs = NULL
                BY DEF PrecedenceFrame, Frame
            <4> QED
                BY <1>5, <2>1, <3>2, <4>1
        <3>4. CASE k = N
            <4>1. i \in 0 .. m - 1
                BY <1>1, <1>2, <1>3, <1>5, <1>7, <3>1, <3>2, <3>4
            <4>2. Pointer(p)' = IF i = 0 THEN Caller.lhs ELSE Caller.args[i]
                BY <1>2, <1>3, <1>5, <3>2, <3>4, <4>1
            <4>3. p \in Places /\ Pointer(p) = Pointer(p)'
                BY <1>n, <1>m, <1>0, <1>1, <3>1, <3>4, <4>1, <4>2, PlaceKinds, PlaceValues
                   DEF PlacesAre, PointersAre
            <4> QED
                BY <2>1, <4>3 DEF Held
        <3>5. CASE k \in 1 .. N - 1
            <4>1. k \in 1 .. Len(stack) /\ stack'[k] = stack[k]
                BY <1>n, <1>0, <1>5, <3>5
            <4>2. p \in Places /\ Pointer(p) = Pointer(p)'
                BY <3>1, <3>2, <4>1, PlaceKinds, PlaceValues DEF PlacesAre, PointersAre
            <4> QED
                BY <2>1, <4>2 DEF Held
        <3> QED
            BY <1>0, <3>2, <3>3, <3>4, <3>5
    <2> QED
        BY <2>1, <2>2, <2>3, <2>4, PlaceKinds DEF PlacesAre
<1> HIDE DEF x
<1> QED
    BY <1>6, <1>7, HandedOver

(* Every step leaves each node at one place.                               *)
LEMMA OwnStep == IndInv /\ OwnInv /\ [Next]_vars => OwnInv'
<1> SUFFICES ASSUME IndInv, OwnInv, [Next]_vars
             PROVE  OwnInv'
    OBVIOUS
<1>0. /\ stack \in Seq(FrameType) /\ Len(stack) \in Nat /\ toki \in Nat /\ ret \in Nat
      /\ NULL \in Nat /\ <<>> \in Seq(Nat) /\ 0 \in 0 .. 12 /\ 12 \in 0 .. 12
    BY DEF IndInv, TypeOK, NULL
<1>1. ASSUME stack' = stack, pool' = pool, pc' \in {"postfix", "return", "done"} =>
             ret' = NULL \/ (ret' = ret /\ pc \in {"postfix", "return", "done"})
      PROVE  OwnInv'
    BY <1>0, <1>1, NothingMade
<1>2. ASSUME stack # <<>>, stack' = Front(stack), pool' = pool, ret' = ret, pc = "return"
      PROVE  OwnInv'
    <2>1. /\ Len(stack') \in Nat
          /\ \A k \in 1 .. Len(stack') : stack'[k] = stack[k] /\ ~(k > Len(stack))
        BY <1>0, <1>2, CallerFacts
    <2> QED
        BY <1>2, <2>1, NothingMade
<1>3. ASSUME NEW at \in FrameAt, NEW l \in Nat, NEW m \in 0 .. 12, pool' = pool,
             stack' = stack \o <<Frame(at, 0, toki, l, <<>>), PrecedenceFrame(m)>>,
             l = NULL \/ (l = ret /\ pc \in {"postfix", "return"}), pc' = "unary"
      PROVE  OwnInv'
    <2>1. Frame(at, 0, toki, l, <<>>) \in FrameType /\ PrecedenceFrame(m) \in FrameType
        BY <1>0, FrameTypes, PrecedenceFrameType
    <2>2. /\ Len(stack') = Len(stack) + 2 /\ \A k \in 1 .. Len(stack) : stack'[k] = stack[k]
          /\ stack'[Len(stack) + 1] = Frame(at, 0, toki, l, <<>>)
          /\ stack'[Len(stack) + 2] = PrecedenceFrame(m)
        BY <1>0, <1>3, <2>1, PushTwo
    <2>3. /\ stack'[Len(stack) + 1].args = <<>> /\ stack'[Len(stack) + 1].lhs = l
          /\ stack'[Len(stack) + 2].args = <<>> /\ stack'[Len(stack) + 2].lhs = NULL
        BY <2>2 DEF PrecedenceFrame, Frame
    <2>4. /\ Len(stack') \in Nat
          /\ \A k \in 1 .. Len(stack') : k <= Len(stack) => stack'[k] = stack[k]
          /\ \A k \in 1 .. Len(stack') : k > Len(stack) =>
                 /\ stack'[k].args = <<>>
                 /\ k = Len(stack) + 1 \/ stack'[k].lhs = NULL
        <3>1. \A k \in 1 .. Len(stack') : k <= Len(stack) \/ k = Len(stack) + 1 \/ k = Len(stack) + 2
            BY <1>0, <2>2
        <3>2. Len(stack') \in Nat /\ \A k \in 1 .. Len(stack') : k <= Len(stack) => k \in 1 .. Len(stack)
            BY <1>0, <2>2
        <3> QED
            BY <2>2, <2>3, <3>1, <3>2
    <2> QED
        BY <1>3, <2>3, <2>4, NothingMade
<1> USE DEF FrameAt
<1>10. CASE PrefixOperator
    BY <1>0, <1>3, <1>10 DEF PrefixOperator, PREC_UNARY, StackShape, IndInv, CallChain
<1>11. CASE PrimaryIdentifier \/ PrimaryLiteral \/ PrimaryEnumLiteral
    BY <1>11, MakesNode DEF PrimaryIdentifier, PrimaryLiteral, PrimaryEnumLiteral, new_literal
<1>12. CASE PrimaryGroup
    BY <1>0, <1>3, <1>12 DEF PrimaryGroup
<1>13. CASE PrimaryNone \/ PostfixEnd \/ IndexMissing \/ ExpectTokenFails \/ Finish \/ UNCHANGED vars
    BY <1>1, <1>13 DEF PrimaryNone, PostfixEnd, IndexMissing, ExpectTokenFails, Finish, vars
<1>14. CASE LeaveLoop \/ MemberMissing
    BY <1>2, <1>14 DEF LeaveLoop, MemberMissing, ReturnTo, Pop
<1>15. CASE PostfixMember
    <2>1. stack' = Append(stack, Frame("member", 0, toki, ret, <<>>)) /\ pool' = pool
          /\ pc = "postfix" /\ pc' = "primary"
        BY <1>15 DEF PostfixMember
    <2>2. /\ Len(stack') = Len(stack) + 1 /\ \A k \in 1 .. Len(stack) : stack'[k] = stack[k]
          /\ stack'[Len(stack) + 1] = Frame("member", 0, toki, ret, <<>>)
        BY <1>0, <2>1, FrameTypes, PushOne
    <2>3. stack'[Len(stack) + 1].args = <<>> /\ stack'[Len(stack) + 1].lhs = ret
        BY <2>2 DEF Frame
    <2>4. /\ Len(stack') \in Nat
          /\ \A k \in 1 .. Len(stack') : k <= Len(stack) => stack'[k] = stack[k]
          /\ \A k \in 1 .. Len(stack') : k > Len(stack) => k = Len(stack) + 1
        BY <1>0, <2>2
    <2> QED
        BY <2>1, <2>3, <2>4, NothingMade
<1>16. CASE PostfixEmptyCall
    BY <1>16, MakesNode DEF PostfixEmptyCall
<1>17. CASE PostfixCall \/ PostfixIndex
    BY <1>0, <1>3, <1>17 DEF PostfixCall, PostfixIndex
<1>18. CASE TakeOperator
    <2>1. next_prec(Tok(toki)) \in 0 .. 12
        BY NextPrecRange, PrecedenceRange
    <2> QED
        BY <1>0, <1>3, <1>18, <2>1 DEF TakeOperator, ReturnTo
<1>19. CASE NextArgument \/ RepeatArgument
    BY <1>19, ArgumentKept DEF NextArgument, RepeatArgument
<1>d. \A k, i : <<"frame", k, i>> # RetPlace /\ \A j : <<"frame", k, i>> = <<"frame", k, j>> => i = j
    BY DEF RetPlace
<1>e. ASSUME stack # <<>>, stack' = Front(stack)
      PROVE  EndsOne /\ stack' # stack
    BY <1>0, <1>e, CallerFacts DEF EndsOne
<1>20. ASSUME pc = "return", stack # <<>>, stack' = Front(stack), NEW tag, NEW tok,
              new_node(tag, tok, <<ret>>)
       PROVE  OwnInv'
    <2> DEFINE src == <<RetPlace>>
    <2>1. /\ <<ret>> \in Seq(Nat) /\ 1 .. Len(<<ret>>) = {1} /\ <<ret>>[1] = ret
          /\ src[1] = RetPlace /\ RetPlace \in Places /\ Pointer(RetPlace) = ret
        BY <1>0, <1>20, CallerPlaces
    <2> HIDE DEF src
    <2>2. TakenFrom(src, <<ret>>)
        BY <2>1 DEF TakenFrom
    <2> QED
        BY <1>e, <1>20, <2>1, <2>2, NodeMade
<1>21. ASSUME pc = "return", stack # <<>>, stack' = Front(stack), NEW tag, NEW tok,
              new_node(tag, tok, <<Caller.lhs, ret>>)
       PROVE  OwnInv'
    <2> DEFINE src == <<<<"frame", Len(stack), 0>>, RetPlace>>
               kids == <<Caller.lhs, ret>>
    <2>1. /\ kids \in Seq(Nat) /\ 1 .. Len(kids) = {1, 2} /\ kids[1] = Caller.lhs /\ kids[2] = ret
          /\ src[1] = <<"frame", Len(stack), 0>> /\ src[2] = RetPlace /\ src[1] # src[2]
        BY <1>0, <1>d, <1>21, CallerPlaces
    <2>2. /\ src[1] \in Places /\ Pointer(src[1]) = kids[1]
          /\ src[2] \in Places /\ Pointer(src[2]) = kids[2]
        BY <1>21, <2>1, CallerPlaces
    <2> HIDE DEF src
    <2>3. new_node(tag, tok, kids)
        BY <1>21
    <2> HIDE DEF kids
    <2>4. TakenFrom(src, kids)
        BY <1>e, <1>21, <2>1, <2>2 DEF TakenFrom
    <2> QED
        BY <1>e, <1>21, <2>1, <2>3, <2>4, NodeMade
<1>22. CASE new_unary \/ CloseGroup
    BY <1>20, <1>22 DEF new_unary, CloseGroup, ReturnTo, Pop
<1>23. CASE new_binary \/ MemberField \/ CloseIndex
    BY <1>21, <1>23 DEF new_binary, MemberField, CloseIndex, ReturnTo, Pop
<1>24. CASE CloseCall
    <2>n. PICK m : m = Len(Caller.args) + 1
        OBVIOUS
    <2>1. stack # <<>> /\ pc = "return" /\ stack' = Front(stack)
          /\ new_node("AST_CALL", pool[Caller.lhs].tok, <<Caller.lhs>> \o ArgsAppended)
        BY <1>24 DEF CloseCall, ReturnTo, Pop
    <2>2. /\ Caller.lhs \in Nat /\ Caller.args \in Seq(Nat) /\ m \in Nat \ {0}
        BY <2>1, <2>n, CallerPlaces
    <2>3. /\ ArgsAppended \in Seq(Nat) /\ Len(ArgsAppended) \in {m - 1, m}
          /\ \A i \in 1 .. m - 1 : ArgsAppended[i] = Caller.args[i]
          /\ Len(ArgsAppended) = m => ArgsAppended[m] = ret
        BY <1>0, <2>2, <2>n DEF ArgsAppended
    <2> DEFINE kids == <<Caller.lhs>> \o ArgsAppended
               src == [i \in 1 .. m + 1 |->
                          IF i = m + 1 THEN RetPlace ELSE <<"frame", Len(stack), i - 1>>]
    <2>4. /\ kids \in Seq(Nat) /\ Len(kids) = Len(ArgsAppended) + 1 /\ kids[1] = Caller.lhs
          /\ \A i \in 1 .. Len(ArgsAppended) : kids[i + 1] = ArgsAppended[i]
        <3>1. <<Caller.lhs>> \in Seq(Nat) /\ Len(<<Caller.lhs>>) = 1 /\ <<Caller.lhs>>[1] = Caller.lhs
            BY <2>2
        <3> QED
            BY <2>3, <3>1
    <2>5. ASSUME NEW i \in 1 .. Len(kids)
          PROVE  /\ i \in 1 .. m + 1
                 /\ \/ i = 1 /\ kids[i] = Caller.lhs
                    \/ i \in 2 .. m /\ kids[i] = Caller.args[i - 1]
                    \/ i = m + 1 /\ kids[i] = ret
        <3>1. CASE i = 1
            BY <2>2, <2>4, <3>1
        <3>2. CASE i # 1
            <4>1. i - 1 \in 1 .. Len(ArgsAppended) /\ (i - 1) + 1 = i
                BY <2>2, <2>3, <2>4, <3>2
            <4>2. kids[i] = ArgsAppended[i - 1]
                BY <2>4, <4>1
            <4> QED
                BY <2>2, <2>3, <4>1, <4>2
        <3> QED
            BY <3>1, <3>2
    <2>6. /\ src[m + 1] = RetPlace /\ m + 1 \in Nat
          /\ \A i \in 1 .. m : src[i] = <<"frame", Len(stack), i - 1>> /\ i # m + 1
          /\ src[1] = <<"frame", Len(stack), 0>>
        BY <2>2
    <2>8. new_node("AST_CALL", pool[Caller.lhs].tok, kids)
        BY <2>1
    <2>k. kids[1] = Caller.lhs
        BY <2>4
    <2> HIDE DEF src, kids
    <2>9. ASSUME NEW i \in 1 .. Len(kids)
          PROVE  /\ src[i] \in Places /\ Pointer(src[i]) = kids[i]
                 /\ src[i] = RetPlace \/ \E j : src[i] = <<"frame", Len(stack), j>>
        <3>1. CASE i = 1
            BY <2>1, <2>6, <2>k, <3>1, CallerPlaces
        <3>2. CASE i \in 2 .. m /\ kids[i] = Caller.args[i - 1]
            <4>1. i - 1 \in 1 .. Len(Caller.args) /\ i \in 1 .. m
                BY <2>n, <2>2, <3>2
            <4>2. src[i] = <<"frame", Len(stack), i - 1>>
                BY <2>6, <4>1
            <4> QED
                BY <2>1, <3>2, <4>1, <4>2, CallerPlaces
        <3>3. CASE i = m + 1 /\ kids[i] = ret
            BY <2>1, <2>6, <3>3, CallerPlaces
        <3> QED
            BY <2>5, <3>1, <3>2, <3>3
    <2>10. ASSUME NEW i \in 1 .. Len(kids), NEW j \in 1 .. Len(kids), src[i] = src[j]
           PROVE  i = j
        <3>1. (i = m + 1 \/ i \in 1 .. m) /\ (j = m + 1 \/ j \in 1 .. m)
            <4>1. i \in 1 .. m + 1 /\ j \in 1 .. m + 1
                BY <2>5
            <4> QED
                BY <2>2, <4>1
        <3>2. CASE i \in 1 .. m /\ j \in 1 .. m
            <4>1. i - 1 = j - 1
                BY <1>d, <2>6, <2>10, <3>2
            <4> QED
                BY <2>2, <3>2, <4>1
        <3> QED
            BY <1>d, <2>6, <2>10, <3>1, <3>2
    <2>11. TakenFrom(src, kids)
        BY <1>e, <2>1, <2>9, <2>10 DEF TakenFrom
    <2> QED
        BY <1>e, <2>1, <2>4, <2>8, <2>11, NodeMade
<1> QED
    BY <1>10, <1>11, <1>12, <1>13, <1>14, <1>15, <1>16, <1>17, <1>18, <1>19, <1>22, <1>23, <1>24
       DEF Next, Primary

(* The nodes form trees: no node is linked or held twice.                  *)
THEOREM EachNodeHasOneOwner == Spec => []SingleOwner
<1>1. Init => OwnInv
    <2> SUFFICES ASSUME Init
                 PROVE  OwnInv
        OBVIOUS
    <2>1. /\ pool = <<>> /\ stack = <<PrecedenceFrame(0)>> /\ pc = "unary"
          /\ Len(pool) = 0 /\ Len(stack) = 1 /\ stack[1] = PrecedenceFrame(0)
        BY DEF Init
    <2>2. stack[1].lhs = NULL /\ stack[1].args = <<>>
        BY <2>1 DEF PrecedenceFrame, Frame
    <2>3. ASSUME NEW p \in Held
          PROVE  FALSE
        <3>1. p \in Places /\ Pointer(p) # NULL
            BY DEF Held
        <3>2. PICK k, i : p = <<"frame", k, i>>
            BY <2>1, <3>1, PlaceKinds DEF PlacesAre
        <3>3. k \in 1 .. Len(stack) /\ i \in 0 .. Len(stack[k].args)
            BY <3>1, <3>2, PlaceKinds DEF PlacesAre
        <3>4. k = 1 /\ i = 0
            BY <2>1, <2>2, <3>3
        <3> QED
            BY <2>2, <3>1, <3>2, <3>4, PlaceValues DEF PointersAre
    <2> QED
        BY <2>3 DEF OwnInv
<1>2. IndInv /\ OwnInv => SingleOwner
    BY DEF OwnInv, Held, SingleOwner, IndInv, CallChain, NodeSound
<1> QED
    BY <1>1, <1>2, OwnStep, Invariance, PTL DEF Spec

(***************************************************************************)
(* TreeKeepsTokens.  What the suspended activations hold, from the bottom  *)
(* of the stack to its top, followed by what the node under construction   *)
(* yields, is at every moment the text read so far.  The lemmas about      *)
(* FlattenSeq, Yield and Operands come first: each is a function that      *)
(* CHOOSE defines, and exists and is unique by the least counterexample.   *)
(***************************************************************************)

(* Concatenation is associative.                                           *)
LEMMA ConcatThrice ==
    ASSUME NEW S, NEW u \in Seq(S), NEW v \in Seq(S), NEW w \in Seq(S)
    PROVE  u \o (v \o w) = (u \o v) \o w
    OBVIOUS

(* What FlattenSeq computes up to n.                                       *)
FlatTo(f, n, s) == f = [i \in 1 .. n |-> IF i = 1 THEN s[i] ELSE f[i - 1] \o s[i]]

(* It can: a least n for which it could not has a predecessor for which it *)
(* can.                                                                    *)
LEMMA FlatExists ==
    ASSUME NEW s, Len(s) \in Nat
    PROVE  \E f : FlatTo(f, Len(s), s)
<1> DEFINE Bad == {n \in 0 .. Len(s) : ~ \E f : FlatTo(f, n, s)}
<1> SUFFICES ASSUME Bad # {} PROVE FALSE
    OBVIOUS
<1>1. PICK n \in Bad : \A m \in Bad : n <= m
    <2>1. Bad \subseteq Nat
        OBVIOUS
    <2> HIDE DEF Bad
    <2> QED
        BY <2>1, MinIsLeast
<1>2. n # 0
    <2>1. PICK f : f = [i \in 1 .. 0 |-> IF i = 1 THEN s[i] ELSE <<>>]
        OBVIOUS
    <2>2. f = [i \in 1 .. 0 |-> IF i = 1 THEN s[i] ELSE f[i - 1] \o s[i]]
        BY <2>1
    <2>3. FlatTo(f, 0, s)
        BY <2>2 DEF FlatTo
    <2>4. ~ \E h : FlatTo(h, n, s)
        BY <1>1
    <2> HIDE DEF Bad
    <2> QED
        BY <2>3, <2>4
<1>3. n - 1 \in 0 .. Len(s) /\ n \in 1 .. Len(s) /\ n - 1 \notin Bad
    BY <1>1, <1>2
<1>4. PICK f : FlatTo(f, n - 1, s)
    BY <1>3
<1>5. PICK last : last = IF n = 1 THEN s[n] ELSE f[n - 1] \o s[n]
    OBVIOUS
<1>6. PICK g : g = [i \in 1 .. n |-> IF i = n THEN last ELSE f[i]]
    OBVIOUS
<1>7. \A i \in 1 .. n - 1 : g[i] = f[i]
    BY <1>3, <1>6
<1>8. ASSUME NEW i \in 1 .. n
      PROVE  g[i] = IF i = 1 THEN s[i] ELSE g[i - 1] \o s[i]
    <2>1. i # 1 => i - 1 \in 1 .. n - 1
        BY <1>3
    <2>2. CASE i = n
        BY <1>5, <1>6, <1>7, <2>1, <2>2
    <2>3. CASE i # n
        <3>1. i \in 1 .. n - 1
            BY <1>3, <2>3
        <3>2. f[i] = IF i = 1 THEN s[i] ELSE f[i - 1] \o s[i]
            BY <1>4, <3>1 DEF FlatTo
        <3> QED
            BY <1>7, <2>1, <3>1, <3>2
    <2> QED
        BY <2>2, <2>3
<1>9. g = [i \in 1 .. n |-> IF i = 1 THEN s[i] ELSE g[i - 1] \o s[i]]
    <2> DEFINE e(i) == IF i = 1 THEN s[i] ELSE g[i - 1] \o s[i]
    <2>1. g = [i \in 1 .. n |-> g[i]]
        BY <1>6
    <2>2. \A i \in 1 .. n : g[i] = e(i)
        BY <1>8
    <2> HIDE DEF e
    <2>3. g = [i \in 1 .. n |-> e(i)]
        BY <2>1, <2>2
    <2> USE DEF e
    <2> QED
        BY <2>3
<1> QED
    BY <1>1, <1>9 DEF FlatTo

(* There is one way to do it.                                              *)
LEMMA FlatUnique ==
    ASSUME NEW s, NEW n \in Nat, NEW f, NEW g, FlatTo(f, n, s), FlatTo(g, n, s),
           NEW i \in 1 .. n
    PROVE  f[i] = g[i]
<1> DEFINE Bad == {k \in 1 .. n : f[k] # g[k]}
<1> SUFFICES ASSUME Bad # {} PROVE FALSE
    OBVIOUS
<1>1. PICK k \in Bad : \A m \in Bad : k <= m
    <2>1. Bad \subseteq Nat
        OBVIOUS
    <2> HIDE DEF Bad
    <2> QED
        BY <2>1, MinIsLeast
<1>2. k \in 1 .. n /\ f[k] # g[k]
    BY <1>1
<1>3. /\ f[k] = IF k = 1 THEN s[k] ELSE f[k - 1] \o s[k]
      /\ g[k] = IF k = 1 THEN s[k] ELSE g[k - 1] \o s[k]
    BY <1>2 DEF FlatTo
<1>4. k # 1 => k - 1 \in 1 .. n /\ k - 1 \notin Bad
    BY <1>1, <1>2
<1>5. k # 1 => f[k - 1] = g[k - 1]
    BY <1>4
<1> QED
    BY <1>2, <1>3, <1>5

(* So FlattenSeq is whatever function does.                                *)
LEMMA FlattenIs ==
    ASSUME NEW s, Len(s) \in Nat \ {0}, NEW f, FlatTo(f, Len(s), s)
    PROVE  FlattenSeq(s) = f[Len(s)]
<1>1. PICK g : g = CHOOSE h : FlatTo(h, Len(s), s)
    OBVIOUS
<1>2. FlatTo(g, Len(s), s)
    BY <1>1
<1>3. FlattenSeq(s) = g[Len(s)]
    BY <1>1 DEF FlattenSeq, FlatTo
<1>4. PICK n \in Nat : n = Len(s) /\ n \in 1 .. n
    OBVIOUS
<1>5. FlatTo(f, n, s) /\ FlatTo(g, n, s)
    BY <1>2, <1>4
<1>6. \A i \in 1 .. n : f[i] = g[i]
    BY <1>5, FlatUnique
<1> QED
    BY <1>3, <1>4, <1>6

(* Nothing gives nothing.                                                  *)
LEMMA FlattenNone == FlattenSeq(<<>>) = <<>>
    BY DEF FlattenSeq

(* The parts of a sequence of sequences, put together, make a sequence.    *)
LEMMA FlattenType ==
    ASSUME NEW S, NEW s \in Seq(Seq(S))
    PROVE  FlattenSeq(s) \in Seq(S)
<1>1. CASE s = <<>>
    <2>1. FlattenSeq(s) = <<>>
        BY <1>1, FlattenNone, Zenon
    <2> QED
        BY <2>1
<1>2. CASE s # <<>>
    <2>1. Len(s) \in Nat \ {0} /\ \A i \in 1 .. Len(s) : s[i] \in Seq(S)
        BY <1>2
    <2>2. PICK f : FlatTo(f, Len(s), s)
        BY <2>1, FlatExists
    <2> DEFINE Bad == {k \in 1 .. Len(s) : f[k] \notin Seq(S)}
    <2>3. Bad = {}
        <3> SUFFICES ASSUME Bad # {} PROVE FALSE
            OBVIOUS
        <3>1. PICK k \in Bad : \A m \in Bad : k <= m
            <4>1. Bad \subseteq Nat
                BY <2>1
            <4> HIDE DEF Bad
            <4> QED
                BY <4>1, MinIsLeast
        <3>2. k \in 1 .. Len(s) /\ f[k] \notin Seq(S)
            BY <3>1
        <3>3. f[k] = IF k = 1 THEN s[k] ELSE f[k - 1] \o s[k]
            BY <2>2, <3>2 DEF FlatTo
        <3>4. k # 1 => k - 1 \in 1 .. Len(s) /\ k - 1 \notin Bad
            BY <2>1, <3>1, <3>2
        <3>5. k # 1 => f[k - 1] \in Seq(S)
            BY <3>4
        <3> QED
            BY <2>1, <3>2, <3>3, <3>5
    <2>4. FlattenSeq(s) = f[Len(s)]
        BY <2>1, <2>2, FlattenIs
    <2>5. Len(s) \in 1 .. Len(s)
        BY <2>1
    <2> QED
        BY <2>3, <2>4, <2>5, Zenon
<1> QED
    BY <1>1, <1>2

(* One more at the end...                                                  *)
LEMMA FlattenAppend ==
    ASSUME NEW S, NEW s \in Seq(Seq(S)), NEW x \in Seq(S)
    PROVE  FlattenSeq(Append(s, x)) = FlattenSeq(s) \o x
<1>1. PICK n \in Nat : n = Len(s)
    OBVIOUS
<1>2. PICK t : t = Append(s, x)
    OBVIOUS
<1>3. /\ Len(t) = n + 1 /\ Len(t) \in Nat \ {0} /\ t[n + 1] = x
      /\ \A i \in 1 .. n : t[i] = s[i]
    BY <1>1, <1>2
<1>4. PICK f : FlatTo(f, n, s)
    BY <1>1, FlatExists
<1>5. PICK g : FlatTo(g, Len(t), t)
    BY <1>3, FlatExists
<1>6. \A i \in 1 .. n + 1 : g[i] = IF i = 1 THEN t[i] ELSE g[i - 1] \o t[i]
    BY <1>3, <1>5 DEF FlatTo
<1>7. \A i \in 1 .. n : f[i] = IF i = 1 THEN s[i] ELSE f[i - 1] \o s[i]
    BY <1>4 DEF FlatTo
<1>8. FlattenSeq(t) = g[n + 1]
    BY <1>3, <1>5, FlattenIs
<1>9. CASE n = 0
    <2>1. PICK m \in 1 .. n + 1 : m = n + 1 /\ m = 1
        BY <1>9
    <2>2. g[m] = t[m]
        BY <1>6, <2>1
    <2>3. s = <<>>
        <3>1. Len(s) = 0
            BY <1>1, <1>9
        <3> QED
            BY <3>1, EmptySeq, Zenon
    <2>4. FlattenSeq(s) = <<>>
        BY <2>3, FlattenNone, Zenon
    <2> QED
        BY <1>2, <1>3, <1>8, <2>1, <2>2, <2>4
<1>10. CASE n # 0
    <2>1. n \in 1 .. n /\ n + 1 # 1 /\ n + 1 - 1 = n
        BY <1>10
    <2>2. FlattenSeq(s) = f[n]
        BY <1>1, <1>4, <1>10, FlattenIs
    <2>3. g[n + 1] = g[n] \o x
        <3>1. PICK m \in 1 .. n + 1 : m = n + 1 /\ m # 1 /\ m - 1 = n
            BY <2>1
        <3>2. g[m] = g[m - 1] \o t[m]
            BY <1>6, <3>1
        <3> QED
            BY <1>3, <3>1, <3>2
    <2>4. FlatTo([i \in 1 .. n |-> g[i]], n, s)
        <3>1. PICK h : h = [i \in 1 .. n |-> g[i]]
            OBVIOUS
        <3>2. \A i \in 1 .. n : h[i] = IF i = 1 THEN s[i] ELSE h[i - 1] \o s[i]
            <4> SUFFICES ASSUME NEW i \in 1 .. n
                         PROVE  h[i] = IF i = 1 THEN s[i] ELSE h[i - 1] \o s[i]
                OBVIOUS
            <4>1. i \in 1 .. n + 1 /\ (i # 1 => i - 1 \in 1 .. n)
                OBVIOUS
            <4> QED
                BY <1>3, <1>6, <3>1, <4>1
        <3>3. h = [i \in 1 .. n |-> IF i = 1 THEN s[i] ELSE h[i - 1] \o s[i]]
            <4> DEFINE e(i) == IF i = 1 THEN s[i] ELSE h[i - 1] \o s[i]
            <4>1. h = [i \in 1 .. n |-> h[i]] /\ \A i \in 1 .. n : h[i] = e(i)
                BY <3>1, <3>2
            <4> HIDE DEF e
            <4>2. h = [i \in 1 .. n |-> e(i)]
                BY <4>1
            <4> USE DEF e
            <4> QED
                BY <4>2
        <3> QED
            BY <3>1, <3>3 DEF FlatTo
    <2>5. f[n] = g[n]
        <3>1. PICK h : h = [i \in 1 .. n |-> g[i]] /\ FlatTo(h, n, s)
            BY <2>4
        <3>2. f[n] = h[n]
            BY <1>4, <2>1, <3>1, FlatUnique
        <3> QED
            BY <2>1, <3>1, <3>2
    <2> QED
        BY <1>2, <1>8, <2>2, <2>3, <2>5
<1> QED
    BY <1>9, <1>10

(* ... and one more in front.                                              *)
LEMMA FlattenCons ==
    ASSUME NEW S, NEW s \in Seq(Seq(S)), NEW x \in Seq(S)
    PROVE  FlattenSeq(<<x>> \o s) = x \o FlattenSeq(s)
<1>1. PICK n \in Nat : n = Len(s)
    OBVIOUS
<1>2. PICK t : t = <<x>> \o s
    OBVIOUS
<1>3. /\ Len(t) = n + 1 /\ Len(t) \in Nat \ {0} /\ t[1] = x
      /\ \A i \in 2 .. n + 1 : t[i] = s[i - 1]
    BY <1>1, <1>2
<1>4. PICK f : FlatTo(f, n, s)
    BY <1>1, FlatExists
<1>5. \A i \in 1 .. n : f[i] = IF i = 1 THEN s[i] ELSE f[i - 1] \o s[i]
    BY <1>4 DEF FlatTo
<1>6. \A i \in 1 .. n : s[i] \in Seq(S)
    BY <1>1
<1>7. \A i \in 1 .. n : f[i] \in Seq(S)
    <2> DEFINE Bad == {k \in 1 .. n : f[k] \notin Seq(S)}
    <2> SUFFICES ASSUME Bad # {} PROVE FALSE
        OBVIOUS
    <2>1. PICK k \in Bad : \A m \in Bad : k <= m
        <3>1. Bad \subseteq Nat
            OBVIOUS
        <3> HIDE DEF Bad
        <3> QED
            BY <3>1, MinIsLeast
    <2>2. k \in 1 .. n /\ f[k] \notin Seq(S)
        BY <2>1
    <2>3. k # 1 => k - 1 \in 1 .. n /\ k - 1 \notin Bad
        BY <2>1, <2>2
    <2>4. k # 1 => f[k - 1] \in Seq(S)
        BY <2>3
    <2>5. f[k] = s[k] \/ (k # 1 /\ f[k] = f[k - 1] \o s[k])
        BY <1>5, <2>2
    <2>6. s[k] \in Seq(S)
        BY <1>6, <2>2
    <2>7. CASE k # 1
        <3>1. PICK u \in Seq(S), v \in Seq(S) : u = f[k - 1] /\ v = s[k]
            BY <2>4, <2>6, <2>7
        <3>2. u \o v \in Seq(S)
            OBVIOUS
        <3>3. f[k] = s[k] \/ f[k] = u \o v
            BY <2>5, <3>1
        <3> QED
            BY <2>2, <2>6, <3>2, <3>3
    <2> QED
        BY <2>2, <2>5, <2>6, <2>7
<1>8. PICK h : h = [i \in 1 .. n + 1 |-> IF i = 1 THEN x ELSE x \o f[i - 1]]
    OBVIOUS
<1>9. ASSUME NEW i \in 1 .. n + 1
      PROVE  h[i] = IF i = 1 THEN t[i] ELSE h[i - 1] \o t[i]
    <2>1. CASE i = 1
        BY <1>3, <1>8, <2>1
    <2>2. CASE i = 2
        <3>1. PICK j \in 1 .. n : j = i - 1 /\ j = 1 /\ j \in 1 .. n + 1 /\ i \in 2 .. n + 1
            BY <2>2
        <3>2. f[j] = s[j] /\ t[i] = s[j]
            BY <1>3, <1>5, <3>1
        <3>3. h[i] = x \o f[j] /\ h[j] = x
            BY <1>8, <2>2, <3>1
        <3>4. h[i] = h[j] \o t[i]
            BY <3>2, <3>3, Zenon
        <3> QED
            BY <2>2, <3>1, <3>4
    <2>3. CASE i > 2
        <3>1. PICK j \in 1 .. n : j = i - 1 /\ j # 1 /\ j \in 1 .. n + 1 /\ j - 1 \in 1 .. n
            BY <2>3
        <3>2. f[j] = f[j - 1] \o s[j]
            BY <1>5, <3>1
        <3>3. i \in 2 .. n + 1 /\ i # 1
            BY <2>3
        <3>4. t[i] = s[j]
            BY <1>3, <3>1, <3>3
        <3>5. h[i] = x \o f[j] /\ h[j] = x \o f[j - 1]
            BY <1>8, <3>1, <3>3
        <3>6. PICK u \in Seq(S), v \in Seq(S) : u = f[j - 1] /\ v = s[j]
            BY <1>6, <1>7, <3>1
        <3>7. x \o (u \o v) = (x \o u) \o v
            BY ConcatThrice, SMTT(20)
        <3>8. h[i] = h[i - 1] \o t[i]
            BY <3>1, <3>2, <3>4, <3>5, <3>6, <3>7
        <3> QED
            BY <3>3, <3>8
    <2> QED
        BY <2>1, <2>2, <2>3
<1>10. FlatTo(h, n + 1, t)
    <2> DEFINE e(i) == IF i = 1 THEN t[i] ELSE h[i - 1] \o t[i]
    <2>1. h = [i \in 1 .. n + 1 |-> h[i]] /\ \A i \in 1 .. n + 1 : h[i] = e(i)
        BY <1>8, <1>9
    <2> HIDE DEF e
    <2>2. h = [i \in 1 .. n + 1 |-> e(i)]
        BY <2>1
    <2> USE DEF e
    <2> QED
        BY <2>2 DEF FlatTo
<1>11. FlattenSeq(t) = h[n + 1]
    BY <1>3, <1>10, FlattenIs
<1>12. CASE n = 0
    <2>1. PICK m \in 1 .. n + 1 : m = n + 1 /\ m = 1
        BY <1>12
    <2>2. h[m] = x
        BY <1>8, <2>1
    <2>3. s = <<>>
        <3>1. Len(s) = 0
            BY <1>1, <1>12
        <3> QED
            BY <3>1, EmptySeq, Zenon
    <2>4. FlattenSeq(s) = <<>>
        BY <2>3, FlattenNone, Zenon
    <2> QED
        BY <1>2, <1>11, <2>1, <2>2, <2>4
<1>13. CASE n # 0
    <2>1. FlattenSeq(s) = f[n]
        BY <1>1, <1>4, <1>13, FlattenIs
    <2>2. h[n + 1] = x \o f[n]
        BY <1>8, <1>13, SMTT(20)
    <2> QED
        BY <1>2, <1>11, <2>1, <2>2
<1> QED
    BY <1>12, <1>13

(* What a node yields if f are the yields of its kids.                     *)
YieldOf(f, n, p) ==
    IF n = NULL THEN <<>>
    ELSE LET node == p[n]
             kids == FlattenSeq([i \in 1 .. Len(node.kids) |-> f[node.kids[i]]])
         IN  CASE node.tag \in LeafTags -> <<node.tok>>
               [] node.tag \in UnaryTags -> <<node.tok>> \o kids
               [] node.tag \in BinaryTags ->
                    f[node.kids[1]] \o <<node.tok>> \o f[node.kids[2]]
               [] OTHER -> kids

(* The yields of the first n nodes of a pool.                              *)
YieldTo(f, n, p) == f = [m \in 0 .. n |-> YieldOf(f, m, p)]

(* The nodes of a pool are older than their parents.                       *)
Trees(p) ==
    /\ Len(p) \in Nat
    /\ \A n \in 1 .. Len(p) :
           /\ p[n].tok \in Nat
           /\ p[n].kids \in Seq(0 .. n - 1)
           /\ p[n].tag \in BinaryTags => Len(p[n].kids) = 2

(* A node yields the same in two pools if its kids do.                     *)
LEMMA YieldLocal ==
    ASSUME NEW f, NEW g, NEW p, NEW q, NEW n \in Nat, \A m \in 0 .. n - 1 : f[m] = g[m],
           n # NULL => /\ p[n] = q[n] /\ p[n].kids \in Seq(0 .. n - 1)
                       /\ p[n].tag \in BinaryTags => Len(p[n].kids) = 2
    PROVE  YieldOf(f, n, p) = YieldOf(g, n, q)
<1>1. CASE n = NULL
    BY <1>1 DEF YieldOf
<1>2. CASE n # NULL
    <2>1. PICK kids \in Seq(0 .. n - 1) : kids = p[n].kids /\ kids = q[n].kids
        BY <1>2
    <2>2. \A i \in 1 .. Len(kids) : f[kids[i]] = g[kids[i]]
        <3>1. \A i \in 1 .. Len(kids) : kids[i] \in 0 .. n - 1
            OBVIOUS
        <3> QED
            BY <3>1
    <2>3. [i \in 1 .. Len(kids) |-> f[kids[i]]] = [i \in 1 .. Len(kids) |-> g[kids[i]]]
        BY <2>2
    <2>4. PICK text : /\ text = FlattenSeq([i \in 1 .. Len(kids) |-> f[kids[i]]])
                      /\ text = FlattenSeq([i \in 1 .. Len(kids) |-> g[kids[i]]])
        BY <2>3
    <2>5. PICK node : node = p[n] /\ node = q[n]
        BY <1>2
    <2>6. node.tag \in BinaryTags => f[kids[1]] = g[kids[1]] /\ f[kids[2]] = g[kids[2]]
        BY <1>2, <2>1, <2>2, <2>5
    <2>7. YieldOf(f, n, p) = CASE node.tag \in LeafTags -> <<node.tok>>
                               [] node.tag \in UnaryTags -> <<node.tok>> \o text
                               [] node.tag \in BinaryTags ->
                                    f[kids[1]] \o <<node.tok>> \o f[kids[2]]
                               [] OTHER -> text
        BY <1>2, <2>1, <2>4, <2>5 DEF YieldOf
    <2>8. YieldOf(g, n, q) = CASE node.tag \in LeafTags -> <<node.tok>>
                               [] node.tag \in UnaryTags -> <<node.tok>> \o text
                               [] node.tag \in BinaryTags ->
                                    g[kids[1]] \o <<node.tok>> \o g[kids[2]]
                               [] OTHER -> text
        BY <1>2, <2>1, <2>4, <2>5 DEF YieldOf
    <2>9. CASE node.tag \in BinaryTags
        BY <2>6, <2>7, <2>8, <2>9
    <2>10. CASE node.tag \notin BinaryTags
        BY <2>7, <2>8, <2>10
    <2> QED
        BY <2>9, <2>10
<1> QED
    BY <1>1, <1>2

(* The first n nodes of two pools are the same.                            *)
SharedNodes(p, q, n) == n <= Len(p) /\ \A m \in 1 .. n : p[m] = q[m]

(* And f and g are the yields of more than those n nodes of either pool.   *)
BothYield(f, a, p, g, b, q, n) ==
    /\ Trees(p) /\ YieldTo(f, a, p) /\ YieldTo(g, b, q)
    /\ SharedNodes(p, q, n) /\ n <= a /\ n <= b

(* Nodes that two pools share yield the same.                              *)
LEMMA YieldSame ==
    ASSUME NEW p, NEW q, NEW a \in Nat, NEW b \in Nat, NEW n \in Nat, NEW f, NEW g,
           BothYield(f, a, p, g, b, q, n)
    PROVE  \A m \in 0 .. n : f[m] = g[m]
<1>0. /\ Trees(p) /\ YieldTo(f, a, p) /\ YieldTo(g, b, q)
      /\ SharedNodes(p, q, n) /\ n <= a /\ n <= b
    BY DEF BothYield
<1> DEFINE Bad == {m \in 0 .. n : f[m] # g[m]}
<1> SUFFICES ASSUME Bad # {} PROVE FALSE
    OBVIOUS
<1>1. PICK m \in Bad : \A k \in Bad : m <= k
    <2>1. Bad \subseteq Nat
        OBVIOUS
    <2> HIDE DEF Bad
    <2> QED
        BY <2>1, MinIsLeast
<1>2. m \in 0 .. n /\ f[m] # g[m] /\ m \in Nat
    BY <1>1
<1>3. \A k \in 0 .. m - 1 : f[k] = g[k]
    <2> SUFFICES ASSUME NEW k \in 0 .. m - 1 PROVE f[k] = g[k]
        OBVIOUS
    <2>1. k \in 0 .. n /\ k \notin Bad
        BY <1>1, <1>2
    <2> QED
        BY <2>1
<1>4. m # NULL => /\ p[m] = q[m] /\ p[m].kids \in Seq(0 .. m - 1)
                  /\ p[m].tag \in BinaryTags => Len(p[m].kids) = 2
    <2> SUFFICES ASSUME m # NULL
                 PROVE  /\ p[m] = q[m] /\ p[m].kids \in Seq(0 .. m - 1)
                        /\ p[m].tag \in BinaryTags => Len(p[m].kids) = 2
        OBVIOUS
    <2>1. Len(p) \in Nat /\ m \in 1 .. n /\ m \in 1 .. Len(p)
        BY <1>0, <1>2 DEF Trees, NULL, SharedNodes
    <2>2. p[m] = q[m]
        BY <1>0, <2>1 DEF SharedNodes
    <2> QED
        BY <1>0, <2>1, <2>2 DEF Trees
<1>5. YieldOf(f, m, p) = YieldOf(g, m, q)
    BY <1>2, <1>3, <1>4, YieldLocal
<1>6. f[m] = YieldOf(f, m, p) /\ g[m] = YieldOf(g, m, q)
    <2>1. m \in 0 .. a /\ m \in 0 .. b
        BY <1>0, <1>2
    <2> HIDE DEF YieldOf
    <2> QED
        BY <1>0, <2>1 DEF YieldTo
<1> QED
    BY <1>2, <1>5, <1>6

(* There are yields.                                                       *)
LEMMA YieldExists ==
    ASSUME NEW p, Trees(p)
    PROVE  \E f : YieldTo(f, Len(p), p)
<1> DEFINE Bad == {n \in 0 .. Len(p) : ~ \E f : YieldTo(f, n, p)}
<1> SUFFICES ASSUME Bad # {} PROVE FALSE
    <2>1. Len(p) \in Nat
        BY DEF Trees
    <2> QED
        BY <2>1
<1>1. PICK n \in Bad : \A m \in Bad : n <= m
    <2>1. Bad \subseteq Nat
        OBVIOUS
    <2> HIDE DEF Bad
    <2> QED
        BY <2>1, MinIsLeast
<1>2. n # 0
    <2>1. PICK f : f = [m \in 0 .. 0 |-> <<>>]
        OBVIOUS
    <2>2. \A m \in 0 .. 0 : YieldOf(f, m, p) = <<>>
        BY DEF YieldOf, NULL
    <2>3. YieldTo(f, 0, p)
        BY <2>1, <2>2 DEF YieldTo
    <2> QED
        BY <2>3
<1>3. Len(p) \in Nat /\ n \in Nat /\ n \in 1 .. Len(p) /\ n - 1 \in 0 .. Len(p) /\ n - 1 \notin Bad
    <2>1. Len(p) \in Nat
        BY DEF Trees
    <2>2. n \in 0 .. Len(p)
        OBVIOUS
    <2>3. n \in Nat /\ n \in 1 .. Len(p) /\ n - 1 \in 0 .. Len(p) /\ ~(n <= n - 1)
        BY <1>2, <2>1, <2>2
    <2>4. n - 1 \notin Bad
        BY <1>1, <2>3
    <2> QED
        BY <2>1, <2>3, <2>4
<1>4. PICK f : YieldTo(f, n - 1, p)
    BY <1>3
<1>5. PICK last : last = YieldOf(f, n, p)
    OBVIOUS
<1>6. PICK g : g = [m \in 0 .. n |-> IF m = n THEN last ELSE f[m]]
    OBVIOUS
<1>7. \A m \in 0 .. n - 1 : f[m] = g[m]
    BY <1>3, <1>6
<1>8. ASSUME NEW m \in 0 .. n
      PROVE  g[m] = YieldOf(g, m, p)
    <2>1. m \in Nat /\ \A k \in 0 .. m - 1 : f[k] = g[k]
        BY <1>3, <1>7
    <2>2. m # NULL => /\ p[m] = p[m] /\ p[m].kids \in Seq(0 .. m - 1)
                      /\ p[m].tag \in BinaryTags => Len(p[m].kids) = 2
        <3> SUFFICES ASSUME m # NULL
                     PROVE  /\ p[m].kids \in Seq(0 .. m - 1)
                            /\ p[m].tag \in BinaryTags => Len(p[m].kids) = 2
            OBVIOUS
        <3>1. m \in 1 .. Len(p)
            BY <1>3 DEF NULL
        <3> QED
            BY <3>1 DEF Trees
    <2>3. YieldOf(f, m, p) = YieldOf(g, m, p)
        BY <2>1, <2>2, YieldLocal
    <2>4. g[m] = YieldOf(f, m, p)
        <3>1. CASE m = n
            BY <1>5, <1>6, <3>1
        <3>2. CASE m # n
            <4>1. m \in 0 .. n - 1
                BY <1>3, <3>2
            <4>2. f[m] = YieldOf(f, m, p)
                BY <1>4, <4>1 DEF YieldTo
            <4> QED
                BY <1>7, <4>1, <4>2
        <3> QED
            BY <3>1, <3>2
    <2> QED
        BY <2>3, <2>4
<1>9. YieldTo(g, n, p)
    <2>1. g = [m \in 0 .. n |-> g[m]]
        BY <1>6
    <2>2. g = [m \in 0 .. n |-> YieldOf(g, m, p)]
        BY <1>8, <2>1
    <2> QED
        BY <2>2 DEF YieldTo
<1> QED
    BY <1>1, <1>9

(* What a node yields are token indices.                                   *)
LEMMA YieldType ==
    ASSUME NEW p, Trees(p), NEW f, YieldTo(f, Len(p), p)
    PROVE  \A m \in 0 .. Len(p) : f[m] \in Seq(Nat)
<1> DEFINE Bad == {m \in 0 .. Len(p) : f[m] \notin Seq(Nat)}
<1> SUFFICES ASSUME Bad # {} PROVE FALSE
    OBVIOUS
<1>1. PICK n \in Bad : \A k \in Bad : n <= k
    <2>1. Bad \subseteq Nat
        OBVIOUS
    <2> HIDE DEF Bad
    <2> QED
        BY <2>1, MinIsLeast
<1>2. n \in 0 .. Len(p) /\ f[n] \notin Seq(Nat) /\ n \in Nat /\ Len(p) \in Nat
    BY <1>1 DEF Trees
<1>3. \A k \in 0 .. n - 1 : f[k] \in Seq(Nat)
    <2> SUFFICES ASSUME NEW k \in 0 .. n - 1 PROVE f[k] \in Seq(Nat)
        OBVIOUS
    <2>1. k \in 0 .. Len(p) /\ k \notin Bad
        BY <1>1, <1>2
    <2> QED
        BY <2>1
<1>4. f[n] = YieldOf(f, n, p)
    <2> HIDE DEF YieldOf
    <2> QED
        BY <1>2 DEF YieldTo
<1>5. n # NULL
    <2> SUFFICES ASSUME n = NULL PROVE FALSE
        OBVIOUS
    <2>1. YieldOf(f, n, p) = <<>>
        BY DEF YieldOf
    <2> QED
        BY <1>2, <1>4, <2>1
<1>6. n \in 1 .. Len(p)
    BY <1>2, <1>5 DEF NULL
<1>7. PICK node : node = p[n]
    OBVIOUS
<1>8. /\ node.tok \in Nat /\ node.kids \in Seq(0 .. n - 1)
      /\ node.tag \in BinaryTags => Len(node.kids) = 2
    BY <1>6, <1>7 DEF Trees
<1>9. [i \in 1 .. Len(node.kids) |-> f[node.kids[i]]] \in Seq(Seq(Nat))
    <2>1. PICK kids \in Seq(0 .. n - 1) : kids = node.kids
        BY <1>8
    <2>2. \A i \in 1 .. Len(kids) : f[kids[i]] \in Seq(Nat)
        <3>1. \A i \in 1 .. Len(kids) : kids[i] \in 0 .. n - 1
            OBVIOUS
        <3> QED
            BY <1>3, <3>1
    <2>3. PICK s : s = [i \in 1 .. Len(kids) |-> f[kids[i]]]
        OBVIOUS
    <2>4. s \in [1 .. Len(kids) -> Seq(Nat)]
        BY <2>2, <2>3
    <2>5. s \in Seq(Seq(Nat))
        BY <2>4
    <2> QED
        BY <2>1, <2>3, <2>5
<1>10. PICK text \in Seq(Nat) : text = FlattenSeq([i \in 1 .. Len(node.kids) |-> f[node.kids[i]]])
    BY <1>9, FlattenType
<1>11. YieldOf(f, n, p) = CASE node.tag \in LeafTags -> <<node.tok>>
                            [] node.tag \in UnaryTags -> <<node.tok>> \o text
                            [] node.tag \in BinaryTags ->
                                 f[node.kids[1]] \o <<node.tok>> \o f[node.kids[2]]
                            [] OTHER -> text
    BY <1>5, <1>7, <1>10 DEF YieldOf
<1>12. PICK tok \in Seq(Nat) : tok = <<node.tok>>
    <2>1. PICK k \in Nat : k = node.tok
        BY <1>8
    <2>2. <<k>> \in Seq(Nat)
        OBVIOUS
    <2>3. <<k>> = <<node.tok>>
        BY <2>1
    <2> QED
        BY <2>2, <2>3
<1>13. node.tag \in BinaryTags => f[node.kids[1]] \in Seq(Nat) /\ f[node.kids[2]] \in Seq(Nat)
    <2>1. PICK kids \in Seq(0 .. n - 1) : kids = node.kids
        BY <1>8
    <2>2. node.tag \in BinaryTags => Len(kids) = 2
        BY <1>8, <2>1
    <2>3. node.tag \in BinaryTags => kids[1] \in 0 .. n - 1 /\ kids[2] \in 0 .. n - 1
        BY <2>2, SMTT(20)
    <2> QED
        BY <1>3, <2>1, <2>3
<1>14. CASE node.tag \in BinaryTags
    <2>1. PICK u \in Seq(Nat), v \in Seq(Nat) : u = f[node.kids[1]] /\ v = f[node.kids[2]]
        BY <1>13, <1>14
    <2>2. u \o tok \o v \in Seq(Nat)
        OBVIOUS
    <2>3. f[node.kids[1]] \o <<node.tok>> \o f[node.kids[2]] \in Seq(Nat)
        BY <1>12, <2>1, <2>2
    <2>4. YieldOf(f, n, p) \in Seq(Nat)
        BY <1>11, <1>14, <2>3 DEF BinaryTags, LeafTags, UnaryTags
    <2> QED
        BY <1>2, <1>4, <2>4
<1>15. CASE node.tag \notin BinaryTags
    <2>1. tok \o text \in Seq(Nat)
        OBVIOUS
    <2>2. YieldOf(f, n, p) \in Seq(Nat)
        BY <1>11, <1>12, <1>15, <2>1
    <2> QED
        BY <1>2, <1>4, <2>2
<1> QED
    BY <1>14, <1>15

(* The operands and operators of a text are those of Operands.             *)
OperandsOf(f, n) ==
    IF n = 0 THEN <<>>
    ELSE IF Tok(n - 1) \in Punctuation THEN f[n - 1]
    ELSE Append(f[n - 1], n - 1)

(* f does so up to n.                                                      *)
OperandsTo(f, n) == f = [m \in 0 .. n |-> OperandsOf(f, m)]

(* There is such a function for every bound.                               *)
LEMMA OperandsExist ==
    ASSUME NEW b \in Nat
    PROVE  \E f : OperandsTo(f, b)
<1> DEFINE Bad == {n \in 0 .. b : ~ \E f : OperandsTo(f, n)}
<1> SUFFICES ASSUME Bad # {} PROVE FALSE
    OBVIOUS
<1>1. PICK n \in Bad : \A m \in Bad : n <= m
    <2>1. Bad \subseteq Nat
        OBVIOUS
    <2> HIDE DEF Bad
    <2> QED
        BY <2>1, MinIsLeast
<1>2. n # 0
    <2>1. PICK f : f = [m \in 0 .. 0 |-> <<>>]
        OBVIOUS
    <2>2. \A m \in 0 .. 0 : OperandsOf(f, m) = <<>>
        BY DEF OperandsOf
    <2>3. OperandsTo(f, 0)
        BY <2>1, <2>2 DEF OperandsTo
    <2> QED
        BY <2>3
<1>3. n \in Nat /\ n \in 1 .. b /\ n - 1 \in 0 .. b /\ n - 1 \notin Bad
    <2>1. n \in 0 .. b
        OBVIOUS
    <2>2. n \in Nat /\ n \in 1 .. b /\ n - 1 \in 0 .. b /\ ~(n <= n - 1)
        BY <1>2, <2>1
    <2>3. n - 1 \notin Bad
        BY <1>1, <2>2
    <2> QED
        BY <2>2, <2>3
<1>4. PICK f : OperandsTo(f, n - 1)
    BY <1>3
<1>5. PICK last : last = OperandsOf(f, n)
    OBVIOUS
<1>6. PICK g : g = [m \in 0 .. n |-> IF m = n THEN last ELSE f[m]]
    OBVIOUS
<1>7. \A m \in 0 .. n - 1 : f[m] = g[m]
    BY <1>3, <1>6
<1>8. ASSUME NEW m \in 0 .. n
      PROVE  g[m] = OperandsOf(g, m)
    <2>1. m = 0 \/ (m - 1 \in 0 .. n - 1 /\ f[m - 1] = g[m - 1])
        BY <1>3, <1>7
    <2>2. OperandsOf(f, m) = OperandsOf(g, m)
        BY <2>1 DEF OperandsOf
    <2>3. g[m] = OperandsOf(f, m)
        <3>1. CASE m = n
            BY <1>5, <1>6, <3>1
        <3>2. CASE m # n
            <4>1. m \in 0 .. n - 1
                BY <1>3, <3>2
            <4>2. f[m] = OperandsOf(f, m)
                BY <1>4, <4>1 DEF OperandsTo
            <4> QED
                BY <1>7, <4>1, <4>2
        <3> QED
            BY <3>1, <3>2
    <2> QED
        BY <2>2, <2>3
<1>9. OperandsTo(g, n)
    <2>1. g = [m \in 0 .. n |-> g[m]]
        BY <1>6
    <2>2. g = [m \in 0 .. n |-> OperandsOf(g, m)]
        BY <1>8, <2>1
    <2> QED
        BY <2>2 DEF OperandsTo
<1> QED
    BY <1>1, <1>9

(* Two of them agree as far as both go.                                    *)
LEMMA OperandsUnique ==
    ASSUME NEW a \in Nat, NEW b \in Nat, NEW n \in Nat, n <= a, n <= b,
           NEW f, NEW g, OperandsTo(f, a), OperandsTo(g, b)
    PROVE  f[n] = g[n]
<1> DEFINE Bad == {m \in 0 .. n : f[m] # g[m]}
<1> SUFFICES ASSUME Bad # {} PROVE FALSE
    OBVIOUS
<1>1. PICK m \in Bad : \A k \in Bad : m <= k
    <2>1. Bad \subseteq Nat
        OBVIOUS
    <2> HIDE DEF Bad
    <2> QED
        BY <2>1, MinIsLeast
<1>2. m \in 0 .. n /\ f[m] # g[m] /\ m \in Nat /\ m \in 0 .. a /\ m \in 0 .. b
    BY <1>1
<1>3. m = 0 \/ f[m - 1] = g[m - 1]
    <2> SUFFICES ASSUME m # 0 PROVE f[m - 1] = g[m - 1]
        OBVIOUS
    <2>1. m - 1 \in 0 .. n /\ m - 1 \notin Bad
        BY <1>1, <1>2
    <2> QED
        BY <2>1
<1>4. OperandsOf(f, m) = OperandsOf(g, m)
    BY <1>3 DEF OperandsOf
<1>5. f[m] = OperandsOf(f, m) /\ g[m] = OperandsOf(g, m)
    <2> HIDE DEF OperandsOf
    <2> QED
        BY <1>2 DEF OperandsTo
<1> QED
    BY <1>2, <1>4, <1>5

(* Operands as a function of the text.                                     *)
TextOperands(t) ==
    CHOOSE g : g = [n \in Nat |->
        IF n = 0 THEN <<>>
        ELSE IF t[n - 1 + 1] \in Punctuation THEN g[n - 1]
        ELSE Append(g[n - 1], n - 1)]

(* It is what the model means by it, in this state and the next one.       *)
LEMMA OperandsNow ==
    /\ Operands = TextOperands(tokens)
    /\ Operands' = TextOperands(tokens')
<1>1. Operands = TextOperands(tokens)
    BY Zenon DEF Operands, TextOperands, Tok
<1>2. Operands' = TextOperands(tokens')
    BY Zenon DEF Operands, TextOperands, Tok
<1> QED
    BY <1>1, <1>2

(* Operands does to each token what its definition says.                   *)
LEMMA OperandsStep == \A n \in Nat : Operands[n] = OperandsOf(Operands, n)
<1> DEFINE part(n) == CHOOSE f : OperandsTo(f, n)
           h == [n \in Nat |-> part(n)[n]]
<1>1. \A n \in Nat : OperandsTo(part(n), n)
    BY OperandsExist
<1> HIDE DEF part
<1>2. ASSUME NEW n \in Nat
      PROVE  h[n] = OperandsOf(h, n)
    <2>1. OperandsTo(part(n), n)
        BY <1>1
    <2>2. part(n)[n] = OperandsOf(part(n), n)
        <3>1. n \in 0 .. n
            OBVIOUS
        <3> HIDE DEF OperandsOf
        <3> QED
            BY <2>1, <3>1 DEF OperandsTo
    <2>3. CASE n = 0
        BY <2>2, <2>3 DEF OperandsOf
    <2>4. CASE n # 0
        <3>1. PICK m \in Nat : m = n - 1
            BY <2>4
        <3>2. OperandsTo(part(m), m) /\ m <= n /\ m <= m
            BY <1>1, <3>1
        <3>3. part(n)[m] = part(m)[m]
            BY <2>1, <3>2, OperandsUnique
        <3>4. h[n] = part(n)[n] /\ h[m] = part(m)[m]
            OBVIOUS
        <3> HIDE DEF h
        <3>5. OperandsOf(part(n), n) = OperandsOf(h, n)
            BY <3>1, <3>3, <3>4 DEF OperandsOf
        <3> QED
            BY <2>2, <3>4, <3>5
    <2> QED
        BY <2>3, <2>4
<1>3. h = [n \in Nat |-> OperandsOf(h, n)]
    <2>1. h = [n \in Nat |-> h[n]]
        OBVIOUS
    <2> HIDE DEF h, OperandsOf
    <2> QED
        BY <1>2, <2>1
<1> HIDE DEF h
<1>4. Operands = CHOOSE g : g = [n \in Nat |-> OperandsOf(g, n)]
    BY Zenon DEF Operands, OperandsOf
<1>5. Operands = [n \in Nat |-> OperandsOf(Operands, n)]
    <2> HIDE DEF Operands, OperandsOf
    <2> QED
        BY <1>3, <1>4, Zenon
<1> QED
    <2> HIDE DEF Operands, OperandsOf
    <2>1. PICK g : g = Operands
        OBVIOUS
    <2>2. g = [n \in Nat |-> OperandsOf(g, n)]
        BY <1>5, <2>1
    <2> QED
        BY <2>1, <2>2

(* A token that is no punctuation is one more operand or operator.         *)
LEMMA OperandRead ==
    ASSUME NEW n \in Nat
    PROVE  Operands[n + 1] = IF Tok(n) \in Punctuation THEN Operands[n]
                             ELSE Append(Operands[n], n)
<1>1. PICK m \in Nat : m = n + 1
    OBVIOUS
<1>2. Operands[m] = OperandsOf(Operands, m)
    BY OperandsStep
<1>3. m # 0 /\ m - 1 = n
    BY <1>1
<1>4. OperandsOf(Operands, m) = IF Tok(n) \in Punctuation THEN Operands[n]
                                ELSE Append(Operands[n], n)
    BY <1>3 DEF OperandsOf
<1> QED
    BY <1>1, <1>2, <1>4

(* The operands of a text are token indices.                               *)
LEMMA OperandsType == \A n \in Nat : Operands[n] \in Seq(Nat)
<1> DEFINE Bad == {n \in Nat : Operands[n] \notin Seq(Nat)}
<1> SUFFICES ASSUME Bad # {} PROVE FALSE
    OBVIOUS
<1>1. PICK n \in Bad : \A k \in Bad : n <= k
    <2>1. Bad \subseteq Nat
        OBVIOUS
    <2> HIDE DEF Bad
    <2> QED
        BY <2>1, MinIsLeast
<1>2. n \in Nat /\ Operands[n] \notin Seq(Nat)
    BY <1>1
<1>3. n # 0
    <2> SUFFICES ASSUME n = 0 PROVE FALSE
        OBVIOUS
    <2>1. Operands[n] = <<>>
        BY <1>2, OperandsStep DEF OperandsOf
    <2>2. <<>> \in Seq(Nat)
        OBVIOUS
    <2> QED
        BY <1>2, <2>1, <2>2
<1>4. PICK m \in Nat : m = n - 1 /\ n = m + 1
    BY <1>2, <1>3
<1>5. m \notin Bad
    BY <1>1, <1>4
<1>6. PICK text \in Seq(Nat) : text = Operands[m]
    BY <1>5
<1>7. Append(text, m) \in Seq(Nat)
    OBVIOUS
<1>8. Operands[n] = IF Tok(m) \in Punctuation THEN text ELSE Append(text, m)
    BY <1>4, <1>6, OperandRead
<1> QED
    BY <1>2, <1>7, <1>8

(* The pool of the parser is one of trees.                                 *)
LEMMA PoolOfTrees ==
    ASSUME IndInv
    PROVE  Trees(pool)
<1>1. pool \in Seq(NodeType) /\ \A n \in 1 .. Len(pool) : NodeSound(n)
    BY DEF IndInv, TypeOK, CallChain
<1>2. Len(pool) \in Nat
    BY <1>1
<1>3. ASSUME NEW n \in 1 .. Len(pool)
      PROVE  /\ pool[n].tok \in Nat
             /\ pool[n].kids \in Seq(0 .. n - 1)
             /\ pool[n].tag \in BinaryTags => Len(pool[n].kids) = 2
    <2>1. pool[n] \in NodeType
        BY <1>1
    <2>2. PICK kids \in Seq(Nat) : kids = pool[n].kids
        BY <2>1 DEF NodeType
    <2>3. NodeSound(n) /\ n \in Nat
        BY <1>1, <1>2
    <2>4. \A i \in 1 .. Len(kids) : kids[i] \in Nat /\ kids[i] < n
        <3>1. \A i \in 1 .. Len(kids) : kids[i] \in Nat
            OBVIOUS
        <3> QED
            BY <2>2, <2>3, <3>1 DEF NodeSound
    <2>5. \A i \in 1 .. Len(kids) : kids[i] \in 0 .. n - 1
        BY <2>3, <2>4
    <2>6. kids \in Seq(0 .. n - 1)
        BY <2>5
    <2> QED
        BY <2>1, <2>2, <2>3, <2>6 DEF NodeSound, NodeType
<1> QED
    BY <1>2, <1>3 DEF Trees

(* Yield is what its definition says it is.                                *)
LEMMA YieldNow ==
    ASSUME IndInv
    PROVE  YieldTo(Yield, Len(pool), pool)
<1>1. \E f : f = [m \in 0 .. Len(pool) |-> YieldOf(f, m, pool)]
    BY PoolOfTrees, YieldExists DEF YieldTo
<1>2. Yield = CHOOSE f : f = [m \in 0 .. Len(pool) |-> YieldOf(f, m, pool)]
    BY Zenon DEF Yield, YieldOf
<1>3. Yield = [m \in 0 .. Len(pool) |-> YieldOf(Yield, m, pool)]
    <2> HIDE DEF Yield, YieldOf
    <2> QED
        BY <1>1, <1>2, Zenon
<1> QED
    <2> HIDE DEF Yield, YieldOf
    <2> QED
        BY <1>3, Zenon DEF YieldTo

(* And in the next state.                                                  *)
LEMMA YieldNext == IndInv' => Trees(pool') /\ YieldTo(Yield', Len(pool'), pool')
<1>1. IndInv => Trees(pool) /\ YieldTo(Yield, Len(pool), pool)
    BY PoolOfTrees, YieldNow
<1>2. (IndInv => Trees(pool) /\ YieldTo(Yield, Len(pool), pool))'
    BY <1>1, PTL
<1> QED
    BY <1>2

(* What every node yields.                                                 *)
LEMMA YieldFacts ==
    ASSUME IndInv
    PROVE  /\ Yield \in [0 .. Len(pool) -> Seq(Nat)]
           /\ Len(pool) \in Nat
           /\ Yield[NULL] = <<>>
           /\ \A n \in 0 .. Len(pool) : Yield[n] = YieldOf(Yield, n, pool)
<1>1. Trees(pool) /\ YieldTo(Yield, Len(pool), pool)
    BY PoolOfTrees, YieldNow
<1>2. \A n \in 0 .. Len(pool) : Yield[n] \in Seq(Nat)
    BY <1>1, YieldType
<1>3. Len(pool) \in Nat
    BY <1>1 DEF Trees
<1>4. PICK y : y = Yield
    OBVIOUS
<1>5. y = [m \in 0 .. Len(pool) |-> YieldOf(y, m, pool)]
    BY <1>1, <1>4 DEF YieldTo
<1>6. \A n \in 0 .. Len(pool) : y[n] = YieldOf(y, n, pool)
    <2> HIDE DEF YieldOf
    <2> QED
        BY <1>5
<1>7. y \in [0 .. Len(pool) -> Seq(Nat)]
    <2> HIDE DEF YieldOf
    <2> QED
        BY <1>2, <1>4, <1>5
<1>8. y[NULL] = <<>>
    <2>1. NULL \in 0 .. Len(pool)
        BY <1>3 DEF NULL
    <2>2. YieldOf(y, NULL, pool) = <<>>
        BY DEF YieldOf
    <2> QED
        BY <1>6, <2>1, <2>2
<1> QED
    BY <1>3, <1>4, <1>6, <1>7, <1>8

(* A pool that only grows leaves what its nodes yield.                     *)
LEMMA YieldKept ==
    ASSUME IndInv, IndInv', Len(pool) <= Len(pool'),
           \A n \in 1 .. Len(pool) : pool[n] = pool'[n]
    PROVE  /\ \A n \in 0 .. Len(pool) : Yield'[n] = Yield[n]
           /\ Yield' \in [0 .. Len(pool') -> Seq(Nat)]
           /\ Len(pool') \in Nat
           /\ \A n \in 0 .. Len(pool') : Yield'[n] = YieldOf(Yield', n, pool')
<1>1. /\ Trees(pool) /\ YieldTo(Yield, Len(pool), pool)
      /\ Trees(pool') /\ YieldTo(Yield', Len(pool'), pool')
    BY PoolOfTrees, YieldNow, YieldNext
<1>2. PICK a \in Nat, b \in Nat : a = Len(pool) /\ b = Len(pool') /\ a <= b /\ a <= a
    BY <1>1 DEF Trees
<1>3. YieldTo(Yield, a, pool) /\ YieldTo(Yield', b, pool') /\ a <= Len(pool)
    BY <1>1, <1>2
<1>4. \A n \in 1 .. a : pool[n] = pool'[n]
    BY <1>2
<1>5. \A n \in 0 .. a : Yield[n] = Yield'[n]
    <2>1. PICK f, g, p, q : f = Yield /\ g = Yield' /\ p = pool /\ q = pool'
        OBVIOUS
    <2>2. PICK c \in Nat : c = a
        OBVIOUS
    <2>3. Trees(p) /\ YieldTo(f, a, p) /\ YieldTo(g, b, q)
        BY <1>1, <1>3, <2>1
    <2>4. c <= a /\ c <= b /\ SharedNodes(p, q, c)
        BY <1>2, <1>4, <2>1, <2>2 DEF SharedNodes
    <2>5. BothYield(f, a, p, g, b, q, c)
        BY <2>3, <2>4 DEF BothYield
    <2>6. \A n \in 0 .. c : f[n] = g[n]
        BY <2>5, YieldSame
    <2>7. \A n \in 0 .. a : f[n] = g[n]
        BY <2>2, <2>6
    <2> QED
        BY <2>1, <2>7, Zenon
<1>6. \A n \in 0 .. Len(pool') : Yield'[n] \in Seq(Nat)
    BY <1>1, YieldType
<1>7. PICK y : y = Yield'
    OBVIOUS
<1>8. y = [m \in 0 .. Len(pool') |-> YieldOf(y, m, pool')]
    BY <1>1, <1>7 DEF YieldTo
<1>9. \A n \in 0 .. Len(pool') : y[n] = YieldOf(y, n, pool')
    <2> HIDE DEF YieldOf
    <2> QED
        BY <1>8
<1>10. y \in [0 .. Len(pool') -> Seq(Nat)]
    <2> HIDE DEF YieldOf
    <2> QED
        BY <1>6, <1>7, <1>8
<1> QED
    BY <1>2, <1>5, <1>7, <1>9, <1>10

(* A list of one or two parts, put together.                               *)
LEMMA FlattenFew ==
    ASSUME NEW x \in Seq(Nat), NEW y \in Seq(Nat)
    PROVE  FlattenSeq(<<x>>) = x /\ FlattenSeq(<<x, y>>) = x \o y
<1> DEFINE T == Seq(Nat)
<1>1. x \in T /\ y \in T
    OBVIOUS
<1>2. <<>> \in Seq(T) /\ <<x>> \in Seq(T)
    <2> HIDE DEF T
    <2> QED
        BY <1>1
<1>3. PICK e \in Seq(Seq(Nat)), d \in Seq(Seq(Nat)) : e = <<>> /\ d = <<x>>
    BY <1>2, Zenon
<1>4. d = Append(e, x) /\ <<x, y>> = Append(d, y)
    BY <1>3
<1>5. FlattenSeq(Append(e, x)) = FlattenSeq(e) \o x
    BY FlattenAppend
<1>6. FlattenSeq(Append(d, y)) = FlattenSeq(d) \o y
    BY FlattenAppend
<1>7. FlattenSeq(e) = <<>>
    BY <1>3, FlattenNone, Zenon
<1>8. <<>> \o x = x
    OBVIOUS
<1>9. FlattenSeq(d) = x
    BY <1>4, <1>5, <1>7, <1>8, Zenon
<1> QED
    BY <1>3, <1>4, <1>6, <1>9, Zenon

(* What one kid or two yield.                                              *)
LEMMA OneKid ==
    ASSUME NEW f, NEW k, f[k] \in Seq(Nat), NEW kids, kids = <<k>>
    PROVE  FlattenSeq([i \in 1 .. Len(kids) |-> f[kids[i]]]) = f[k]
<1>1. PICK x \in Seq(Nat) : x = f[k]
    OBVIOUS
<1>2. [i \in 1 .. Len(kids) |-> f[kids[i]]] = <<x>>
    BY <1>1
<1>3. FlattenSeq(<<x>>) = x
    BY FlattenFew
<1> QED
    BY <1>1, <1>2, <1>3, Zenon

(* And the two children of a binary node.                                  *)
LEMMA TwoKids ==
    ASSUME NEW f, NEW k, NEW l, f[k] \in Seq(Nat), f[l] \in Seq(Nat),
           NEW kids, kids = <<k, l>>
    PROVE  FlattenSeq([i \in 1 .. Len(kids) |-> f[kids[i]]]) = f[k] \o f[l]
<1>1. PICK x \in Seq(Nat), y \in Seq(Nat) : x = f[k] /\ y = f[l]
    OBVIOUS
<1>2. [i \in 1 .. Len(kids) |-> f[kids[i]]] = <<x, y>>
    BY <1>1
<1>3. FlattenSeq(<<x, y>>) = x \o y
    BY FlattenFew
<1> QED
    BY <1>1, <1>2, <1>3, Zenon

(* Two lists with the same members are one.                                *)
LEMMA SameList ==
    ASSUME NEW S, NEW s \in Seq(S), NEW t \in Seq(S), Len(s) = Len(t),
           \A i \in 1 .. Len(s) : s[i] = t[i]
    PROVE  s = t
    OBVIOUS

(* A list of n members of a set is a sequence over it.                     *)
LEMMA ListOf ==
    ASSUME NEW S, NEW n \in Nat, NEW s \in [1 .. n -> S]
    PROVE  s \in Seq(S)
    OBVIOUS

(* What a suspended activation holds of the text, if y are the yields of   *)
(* the nodes.                                                              *)
FrameText(f, y) ==
    CASE f.at = "operand" -> <<f.tok>>
      [] f.at = "rhs" -> y[f.lhs] \o <<f.tok>>
      [] f.at \in {"member", "index"} -> y[f.lhs]
      [] f.at = "args" -> y[f.lhs] \o FlattenSeq([i \in 1 .. Len(f.args) |-> y[f.args[i]]])
      [] OTHER -> <<>>

(* What all of them hold, from the bottom of the stack s to its top.       *)
StackText(s, y) == FlattenSeq([k \in 1 .. Len(s) |-> FrameText(s[k], y)])

(* The locals of an activation point at the first n nodes.                 *)
PointsInto(f, n) ==
    /\ f \in FrameType
    /\ f.lhs \in 0 .. n
    /\ f.args \in Seq(0 .. n)

(* So do those of every activation.                                        *)
StackInto(s, n) == s \in Seq(FrameType) /\ \A k \in 1 .. Len(s) : PointsInto(s[k], n)

(* An argument list, put together.                                         *)
LEMMA ArgsText ==
    ASSUME NEW n \in Nat, NEW y \in [0 .. n -> Seq(Nat)], NEW args \in Seq(0 .. n)
    PROVE  /\ [i \in 1 .. Len(args) |-> y[args[i]]] \in Seq(Seq(Nat))
           /\ FlattenSeq([i \in 1 .. Len(args) |-> y[args[i]]]) \in Seq(Nat)
<1>1. \A i \in 1 .. Len(args) : y[args[i]] \in Seq(Nat)
    <2>1. \A i \in 1 .. Len(args) : args[i] \in 0 .. n
        BY SMTT(20)
    <2> QED
        BY <2>1
<1>2. PICK s : s = [i \in 1 .. Len(args) |-> y[args[i]]]
    OBVIOUS
<1>3. s \in [1 .. Len(args) -> Seq(Nat)] /\ Len(args) \in Nat
    BY <1>1, <1>2
<1>4. s \in Seq(Seq(Nat))
    BY <1>3, ListOf, Zenon
<1>5. FlattenSeq(s) \in Seq(Nat)
    BY <1>4, FlattenType
<1> QED
    BY <1>2, <1>4, <1>5

(* What an activation holds is a sequence of token indices.                *)
LEMMA FrameTextType ==
    ASSUME NEW n \in Nat, NEW y \in [0 .. n -> Seq(Nat)], NEW f, PointsInto(f, n)
    PROVE  FrameText(f, y) \in Seq(Nat)
<1>1. PICK lhs \in Seq(Nat) : lhs = y[f.lhs]
    BY DEF PointsInto
<1>2. PICK args \in Seq(Nat) : args = FlattenSeq([i \in 1 .. Len(f.args) |-> y[f.args[i]]])
    BY ArgsText DEF PointsInto
<1>3. PICK tok \in Seq(Nat) : tok = <<f.tok>>
    <2>1. PICK k \in Nat : k = f.tok
        BY DEF PointsInto, FrameType
    <2>2. <<k>> \in Seq(Nat)
        OBVIOUS
    <2>3. <<k>> = <<f.tok>>
        BY <2>1
    <2> QED
        BY <2>2, <2>3
<1>4. FrameText(f, y) = CASE f.at = "operand" -> tok
                          [] f.at = "rhs" -> lhs \o tok
                          [] f.at \in {"member", "index"} -> lhs
                          [] f.at = "args" -> lhs \o args
                          [] OTHER -> <<>>
    BY <1>1, <1>2, <1>3 DEF FrameText
<1>5. lhs \o tok \in Seq(Nat) /\ lhs \o args \in Seq(Nat) /\ <<>> \in Seq(Nat)
    OBVIOUS
<1>6. PICK u \in Seq(Nat), v \in Seq(Nat), w \in Seq(Nat) :
          u = lhs \o tok /\ v = lhs \o args /\ w = <<>>
    BY <1>5
<1>7. FrameText(f, y) = CASE f.at = "operand" -> tok
                          [] f.at = "rhs" -> u
                          [] f.at \in {"member", "index"} -> lhs
                          [] f.at = "args" -> v
                          [] OTHER -> w
    BY <1>4, <1>6
<1> QED
    BY <1>7

(* Two yields that agree on the nodes it points at agree on its text.      *)
LEMMA FrameTextSame ==
    ASSUME NEW n \in Nat, NEW y, NEW z, \A m \in 0 .. n : y[m] = z[m],
           NEW f, PointsInto(f, n)
    PROVE  FrameText(f, y) = FrameText(f, z)
<1>1. y[f.lhs] = z[f.lhs]
    BY DEF PointsInto
<1>2. [i \in 1 .. Len(f.args) |-> y[f.args[i]]] = [i \in 1 .. Len(f.args) |-> z[f.args[i]]]
    <2>1. PICK args \in Seq(0 .. n) : args = f.args
        BY DEF PointsInto
    <2>2. \A i \in 1 .. Len(args) : args[i] \in 0 .. n
        OBVIOUS
    <2>3. \A i \in 1 .. Len(args) : y[args[i]] = z[args[i]]
        BY <2>2
    <2> QED
        BY <2>1, <2>3
<1>3. PICK text : /\ text = FlattenSeq([i \in 1 .. Len(f.args) |-> y[f.args[i]]])
                  /\ text = FlattenSeq([i \in 1 .. Len(f.args) |-> z[f.args[i]]])
    BY <1>2
<1>4. FrameText(f, y) = CASE f.at = "operand" -> <<f.tok>>
                          [] f.at = "rhs" -> y[f.lhs] \o <<f.tok>>
                          [] f.at \in {"member", "index"} -> y[f.lhs]
                          [] f.at = "args" -> y[f.lhs] \o text
                          [] OTHER -> <<>>
    BY <1>3 DEF FrameText
<1>5. FrameText(f, z) = CASE f.at = "operand" -> <<f.tok>>
                          [] f.at = "rhs" -> z[f.lhs] \o <<f.tok>>
                          [] f.at \in {"member", "index"} -> z[f.lhs]
                          [] f.at = "args" -> z[f.lhs] \o text
                          [] OTHER -> <<>>
    BY <1>3 DEF FrameText
<1> QED
    BY <1>1, <1>4, <1>5, Zenon

(* The texts of the activations, one by one.                               *)
LEMMA StackParts ==
    ASSUME NEW n \in Nat, NEW y \in [0 .. n -> Seq(Nat)], NEW s, StackInto(s, n)
    PROVE  /\ [k \in 1 .. Len(s) |-> FrameText(s[k], y)] \in Seq(Seq(Nat))
           /\ StackText(s, y) \in Seq(Nat)
<1>1. \A k \in 1 .. Len(s) : FrameText(s[k], y) \in Seq(Nat)
    BY FrameTextType DEF StackInto
<1>2. PICK t : t = [k \in 1 .. Len(s) |-> FrameText(s[k], y)]
    OBVIOUS
<1>3. t \in [1 .. Len(s) -> Seq(Nat)] /\ Len(s) \in Nat
    <2>1. s \in Seq(FrameType)
        BY DEF StackInto
    <2> QED
        BY <1>1, <1>2, <2>1
<1>4. t \in Seq(Seq(Nat))
    BY <1>3, ListOf, Zenon
<1>5. FlattenSeq(t) \in Seq(Nat)
    BY <1>4, FlattenType
<1> QED
    BY <1>2, <1>4, <1>5 DEF StackText

(* Two yields that agree on the nodes it points at agree on its text.      *)
LEMMA StackTextSame ==
    ASSUME NEW n \in Nat, NEW y, NEW z, \A m \in 0 .. n : y[m] = z[m],
           NEW s, StackInto(s, n)
    PROVE  StackText(s, y) = StackText(s, z)
<1>1. \A k \in 1 .. Len(s) : FrameText(s[k], y) = FrameText(s[k], z)
    BY FrameTextSame DEF StackInto
<1>2. [k \in 1 .. Len(s) |-> FrameText(s[k], y)] = [k \in 1 .. Len(s) |-> FrameText(s[k], z)]
    BY <1>1
<1> QED
    BY <1>2 DEF StackText

(* A call adds what it holds to the text of the stack.                     *)
LEMMA StackTextPush ==
    ASSUME NEW n \in Nat, NEW y \in [0 .. n -> Seq(Nat)], NEW s, StackInto(s, n),
           NEW f, PointsInto(f, n)
    PROVE  /\ StackInto(Append(s, f), n)
           /\ StackText(Append(s, f), y) = StackText(s, y) \o FrameText(f, y)
<1>1. s \in Seq(FrameType) /\ f \in FrameType /\ Len(s) \in Nat
    <2>1. s \in Seq(FrameType) /\ f \in FrameType
        BY DEF StackInto, PointsInto
    <2> QED
        BY <2>1
<1>2. PICK t : t = Append(s, f)
    OBVIOUS
<1>3. /\ t \in Seq(FrameType) /\ Len(t) = Len(s) + 1
      /\ \A k \in 1 .. Len(s) : t[k] = s[k]
      /\ t[Len(s) + 1] = f
    BY <1>1, <1>2, PushOne
<1>4. StackInto(t, n)
    <2>1. ASSUME NEW k \in 1 .. Len(t) PROVE PointsInto(t[k], n)
        <3>1. k \in 1 .. Len(s) \/ k = Len(s) + 1
            BY <1>1, <1>3
        <3> QED
            BY <1>3, <3>1 DEF StackInto
    <2> QED
        BY <1>3, <2>1 DEF StackInto
<1>5. PICK x \in Seq(Nat) : x = FrameText(f, y)
    BY FrameTextType
<1>6. PICK p \in Seq(Seq(Nat)) : p = [k \in 1 .. Len(s) |-> FrameText(s[k], y)]
    BY StackParts
<1>7. PICK q \in Seq(Seq(Nat)) : q = [k \in 1 .. Len(t) |-> FrameText(t[k], y)]
    BY <1>4, StackParts
<1>8. q = Append(p, x)
    <2>1. Len(p) = Len(s) /\ Len(q) = Len(s) + 1
        BY <1>1, <1>3, <1>6, <1>7
    <2>2. \A k \in 1 .. Len(s) : q[k] = p[k]
        <3>1. \A k \in 1 .. Len(s) : k \in 1 .. Len(t)
            BY <1>1, <1>3
        <3> QED
            BY <1>3, <1>6, <1>7, <3>1
    <2>3. q[Len(s) + 1] = x
        <3>1. Len(s) + 1 \in 1 .. Len(t)
            BY <1>1, <1>3
        <3> QED
            BY <1>3, <1>5, <1>7, <3>1
    <2> QED
        BY <1>1, <2>1, <2>2, <2>3
<1>9. FlattenSeq(Append(p, x)) = FlattenSeq(p) \o x
    BY FlattenAppend
<1>10. StackText(t, y) = FlattenSeq(q) /\ StackText(s, y) = FlattenSeq(p)
    BY <1>6, <1>7 DEF StackText
<1> QED
    BY <1>2, <1>4, <1>5, <1>8, <1>9, <1>10, Zenon

(* Two nested calls.                                                       *)
LEMMA StackTextPushTwo ==
    ASSUME NEW n \in Nat, NEW y \in [0 .. n -> Seq(Nat)], NEW s, StackInto(s, n),
           NEW f, PointsInto(f, n), NEW m \in 0 .. 12
    PROVE  /\ StackInto(s \o <<f, PrecedenceFrame(m)>>, n)
           /\ StackText(s \o <<f, PrecedenceFrame(m)>>, y) = StackText(s, y) \o FrameText(f, y)
<1>1. PICK g : g = PrecedenceFrame(m)
    OBVIOUS
<1>2. PointsInto(g, n) /\ g.at = "precedence"
    <2>1. g \in FrameType
        BY <1>1, PrecedenceFrameType
    <2>2. g.lhs = 0 /\ g.args = <<>> /\ g.at = "precedence"
        BY <1>1 DEF PrecedenceFrame, Frame, NULL
    <2>3. 0 \in 0 .. n /\ <<>> \in Seq(0 .. n)
        OBVIOUS
    <2> QED
        BY <2>1, <2>2, <2>3 DEF PointsInto
<1>3. FrameText(g, y) = <<>>
    BY <1>2 DEF FrameText
<1>4. PICK t : t = Append(s, f)
    OBVIOUS
<1>5. StackInto(t, n) /\ StackText(t, y) = StackText(s, y) \o FrameText(f, y)
    BY <1>4, StackTextPush
<1>6. StackInto(Append(t, g), n) /\ StackText(Append(t, g), y) = StackText(t, y) \o FrameText(g, y)
    BY <1>2, <1>5, StackTextPush
<1>7. PICK u \in Seq(Nat) : u = StackText(t, y)
    BY <1>5, StackParts
<1>8. u \o <<>> = u
    OBVIOUS
<1>9. Append(t, g) = s \o <<f, g>>
    <2>1. s \in Seq(FrameType) /\ f \in FrameType /\ g \in FrameType
        BY <1>2 DEF StackInto, PointsInto
    <2> QED
        BY <1>4, <2>1, SMTT(20)
<1> QED
    BY <1>1, <1>3, <1>5, <1>6, <1>7, <1>8, <1>9, Zenon

(* A return takes it away again.                                           *)
LEMMA StackTextPop ==
    ASSUME NEW n \in Nat, NEW y \in [0 .. n -> Seq(Nat)], NEW s, StackInto(s, n), s # <<>>
    PROVE  /\ StackInto(Front(s), n)
           /\ PointsInto(Last(s), n)
           /\ StackText(s, y) = StackText(Front(s), y) \o FrameText(Last(s), y)
<1>1. s \in Seq(FrameType)
    BY DEF StackInto
<1>2. PICK t, f : t = Front(s) /\ f = Last(s)
    OBVIOUS
<1>3. /\ t \in Seq(FrameType) /\ f \in FrameType
      /\ Len(t) = Len(s) - 1
      /\ \A i \in 1 .. Len(s) - 1 : t[i] = s[i]
      /\ f = s[Len(s)] /\ Len(s) \in Nat /\ Len(s) >= 1
    BY <1>1, <1>2, PopOne
<1>4. s = Append(t, f)
    <2>1. PICK u : u = Append(t, f)
        OBVIOUS
    <2>2. /\ u \in Seq(FrameType) /\ Len(u) = Len(t) + 1
          /\ \A i \in 1 .. Len(t) : u[i] = t[i]
          /\ u[Len(t) + 1] = f
        BY <1>3, <2>1, PushOne
    <2>3. PICK n1 \in Nat : n1 = Len(s) /\ n1 = Len(u) /\ n1 - 1 = Len(t) /\ n1 >= 1
        BY <1>3, <2>2
    <2>4. \A i \in 1 .. n1 : u[i] = s[i]
        <3> SUFFICES ASSUME NEW i \in 1 .. n1 PROVE u[i] = s[i]
            OBVIOUS
        <3>1. CASE i = n1
            <4>1. u[n1] = f /\ s[n1] = f
                BY <1>3, <2>2, <2>3
            <4> QED
                BY <3>1, <4>1
        <3>2. CASE i # n1
            <4>1. i \in 1 .. Len(t) /\ i \in 1 .. Len(s) - 1
                BY <2>3, <3>2
            <4> QED
                BY <1>3, <2>2, <4>1
        <3> QED
            BY <3>1, <3>2
    <2>5. u = s
        <3>1. Len(u) = Len(s) /\ \A i \in 1 .. Len(u) : u[i] = s[i]
            BY <2>3, <2>4
        <3> QED
            BY <1>1, <2>2, <3>1, SameList
    <2> QED
        BY <2>1, <2>5
<1>5. StackInto(t, n)
    <2>1. ASSUME NEW k \in 1 .. Len(t) PROVE PointsInto(t[k], n)
        <3>1. k \in 1 .. Len(s) /\ t[k] = s[k]
            BY <1>3
        <3> QED
            BY <3>1 DEF StackInto
    <2> QED
        BY <1>3, <2>1 DEF StackInto
<1>6. PointsInto(f, n)
    <2>1. Len(s) \in 1 .. Len(s)
        BY <1>3
    <2> QED
        BY <1>3, <2>1 DEF StackInto
<1>7. StackText(Append(t, f), y) = StackText(t, y) \o FrameText(f, y)
    BY <1>5, <1>6, StackTextPush
<1> QED
    BY <1>2, <1>4, <1>5, <1>6, <1>7, Zenon

(* And the node that is being built or returned.                           *)
HeldText == IF pc \in {"postfix", "return", "done"} THEN Yield[ret] ELSE <<>>

(* No expression starts at the cursor.                                     *)
Barren ==
    /\ Tok(toki) \notin {"TOK_IDENTIFIER", "TOK_LPAREN"} \cup DOMAIN UnaryAst \cup DOMAIN LiteralAst
    /\ ~match(<<"TOK_PERIOD", "TOK_IDENTIFIER">>)

(* The argument list at k has read nothing since it asked for an argument. *)
Fresh(k) ==
    \/ pc = "unary" /\ Len(stack) = k + 1
    \/ pc = "return" /\ ret = NULL /\ Len(stack) \in {k, k + 1}

(* Each argument but the one at the cursor has used up a token.            *)
ArgumentMoves(k) ==
    \/ stack[k].tok + Len(stack[k].args) + 1 < toki
    \/ stack[k].tok + Len(stack[k].args) + 1 = toki /\ Fresh(k)

(* Of every argument list that is being read.                              *)
ArgumentsMove == \A k \in 1 .. Len(stack) : stack[k].at = "args" => ArgumentMoves(k)

(* What a missing expression and a complete argument say of the next token.*)
NothingThere ==
    pc = "return" /\ stack # <<>> =>
        /\ ret = NULL => Caller.at = "member" \/ Barren
        /\ Caller.at = "args" => get_precedence(Tok(toki)) = PREC_NONE

(* Only a member is read without a look for a prefix operator, and the     *)
(* parser is done when no activation is left.                              *)
CallsEnd ==
    /\ pc = "primary" => Caller.at = "member"
    /\ pc = "done" => stack = <<>>

(* The loop of an argument list that can no longer end.                    *)
Looping ==
    /\ Barren
    /\ get_precedence(Tok(toki)) = PREC_NONE
    /\ current \notin {"TOK_COMMA", "TOK_RPAREN"}
    /\ \/ /\ pc = "unary" \/ (pc = "return" /\ ret = NULL)
          /\ Len(stack) >= 2 /\ Caller.at = "precedence" /\ stack[Len(stack) - 1].at = "args"
       \/ pc = "return" /\ ret = NULL /\ stack # <<>> /\ Caller.at = "args"

(* The tree so far and the activations hold what has been read.            *)
TextInv ==
    \/ reported \/ Looping
    \/ /\ ArgumentsMove /\ NothingThere /\ CallsEnd
       /\ StackText(stack, Yield) \o HeldText = Operands[toki]

(* The equation alone.                                                     *)
TextKept == StackText(stack, Yield) \o HeldText = Operands[toki]

(* The activations point at nodes of the pool.                             *)
LEMMA StackPoints == IndInv => StackInto(stack, Len(pool))
<1> SUFFICES ASSUME IndInv
             PROVE  StackInto(stack, Len(pool))
    OBVIOUS
<1>1. stack \in Seq(FrameType) /\ Len(pool) \in Nat
    BY DEF IndInv, TypeOK
<1>2. ASSUME NEW k \in 1 .. Len(stack)
      PROVE  PointsInto(stack[k], Len(pool))
    <2>1. PICK f \in FrameType : f = stack[k]
        BY <1>1
    <2>2. FrameSound(f)
        BY <2>1, Zenon DEF IndInv, CallChain
    <2>3. PICK args \in Seq(Nat) : args = f.args /\ f.lhs \in Nat
        <3>1. f \in FrameType
            BY <2>1
        <3>2. f.args \in Seq(Nat) /\ f.lhs \in Nat
            BY <3>1 DEF FrameType
        <3> QED
            BY <3>2
    <2>4. \A i \in 1 .. Len(args) : args[i] \in Nat
        OBVIOUS
    <2>5. \A i \in 1 .. Len(args) : args[i] \in 0 .. Len(pool)
        BY <1>1, <2>2, <2>3, <2>4 DEF FrameSound
    <2>6. args \in Seq(0 .. Len(pool))
        <3>1. PICK S : S = 0 .. Len(pool)
            OBVIOUS
        <3>2. PICK m \in Nat : m = Len(args)
            OBVIOUS
        <3>3. args = [i \in 1 .. m |-> args[i]]
            BY <3>2
        <3>4. args \in [1 .. m -> S]
            BY <2>5, <3>1, <3>2, <3>3
        <3>5. args \in Seq(S)
            BY <3>4, ListOf
        <3> QED
            BY <3>1, <3>5
    <2>7. f.lhs \in 0 .. Len(pool)
        BY <1>1, <2>2, <2>3 DEF FrameSound
    <2> QED
        BY <2>1, <2>3, <2>6, <2>7 DEF PointsInto
<1> QED
    BY <1>1, <1>2 DEF StackInto

(* The pool keeps its nodes, as the step leaves or extends it.             *)
PoolKept == pool' = pool \/ \E x \in NodeType : pool' = Append(pool, x)

(* Every node is where it was.                                             *)
LEMMA PoolKeeps ==
    ASSUME IndInv, PoolKept
    PROVE  Len(pool) <= Len(pool') /\ \A n \in 1 .. Len(pool) : pool[n] = pool'[n]
<1>1. pool \in Seq(NodeType) /\ Len(pool) \in Nat
    BY DEF IndInv, TypeOK
<1>2. CASE pool' = pool
    BY <1>1, <1>2
<1>3. CASE \E x \in NodeType : pool' = Append(pool, x)
    <2>1. PICK x \in NodeType : pool' = Append(pool, x)
        BY <1>3
    <2>2. Len(pool') = Len(pool) + 1 /\ \A n \in 1 .. Len(pool) : pool'[n] = pool[n]
        BY <1>1, <2>1, GrowPool
    <2> QED
        BY <1>1, <2>2
<1> QED
    BY <1>2, <1>3 DEF PoolKept

(* What the step leaves on the stack holds what it held.                   *)
LEMMA TextStays ==
    ASSUME IndInv, IndInv', PoolKept, NEW s, StackInto(s, Len(pool))
    PROVE  /\ StackText(s, Yield') = StackText(s, Yield)
           /\ StackText(s, Yield) \in Seq(Nat)
<1>1. /\ \A n \in 0 .. Len(pool) : Yield'[n] = Yield[n]
      /\ Len(pool) \in Nat /\ Yield \in [0 .. Len(pool) -> Seq(Nat)]
    BY PoolKeeps, YieldKept, YieldFacts
<1>2. PICK y, z : y = Yield' /\ z = Yield
    OBVIOUS
<1>3. \A n \in 0 .. Len(pool) : y[n] = z[n]
    BY <1>1, <1>2
<1>4. StackText(s, y) = StackText(s, z)
    BY <1>1, <1>3, StackTextSame
<1>5. StackText(s, Yield) \in Seq(Nat)
    BY <1>1, StackParts
<1> QED
    BY <1>2, <1>4, <1>5

(* A pointer into the pool yields what it yielded.                         *)
LEMMA NodeStays ==
    ASSUME IndInv, IndInv', PoolKept, NEW n \in Nat, n <= Len(pool)
    PROVE  Yield'[n] = Yield[n] /\ Yield[n] \in Seq(Nat)
<1>1. /\ \A m \in 0 .. Len(pool) : Yield'[m] = Yield[m]
      /\ Len(pool) \in Nat /\ Yield \in [0 .. Len(pool) -> Seq(Nat)]
    BY PoolKeeps, YieldKept, YieldFacts
<1>2. n \in 0 .. Len(pool)
    BY <1>1
<1> QED
    BY <1>1, <1>2

(* What is held is a sequence of token indices.                            *)
LEMMA HeldType ==
    ASSUME IndInv
    PROVE  /\ HeldText \in Seq(Nat)
           /\ ret \in 0 .. Len(pool)
           /\ Yield[ret] \in Seq(Nat)
           /\ StackText(stack, Yield) \in Seq(Nat)
           /\ Operands[toki] \in Seq(Nat)
           /\ Len(pool) \in Nat /\ toki \in Nat
<1>1. ret \in Nat /\ ret <= Len(pool) /\ toki \in Nat
    BY DEF IndInv, TypeOK, CallChain, ReturnSound
<1>2. Len(pool) \in Nat /\ Yield \in [0 .. Len(pool) -> Seq(Nat)]
    BY YieldFacts
<1>3. ret \in 0 .. Len(pool)
    BY <1>1, <1>2
<1>4. Yield[ret] \in Seq(Nat) /\ <<>> \in Seq(Nat)
    BY <1>2, <1>3
<1>5. HeldText \in Seq(Nat)
    BY <1>4 DEF HeldText
<1>6. StackText(stack, Yield) \in Seq(Nat)
    BY <1>2, StackPoints, StackParts
<1> QED
    BY <1>1, <1>2, <1>3, <1>4, <1>5, <1>6, OperandsType

(* One token read, or two.                                                 *)
LEMMA ReadOne ==
    ASSUME NEW n \in Nat
    PROVE  /\ Tok(n) \in Punctuation => Operands[n + 1] = Operands[n] \o <<>>
           /\ Tok(n) \notin Punctuation => Operands[n + 1] = Operands[n] \o <<n>>
<1>1. PICK text \in Seq(Nat) : text = Operands[n]
    BY OperandsType
<1>2. Append(text, n) = text \o <<n>> /\ text \o <<>> = text
    OBVIOUS
<1>3. Operands[n + 1] = IF Tok(n) \in Punctuation THEN text ELSE Append(text, n)
    BY <1>1, OperandRead
<1> QED
    BY <1>1, <1>2, <1>3

(* Two tokens: the first one is punctuation.                               *)
LEMMA ReadTwo ==
    ASSUME NEW n \in Nat, Tok(n) \in Punctuation
    PROVE  /\ Tok(n + 1) \in Punctuation => Operands[n + 2] = Operands[n] \o <<>>
           /\ Tok(n + 1) \notin Punctuation => Operands[n + 2] = Operands[n] \o <<n + 1>>
<1>1. PICK m \in Nat : m = n + 1
    OBVIOUS
<1>2. Operands[m + 1] = Operands[n + 2]
    <2>1. m + 1 = n + 2
        BY <1>1
    <2> QED
        BY <2>1
<1>3. /\ Tok(m) \in Punctuation => Operands[m + 1] = Operands[m] \o <<>>
      /\ Tok(m) \notin Punctuation => Operands[m + 1] = Operands[m] \o <<m>>
    BY ReadOne
<1>4. Operands[n + 1] = Operands[n] \o <<>>
    BY ReadOne
<1>5. PICK text \in Seq(Nat) : text = Operands[n]
    BY OperandsType
<1>6. text \o <<>> = text
    OBVIOUS
<1>7. Operands[m] = Operands[n]
    BY <1>1, <1>4, <1>5, <1>6
<1> QED
    BY <1>1, <1>2, <1>3, <1>7

(* The text stays the same text.                                           *)
LEMMA OperandsKept == tokens' = tokens => Operands' = Operands
    BY OperandsNow

(* Three parts of a text.                                                  *)
LEMMA ConcatThree ==
    ASSUME NEW u \in Seq(Nat), NEW v \in Seq(Nat), NEW w \in Seq(Nat)
    PROVE  /\ u \o (v \o w) = (u \o v) \o w
           /\ (u \o (v \o w)) \o <<>> = (u \o v) \o w
           /\ (u \o v) \o w \in Seq(Nat)
<1>1. u \o (v \o w) = (u \o v) \o w
    <2>1. PICK S : S = Nat
        OBVIOUS
    <2>2. u \in Seq(S) /\ v \in Seq(S) /\ w \in Seq(S)
        BY <2>1
    <2> QED
        BY <2>2, ConcatThrice, SMTT(20)
<1>2. (u \o v) \o w \in Seq(Nat)
    OBVIOUS
<1>3. PICK t \in Seq(Nat) : t = (u \o v) \o w
    BY <1>2
<1>4. t \o <<>> = t
    OBVIOUS
<1> QED
    BY <1>1, <1>2, <1>3, <1>4

(* A call takes over what was held, and reads x.                           *)
LEMMA PushText ==
    ASSUME IndInv, IndInv', tokens' = tokens, PoolKept, TextKept,
           NEW f, PointsInto(f, Len(pool)),
           pc' \in {"unary", "primary"},
           stack' = Append(stack, f) \/ \E m \in 0 .. 12 : stack' = stack \o <<f, PrecedenceFrame(m)>>,
           NEW x \in Seq(Nat), FrameText(f, Yield) = HeldText \o x,
           Operands[toki'] = Operands[toki] \o x
    PROVE  TextKept'
<1>y. PICK y : y = Yield
    OBVIOUS
<1>n. PICK n \in Nat : n = Len(pool)
    BY HeldType
<1>1. y = Yield /\ n = Len(pool)
    BY <1>y, <1>n
<1>2. y \in [0 .. n -> Seq(Nat)] /\ StackInto(stack, n) /\ PointsInto(f, n)
    BY <1>1, YieldFacts, StackPoints
<1>3. PICK s : s = stack
    OBVIOUS
<1>4. PICK t : t = stack'
    BY SMTT(20)
<1>5. StackInto(t, n) /\ StackText(t, y) = StackText(s, y) \o FrameText(f, y)
    <2>1. CASE t = Append(s, f)
        BY <1>2, <1>3, <2>1, StackTextPush
    <2>2. CASE \E m \in 0 .. 12 : t = s \o <<f, PrecedenceFrame(m)>>
        <3>1. PICK m \in 0 .. 12 : t = s \o <<f, PrecedenceFrame(m)>>
            BY <2>2
        <3> QED
            BY <1>2, <1>3, <3>1, StackTextPushTwo, ZenonT(40)
    <2> QED
        BY <1>3, <1>4, <2>1, <2>2
<1>6. StackText(t, Yield') = StackText(t, y)
    BY <1>1, <1>5, TextStays
<1>7. PICK u \in Seq(Nat), h \in Seq(Nat) : u = StackText(s, y) /\ h = HeldText
    BY <1>1, <1>3, HeldType
<1>8. u \o h = Operands[toki]
    BY <1>1, <1>3, <1>7 DEF TextKept
<1>9. StackText(stack, Yield)' = u \o (h \o x)
    BY <1>1, <1>4, <1>5, <1>6, <1>7
<1>10. HeldText' = <<>>
    BY DEF HeldText
<1>11. (u \o (h \o x)) \o <<>> = (u \o h) \o x
    BY ConcatThree
<1>12. Operands'[toki'] = (u \o h) \o x
    BY <1>8, OperandsKept
<1> QED
    BY <1>9, <1>10, <1>11, <1>12 DEF TextKept

(* No call and no return: what is held grows by what is read.              *)
LEMMA HoldText ==
    ASSUME IndInv, IndInv', tokens' = tokens, PoolKept, TextKept, stack' = stack,
           NEW x \in Seq(Nat), HeldText' = HeldText \o x,
           Operands[toki'] = Operands[toki] \o x
    PROVE  TextKept'
<1>1. StackText(stack, Yield)' = StackText(stack, Yield)
    <2>1. PICK s : s = stack
        OBVIOUS
    <2>2. StackInto(s, Len(pool))
        BY <2>1, StackPoints
    <2>3. StackText(s, Yield') = StackText(s, Yield)
        BY <2>2, TextStays
    <2> QED
        BY <2>1, <2>3
<1>2. PICK u \in Seq(Nat), h \in Seq(Nat) : u = StackText(stack, Yield) /\ h = HeldText
    BY HeldType
<1>3. u \o h = Operands[toki]
    BY <1>2 DEF TextKept
<1>4. u \o (h \o x) = (u \o h) \o x
    BY ConcatThree
<1>5. Operands'[toki'] = (u \o h) \o x
    BY <1>3, OperandsKept
<1> QED
    BY <1>1, <1>2, <1>4, <1>5 DEF TextKept

(* A return: what the caller holds comes before what is returned.          *)
LEMMA PopText ==
    ASSUME IndInv, IndInv', tokens' = tokens, PoolKept, TextKept, stack # <<>>,
           stack' = Front(stack), HeldText' = FrameText(Caller, Yield) \o HeldText,
           Operands[toki'] = Operands[toki]
    PROVE  TextKept'
<1>y. PICK y : y = Yield
    OBVIOUS
<1>n. PICK n \in Nat : n = Len(pool)
    BY HeldType
<1>1. y = Yield /\ n = Len(pool)
    BY <1>y, <1>n
<1>2. y \in [0 .. n -> Seq(Nat)] /\ StackInto(stack, n)
    BY <1>1, YieldFacts, StackPoints
<1>3. PICK s : s = stack
    OBVIOUS
<1>4. PICK t, f : t = Front(s) /\ f = Last(s)
    OBVIOUS
<1>5. StackInto(t, n) /\ PointsInto(f, n) /\ StackText(s, y) = StackText(t, y) \o FrameText(f, y)
    BY <1>2, <1>3, <1>4, StackTextPop
<1>6. StackText(t, Yield') = StackText(t, y) /\ StackText(t, y) \in Seq(Nat)
    BY <1>1, <1>5, TextStays
<1>7. PICK u \in Seq(Nat), v \in Seq(Nat), h \in Seq(Nat) :
          u = StackText(t, y) /\ v = FrameText(f, y) /\ h = HeldText
    BY <1>2, <1>5, <1>6, FrameTextType, HeldType
<1>8. (u \o v) \o h = Operands[toki]
    BY <1>1, <1>3, <1>5, <1>7 DEF TextKept
<1>9. StackText(stack, Yield)' = u
    BY <1>3, <1>4, <1>6, <1>7
<1>10. HeldText' = v \o h
    BY <1>1, <1>3, <1>4, <1>7 DEF Caller
<1>11. u \o (v \o h) = (u \o v) \o h
    BY ConcatThree
<1>12. Operands'[toki'] = Operands[toki]
    BY OperandsKept
<1> QED
    BY <1>8, <1>9, <1>10, <1>11, <1>12 DEF TextKept

(* The caller takes what is returned and calls again.                      *)
LEMMA AgainText ==
    ASSUME IndInv, IndInv', tokens' = tokens, PoolKept, TextKept, stack # <<>>,
           NEW g, PointsInto(g, Len(pool)), pc' = "unary",
           stack' = Front(stack) \o <<g, PrecedenceFrame(0)>>,
           FrameText(g, Yield) = FrameText(Caller, Yield) \o HeldText,
           Operands[toki'] = Operands[toki]
    PROVE  TextKept'
<1>y. PICK y : y = Yield
    OBVIOUS
<1>n. PICK n \in Nat : n = Len(pool)
    BY HeldType
<1>1. y = Yield /\ n = Len(pool)
    BY <1>y, <1>n
<1>2. y \in [0 .. n -> Seq(Nat)] /\ StackInto(stack, n) /\ PointsInto(g, n)
    BY <1>1, YieldFacts, StackPoints
<1>3. PICK s : s = stack
    OBVIOUS
<1>4. PICK t, f : t = Front(s) /\ f = Last(s)
    OBVIOUS
<1>5. StackInto(t, n) /\ PointsInto(f, n) /\ StackText(s, y) = StackText(t, y) \o FrameText(f, y)
    BY <1>2, <1>3, <1>4, StackTextPop
<1>m. PICK m \in 0 .. 12 : m = 0
    OBVIOUS
<1>6. PICK r : r = t \o <<g, PrecedenceFrame(m)>>
    OBVIOUS
<1>7. StackInto(r, n) /\ StackText(r, y) = StackText(t, y) \o FrameText(g, y)
    BY <1>2, <1>5, <1>6, StackTextPushTwo, ZenonT(40)
<1>8. StackText(r, Yield') = StackText(r, y) /\ StackText(t, y) \in Seq(Nat)
    BY <1>1, <1>2, <1>5, <1>7, TextStays, StackParts
<1>9. PICK u \in Seq(Nat), v \in Seq(Nat), h \in Seq(Nat) :
          u = StackText(t, y) /\ v = FrameText(f, y) /\ h = HeldText
    BY <1>2, <1>5, <1>8, FrameTextType, HeldType
<1>10. (u \o v) \o h = Operands[toki]
    BY <1>1, <1>3, <1>5, <1>9 DEF TextKept
<1>11. FrameText(g, y) = v \o h
    BY <1>1, <1>3, <1>4, <1>9 DEF Caller
<1>12. stack' = r
    BY <1>3, <1>4, <1>6, <1>m
<1>13. StackText(stack, Yield)' = u \o (v \o h)
    BY <1>7, <1>8, <1>9, <1>11, <1>12
<1>14. HeldText' = <<>>
    BY DEF HeldText
<1>15. (u \o (v \o h)) \o <<>> = (u \o v) \o h
    BY ConcatThree
<1>16. Operands'[toki'] = Operands[toki]
    BY OperandsKept
<1> QED
    BY <1>10, <1>13, <1>14, <1>15, <1>16 DEF TextKept

(* The four kinds of nodes are kinds of their own.                         *)
LEMMA TagKinds ==
    ASSUME NEW tag
    PROVE  /\ tag \in UnaryTags => tag \notin LeafTags
           /\ tag \in BinaryTags => tag \notin LeafTags /\ tag \notin UnaryTags
           /\ tag \in PostfixTags =>
                 tag \notin LeafTags /\ tag \notin UnaryTags /\ tag \notin BinaryTags
<1>1. tag \in UnaryTags => tag \notin LeafTags
    BY DEF UnaryTags, LeafTags
<1>2. tag \in BinaryTags => tag \notin LeafTags
    BY DEF BinaryTags, LeafTags
<1>3. tag \in BinaryTags => tag \notin UnaryTags
    BY DEF BinaryTags, UnaryTags
<1>4. tag \in PostfixTags => tag \notin LeafTags /\ tag \notin UnaryTags
    BY DEF PostfixTags, LeafTags, UnaryTags
<1>5. tag \in PostfixTags => tag \notin BinaryTags
    BY DEF PostfixTags, BinaryTags
<1> QED
    BY <1>1, <1>2, <1>3, <1>4, <1>5

(* What a new node yields.                                                 *)
LEMMA NewYield ==
    ASSUME IndInv, IndInv', NEW tag, NEW tok, NEW kids, new_node(tag, tok, kids),
           kids \in Seq(0 .. Len(pool))
    PROVE  /\ PoolKept
           /\ tag \in LeafTags => Yield'[ret'] = <<tok>>
           /\ tag \in UnaryTags =>
                 Yield'[ret'] = <<tok>> \o FlattenSeq([i \in 1 .. Len(kids) |-> Yield[kids[i]]])
           /\ tag \in BinaryTags /\ Len(kids) = 2 =>
                 Yield'[ret'] = Yield[kids[1]] \o <<tok>> \o Yield[kids[2]]
           /\ tag \in PostfixTags =>
                 Yield'[ret'] = FlattenSeq([i \in 1 .. Len(kids) |-> Yield[kids[i]]])
<1>1. /\ pool \in Seq(NodeType)
      /\ Node(tag, tok, kids) \in NodeType
      /\ pool' = Append(pool, Node(tag, tok, kids))
      /\ ret' = Len(pool) + 1 /\ ret' = Len(pool') /\ ret' # NULL
      /\ pool'[ret'] = Node(tag, tok, kids)
    BY NewNodeFacts DEF IndInv
<1>2. PoolKept
    BY <1>1 DEF PoolKept
<1>3. PICK y : y = Yield'
    OBVIOUS
<1>4. PICK z : z = Yield
    OBVIOUS
<1>5. PICK n : n = ret'
    OBVIOUS
<1>6. PICK p : p = pool'
    OBVIOUS
<1>7. /\ \A m \in 0 .. Len(pool) : y[m] = z[m]
      /\ Len(p) \in Nat
      /\ \A m \in 0 .. Len(p) : y[m] = YieldOf(y, m, p)
    BY <1>2, <1>3, <1>4, <1>6, PoolKeeps, YieldKept
<1>8. y[n] = YieldOf(y, n, p)
    <2>1. n \in 0 .. Len(p)
        BY <1>1, <1>5, <1>6, <1>7
    <2> QED
        BY <1>7, <2>1
<1>9. PICK ks \in Seq(0 .. Len(pool)) : ks = kids
    OBVIOUS
<1>10. \A i \in 1 .. Len(ks) : y[ks[i]] = z[ks[i]]
    <2>1. \A i \in 1 .. Len(ks) : ks[i] \in 0 .. Len(pool)
        OBVIOUS
    <2> QED
        BY <1>7, <2>1
<1>11. PICK text : /\ text = FlattenSeq([i \in 1 .. Len(ks) |-> y[ks[i]]])
                   /\ text = FlattenSeq([i \in 1 .. Len(ks) |-> z[ks[i]]])
    <2>1. [i \in 1 .. Len(ks) |-> y[ks[i]]] = [i \in 1 .. Len(ks) |-> z[ks[i]]]
        BY <1>10
    <2> QED
        BY <2>1
<1>12. p[n].tag = tag /\ p[n].tok = tok /\ p[n].kids = ks
    BY <1>1, <1>5, <1>6, <1>9 DEF Node
<1>13. y[n] = CASE tag \in LeafTags -> <<tok>>
                [] tag \in UnaryTags -> <<tok>> \o text
                [] tag \in BinaryTags -> y[ks[1]] \o <<tok>> \o y[ks[2]]
                [] OTHER -> text
    BY <1>1, <1>5, <1>8, <1>11, <1>12 DEF YieldOf
<1>14. tag \in LeafTags => y[n] = <<tok>>
    <2> SUFFICES ASSUME tag \in LeafTags PROVE y[n] = <<tok>>
        OBVIOUS
    <2>1. tag \notin UnaryTags /\ tag \notin BinaryTags
        BY TagKinds
    <2> QED
        BY <1>13, <2>1
<1>15. tag \in UnaryTags => y[n] = <<tok>> \o text
    <2> SUFFICES ASSUME tag \in UnaryTags PROVE y[n] = <<tok>> \o text
        OBVIOUS
    <2>1. tag \notin LeafTags /\ tag \notin BinaryTags
        BY TagKinds
    <2> QED
        BY <1>13, <2>1
<1>16. tag \in BinaryTags => y[n] = y[ks[1]] \o <<tok>> \o y[ks[2]]
    <2> SUFFICES ASSUME tag \in BinaryTags PROVE y[n] = y[ks[1]] \o <<tok>> \o y[ks[2]]
        OBVIOUS
    <2>1. tag \notin LeafTags /\ tag \notin UnaryTags
        BY TagKinds
    <2> QED
        BY <1>13, <2>1
<1>17. tag \in PostfixTags => y[n] = text
    <2> SUFFICES ASSUME tag \in PostfixTags PROVE y[n] = text
        OBVIOUS
    <2>1. tag \notin LeafTags /\ tag \notin UnaryTags /\ tag \notin BinaryTags
        BY TagKinds
    <2> QED
        BY <1>13, <2>1
<1>18. Len(ks) = 2 => y[ks[1]] = z[ks[1]] /\ y[ks[2]] = z[ks[2]]
    BY <1>10
<1> QED
    BY <1>2, <1>3, <1>4, <1>5, <1>9, <1>11, <1>14, <1>15, <1>16, <1>17, <1>18

(* One argument more.                                                      *)
LEMMA MoreYield ==
    ASSUME NEW n \in Nat, NEW y \in [0 .. n -> Seq(Nat)],
           NEW args \in Seq(0 .. n), NEW last \in 0 .. n
    PROVE  FlattenSeq([i \in 1 .. Len(Append(args, last)) |-> y[Append(args, last)[i]]])
             = FlattenSeq([i \in 1 .. Len(args) |-> y[args[i]]]) \o y[last]
<1>1. PICK z \in Seq(Nat) : z = y[last]
    OBVIOUS
<1>2. PICK p \in Seq(Seq(Nat)) : p = [i \in 1 .. Len(args) |-> y[args[i]]]
    BY ArgsText
<1>3. PICK more \in Seq(0 .. n) : more = Append(args, last)
    BY PushOne
<1>4. PICK q \in Seq(Seq(Nat)) : q = [i \in 1 .. Len(more) |-> y[more[i]]]
    BY ArgsText
<1>5. q = Append(p, z)
    <2>0. PICK m \in Nat : m = Len(args)
        OBVIOUS
    <2>1. /\ Len(more) = m + 1 /\ more[m + 1] = last
          /\ \A i \in 1 .. m : more[i] = args[i]
        BY <1>3, <2>0, PushOne
    <2>2. Len(p) = m /\ Len(q) = m + 1
        BY <1>2, <1>4, <2>0, <2>1
    <2>3. \A i \in 1 .. m : q[i] = p[i]
        <3> SUFFICES ASSUME NEW i \in 1 .. m PROVE q[i] = p[i]
            OBVIOUS
        <3>1. i \in 1 .. Len(more) /\ i \in 1 .. Len(args) /\ more[i] = args[i]
            BY <2>0, <2>1
        <3>2. q[i] = y[more[i]] /\ p[i] = y[args[i]]
            BY <1>2, <1>4, <3>1
        <3> QED
            BY <3>1, <3>2
    <2>4. q[m + 1] = z
        BY <1>1, <1>4, <2>1, SMTT(20)
    <2>5. PICK u \in Seq(Seq(Nat)) : u = Append(p, z)
        BY PushOne
    <2>6. Len(u) = m + 1 /\ u[m + 1] = z /\ \A i \in 1 .. m : u[i] = p[i]
        BY <2>2, <2>5, PushOne
    <2>7. Len(q) = Len(u) /\ \A i \in 1 .. Len(q) : q[i] = u[i]
        <3> SUFFICES ASSUME NEW i \in 1 .. m + 1 PROVE q[i] = u[i]
            BY <2>2, <2>6
        <3>1. i \in 1 .. m \/ i = m + 1
            OBVIOUS
        <3> QED
            BY <2>3, <2>4, <2>6, <3>1
    <2> QED
        BY <2>5, <2>7, SameList
<1>6. FlattenSeq(Append(p, z)) = FlattenSeq(p) \o z
    BY FlattenAppend
<1> QED
    BY <1>1, <1>2, <1>3, <1>4, <1>5, <1>6

(* A call whose arguments are complete.                                    *)
LEMMA CallYield ==
    ASSUME NEW n \in Nat, NEW y \in [0 .. n -> Seq(Nat)], NEW lhs \in 0 .. n,
           NEW args \in Seq(0 .. n), NEW last \in 0 .. n
    PROVE  /\ <<lhs>> \o Append(args, last) \in Seq(0 .. n)
           /\ FlattenSeq([i \in 1 .. Len(<<lhs>> \o Append(args, last)) |->
                              y[(<<lhs>> \o Append(args, last))[i]]])
                = (y[lhs] \o FlattenSeq([i \in 1 .. Len(args) |-> y[args[i]]])) \o y[last]
<1>1. PICK x \in Seq(Nat), z \in Seq(Nat) : x = y[lhs] /\ z = y[last]
    OBVIOUS
<1>2. PICK p \in Seq(Seq(Nat)) : p = [i \in 1 .. Len(args) |-> y[args[i]]]
    BY ArgsText
<1>3. PICK more \in Seq(0 .. n) : more = Append(args, last)
    BY PushOne
<1>4. PICK q \in Seq(Seq(Nat)) : q = [i \in 1 .. Len(more) |-> y[more[i]]]
    BY ArgsText
<1>5. FlattenSeq(q) = FlattenSeq(p) \o z
    BY <1>1, <1>2, <1>3, <1>4, MoreYield
<1>a. PICK one \in Seq(0 .. n) : one = <<lhs>>
    <2>1. PICK T : T = 0 .. n
        OBVIOUS
    <2>2. lhs \in T
        BY <2>1
    <2>3. <<lhs>> \in Seq(T)
        BY <2>2
    <2> QED
        BY <2>1, <2>3
<1>7. PICK kids \in Seq(0 .. n) : kids = <<lhs>> \o more
    BY <1>a, ConcatProperties
<1>8. PICK r \in Seq(Seq(Nat)) : r = [i \in 1 .. Len(kids) |-> y[kids[i]]]
    BY ArgsText
<1>9. r = <<x>> \o q
    <2>0. PICK m \in Nat : m = Len(more)
        OBVIOUS
    <2>1. /\ Len(kids) = 1 + m
          /\ \A i \in 1 .. 1 + m : kids[i] = IF i <= 1 THEN one[i] ELSE more[i - 1]
        <3>1. /\ Len(one \o more) = Len(one) + Len(more)
              /\ \A i \in 1 .. Len(one) + Len(more) :
                    (one \o more)[i] = IF i <= Len(one) THEN one[i] ELSE more[i - Len(one)]
            BY ConcatProperties
        <3>2. Len(one) = 1 /\ kids = one \o more
            BY <1>a, <1>7
        <3> QED
            BY <2>0, <3>1, <3>2
    <2>2. Len(q) = m /\ Len(r) = 1 + m
        BY <1>4, <1>8, <2>0, <2>1
    <2>3. r[1] = x
        <3>1. kids[1] = lhs /\ 1 \in 1 .. Len(kids)
            BY <1>a, <2>1
        <3> QED
            BY <1>1, <1>8, <3>1
    <2>4. \A i \in 2 .. 1 + m : r[i] = q[i - 1]
        <3> SUFFICES ASSUME NEW i \in 2 .. 1 + m PROVE r[i] = q[i - 1]
            OBVIOUS
        <3>1. i \in 1 .. Len(kids) /\ kids[i] = more[i - 1] /\ i - 1 \in 1 .. Len(more)
            BY <2>0, <2>1
        <3> QED
            BY <1>4, <1>8, <3>1
    <2>5. PICK d \in Seq(Seq(Nat)) : d = <<x>>
        <3>1. PICK T : T = Seq(Nat)
            OBVIOUS
        <3>2. x \in T
            BY <3>1
        <3>3. <<x>> \in Seq(T)
            BY <3>2
        <3> QED
            BY <3>1, <3>3
    <2>6. /\ d \o q \in Seq(Seq(Nat)) /\ Len(d \o q) = 1 + m
          /\ \A i \in 1 .. 1 + m : (d \o q)[i] = IF i <= 1 THEN d[i] ELSE q[i - 1]
        <3>1. /\ d \o q \in Seq(Seq(Nat)) /\ Len(d \o q) = Len(d) + Len(q)
              /\ \A i \in 1 .. Len(d) + Len(q) :
                    (d \o q)[i] = IF i <= Len(d) THEN d[i] ELSE q[i - Len(d)]
            BY ConcatProperties
        <3>2. Len(d) = 1
            BY <2>5
        <3> QED
            BY <2>2, <3>1, <3>2
    <2>7. PICK u \in Seq(Seq(Nat)) : u = d \o q
        BY <2>6
    <2>8. Len(r) = Len(u) /\ \A i \in 1 .. Len(r) : r[i] = u[i]
        <3>1. Len(u) = 1 + m /\ \A i \in 1 .. 1 + m : u[i] = IF i <= 1 THEN d[i] ELSE q[i - 1]
            BY <2>6, <2>7
        <3> SUFFICES ASSUME NEW i \in 1 .. 1 + m PROVE r[i] = u[i]
            BY <2>2, <3>1
        <3>2. CASE i = 1
            <4>1. u[1] = d[1] /\ d[1] = x
                BY <2>5, <3>1, <3>2
            <4> QED
                BY <2>3, <3>2, <4>1
        <3>3. CASE i # 1
            <4>1. i \in 2 .. 1 + m
                BY <3>3
            <4>2. i \in 1 .. 1 + m /\ ~(i <= 1)
                BY <4>1
            <4>3. u[i] = q[i - 1]
                BY <3>1, <4>2
            <4> QED
                BY <2>4, <4>1, <4>3
        <3> QED
            BY <3>2, <3>3
    <2>9. r = u
        BY <2>8, SameList
    <2> QED
        BY <2>5, <2>7, <2>9
<1>10. FlattenSeq(<<x>> \o q) = x \o FlattenSeq(q)
    BY FlattenCons
<1>11. PICK f \in Seq(Nat) : f = FlattenSeq(p)
    BY FlattenType
<1>12. x \o (f \o z) = (x \o f) \o z
    BY ConcatThree
<1>13. FlattenSeq(q) = f \o z
    BY <1>5, <1>11
<1>14. FlattenSeq(r) = (x \o f) \o z
    BY <1>9, <1>10, <1>12, <1>13, Zenon
<1> QED
    BY <1>1, <1>2, <1>3, <1>4, <1>7, <1>8, <1>11, <1>13, <1>14, Zenon

(* What a call that is made at the cursor holds.                           *)
LEMMA NewFrameText ==
    ASSUME IndInv, NEW at \in FrameAt, NEW l \in Nat, l <= Len(pool), NEW f,
           f = Frame(at, 0, toki, l, <<>>)
    PROVE  /\ PointsInto(f, Len(pool))
           /\ at = "operand" => FrameText(f, Yield) = <<toki>>
           /\ at = "rhs" => FrameText(f, Yield) = Yield[l] \o <<toki>>
           /\ at \in {"member", "index"} => FrameText(f, Yield) = Yield[l] \o <<>>
           /\ at = "args" => FrameText(f, Yield) = Yield[l] \o <<>>
           /\ at = "group" => FrameText(f, Yield) = <<>>
<1>1. toki \in Nat /\ Len(pool) \in Nat /\ l \in 0 .. Len(pool)
    BY HeldType
<1>2. PICK y : y = Yield
    OBVIOUS
<1>3. PICK text \in Seq(Nat) : text = y[l]
    BY <1>1, <1>2, YieldFacts
<1>4. text \o <<>> = text
    OBVIOUS
<1>5. f.at = at /\ f.tok = toki /\ f.lhs = l /\ f.args = <<>>
    BY DEF Frame
<1>6. PointsInto(f, Len(pool))
    <2>1. PICK m \in 0 .. 12 : m = 0
        OBVIOUS
    <2>2. <<>> \in Seq(Nat) /\ <<>> \in Seq(0 .. Len(pool))
        OBVIOUS
    <2>3. Frame(at, m, toki, l, <<>>) \in FrameType
        BY <1>1, <2>2, FrameTypes
    <2> QED
        BY <1>1, <1>5, <2>1, <2>2, <2>3 DEF PointsInto
<1>7. FlattenSeq([i \in 1 .. Len(f.args) |-> y[f.args[i]]]) = <<>>
    <2>1. [i \in 1 .. Len(f.args) |-> y[f.args[i]]] = <<>>
        BY <1>5
    <2> QED
        BY <2>1, FlattenNone, Zenon
<1>8. FrameText(f, y) = CASE at = "operand" -> <<toki>>
                          [] at = "rhs" -> text \o <<toki>>
                          [] at \in {"member", "index"} -> text
                          [] at = "args" -> text \o <<>>
                          [] OTHER -> <<>>
    BY <1>3, <1>5, <1>7 DEF FrameText
<1> QED
    BY <1>2, <1>3, <1>4, <1>6, <1>8

(* A match is a match of its tokens.                                       *)
LEMMA MatchedTwo ==
    ASSUME NEW a, NEW b, match(<<a, b>>), toki \in Nat
    PROVE  Tok(toki) = a /\ Tok(toki + 1) = b
<1>1. Len(<<a, b>>) = 2 /\ <<a, b>>[1] = a /\ <<a, b>>[2] = b
    OBVIOUS
<1>2. a = Tok(toki + 1 - 1) /\ b = Tok(toki + 2 - 1)
    BY <1>1 DEF match
<1>3. toki + 1 - 1 = toki /\ toki + 2 - 1 = toki + 1
    OBVIOUS
<1> QED
    BY <1>2, <1>3

(* No operator is punctuation.                                             *)
LEMMA OperatorsArePrinted ==
    /\ \A kind : get_precedence(kind) # PREC_NONE => kind \notin Punctuation
    /\ \A kind \in DOMAIN UnaryAst : kind \notin Punctuation
    /\ \A kind \in DOMAIN LiteralAst : kind \notin Punctuation
<1>1. ASSUME NEW kind, get_precedence(kind) # PREC_NONE
      PROVE  kind \notin Punctuation
    <2>1. CASE kind \in PrecedenceLevels[1]
        <3>1. kind \in {"TOK_EQUAL", "TOK_PLUS_EQ", "TOK_MINUS_EQ", "TOK_ASTERISK_EQ",
                 "TOK_SLASH_EQ", "TOK_PERCENT_EQ", "TOK_PIPE_EQ", "TOK_AMPERSAND_EQ",
                 "TOK_CARET_EQ", "TOK_SHL_EQ", "TOK_SHR_EQ"}
            BY <2>1 DEF PrecedenceLevels
        <3> QED
            BY <3>1 DEF Punctuation
    <2>2. CASE kind \notin PrecedenceLevels[1]
        BY <1>1, <2>2, OperatorTokens DEF Punctuation
    <2> QED
        BY <2>1, <2>2
<1>2. ASSUME NEW kind \in DOMAIN UnaryAst PROVE kind \notin Punctuation
    BY DEF UnaryAst, Punctuation
<1>3. ASSUME NEW kind \in DOMAIN LiteralAst PROVE kind \notin Punctuation
    BY DEF LiteralAst, Punctuation
<1> QED
    BY <1>1, <1>2, <1>3

(* The calls.                                                              *)
LEMMA CallText ==
    ASSUME IndInv, IndInv', tokens' = tokens, TextKept,
           \/ PrefixOperator \/ PrimaryGroup \/ PostfixMember \/ PostfixCall \/ PostfixIndex
           \/ TakeOperator
    PROVE  TextKept'
<1>1. /\ toki \in Nat /\ ret \in Nat /\ ret <= Len(pool) /\ NULL \in Nat /\ NULL <= Len(pool)
      /\ Yield[ret] \in Seq(Nat) /\ <<toki>> \in Seq(Nat) /\ <<>> \in Seq(Nat)
      /\ current = Tok(toki)
    <2>1. current = Tok(toki)
        BY DEF IndInv, CursorSound
    <2>2. toki \in Nat /\ ret \in 0 .. Len(pool) /\ Len(pool) \in Nat /\ Yield[ret] \in Seq(Nat)
        BY HeldType
    <2>3. PICK k \in Nat : k = toki
        BY <2>2
    <2>4. <<k>> \in Seq(Nat)
        OBVIOUS
    <2> QED
        BY <2>1, <2>2, <2>3, <2>4 DEF NULL
<1>2. /\ Tok(toki) \in Punctuation => Operands[toki + 1] = Operands[toki] \o <<>>
      /\ Tok(toki) \notin Punctuation => Operands[toki + 1] = Operands[toki] \o <<toki>>
    BY <1>1, ReadOne
<1>3. <<>> \o <<toki>> = <<toki>> /\ <<>> \o <<>> = <<>>
    BY <1>1
<1>z. PICK z \in 0 .. 12 : z = 0
    OBVIOUS
<1>p. pool' = pool => PoolKept
    BY SMTT(20) DEF PoolKept
<1>4. CASE PrefixOperator
    <2>1. PICK f : f = Frame("operand", 0, toki, NULL, <<>>)
        OBVIOUS
    <2>2. "operand" \in FrameAt
        BY DEF FrameAt
    <2>3. PointsInto(f, Len(pool)) /\ FrameText(f, Yield) = <<toki>>
        BY <1>1, <2>1, <2>2, NewFrameText
    <2>4. HeldText = <<>>
        BY <1>4 DEF PrefixOperator, HeldText
    <2>5. FrameText(f, Yield) = HeldText \o <<toki>>
        BY <1>3, <2>3, <2>4
    <2>6. Operands[toki'] = Operands[toki] \o <<toki>>
        BY <1>2, <1>4, OperatorsArePrinted DEF PrefixOperator, advance
    <2>7. PICK m \in 0 .. 12 : m = PREC_UNARY
        BY DEF PREC_UNARY
    <2>8. \E l \in 0 .. 12 : stack' = stack \o <<f, PrecedenceFrame(l)>>
        BY <1>4, <2>1, <2>7 DEF PrefixOperator
    <2>9. pc' \in {"unary", "primary"} /\ PoolKept
        BY <1>4, <1>p DEF PrefixOperator
    <2>10. PICK x \in Seq(Nat) : x = <<toki>>
        BY <1>1
    <2>11. FrameText(f, Yield) = HeldText \o x /\ Operands[toki'] = Operands[toki] \o x
        BY <2>5, <2>6, <2>10
    <2> QED
        BY <2>3, <2>8, <2>9, <2>11, PushText
<1>5. CASE PrimaryGroup
    <2>1. PICK f : f = Frame("group", 0, toki, NULL, <<>>)
        OBVIOUS
    <2>2. "group" \in FrameAt
        BY DEF FrameAt
    <2>3. PointsInto(f, Len(pool)) /\ FrameText(f, Yield) = <<>>
        BY <1>1, <2>1, <2>2, NewFrameText
    <2>4. HeldText = <<>>
        BY <1>5 DEF PrimaryGroup, AtPrimary, HeldText
    <2>6. Operands[toki'] = Operands[toki] \o <<>>
        BY <1>2, <1>5 DEF PrimaryGroup, advance, Punctuation
    <2>8. \E l \in 0 .. 12 : stack' = stack \o <<f, PrecedenceFrame(l)>>
        BY <1>5, <1>z, <2>1 DEF PrimaryGroup
    <2>9. pc' \in {"unary", "primary"} /\ PoolKept
        BY <1>5, <1>p DEF PrimaryGroup
    <2>10. PICK x \in Seq(Nat) : x = <<>>
        BY <1>1
    <2>11. FrameText(f, Yield) = HeldText \o x /\ Operands[toki'] = Operands[toki] \o x
        BY <1>3, <2>3, <2>4, <2>6, <2>10
    <2> QED
        BY <2>3, <2>8, <2>9, <2>11, PushText
<1>6. CASE PostfixMember
    <2>1. PICK f : f = Frame("member", 0, toki, ret, <<>>)
        OBVIOUS
    <2>2. "member" \in FrameAt
        BY DEF FrameAt
    <2>3. PointsInto(f, Len(pool)) /\ FrameText(f, Yield) = Yield[ret] \o <<>>
        BY <1>1, <2>1, <2>2, NewFrameText
    <2>4. HeldText = Yield[ret]
        BY <1>6 DEF PostfixMember, HeldText
    <2>6. Operands[toki'] = Operands[toki] \o <<>>
        BY <1>1, <1>2, <1>6 DEF PostfixMember, advance, Punctuation
    <2>8. stack' = Append(stack, f)
        BY <1>6, <2>1 DEF PostfixMember
    <2>9. pc' \in {"unary", "primary"} /\ PoolKept
        BY <1>6, <1>p DEF PostfixMember
    <2>10. PICK x \in Seq(Nat) : x = <<>>
        BY <1>1
    <2>11. FrameText(f, Yield) = HeldText \o x /\ Operands[toki'] = Operands[toki] \o x
        BY <2>3, <2>4, <2>6, <2>10
    <2> QED
        BY <2>3, <2>8, <2>9, <2>11, PushText
<1>7. CASE PostfixCall \/ PostfixIndex
    <2>1. PICK at \in {"args", "index"} :
              stack' = stack \o <<Frame(at, 0, toki, ret, <<>>), PrecedenceFrame(z)>>
        BY <1>7, <1>z DEF PostfixCall, PostfixIndex
    <2>2. PICK f : f = Frame(at, 0, toki, ret, <<>>)
        OBVIOUS
    <2>3. at \in FrameAt
        BY DEF FrameAt
    <2>4. PointsInto(f, Len(pool)) /\ FrameText(f, Yield) = Yield[ret] \o <<>>
        BY <1>1, <2>2, <2>3, NewFrameText
    <2>5. HeldText = Yield[ret]
        BY <1>7 DEF PostfixCall, PostfixIndex, HeldText
    <2>6. Operands[toki'] = Operands[toki] \o <<>>
        BY <1>1, <1>2, <1>7 DEF PostfixCall, PostfixIndex, advance, Punctuation
    <2>8. \E l \in 0 .. 12 : stack' = stack \o <<f, PrecedenceFrame(l)>>
        BY <2>1, <2>2
    <2>9. pc' \in {"unary", "primary"} /\ PoolKept
        BY <1>7, <1>p DEF PostfixCall, PostfixIndex
    <2>10. PICK x \in Seq(Nat) : x = <<>>
        BY <1>1
    <2>11. FrameText(f, Yield) = HeldText \o x /\ Operands[toki'] = Operands[toki] \o x
        BY <2>4, <2>5, <2>6, <2>10
    <2> QED
        BY <2>4, <2>8, <2>9, <2>11, PushText
<1>8. CASE TakeOperator
    <2>1. PICK f : f = Frame("rhs", 0, toki, ret, <<>>)
        OBVIOUS
    <2>2. "rhs" \in FrameAt
        BY DEF FrameAt
    <2>3. PointsInto(f, Len(pool)) /\ FrameText(f, Yield) = Yield[ret] \o <<toki>>
        BY <1>1, <2>1, <2>2, NewFrameText
    <2>4. HeldText = Yield[ret]
        BY <1>8 DEF TakeOperator, ReturnTo, HeldText
    <2>5. get_precedence(Tok(toki)) # PREC_NONE
        BY <1>8 DEF TakeOperator, TakesOperator
    <2>6. Operands[toki'] = Operands[toki] \o <<toki>>
        BY <1>2, <1>8, <2>5, OperatorsArePrinted DEF TakeOperator, advance
    <2>7. PICK m \in 0 .. 12 : m = next_prec(Tok(toki))
        BY NextPrecRange, PrecedenceRange
    <2>8. \E l \in 0 .. 12 : stack' = stack \o <<f, PrecedenceFrame(l)>>
        BY <1>8, <2>1, <2>7 DEF TakeOperator
    <2>9. pc' \in {"unary", "primary"} /\ PoolKept
        BY <1>8, <1>p DEF TakeOperator
    <2>10. PICK x \in Seq(Nat) : x = <<toki>>
        BY <1>1
    <2>11. FrameText(f, Yield) = HeldText \o x /\ Operands[toki'] = Operands[toki] \o x
        BY <2>3, <2>4, <2>6, <2>10
    <2> QED
        BY <2>3, <2>8, <2>9, <2>11, PushText
<1> QED
    BY <1>4, <1>5, <1>6, <1>7, <1>8

(* What is read where nothing is called or returned from.                  *)
LEMMA StayText ==
    ASSUME IndInv, IndInv', tokens' = tokens, TextKept,
           \/ PrimaryIdentifier \/ PrimaryLiteral \/ PrimaryEnumLiteral \/ PrimaryNone
           \/ PostfixEmptyCall \/ PostfixEnd \/ IndexMissing \/ Finish
    PROVE  TextKept'
<1>1. /\ toki \in Nat /\ ret \in 0 .. Len(pool) /\ Len(pool) \in Nat
      /\ Yield[ret] \in Seq(Nat) /\ <<>> \in Seq(Nat) /\ HeldText \in Seq(Nat)
      /\ Operands[toki] \in Seq(Nat)
    BY HeldType
<1>2. /\ Tok(toki) \in Punctuation => Operands[toki + 1] = Operands[toki] \o <<>>
      /\ Tok(toki) \notin Punctuation => Operands[toki + 1] = Operands[toki] \o <<toki>>
    BY <1>1, ReadOne
<1>3. /\ Tok(toki) \in Punctuation /\ Tok(toki + 1) \in Punctuation =>
            Operands[toki + 2] = Operands[toki] \o <<>>
      /\ Tok(toki) \in Punctuation /\ Tok(toki + 1) \notin Punctuation =>
            Operands[toki + 2] = Operands[toki] \o <<toki + 1>>
    BY <1>1, ReadTwo
<1>k. <<>> \in Seq(0 .. Len(pool))
    OBVIOUS
<1>e. PICK e \in Seq(Nat) : e = <<>>
    BY <1>1
<1>o. HeldText \o e = HeldText /\ Operands[toki] \o e = Operands[toki] /\ Yield[ret] \o e = Yield[ret]
    <2>1. PICK h \in Seq(Nat), o \in Seq(Nat), y \in Seq(Nat) :
              h = HeldText /\ o = Operands[toki] /\ y = Yield[ret]
        BY <1>1
    <2>2. h \o <<>> = h /\ o \o <<>> = o /\ y \o <<>> = y
        OBVIOUS
    <2> QED
        BY <1>e, <2>1, <2>2
<1>p. pool' = pool => PoolKept
    BY DEF PoolKept
<1>4. CASE PrimaryIdentifier \/ PrimaryLiteral
    <2>1. PICK tag \in LeafTags : new_node(tag, toki, <<>>)
        <3>1. \A f \in DOMAIN LiteralAst : LiteralAst[f] \in LeafTags
            BY DEF LiteralAst, LeafTags
        <3>2. "AST_IDENTIFIER" \in LeafTags
            BY DEF LeafTags
        <3> QED
            BY <1>4, <3>1, <3>2 DEF PrimaryIdentifier, PrimaryLiteral, new_literal
    <2>2. PoolKept /\ Yield'[ret'] = <<toki>>
        BY <1>k, <2>1, NewYield
    <2>3. HeldText = <<>>
        BY <1>4 DEF PrimaryIdentifier, PrimaryLiteral, AtPrimary, HeldText
    <2>4. HeldText' = Yield'[ret']
        BY <1>4 DEF PrimaryIdentifier, PrimaryLiteral, HeldText
    <2>5. PICK x \in Seq(Nat) : x = <<toki>>
        <3>1. PICK k \in Nat : k = toki
            BY <1>1
        <3>2. <<k>> \in Seq(Nat)
            OBVIOUS
        <3> QED
            BY <3>1, <3>2
    <2>6. <<>> \o x = x
        OBVIOUS
    <2>7. HeldText' = HeldText \o x
        BY <2>2, <2>3, <2>4, <2>5, <2>6
    <2>8. Tok(toki) \notin Punctuation
        BY <1>4, OperatorsArePrinted DEF PrimaryIdentifier, PrimaryLiteral, Punctuation
    <2>9. Operands[toki'] = Operands[toki] \o x
        BY <1>2, <1>4, <2>5, <2>8 DEF PrimaryIdentifier, PrimaryLiteral, new_literal, advance
    <2>10. stack' = stack
        BY <1>4 DEF PrimaryIdentifier, PrimaryLiteral
    <2> QED
        BY <2>2, <2>7, <2>9, <2>10, HoldText
<1>5. CASE PrimaryEnumLiteral
    <2>1. PICK tag \in LeafTags : tag = "AST_ENUM_LITERAL"
        BY DEF LeafTags
    <2>t. PICK t \in Nat : t = toki + 1
        BY <1>1
    <2>n. new_node(tag, t, <<>>)
        BY <1>5, <2>1, <2>t DEF PrimaryEnumLiteral
    <2>2. PoolKept /\ Yield'[ret'] = <<t>>
        BY <1>k, <2>n, NewYield
    <2>3. HeldText = <<>>
        BY <1>5 DEF PrimaryEnumLiteral, AtPrimary, HeldText
    <2>4. HeldText' = Yield'[ret']
        BY <1>5 DEF PrimaryEnumLiteral, HeldText
    <2>5. PICK x \in Seq(Nat) : x = <<t>>
        <3>1. <<t>> \in Seq(Nat)
            OBVIOUS
        <3> QED
            BY <3>1
    <2>6. <<>> \o x = x
        OBVIOUS
    <2>7. HeldText' = HeldText \o x
        BY <2>2, <2>3, <2>4, <2>5, <2>6
    <2>8. Tok(toki) = "TOK_PERIOD" /\ Tok(toki + 1) = "TOK_IDENTIFIER"
        BY <1>1, <1>5, MatchedTwo DEF PrimaryEnumLiteral
    <2>9. Operands[toki + 2] = Operands[toki] \o <<toki + 1>>
        BY <1>3, <2>8 DEF Punctuation
    <2>10. Operands[toki'] = Operands[toki] \o x
        BY <1>5, <2>5, <2>9, <2>t DEF PrimaryEnumLiteral, advance
    <2>11. stack' = stack
        BY <1>5 DEF PrimaryEnumLiteral
    <2> QED
        BY <2>2, <2>7, <2>10, <2>11, HoldText
<1>6. CASE PrimaryNone
    <2>1. HeldText = <<>>
        BY <1>6 DEF PrimaryNone, AtPrimary, HeldText
    <2>2. PoolKept /\ stack' = stack /\ toki' = toki /\ ret' = NULL
        BY <1>6, <1>p DEF PrimaryNone
    <2>3. Yield'[NULL] = Yield[NULL] /\ Yield[NULL] = <<>>
        <3>1. PICK n \in Nat : n = NULL
            BY DEF NULL
        <3>2. n <= Len(pool)
            BY <1>1, <3>1 DEF NULL
        <3> QED
            BY <2>2, <3>1, <3>2, NodeStays, YieldFacts
    <2>4. HeldText' = HeldText \o e
        BY <1>6, <1>o, <2>1, <2>2, <2>3 DEF PrimaryNone, HeldText
    <2>5. Operands[toki'] = Operands[toki] \o e
        BY <1>o, <2>2
    <2> QED
        BY <2>2, <2>4, <2>5, HoldText
<1>7. CASE PostfixEmptyCall
    <2>1. PICK kids \in Seq(0 .. Len(pool)) : kids = <<ret>>
        <3>1. PICK T : T = 0 .. Len(pool)
            OBVIOUS
        <3>2. ret \in T
            BY <1>1, <3>1
        <3>3. <<ret>> \in Seq(T)
            BY <3>2
        <3> QED
            BY <3>1, <3>3
    <2>2. PICK tag, tok : tag \in PostfixTags /\ new_node(tag, tok, kids)
        <3>1. "AST_CALL" \in PostfixTags
            BY DEF PostfixTags
        <3> QED
            BY <1>7, <2>1, <3>1 DEF PostfixEmptyCall
    <2>3. PoolKept /\ Yield'[ret'] = FlattenSeq([i \in 1 .. Len(kids) |-> Yield[kids[i]]])
        BY <2>2, NewYield
    <2>4. FlattenSeq([i \in 1 .. Len(kids) |-> Yield[kids[i]]]) = Yield[ret]
        <3>1. PICK y, r : y = Yield /\ r = ret
            OBVIOUS
        <3>2. y[r] \in Seq(Nat) /\ kids = <<r>>
            BY <1>1, <2>1, <3>1
        <3>3. FlattenSeq([i \in 1 .. Len(kids) |-> y[kids[i]]]) = y[r]
            BY <3>2, OneKid
        <3> QED
            BY <3>1, <3>3
    <2>5. HeldText = Yield[ret] /\ HeldText' = Yield'[ret']
        BY <1>7 DEF PostfixEmptyCall, HeldText
    <2>6. HeldText' = HeldText \o e
        BY <1>o, <2>3, <2>4, <2>5
    <2>7. Tok(toki) = "TOK_LPAREN" /\ Tok(toki + 1) = "TOK_RPAREN"
        BY <1>1, <1>7, MatchedTwo DEF PostfixEmptyCall
    <2>8. Operands[toki + 2] = Operands[toki] \o <<>>
        BY <1>3, <2>7 DEF Punctuation
    <2>9. Operands[toki'] = Operands[toki] \o e
        BY <1>7, <1>e, <2>8 DEF PostfixEmptyCall, advance
    <2>10. stack' = stack
        BY <1>7 DEF PostfixEmptyCall
    <2> QED
        BY <2>3, <2>6, <2>9, <2>10, HoldText
<1>8. CASE PostfixEnd \/ IndexMissing \/ Finish
    <2>1. PoolKept /\ stack' = stack /\ toki' = toki /\ ret' = ret
        BY <1>8, <1>p DEF PostfixEnd, IndexMissing, Finish
    <2>2. Yield'[ret] = Yield[ret]
        <3>1. PICK n \in Nat : n = ret /\ n <= Len(pool)
            BY <1>1
        <3> QED
            BY <2>1, <3>1, NodeStays
    <2>3. HeldText' = HeldText
        <3>1. CASE PostfixEnd \/ Finish
            BY <2>1, <2>2, <3>1 DEF PostfixEnd, Finish, HeldText
        <3>2. CASE IndexMissing
            <4>1. HeldText' = <<>> /\ HeldText = Yield[NULL]
                BY <3>2 DEF IndexMissing, ReturnTo, HeldText
            <4> QED
                BY <4>1, YieldFacts
        <3> QED
            BY <1>8, <3>1, <3>2
    <2>4. HeldText' = HeldText \o e /\ Operands[toki'] = Operands[toki] \o e
        BY <1>o, <2>1, <2>3
    <2> QED
        BY <2>1, <2>4, HoldText
<1> QED
    BY <1>4, <1>5, <1>6, <1>7, <1>8

(* The argument list still has room: it has read a token for each argument.*)
LEMMA ArgumentFits ==
    ASSUME IndInv, ArgumentsMove, ReturnTo("args")
    PROVE  ArgsAppended = Append(Caller.args, ret)
<1>1. /\ Caller \in FrameType /\ Caller = stack[Len(stack)] /\ Len(stack) \in Nat \ {0}
    BY CallerFacts DEF ReturnTo
<1>2. Caller.tok \in Nat /\ Len(Caller.args) \in Nat
    <2>1. Caller.tok \in Nat /\ Caller.args \in Seq(Nat)
        BY <1>1 DEF FrameType
    <2> QED
        BY <2>1
<1>3. Caller.tok + Len(Caller.args) + 1 <= toki
    <2>1. PICK n \in 1 .. Len(stack) : n = Len(stack) /\ stack[n] = Caller
        BY <1>1
    <2>2. stack[n].at = "args"
        BY <2>1 DEF ReturnTo
    <2>3. \/ stack[n].tok + Len(stack[n].args) + 1 < toki
          \/ stack[n].tok + Len(stack[n].args) + 1 = toki /\ Fresh(n)
        BY <2>2 DEF ArgumentsMove, ArgumentMoves
    <2>4. toki \in Nat
        BY HeldType
    <2> HIDE DEF Fresh
    <2> QED
        BY <1>2, <2>1, <2>3, <2>4
<1>4. toki < Len(tokens) /\ Len(tokens) \in Nat /\ toki \in Nat
    BY CursorFacts DEF IndInv, CursorSound
<1>5. Len(Caller.args) < Len(tokens)
    BY <1>2, <1>3, <1>4
<1> QED
    BY <1>5 DEF ArgsAppended

(* What the caller and what is returned point at.                          *)
LEMMA ReturnPoints ==
    ASSUME IndInv, stack # <<>>
    PROVE  /\ Caller \in FrameType /\ PointsInto(Caller, Len(pool))
           /\ Caller.tok \in Nat /\ Caller.lhs \in 0 .. Len(pool)
           /\ Caller.args \in Seq(0 .. Len(pool))
           /\ ret \in 0 .. Len(pool) /\ Len(pool) \in Nat
           /\ Yield \in [0 .. Len(pool) -> Seq(Nat)]
           /\ <<ret>> \in Seq(0 .. Len(pool))
           /\ <<Caller.lhs, ret>> \in Seq(0 .. Len(pool))
<1>1. Len(pool) \in Nat /\ Yield \in [0 .. Len(pool) -> Seq(Nat)]
    BY YieldFacts
<1>3. PointsInto(Caller, Len(pool))
    <2>1. StackInto(stack, Len(pool))
        BY StackPoints
    <2> QED
        BY <1>1, <2>1, StackTextPop DEF Caller
<1>4. ret \in 0 .. Len(pool)
    BY HeldType
<1>5. Caller \in FrameType /\ Caller.lhs \in 0 .. Len(pool) /\ Caller.args \in Seq(0 .. Len(pool))
    BY <1>3 DEF PointsInto
<1>6. Caller.tok \in Nat
    BY <1>5 DEF FrameType
<1>7. <<ret>> \in Seq(0 .. Len(pool)) /\ <<Caller.lhs, ret>> \in Seq(0 .. Len(pool))
    <2>1. PICK T : T = 0 .. Len(pool)
        OBVIOUS
    <2>2. PICK a, b \in T : a = ret /\ b = Caller.lhs
        BY <1>4, <1>5, <2>1
    <2>3. <<a>> \in Seq(T) /\ <<b, a>> \in Seq(T)
        BY SMTT(20)
    <2> QED
        BY <2>1, <2>2, <2>3
<1> QED
    BY <1>1, <1>3, <1>4, <1>5, <1>6, <1>7

(* What a caller holds.                                                    *)
LEMMA CallerText ==
    ASSUME NEW f, NEW y
    PROVE  /\ f.at = "operand" => FrameText(f, y) = <<f.tok>>
           /\ f.at = "rhs" => FrameText(f, y) = y[f.lhs] \o <<f.tok>>
           /\ f.at \in {"member", "index"} => FrameText(f, y) = y[f.lhs]
           /\ f.at = "args" => FrameText(f, y) =
                 y[f.lhs] \o FlattenSeq([i \in 1 .. Len(f.args) |-> y[f.args[i]]])
           /\ f.at \in {"precedence", "group"} => FrameText(f, y) = <<>>
<1>1. PICK a, b, c : /\ a = y[f.lhs]
                     /\ b = FlattenSeq([i \in 1 .. Len(f.args) |-> y[f.args[i]]])
                     /\ c = f.at
    OBVIOUS
<1>2. FrameText(f, y) = CASE c = "operand" -> <<f.tok>>
                          [] c = "rhs" -> a \o <<f.tok>>
                          [] c \in {"member", "index"} -> a
                          [] c = "args" -> a \o b
                          [] OTHER -> <<>>
    BY <1>1 DEF FrameText
<1> QED
    BY <1>1, <1>2

(* The returns.                                                            *)
LEMMA ReturnText ==
    ASSUME IndInv, IndInv', tokens' = tokens, TextKept, ArgumentsMove,
           \/ LeaveLoop \/ new_binary \/ new_unary \/ CloseGroup \/ MemberField
           \/ CloseIndex \/ CloseCall
    PROVE  TextKept'
<1>0. stack # <<>> /\ stack' = Front(stack) /\ HeldText = Yield[ret]
    BY DEF LeaveLoop, new_binary, new_unary, CloseGroup, MemberField, CloseIndex, CloseCall,
       ReturnTo, Pop, HeldText
<1>1. /\ Caller \in FrameType /\ PointsInto(Caller, Len(pool))
      /\ Caller.tok \in Nat /\ Caller.lhs \in 0 .. Len(pool)
      /\ Caller.args \in Seq(0 .. Len(pool))
      /\ ret \in 0 .. Len(pool) /\ Len(pool) \in Nat
      /\ <<ret>> \in Seq(0 .. Len(pool))
      /\ <<Caller.lhs, ret>> \in Seq(0 .. Len(pool))
    BY <1>0, ReturnPoints
<1>2. PICK y : y = Yield
    OBVIOUS
<1>3. PICK l \in Seq(Nat), r \in Seq(Nat) : l = y[Caller.lhs] /\ r = y[ret]
    BY <1>1, <1>2, YieldFacts
<1>t. PICK t \in Seq(Nat) : t = <<Caller.tok>>
    <2>1. PICK k \in Nat : k = Caller.tok
        BY <1>1
    <2>2. <<k>> \in Seq(Nat)
        OBVIOUS
    <2> QED
        BY <2>1, <2>2
<1>o. toki \in Nat /\ (Tok(toki) \in Punctuation => Operands[toki + 1] = Operands[toki])
    <2>1. toki \in Nat /\ Operands[toki] \in Seq(Nat)
        BY HeldType
    <2>2. PICK o \in Seq(Nat) : o = Operands[toki]
        BY <2>1
    <2>3. o \o <<>> = o
        OBVIOUS
    <2>4. Tok(toki) \in Punctuation => Operands[toki + 1] = Operands[toki] \o <<>>
        BY <2>1, ReadOne
    <2> QED
        BY <2>1, <2>2, <2>3, <2>4
<1>c. current = Tok(toki)
    BY DEF IndInv, CursorSound
<1>s. <<>> \o r = r
    OBVIOUS
<1>k. PICK one \in Seq(0 .. Len(pool)), two \in Seq(0 .. Len(pool)) :
          one = <<ret>> /\ two = <<Caller.lhs, ret>>
    BY <1>1
<1>f. /\ FlattenSeq([i \in 1 .. Len(one) |-> y[one[i]]]) = r
      /\ FlattenSeq([i \in 1 .. Len(two) |-> y[two[i]]]) = l \o r
    <2>1. PICK a, b : a = ret /\ b = Caller.lhs
        OBVIOUS
    <2>2. y[a] \in Seq(Nat) /\ y[b] \in Seq(Nat) /\ one = <<a>> /\ two = <<b, a>>
        BY <1>3, <1>k, <2>1
    <2>3. FlattenSeq([i \in 1 .. Len(one) |-> y[one[i]]]) = y[a]
        BY <2>2, OneKid
    <2>4. FlattenSeq([i \in 1 .. Len(two) |-> y[two[i]]]) = y[b] \o y[a]
        BY <2>2, TwoKids
    <2> QED
        BY <1>3, <2>1, <2>3, <2>4
<1>p. ASSUME Operands[toki'] = Operands[toki], PoolKept,
             HeldText' = FrameText(Caller, y) \o r
      PROVE  TextKept'
    BY <1>0, <1>2, <1>3, <1>p, PopText
<1>4. CASE LeaveLoop
    <2>1. PoolKept /\ toki' = toki /\ HeldText' = Yield'[ret]
        BY <1>4 DEF LeaveLoop, ReturnTo, PoolKept, HeldText
    <2>2. Yield'[ret] = Yield[ret]
        <3>1. PICK n \in Nat : n = ret /\ n <= Len(pool)
            BY <1>1
        <3> QED
            BY <2>1, <3>1, NodeStays
    <2>3. FrameText(Caller, y) = <<>>
        BY <1>4, CallerText DEF LeaveLoop, ReturnTo
    <2>4. HeldText' = FrameText(Caller, y) \o r
        BY <1>2, <1>3, <1>s, <2>1, <2>2, <2>3
    <2> QED
        BY <1>p, <2>1, <2>4
<1>5. CASE new_binary
    <2>1. PICK tag : tag = BinaryAst(Tok(Caller.tok))
        OBVIOUS
    <2>2. tag \in BinaryTags
        <3>1. FrameSound(Caller) /\ Caller.at = "rhs"
            BY <1>0, <1>5, CallerFacts DEF new_binary, ReturnTo
        <3>2. get_precedence(Tok(Caller.tok)) # PREC_NONE
            BY <3>1 DEF FrameSound
        <3> QED
            BY <2>1, <3>2, OperatorsHaveNodes
    <2>3. new_node(tag, Caller.tok, two)
        BY <1>5, <1>k, <2>1 DEF new_binary
    <2>4. Len(two) = 2 /\ two[1] = Caller.lhs /\ two[2] = ret
        BY <1>k
    <2>5. PoolKept /\ Yield'[ret'] = Yield[two[1]] \o <<Caller.tok>> \o Yield[two[2]]
        <3>1. PICK tok : tok = Caller.tok
            OBVIOUS
        <3>2. new_node(tag, tok, two)
            BY <2>3, <3>1
        <3>3. PoolKept /\ Yield'[ret'] = Yield[two[1]] \o <<tok>> \o Yield[two[2]]
            BY <2>2, <2>4, <3>2, NewYield
        <3> QED
            BY <3>1, <3>3
    <2>6. HeldText' = Yield'[ret'] /\ toki' = toki
        BY <1>5 DEF new_binary, ReturnTo, HeldText
    <2>7. FrameText(Caller, y) = l \o <<Caller.tok>>
        BY <1>3, <1>5, CallerText DEF new_binary, ReturnTo
    <2>8. HeldText' = FrameText(Caller, y) \o r
        BY <1>2, <1>3, <2>4, <2>5, <2>6, <2>7
    <2> QED
        BY <1>p, <2>5, <2>6, <2>8
<1>6. CASE new_unary
    <2>1. PICK tag : tag = UnaryAst[Tok(Caller.tok)]
        OBVIOUS
    <2>2. tag \in UnaryTags
        <3>1. FrameSound(Caller) /\ Caller.at = "operand"
            BY <1>0, <1>6, CallerFacts DEF new_unary, ReturnTo
        <3>2. Tok(Caller.tok) \in DOMAIN UnaryAst
            BY <3>1 DEF FrameSound
        <3>3. \A f \in DOMAIN UnaryAst : UnaryAst[f] \in UnaryTags
            BY DEF UnaryAst, UnaryTags
        <3> QED
            BY <2>1, <3>2, <3>3
    <2>3. new_node(tag, Caller.tok, one)
        BY <1>6, <1>k, <2>1 DEF new_unary
    <2>5. /\ PoolKept
          /\ Yield'[ret'] = <<Caller.tok>> \o FlattenSeq([i \in 1 .. Len(one) |-> Yield[one[i]]])
        <3>1. PICK tok : tok = Caller.tok
            OBVIOUS
        <3>2. new_node(tag, tok, one)
            BY <2>3, <3>1
        <3>3. /\ PoolKept
              /\ Yield'[ret'] = <<tok>> \o FlattenSeq([i \in 1 .. Len(one) |-> Yield[one[i]]])
            BY <2>2, <3>2, NewYield
        <3> QED
            BY <3>1, <3>3
    <2>6. HeldText' = Yield'[ret'] /\ toki' = toki
        BY <1>6 DEF new_unary, ReturnTo, HeldText
    <2>7. FrameText(Caller, y) = <<Caller.tok>>
        BY <1>6, CallerText DEF new_unary, ReturnTo
    <2>8. HeldText' = FrameText(Caller, y) \o r
        BY <1>2, <1>f, <2>5, <2>6, <2>7
    <2> QED
        BY <1>p, <2>5, <2>6, <2>8
<1>7. CASE CloseGroup
    <2>1. PICK tag : tag = "AST_GROUPED_EXPR"
        OBVIOUS
    <2>2. tag \in PostfixTags
        BY <2>1 DEF PostfixTags
    <2>t. PICK tok : new_node(tag, tok, one)
        BY <1>7, <1>k, <2>1 DEF CloseGroup
    <2>5. PoolKept /\ Yield'[ret'] = FlattenSeq([i \in 1 .. Len(one) |-> Yield[one[i]]])
        BY <2>2, <2>t, NewYield
    <2>6. HeldText' = Yield'[ret'] /\ toki' = toki + 1 /\ current = "TOK_RPAREN"
        BY <1>7 DEF CloseGroup, ReturnTo, HeldText, advance
    <2>7. FrameText(Caller, y) = <<>>
        BY <1>7, CallerText DEF CloseGroup, ReturnTo
    <2>8. HeldText' = FrameText(Caller, y) \o r
        BY <1>2, <1>f, <1>s, <2>5, <2>6, <2>7
    <2>9. Operands[toki'] = Operands[toki]
        BY <1>c, <1>o, <2>6 DEF Punctuation
    <2> QED
        BY <1>p, <2>5, <2>8, <2>9
<1>8. CASE MemberField \/ CloseIndex
    <2>1. PICK tag : tag \in PostfixTags /\ \E tok : new_node(tag, tok, two)
        <3>1. "AST_MEMBER" \in PostfixTags /\ "AST_ARRAY_ACCESS" \in PostfixTags
            BY DEF PostfixTags
        <3> QED
            BY <1>8, <1>k, <3>1 DEF MemberField, CloseIndex
    <2>t. PICK tok : new_node(tag, tok, two)
        BY <2>1
    <2>5. PoolKept /\ Yield'[ret'] = FlattenSeq([i \in 1 .. Len(two) |-> Yield[two[i]]])
        BY <2>1, <2>t, NewYield
    <2>6. HeldText' = Yield'[ret']
        BY <1>8 DEF MemberField, CloseIndex, HeldText
    <2>7. FrameText(Caller, y) = l
        BY <1>3, <1>8, CallerText DEF MemberField, CloseIndex, ReturnTo
    <2>8. HeldText' = FrameText(Caller, y) \o r
        BY <1>2, <1>f, <2>5, <2>6, <2>7
    <2>9. Operands[toki'] = Operands[toki]
        BY <1>8, <1>c, <1>o DEF MemberField, CloseIndex, advance, Punctuation
    <2> QED
        BY <1>p, <2>5, <2>8, <2>9
<1>9. CASE CloseCall
    <2>1. PICK tag : tag = "AST_CALL"
        OBVIOUS
    <2>2. tag \in PostfixTags
        BY <2>1 DEF PostfixTags
    <2>3. ArgsAppended = Append(Caller.args, ret)
        BY <1>9, ArgumentFits DEF CloseCall
    <2>n. PICK n \in Nat : n = Len(pool)
        BY <1>1
    <2>a. PICK a \in 0 .. n, b \in 0 .. n, args \in Seq(0 .. n) :
              a = ret /\ b = Caller.lhs /\ args = Caller.args
        BY <1>1, <2>n, SMTT(20)
    <2>4. /\ <<b>> \o Append(args, a) \in Seq(0 .. n)
          /\ FlattenSeq([i \in 1 .. Len(<<b>> \o Append(args, a)) |->
                              y[(<<b>> \o Append(args, a))[i]]])
                = (y[b] \o FlattenSeq([i \in 1 .. Len(args) |-> y[args[i]]])) \o y[a]
        <3>1. y \in [0 .. n -> Seq(Nat)]
            BY <1>2, <2>n, YieldFacts
        <3> QED
            BY <3>1, CallYield
    <2>k. PICK kids : kids = <<b>> \o Append(args, a)
        OBVIOUS
    <2>t. PICK tok : new_node(tag, tok, kids)
        BY <1>9, <2>1, <2>3, <2>a, <2>k DEF CloseCall
    <2>m. kids \in Seq(0 .. Len(pool))
        BY <2>4, <2>k, <2>n
    <2>5. PoolKept /\ Yield'[ret'] = FlattenSeq([i \in 1 .. Len(kids) |-> Yield[kids[i]]])
        BY <2>2, <2>m, <2>t, NewYield
    <2>6. HeldText' = Yield'[ret'] /\ toki' = toki + 1 /\ current = "TOK_RPAREN"
        BY <1>9 DEF CloseCall, HeldText, advance
    <2>7. FrameText(Caller, y) = y[b] \o FlattenSeq([i \in 1 .. Len(args) |-> y[args[i]]])
        BY <1>9, <2>a, CallerText DEF CloseCall, ReturnTo
    <2>8. HeldText' = FrameText(Caller, y) \o r
        BY <1>2, <1>3, <2>4, <2>5, <2>6, <2>7, <2>a, <2>k
    <2>9. Operands[toki'] = Operands[toki]
        BY <1>c, <1>o, <2>6 DEF Punctuation
    <2> QED
        BY <1>p, <2>5, <2>8, <2>9
<1> QED
    BY <1>4, <1>5, <1>6, <1>7, <1>8, <1>9

(* An argument list calls parse_precedence(0) and nothing else.            *)
LEMMA ArgsCallee ==
    ASSUME IndInv, NEW k \in Nat, k \in 1 .. Len(stack) - 1, stack[k].at = "args"
    PROVE  stack[k + 1].at = "precedence" /\ stack[k + 1].min = 0
<1>1. Calls(stack[k], stack[k + 1])
    BY DEF IndInv, CallChain, StackShape, IsCallChain
<1>2. PICK f, g : f = stack[k] /\ g = stack[k + 1]
    OBVIOUS
<1>3. Calls(f, g) /\ f.at = "args"
    BY <1>1, <1>2
<1>4. g.at = "precedence"
    BY <1>3 DEF Calls
<1>5. g.min = CalleeMin(f)
    BY <1>3, <1>4 DEF Calls
<1>6. CalleeMin(f) = 0
    BY <1>3 DEF CalleeMin
<1> QED
    BY <1>2, <1>4, <1>5, <1>6

(* A list that asks for an argument and goes on has moved, or is at it.    *)
LEMMA KeptMoves ==
    ASSUME IndInv, NEW k \in 1 .. Len(stack), ArgumentMoves(k),
           stack'[k] = stack[k], toki' \in Nat,
           toki < toki' \/ (toki' = toki /\ (Fresh(k) => Fresh(k)'))
    PROVE  ArgumentMoves(k)'
<1>1. PICK m \in Nat : m = stack[k].tok + Len(stack[k].args) + 1
    <2>1. stack[k] \in FrameType
        BY DEF IndInv, TypeOK
    <2>2. PICK args \in Seq(Nat) : args = stack[k].args /\ stack[k].tok \in Nat
        BY <2>1 DEF FrameType
    <2>3. Len(args) \in Nat
        OBVIOUS
    <2> QED
        BY <2>2, <2>3
<1>2. toki \in Nat /\ (m < toki \/ (m = toki /\ Fresh(k)))
    <2> HIDE DEF Fresh
    <2> QED
        BY <1>1, HeldType DEF ArgumentMoves
<1>3. m < toki' \/ (m = toki' /\ Fresh(k)')
    <2> HIDE DEF Fresh
    <2> QED
        BY <1>2
<1>4. m = stack'[k].tok + Len(stack'[k].args) + 1
    BY <1>1
<1> QED
    <2> HIDE DEF Fresh
    <2> QED
        BY <1>3, <1>4 DEF ArgumentMoves

(* The frames that stay below the top.                                     *)
LEMMA BelowMoves ==
    ASSUME IndInv, ArgumentsMove, toki' \in Nat, NEW n \in Nat, n <= Len(stack),
           \A k \in 1 .. n : stack'[k] = stack[k],
           \/ toki < toki'
           \/ toki' = toki /\ \A k \in 1 .. n : stack[k].at = "args" /\ Fresh(k) => Fresh(k)'
    PROVE  \A k \in 1 .. n : stack'[k].at = "args" => ArgumentMoves(k)'
<1> SUFFICES ASSUME NEW k \in 1 .. n, stack'[k].at = "args"
             PROVE  ArgumentMoves(k)'
    OBVIOUS
<1>1. Len(stack) \in Nat
    BY DEF IndInv, TypeOK
<1>2. k \in 1 .. Len(stack) /\ stack[k].at = "args" /\ stack'[k] = stack[k]
    BY <1>1
<1>3. ArgumentMoves(k)
    BY <1>2, Zenon DEF ArgumentsMove
<1>4. toki < toki' \/ (toki' = toki /\ (Fresh(k) => Fresh(k)'))
    <2> HIDE DEF Fresh
    <2> QED
        BY <1>2
<1> QED
    BY <1>2, <1>3, <1>4, KeptMoves

(* The frames a call adds.                                                 *)
LEMMA CallsAdd ==
    ASSUME IndInv,
           \/ PrefixOperator \/ PrimaryGroup \/ PostfixMember \/ PostfixCall \/ PostfixIndex
           \/ TakeOperator
    PROVE  /\ Len(stack) \in Nat /\ Len(stack') \in {Len(stack) + 1, Len(stack) + 2}
           /\ \A k \in 1 .. Len(stack) : stack'[k] = stack[k]
           /\ stack'[Len(stack) + 1].at = "args" =>
                 /\ pc' = "unary" /\ Len(stack') = Len(stack) + 2
                 /\ stack'[Len(stack) + 1].tok = toki /\ stack'[Len(stack) + 1].args = <<>>
           /\ Len(stack') = Len(stack) + 2 => stack'[Len(stack) + 2].at = "precedence"
           /\ Len(stack') = Len(stack) + 1 => pc' = "primary" /\ Last(stack').at = "member"
           /\ Len(stack') = Len(stack) + 2 => pc' = "unary"
<1>1. /\ toki \in Nat /\ stack \in Seq(FrameType) /\ Len(stack) \in Nat /\ ret \in Nat
      /\ NULL \in Nat /\ <<>> \in Seq(Nat)
    <2>1. toki \in Nat /\ stack \in Seq(FrameType) /\ ret \in Nat
        BY DEF IndInv, TypeOK
    <2> QED
        BY <2>1 DEF NULL
<1>z. PICK z \in 0 .. 12 : z = 0
    OBVIOUS
<1>2. ASSUME NEW at \in FrameAt, NEW l \in Nat, NEW m \in 0 .. 12,
             pc' = "unary",
             stack' = stack \o <<Frame(at, 0, toki, l, <<>>), PrecedenceFrame(m)>>
      PROVE  /\ Len(stack') = Len(stack) + 2
             /\ \A k \in 1 .. Len(stack) : stack'[k] = stack[k]
             /\ stack'[Len(stack) + 1].tok = toki /\ stack'[Len(stack) + 1].args = <<>>
             /\ stack'[Len(stack) + 2].at = "precedence"
    <2>1. PICK f \in FrameType : f = Frame(at, z, toki, l, <<>>)
        BY <1>1, FrameTypes
    <2>2. PICK g \in FrameType : g = PrecedenceFrame(m)
        BY PrecedenceFrameType
    <2>3. f.tok = toki /\ f.args = <<>>
        BY <2>1 DEF Frame
    <2>4. g.at = "precedence"
        BY <2>2 DEF PrecedenceFrame, Frame
    <2>5. stack' = stack \o <<f, g>>
        BY <1>2, <1>z, <2>1, <2>2
    <2>6. /\ Len(stack') = Len(stack) + 2 /\ \A k \in 1 .. Len(stack) : stack'[k] = stack[k]
          /\ stack'[Len(stack) + 1] = f /\ stack'[Len(stack) + 2] = g
        BY <1>1, <2>5, PushTwo
    <2> QED
        BY <2>3, <2>4, <2>6
<1>3. CASE PostfixMember
    <2>1. PICK f \in FrameType : f = Frame("member", z, toki, ret, <<>>)
        <3>1. "member" \in FrameAt
            BY DEF FrameAt
        <3> QED
            BY <1>1, <3>1, FrameTypes
    <2>2. f.at = "member"
        BY <2>1 DEF Frame
    <2>3. stack' = Append(stack, f) /\ pc' = "primary"
        BY <1>3, <1>z, <2>1 DEF PostfixMember
    <2>4. /\ Len(stack') = Len(stack) + 1 /\ \A k \in 1 .. Len(stack) : stack'[k] = stack[k]
          /\ stack'[Len(stack) + 1] = f /\ Last(stack') = f
        BY <1>1, <2>3, PushOne
    <2> QED
        BY <1>1, <2>2, <2>3, <2>4
<1>4. CASE PrefixOperator \/ PrimaryGroup \/ PostfixCall \/ PostfixIndex \/ TakeOperator
    <2>1. PICK at \in FrameAt, l \in Nat, m \in 0 .. 12 :
              /\ pc' = "unary"
              /\ stack' = stack \o <<Frame(at, 0, toki, l, <<>>), PrecedenceFrame(m)>>
        <3>1. CASE PrefixOperator
            <4>1. PICK at \in FrameAt, m \in 0 .. 12 : at = "operand" /\ m = PREC_UNARY
                BY DEF FrameAt, PREC_UNARY
            <4> QED
                BY <1>1, <3>1, <4>1 DEF PrefixOperator
        <3>2. CASE PrimaryGroup \/ PostfixCall \/ PostfixIndex
            <4>1. PICK a, b, c \in FrameAt : a = "group" /\ b = "args" /\ c = "index"
                BY DEF FrameAt
            <4> QED
                BY <1>1, <1>z, <3>2, <4>1 DEF PrimaryGroup, PostfixCall, PostfixIndex
        <3>3. CASE TakeOperator
            <4>1. PICK m \in 0 .. 12 : m = next_prec(Tok(toki))
                BY NextPrecRange, PrecedenceRange
            <4>2. PICK at \in FrameAt : at = "rhs"
                BY SMTT(20) DEF FrameAt
            <4> QED
                BY <1>1, <3>3, <4>1, <4>2 DEF TakeOperator
        <3> QED
            BY <1>4, <3>1, <3>2, <3>3
    <2>2. /\ Len(stack') = Len(stack) + 2
          /\ \A k \in 1 .. Len(stack) : stack'[k] = stack[k]
          /\ stack'[Len(stack) + 1].tok = toki /\ stack'[Len(stack) + 1].args = <<>>
          /\ stack'[Len(stack) + 2].at = "precedence"
        BY <1>2, <2>1
    <2> QED
        BY <1>1, <2>1, <2>2, SMTT(20)
<1> QED
    BY <1>3, <1>4

(* A call reads a token, and the list of arguments it may start is at its  *)
(* first one.                                                              *)
LEMMA MovesCalls ==
    ASSUME IndInv, ArgumentsMove,
           \/ PrefixOperator \/ PrimaryGroup \/ PostfixMember \/ PostfixCall \/ PostfixIndex
           \/ TakeOperator
    PROVE  ArgumentsMove'
<1>1. toki \in Nat /\ toki' = toki + 1 /\ toki < toki' /\ toki' \in Nat
    <2>1. toki' = toki + 1
        BY DEF PrefixOperator, PrimaryGroup, PostfixMember, PostfixCall, PostfixIndex,
           TakeOperator, advance
    <2>2. toki \in Nat
        BY DEF IndInv, TypeOK
    <2> QED
        BY <2>1, <2>2
<1>2. PICK n \in Nat : n = Len(stack)
    BY CallsAdd
<1>3. /\ Len(stack') \in {n + 1, n + 2}
      /\ \A k \in 1 .. n : stack'[k] = stack[k]
      /\ stack'[n + 1].at = "args" =>
            /\ pc' = "unary" /\ Len(stack') = n + 2
            /\ stack'[n + 1].tok = toki /\ stack'[n + 1].args = <<>>
      /\ Len(stack') = n + 2 => stack'[n + 2].at = "precedence"
    BY <1>2, CallsAdd
<1>4. \A k \in 1 .. n : stack'[k].at = "args" => ArgumentMoves(k)'
    <2>1. n <= Len(stack)
        BY <1>2
    <2> HIDE DEF ArgumentMoves
    <2> QED
        BY <1>1, <1>3, <2>1, BelowMoves
<1>5. ASSUME NEW k \in 1 .. Len(stack'), stack'[k].at = "args"
      PROVE  ArgumentMoves(k)'
    <2>1. k \in 1 .. n \/ k = n + 1 \/ (k = n + 2 /\ Len(stack') = n + 2)
        BY <1>3
    <2>2. CASE k \in 1 .. n
        <3> HIDE DEF ArgumentMoves
        <3> QED
            BY <1>4, <1>5, <2>2
    <2>3. CASE k = n + 1
        <3>1. /\ pc' = "unary" /\ Len(stack') = k + 1
              /\ stack'[k].tok = toki /\ stack'[k].args = <<>>
            BY <1>3, <1>5, <2>3
        <3>2. Fresh(k)'
            BY <3>1 DEF Fresh
        <3>3. stack'[k].tok + Len(stack'[k].args) + 1 = toki'
            BY <1>1, <3>1
        <3> QED
            BY <3>2, <3>3 DEF ArgumentMoves
    <2>4. CASE k = n + 2 /\ Len(stack') = n + 2
        <3>1. stack'[k].at = "precedence"
            BY <1>3, <2>4
        <3> QED
            BY <1>5, <3>1
    <2> QED
        BY <2>1, <2>2, <2>3, <2>4
<1> QED
    BY <1>5, Zenon DEF ArgumentsMove

(* A token of a primary is read.                                           *)
LEMMA MovesStay ==
    ASSUME IndInv, ArgumentsMove,
           \/ PrimaryIdentifier \/ PrimaryLiteral \/ PrimaryEnumLiteral \/ PrimaryNone
           \/ PostfixEmptyCall \/ PostfixEnd \/ IndexMissing \/ Finish
    PROVE  ArgumentsMove'
<1>1. toki \in Nat /\ Len(stack) \in Nat /\ stack' = stack
    <2>1. stack' = stack
        BY DEF PrimaryIdentifier, PrimaryLiteral, PrimaryEnumLiteral, PrimaryNone,
           PostfixEmptyCall, PostfixEnd, IndexMissing, Finish
    <2> QED
        BY <2>1 DEF IndInv, TypeOK
<1>2. PICK n \in Nat : n = Len(stack)
    BY <1>1
<1>3. \/ toki < toki' /\ toki' \in Nat
      \/ /\ toki' = toki /\ toki' \in Nat
         /\ \A k \in 1 .. n : stack[k].at = "args" /\ Fresh(k) => Fresh(k)'
    <2>1. CASE PrimaryIdentifier \/ PrimaryLiteral \/ PrimaryEnumLiteral \/ PostfixEmptyCall
        <3>1. toki' = toki + 1 \/ toki' = toki + 2
            BY <2>1 DEF PrimaryIdentifier, PrimaryLiteral, PrimaryEnumLiteral,
               PostfixEmptyCall, new_literal, advance
        <3> QED
            BY <1>1, <3>1
    <2>2. CASE PrimaryNone
        <3>1. /\ toki' = toki /\ pc \in {"unary", "primary"} /\ pc' = "return" /\ ret' = NULL
              /\ stack' = stack
            BY <2>2 DEF PrimaryNone, AtPrimary
        <3>2. ASSUME NEW k \in 1 .. n, Fresh(k) PROVE Fresh(k)'
            <4>1. Len(stack) = k + 1
                BY <3>1, <3>2 DEF Fresh
            <4> QED
                BY <3>1, <4>1 DEF Fresh
        <3> HIDE DEF Fresh
        <3> QED
            BY <1>1, <3>1, <3>2
    <2>3. CASE PostfixEnd \/ Finish
        <3>1. toki' = toki
            BY <2>3 DEF PostfixEnd, Finish
        <3>2. ASSUME NEW k \in 1 .. n, Fresh(k) PROVE Fresh(k)'
            <4>1. CASE PostfixEnd
                BY <3>2, <4>1 DEF PostfixEnd, Fresh
            <4>2. CASE Finish
                BY <1>2, <4>2 DEF Finish
            <4> QED
                BY <2>3, <4>1, <4>2
        <3> HIDE DEF Fresh
        <3> QED
            BY <1>1, <3>1, <3>2
    <2>4. CASE IndexMissing
        <3>1. toki' = toki /\ stack # <<>> /\ Caller.at = "index" /\ pc = "return"
            BY <2>4 DEF IndexMissing, ReturnTo
        <3>2. ASSUME NEW k \in 1 .. n, stack[k].at = "args", Fresh(k) PROVE FALSE
            <4>1. k \in Nat /\ (k = n \/ k = n - 1) /\ Caller = stack[n]
                BY <1>2, <3>1, <3>2, CallerFacts DEF Fresh
            <4>2. k # n
                BY <3>1, <3>2, <4>1
            <4>3. k \in 1 .. Len(stack) - 1 /\ k + 1 = n
                BY <1>2, <4>1, <4>2
            <4>4. stack[k + 1].at = "precedence"
                BY <3>2, <4>1, <4>3, ArgsCallee
            <4> QED
                BY <3>1, <4>1, <4>3, <4>4
        <3> HIDE DEF Fresh
        <3> QED
            BY <1>1, <3>1, <3>2
    <2> QED
        BY <2>1, <2>2, <2>3, <2>4
<1>4. \A k \in 1 .. n : stack'[k].at = "args" => ArgumentMoves(k)'
    <2>1. n <= Len(stack) /\ \A k \in 1 .. n : stack'[k] = stack[k]
        BY <1>1, <1>2
    <2> HIDE DEF ArgumentMoves, Fresh
    <2> QED
        BY <1>3, <2>1, BelowMoves
<1> HIDE DEF ArgumentMoves
<1> QED
    BY <1>1, <1>2, <1>4, Zenon DEF ArgumentsMove

(* A return.                                                               *)
LEMMA MovesReturn ==
    ASSUME IndInv, ArgumentsMove,
           \/ LeaveLoop \/ new_binary \/ new_unary \/ CloseGroup \/ MemberField
           \/ CloseIndex \/ CloseCall
    PROVE  ArgumentsMove'
<1>1. /\ toki \in Nat /\ stack # <<>> /\ stack' = Front(stack) /\ pc = "return"
      /\ toki' = toki \/ toki' = toki + 1
    <2>1. /\ stack # <<>> /\ stack' = Front(stack) /\ pc = "return"
          /\ toki' = toki \/ toki' = toki + 1
        BY DEF LeaveLoop, new_binary, new_unary, CloseGroup, MemberField, CloseIndex,
           CloseCall, ReturnTo, Pop, advance
    <2> QED
        BY <2>1 DEF IndInv, TypeOK
<1>2. PICK n \in Nat : n = Len(stack) - 1
    BY <1>1, CallerFacts
<1>3. /\ Len(stack) = n + 1 /\ Len(stack') = n /\ Caller = stack[n + 1]
      /\ \A k \in 1 .. n : stack'[k] = stack[k]
    BY <1>1, <1>2, CallerFacts
<1>4. \/ toki < toki' /\ toki' \in Nat
      \/ /\ toki' = toki /\ toki' \in Nat
         /\ \A k \in 1 .. n : stack[k].at = "args" /\ Fresh(k) => Fresh(k)'
    <2>1. CASE toki' = toki + 1
        BY <1>1, <2>1
    <2>2. CASE toki' = toki
        <3>1. ASSUME NEW k \in 1 .. n, stack[k].at = "args", Fresh(k) PROVE Fresh(k)'
            <4>1. ret = NULL /\ k \in Nat /\ (k = n + 1 \/ n + 1 = k + 1)
                BY <1>1, <1>3, <3>1 DEF Fresh
            <4>2. k = n /\ k \in 1 .. Len(stack) - 1
                BY <1>3, <4>1
            <4>3. Caller.at = "precedence"
                BY <1>3, <3>1, <4>1, <4>2, ArgsCallee
            <4>4. LeaveLoop
                BY <2>2, <1>1, <4>1, <4>3 DEF new_binary, new_unary, CloseGroup, MemberField,
                   CloseIndex, CloseCall, ReturnTo, advance
            <4>5. pc' = "return" /\ ret' = NULL /\ Len(stack') = k
                BY <1>1, <1>3, <4>1, <4>2, <4>4 DEF LeaveLoop
            <4> QED
                BY <4>5 DEF Fresh
        <3> HIDE DEF Fresh
        <3> QED
            BY <1>1, <2>2, <3>1
    <2> QED
        BY <1>1, <2>1, <2>2
<1>5. \A k \in 1 .. n : stack'[k].at = "args" => ArgumentMoves(k)'
    <2>1. n <= Len(stack)
        BY <1>3
    <2> HIDE DEF ArgumentMoves, Fresh
    <2> QED
        BY <1>3, <1>4, <2>1, BelowMoves
<1> HIDE DEF ArgumentMoves
<1> QED
    BY <1>3, <1>5, Zenon DEF ArgumentsMove

(* The frames when a list asks for one more argument.                      *)
LEMMA AgainFrames ==
    ASSUME IndInv, ReturnTo("args"), ParseNextArgument, NEW g,
           g = [Caller EXCEPT !.args = ArgsAppended]
    PROVE  /\ stack # <<>> /\ Caller.at = "args" /\ pc = "return"
           /\ g.at = "args" /\ g.tok = Caller.tok /\ g.lhs = Caller.lhs /\ g.args = ArgsAppended
           /\ g \in FrameType
           /\ stack' = Front(stack) \o <<g, PrecedenceFrame(0)>>
           /\ Len(stack') = Len(stack) + 1 /\ Len(stack) \in Nat \ {0}
           /\ \A k \in 1 .. Len(stack) - 1 : stack'[k] = stack[k]
           /\ stack'[Len(stack)] = g /\ stack'[Len(stack) + 1] = PrecedenceFrame(0)
           /\ Last(stack') = PrecedenceFrame(0)
           /\ Caller = stack[Len(stack)]
<1>1. stack # <<>> /\ Caller.at = "args" /\ pc = "return"
    BY DEF ReturnTo
<1>2. /\ Caller \in FrameType /\ Caller = stack[Len(stack)] /\ Len(stack) \in Nat \ {0}
      /\ Front(stack) \in Seq(FrameType) /\ Len(Front(stack)) = Len(stack) - 1
      /\ \A i \in 1 .. Len(stack) - 1 : Front(stack)[i] = stack[i]
    BY <1>1, CallerFacts
<1>3. PICK c \in FrameType : c = Caller
    BY <1>2
<1>4. ArgsAppended \in Seq(Nat)
    <2>1. c.args \in Seq(Nat) /\ ret \in Nat
        BY <1>3 DEF FrameType, IndInv, TypeOK
    <2> QED
        BY <1>3, <2>1 DEF ArgsAppended
<1>5. PICK a \in Seq(Nat) : a = ArgsAppended
    BY <1>4
<1>6. g = [c EXCEPT !.args = a]
    BY <1>3, <1>5
<1>7. g \in FrameType /\ g.at = c.at /\ g.tok = c.tok /\ g.lhs = c.lhs /\ g.args = a
    BY <1>6 DEF FrameType
<1>z. PICK z \in 0 .. 12 : z = 0
    OBVIOUS
<1>8. PICK p \in FrameType : p = PrecedenceFrame(z)
    BY PrecedenceFrameType
<1>9. stack' = Front(stack) \o <<g, p>>
    BY <1>z, <1>8 DEF ParseNextArgument
<1>10. PICK s \in Seq(FrameType) : s = Front(stack)
    BY <1>2
<1>11. /\ Len(stack') = Len(s) + 2 /\ \A k \in 1 .. Len(s) : stack'[k] = s[k]
       /\ stack'[Len(s) + 1] = g /\ stack'[Len(s) + 2] = p /\ Last(stack') = p
    BY <1>7, <1>9, <1>10, PushTwo
<1>12. PICK m \in Nat \ {0} : m = Len(stack)
    BY <1>2
<1>13. Len(s) = m - 1 /\ (m - 1) + 1 = m /\ (m - 1) + 2 = m + 1
    BY <1>2, <1>10, <1>12
<1>14. /\ Len(stack') = m + 1 /\ stack'[m] = g /\ stack'[m + 1] = p
    BY <1>11, <1>13
<1>15. \A k \in 1 .. m - 1 : stack'[k] = stack[k]
    BY <1>2, <1>10, <1>11, <1>12, <1>13
<1>16. p = PrecedenceFrame(0)
    BY <1>z, <1>8
<1>17. /\ Len(stack') = Len(stack) + 1 /\ Len(stack) \in Nat \ {0}
       /\ \A k \in 1 .. Len(stack) - 1 : stack'[k] = stack[k]
       /\ stack'[Len(stack)] = g /\ stack'[Len(stack) + 1] = PrecedenceFrame(0)
    BY <1>12, <1>14, <1>15, <1>16
<1>18. /\ stack' = Front(stack) \o <<g, PrecedenceFrame(0)>> /\ Last(stack') = PrecedenceFrame(0)
    BY <1>9, <1>11, <1>16
<1>19. /\ Caller.at = "args" /\ g.at = "args" /\ g.tok = Caller.tok /\ g.lhs = Caller.lhs
       /\ g.args = ArgsAppended
    <2>1. c.at = "args"
        BY <1>3 DEF ReturnTo
    <2> QED
        BY <1>3, <1>5, <1>7, <2>1
<1> QED
    BY <1>1, <1>2, <1>7, <1>17, <1>18, <1>19

(* It takes over what is returned.                                         *)
LEMMA MoreText ==
    ASSUME IndInv, IndInv', tokens' = tokens, pool' = pool, TextKept,
           ReturnTo("args"), ParseNextArgument, pc' = "unary",
           ArgsAppended = Append(Caller.args, ret), Operands[toki'] = Operands[toki]
    PROVE  TextKept'
<1>1. PICK g : g = [Caller EXCEPT !.args = ArgsAppended]
    OBVIOUS
<1>2. /\ stack # <<>> /\ Caller.at = "args" /\ pc = "return"
      /\ g.at = "args" /\ g.lhs = Caller.lhs /\ g.args = Append(Caller.args, ret)
      /\ g \in FrameType
      /\ stack' = Front(stack) \o <<g, PrecedenceFrame(0)>>
    BY <1>1, AgainFrames
<1>n. PICK n \in Nat : n = Len(pool)
    BY HeldType
<1>3. PICK a \in 0 .. n, b \in 0 .. n, args \in Seq(0 .. n) :
          a = ret /\ b = Caller.lhs /\ args = Caller.args
    BY <1>2, <1>n, ReturnPoints
<1>4. PICK y : y = Yield /\ y \in [0 .. n -> Seq(Nat)]
    BY <1>n, YieldFacts
<1>5. PICK more \in Seq(0 .. n) : more = Append(args, a)
    BY PushOne
<1>6. PointsInto(g, Len(pool))
    BY <1>2, <1>3, <1>5, <1>n DEF PointsInto
<1>7. FlattenSeq([i \in 1 .. Len(more) |-> y[more[i]]])
        = FlattenSeq([i \in 1 .. Len(args) |-> y[args[i]]]) \o y[a]
    <2>1. FlattenSeq([i \in 1 .. Len(Append(args, a)) |-> y[Append(args, a)[i]]])
            = FlattenSeq([i \in 1 .. Len(args) |-> y[args[i]]]) \o y[a]
        BY <1>4, MoreYield
    <2> QED
        BY <1>5, <2>1
<1>8. PICK l \in Seq(Nat), m \in Seq(Nat), r \in Seq(Nat) :
          l = y[b] /\ m = FlattenSeq([i \in 1 .. Len(args) |-> y[args[i]]]) /\ r = y[a]
    BY <1>4, ArgsText
<1>9. l \o (m \o r) = (l \o m) \o r
    BY ConcatThree
<1>10. FrameText(g, y) = l \o (m \o r)
    <2>1. FrameText(g, y) = y[g.lhs] \o FlattenSeq([i \in 1 .. Len(g.args) |-> y[g.args[i]]])
        BY <1>2, CallerText
    <2>2. g.lhs = b /\ g.args = more
        BY <1>2, <1>3, <1>5
    <2> QED
        BY <1>7, <1>8, <2>1, <2>2
<1>11. FrameText(Caller, y) = l \o m
    <2>1. PICK c : c = Caller
        OBVIOUS
    <2>2. FrameText(c, y) = y[c.lhs] \o FlattenSeq([i \in 1 .. Len(c.args) |-> y[c.args[i]]])
        BY <1>2, <2>1, CallerText
    <2>3. c.lhs = b /\ c.args = args
        BY <1>3, <2>1
    <2> QED
        BY <1>8, <2>1, <2>2, <2>3
<1>12. HeldText = r
    BY <1>2, <1>3, <1>4, <1>8 DEF HeldText
<1>13. FrameText(g, Yield) = FrameText(Caller, Yield) \o HeldText
    BY <1>4, <1>9, <1>10, <1>11, <1>12
<1>14. PoolKept
    BY DEF PoolKept
<1> QED
    BY <1>2, <1>6, <1>13, <1>14, AgainText

(* One argument more is one token more.                                    *)
LEMMA ArgumentMore ==
    ASSUME NEW j \in Nat, NEW l \in Nat
    PROVE  j + (l + 1) + 1 = (j + l + 1) + 1
    OBVIOUS

(* It has read one more token than before, or the argument it was at.      *)
LEMMA MoreMoves ==
    ASSUME IndInv, ArgumentsMove, ReturnTo("args"), ParseNextArgument, pc' = "unary",
           ArgsAppended = Append(Caller.args, ret),
           toki' = toki + 1 \/ (toki' = toki /\ ret # NULL)
    PROVE  ArgumentsMove'
<1>1. PICK g : g = [Caller EXCEPT !.args = ArgsAppended]
    OBVIOUS
<1>2. PICK n \in Nat : Len(stack) = n + 1
    <2>1. Len(stack) \in Nat \ {0}
        BY <1>1, AgainFrames
    <2>2. Len(stack) - 1 \in Nat /\ Len(stack) = (Len(stack) - 1) + 1
        BY <2>1
    <2> QED
        BY <2>2
<1>3. /\ Caller.at = "args" /\ g.tok = Caller.tok /\ g.args = Append(Caller.args, ret)
      /\ Len(stack') = n + 2 /\ \A k \in 1 .. n : stack'[k] = stack[k]
      /\ stack'[n + 1] = g /\ stack'[n + 2] = PrecedenceFrame(0)
      /\ Caller = stack[n + 1] /\ Caller \in FrameType /\ pc = "return"
    <2>1. /\ Caller.at = "args" /\ g.tok = Caller.tok /\ g.args = Append(Caller.args, ret)
          /\ Len(stack') = Len(stack) + 1 /\ \A k \in 1 .. Len(stack) - 1 : stack'[k] = stack[k]
          /\ stack'[Len(stack)] = g /\ stack'[Len(stack) + 1] = PrecedenceFrame(0)
          /\ Caller = stack[Len(stack)] /\ stack # <<>> /\ pc = "return"
        BY <1>1, AgainFrames
    <2>2. Caller \in FrameType
        BY <2>1, CallerFacts
    <2>3. n + 1 + 1 = n + 2 /\ n + 1 - 1 = n
        OBVIOUS
    <2> QED
        BY <1>2, <2>1, <2>2, <2>3
<1>4. toki \in Nat /\ toki' \in Nat /\ ret \in Nat
    <2>1. toki \in Nat /\ ret \in Nat
        BY DEF IndInv, TypeOK
    <2> QED
        BY <2>1
<1>5. \A k \in 1 .. n : stack'[k].at = "args" => ArgumentMoves(k)'
    <2>1. \A k \in 1 .. n : Fresh(k) => k = n /\ ret = NULL
        BY <1>2, <1>3 DEF Fresh
    <2>2. \/ toki < toki'
          \/ toki' = toki /\ \A k \in 1 .. n : stack[k].at = "args" /\ Fresh(k) => Fresh(k)'
        <3>1. CASE toki' = toki + 1
            BY <1>4, <3>1
        <3>2. CASE toki' = toki /\ ret # NULL
            <4> HIDE DEF Fresh
            <4> QED
                BY <2>1, <3>2
        <3> QED
            BY <3>1, <3>2
    <2>3. n <= Len(stack)
        BY <1>2
    <2> HIDE DEF ArgumentMoves, Fresh
    <2> QED
        BY <1>3, <1>4, <2>2, <2>3, BelowMoves
<1>6. PICK m \in Nat : m = Caller.tok + Len(Caller.args) + 1
    <2>1. PICK args \in Seq(Nat) : args = Caller.args /\ Caller.tok \in Nat
        <3>1. PICK c \in FrameType : c = Caller
            BY <1>3
        <3>2. c.args \in Seq(Nat) /\ c.tok \in Nat
            BY DEF FrameType
        <3> QED
            BY <3>1, <3>2
    <2>2. Len(args) \in Nat
        OBVIOUS
    <2> QED
        BY <2>1, <2>2
<1>7. m < toki \/ (m = toki /\ ret = NULL)
    <2>1. ArgumentMoves(n + 1)
        <3>1. n + 1 \in 1 .. Len(stack)
            BY <1>2
        <3> HIDE DEF ArgumentMoves
        <3> QED
            BY <1>3, <3>1 DEF ArgumentsMove
    <2>2. Fresh(n + 1) => ret = NULL
        BY <1>3 DEF Fresh
    <2> HIDE DEF Fresh
    <2> QED
        BY <1>3, <1>6, <2>1, <2>2 DEF ArgumentMoves
<1>8. stack'[n + 1].tok + Len(stack'[n + 1].args) + 1 = m + 1
    <2>1. PICK args \in Seq(Nat) : args = Caller.args /\ Caller.tok \in Nat
        <3>1. PICK c \in FrameType : c = Caller
            BY <1>3
        <3>2. c.args \in Seq(Nat) /\ c.tok \in Nat
            BY DEF FrameType
        <3> QED
            BY <3>1, <3>2
    <2>2. Len(Append(args, ret)) = Len(args) + 1 /\ Len(args) \in Nat
        BY <1>4
    <2>3. PICK more : more = Append(args, ret)
        OBVIOUS
    <2>4. PICK j \in Nat, l \in Nat : j = Caller.tok /\ l = Len(args)
        BY <2>1, <2>2
    <2>5. Len(more) = l + 1 /\ g.args = more
        BY <1>3, <2>1, <2>2, <2>3, <2>4
    <2>6. stack'[n + 1].tok = j /\ Len(stack'[n + 1].args) = l + 1
        BY <1>3, <2>4, <2>5
    <2>7. m = j + l + 1
        BY <1>6, <2>1, <2>4
    <2>8. j + (l + 1) + 1 = (j + l + 1) + 1
        BY ArgumentMore
    <2> QED
        BY <2>6, <2>7, <2>8, Zenon
<1>9. Fresh(n + 1)'
    <2>1. pc' = "unary" /\ Len(stack') = (n + 1) + 1
        BY <1>3
    <2> QED
        BY <2>1 DEF Fresh
<1>10. m + 1 < toki' \/ m + 1 = toki'
    BY <1>4, <1>7
<1>11. ArgumentMoves(n + 1)'
    <2> HIDE DEF Fresh
    <2> QED
        BY <1>8, <1>9, <1>10 DEF ArgumentMoves
<1>12. ASSUME NEW k \in 1 .. Len(stack'), stack'[k].at = "args"
       PROVE  ArgumentMoves(k)'
    <2>1. k \in 1 .. n \/ k = n + 1 \/ k = n + 2
        BY <1>3
    <2>2. stack'[n + 2].at = "precedence"
        BY <1>3 DEF PrecedenceFrame, Frame
    <2>3. k # n + 2
        BY <1>12, <2>2
    <2> HIDE DEF ArgumentMoves
    <2> QED
        BY <1>5, <1>11, <1>12, <2>1, <2>3
<1> HIDE DEF ArgumentMoves
<1> QED
    BY <1>12, Zenon DEF ArgumentsMove

(* No expression starts at the cursor as long as it stays there.           *)
LEMMA BarrenKept ==
    ASSUME tokens' = tokens, toki' = toki
    PROVE  /\ Barren => Barren'
           /\ get_precedence(Tok(toki)) = PREC_NONE => (get_precedence(Tok(toki)) = PREC_NONE)'
<1>1. Barren => Barren'
    BY DEF Barren, match, Tok
<1>2. get_precedence(Tok(toki)) = PREC_NONE => (get_precedence(Tok(toki)) = PREC_NONE)'
    BY DEF Tok
<1> QED
    BY <1>1, <1>2

(* A list that asks again for the argument that was missing.               *)
LEMMA LoopEnter ==
    ASSUME IndInv, tokens' = tokens, ReturnTo("args"), ParseNextArgument, pc' = "unary",
           toki' = toki, current' = current, current \notin {"TOK_COMMA", "TOK_RPAREN"},
           Barren, get_precedence(Tok(toki)) = PREC_NONE
    PROVE  Looping'
<1>1. PICK g : g = [Caller EXCEPT !.args = ArgsAppended]
    OBVIOUS
<1>2. /\ g.at = "args" /\ Len(stack') = Len(stack) + 1 /\ Len(stack) \in Nat \ {0}
      /\ stack'[Len(stack)] = g /\ Last(stack') = PrecedenceFrame(0)
    BY <1>1, AgainFrames
<1>3. PrecedenceFrame(0).at = "precedence"
    BY DEF PrecedenceFrame, Frame
<1>4. Len(stack') >= 2 /\ Len(stack') - 1 = Len(stack)
    BY <1>2
<1>5. Barren' /\ (get_precedence(Tok(toki)) = PREC_NONE)'
    BY BarrenKept
<1>6. Last(stack').at = "precedence" /\ stack'[Len(stack') - 1].at = "args"
    BY <1>2, <1>3, <1>4
<1> HIDE DEF Barren
<1> QED
    BY <1>4, <1>5, <1>6 DEF Looping, Caller

(* The caller below the one that is resumed.                               *)
LEMMA CallerBelow ==
    ASSUME IndInv, stack # <<>>, stack' = Front(stack), stack' # <<>>
    PROVE  /\ Len(stack) >= 2 /\ Caller' = stack[Len(stack) - 1]
           /\ Caller'.at = "args" => Caller.at = "precedence" /\ Caller.min = 0
<1>1. PICK n \in Nat \ {0} : n = Len(stack)
    BY CallerFacts
<1>2. /\ stack' \in Seq(FrameType) /\ Len(stack') = n - 1 /\ Caller = stack[n]
      /\ \A i \in 1 .. n - 1 : stack'[i] = stack[i]
    BY <1>1, CallerFacts
<1>3. n >= 2
    BY <1>1, <1>2
<1>4. Caller' = stack[n - 1]
    <2>1. Last(stack') = stack'[n - 1]
        BY <1>2 DEF Last
    <2>2. n - 1 \in 1 .. n - 1
        BY <1>3
    <2> QED
        BY <1>2, <2>1, <2>2 DEF Caller
<1>5. ASSUME stack[n - 1].at = "args"
      PROVE  stack[n].at = "precedence" /\ stack[n].min = 0
    <2>1. PICK k \in Nat : k = n - 1
        BY <1>1
    <2>2. k \in 1 .. Len(stack) - 1 /\ k + 1 = n
        BY <1>1, <1>3, <2>1
    <2>3. stack[k + 1].at = "precedence" /\ stack[k + 1].min = 0
        BY <1>5, <2>1, <2>2, ArgsCallee
    <2> QED
        BY <2>2, <2>3
<1> QED
    BY <1>1, <1>2, <1>3, <1>4, <1>5

(* Who is told that there is no expression here, and what comes after one. *)
LEMMA NothingStep ==
    ASSUME IndInv, IndInv', tokens' = tokens, NothingThere, CallsEnd,
           Next, ~MemberMissing
    PROVE  NothingThere'
<1>1. /\ StackShape /\ ReturnSound /\ Len(pool) \in Nat /\ NULL = 0
    BY DEF IndInv, CallChain, TypeOK, NULL
<1>2. CASE PrimaryLiteral \/ PrimaryEnumLiteral \/ PostfixEnd
    <2>1. stack' = stack /\ pc \in {"unary", "primary", "postfix"}
        BY <1>2 DEF PrimaryLiteral, PrimaryEnumLiteral, PostfixEnd, AtPrimary
    <2>2. ret' # NULL
        <3>1. CASE PostfixEnd
            BY <1>1, <3>1 DEF PostfixEnd, ReturnSound
        <3>2. CASE PrimaryLiteral \/ PrimaryEnumLiteral
            <4>1. ret' = Len(pool) + 1
                BY <3>2 DEF PrimaryLiteral, PrimaryEnumLiteral, new_literal, new_node
            <4> QED
                BY <1>1, <4>1
        <3> QED
            BY <1>2, <3>1, <3>2
    <2>3. Caller'.at \in {"precedence", "member"}
        BY <1>1, <2>1 DEF StackShape, Caller
    <2> QED
        BY <2>2, <2>3 DEF NothingThere
<1>3. CASE PrimaryNone
    <2>1. stack' = stack /\ toki' = toki /\ AtPrimary
        BY <1>3 DEF PrimaryNone
    <2>2. Caller'.at \in {"precedence", "member"}
        BY <1>1, <2>1 DEF StackShape, Caller, AtPrimary
    <2>3. Caller'.at = "member" \/ Barren
        <3>1. CASE pc = "primary"
            BY <2>1, <3>1 DEF CallsEnd, Caller
        <3>2. CASE pc = "unary" /\ Tok(toki) \notin DOMAIN UnaryAst
            BY <1>3, <3>2 DEF PrimaryNone, Barren
        <3> QED
            BY <2>1, <3>1, <3>2 DEF AtPrimary
    <2>4. Barren => Barren'
        BY <2>1, BarrenKept
    <2> HIDE DEF Barren
    <2> QED
        BY <2>2, <2>3, <2>4 DEF NothingThere
<1>4. CASE LeaveLoop
    <2>1. /\ stack # <<>> /\ stack' = Front(stack) /\ pc = "return" /\ ret' = ret
          /\ toki' = toki /\ Caller.at = "precedence" /\ ~TakesOperator(Caller.min)
        BY <1>4 DEF LeaveLoop, ReturnTo, Pop
    <2>2. ret = NULL => Barren
        BY <2>1 DEF NothingThere
    <2>3. /\ Barren => Barren'
          /\ get_precedence(Tok(toki)) = PREC_NONE => (get_precedence(Tok(toki)) = PREC_NONE)'
        BY <2>1, BarrenKept
    <2>4. ASSUME stack' # <<>>, Caller'.at = "args"
          PROVE  get_precedence(Tok(toki)) = PREC_NONE
        <3>1. Caller.min = 0
            BY <2>1, <2>4, CallerBelow
        <3>2. get_precedence(Tok(toki)) \in 0 .. 12
            BY PrecedenceRange
        <3>3. ~TakesOperator(0)
            BY <2>1, <3>1
        <3> QED
            BY <3>2, <3>3 DEF TakesOperator
    <2> HIDE DEF Barren
    <2> QED
        BY <2>1, <2>2, <2>3, <2>4 DEF NothingThere
<1>5. CASE new_binary \/ new_unary \/ CloseGroup
    <2>1. /\ stack # <<>> /\ stack' = Front(stack) /\ Caller.at # "precedence"
          /\ ret' = Len(pool) + 1
        BY <1>5 DEF new_binary, new_unary, CloseGroup, ReturnTo, Pop, new_node
    <2>2. stack' # <<>> => Caller'.at # "args"
        BY <2>1, CallerBelow
    <2>3. ret' # NULL
        BY <1>1, <2>1
    <2> QED
        BY <2>2, <2>3 DEF NothingThere
<1>6. CASE \/ PrefixOperator \/ PrimaryIdentifier \/ PrimaryGroup \/ PostfixMember
           \/ PostfixEmptyCall \/ PostfixCall \/ PostfixIndex \/ MemberField
    <2>1. pc' # "return"
        BY <1>6 DEF PrefixOperator, PrimaryIdentifier, PrimaryGroup, PostfixMember,
           PostfixEmptyCall, PostfixCall, PostfixIndex, MemberField
    <2> QED
        BY <2>1 DEF NothingThere
<1>7. CASE \/ NextArgument \/ RepeatArgument \/ CloseCall \/ CloseIndex \/ IndexMissing
           \/ ExpectTokenFails \/ TakeOperator \/ Finish
    <2>1. pc' # "return"
        BY <1>7 DEF NextArgument, RepeatArgument, CloseCall, CloseIndex, IndexMissing,
           ExpectTokenFails, TakeOperator, Finish
    <2> QED
        BY <2>1 DEF NothingThere
<1> QED
    BY <1>2, <1>3, <1>4, <1>5, <1>6, <1>7 DEF Next, Primary

(* Only a period calls primary, and only the outermost call is the last.   *)
LEMMA EndsStep ==
    ASSUME IndInv, Next
    PROVE  CallsEnd'
<1>1. CASE PostfixMember
    <2>1. pc' = "primary" /\ stack' = Append(stack, Frame("member", 0, toki, ret, <<>>))
        BY <1>1 DEF PostfixMember
    <2>2. /\ Len(stack) \in Nat /\ Len(stack') \in {Len(stack) + 1, Len(stack) + 2}
          /\ Len(stack') = Len(stack) + 1 => Last(stack').at = "member"
          /\ Len(stack') = Len(stack) + 2 => pc' = "unary"
        BY <1>1, CallsAdd
    <2> QED
        BY <2>1, <2>2 DEF CallsEnd, Caller
<1>2. CASE Finish
    BY <1>2 DEF Finish, CallsEnd
<1>3. CASE \/ PrefixOperator \/ PrimaryIdentifier \/ PrimaryLiteral \/ PrimaryEnumLiteral
           \/ PrimaryGroup \/ PrimaryNone \/ PostfixEmptyCall \/ PostfixCall \/ PostfixIndex
           \/ PostfixEnd
    <2>1. pc' \notin {"primary", "done"}
        BY <1>3 DEF PrefixOperator, PrimaryIdentifier, PrimaryLiteral, PrimaryEnumLiteral,
           PrimaryGroup, PrimaryNone, PostfixEmptyCall, PostfixCall, PostfixIndex, PostfixEnd
    <2> QED
        BY <2>1 DEF CallsEnd
<1>4. CASE \/ MemberField \/ MemberMissing \/ NextArgument \/ RepeatArgument \/ CloseCall
           \/ CloseIndex \/ IndexMissing \/ ExpectTokenFails \/ CloseGroup
           \/ TakeOperator \/ LeaveLoop \/ new_binary \/ new_unary
    <2>1. pc' \notin {"primary", "done"}
        BY <1>4 DEF MemberField, MemberMissing, NextArgument, RepeatArgument, CloseCall,
           CloseIndex, IndexMissing, ExpectTokenFails, CloseGroup, TakeOperator, LeaveLoop,
           new_binary, new_unary, ReturnTo
    <2> QED
        BY <2>1 DEF CallsEnd
<1> QED
    BY <1>1, <1>2, <1>3, <1>4 DEF Next, Primary

(* The loop of an argument list that stands still never ends.              *)
LEMMA LoopCloses ==
    ASSUME IndInv, tokens' = tokens, Looping, [Next]_vars
    PROVE  Looping'
<1>1. /\ Barren /\ get_precedence(Tok(toki)) = PREC_NONE
      /\ current \notin {"TOK_COMMA", "TOK_RPAREN"} /\ pc \in {"unary", "return"} /\ stack # <<>>
    <2>1. Len(stack) >= 2 => stack # <<>>
        BY DEF IndInv, TypeOK
    <2> HIDE DEF Barren
    <2> QED
        BY <2>1 DEF Looping
<1>2. /\ toki' = toki => Barren' /\ (get_precedence(Tok(toki)) = PREC_NONE)'
    BY <1>1, BarrenKept
<1>3. pc = "return" => ret = NULL
    BY <1>1 DEF Looping
<1>4. pc = "unary" => Caller.at = "precedence" /\ Len(stack) >= 2 /\ stack[Len(stack) - 1].at = "args"
    BY <1>1 DEF Looping
<1>5. pc = "return" =>
          \/ Caller.at = "precedence" /\ Len(stack) >= 2 /\ stack[Len(stack) - 1].at = "args"
          \/ Caller.at = "args"
    BY <1>1 DEF Looping
<1>6. CASE UNCHANGED vars
    <2>1. toki' = toki /\ current' = current /\ stack' = stack /\ pc' = pc /\ ret' = ret
        BY <1>6 DEF vars
    <2> HIDE DEF Barren
    <2> QED
        BY <1>1, <1>2, <1>3, <1>4, <1>5, <2>1 DEF Looping, Caller
<1>7. CASE PrimaryNone
    <2>1. /\ toki' = toki /\ current' = current /\ stack' = stack /\ pc' = "return"
          /\ ret' = NULL /\ pc = "unary"
        BY <1>1, <1>7 DEF PrimaryNone, AtPrimary
    <2> HIDE DEF Barren
    <2> QED
        BY <1>1, <1>2, <1>4, <2>1 DEF Looping, Caller
<1>8. CASE LeaveLoop
    <2>1. /\ toki' = toki /\ current' = current /\ stack' = Front(stack) /\ pc = "return"
          /\ ret' = ret /\ Caller.at = "precedence" /\ pc' = pc
        BY <1>8 DEF LeaveLoop, ReturnTo, Pop
    <2>2. ret = NULL /\ Len(stack) >= 2 /\ stack[Len(stack) - 1].at = "args"
        BY <1>3, <1>5, <2>1
    <2>3. stack' # <<>>
        <3>1. PICK n \in Nat \ {0} : n = Len(stack) /\ Len(stack') = n - 1
            BY <1>1, <2>1, CallerFacts
        <3>2. n >= 2
            BY <2>2, <3>1
        <3>3. Len(stack') # 0
            BY <3>1, <3>2
        <3> QED
            BY <3>3
    <2>4. Caller'.at = "args"
        BY <1>1, <2>1, <2>2, <2>3, CallerBelow
    <2> HIDE DEF Barren
    <2> QED
        BY <1>1, <1>2, <2>1, <2>2, <2>3, <2>4 DEF Looping
<1>9. CASE RepeatArgument
    <2>1. /\ ReturnTo("args") /\ ParseNextArgument /\ pc' = "unary" /\ toki' = toki
          /\ current' = current
        BY <1>9 DEF RepeatArgument
    <2> HIDE DEF Barren
    <2> QED
        BY <1>1, <2>1, LoopEnter
<1>10. CASE \/ PrefixOperator \/ PrimaryIdentifier \/ PrimaryLiteral \/ PrimaryEnumLiteral
            \/ PrimaryGroup
    BY <1>1, <1>10 DEF PrefixOperator, PrimaryIdentifier, PrimaryLiteral, PrimaryEnumLiteral,
       PrimaryGroup, Barren
<1>11. CASE \/ PostfixMember \/ PostfixEmptyCall \/ PostfixCall \/ PostfixIndex \/ PostfixEnd
    BY <1>1, <1>11 DEF PostfixMember, PostfixEmptyCall, PostfixCall, PostfixIndex, PostfixEnd
<1>12. CASE \/ MemberField \/ MemberMissing \/ CloseIndex \/ IndexMissing \/ CloseGroup
            \/ ExpectTokenFails \/ new_binary \/ new_unary
    <2>1. pc = "return" /\ Caller.at \in {"member", "index", "group", "rhs", "operand"}
        BY <1>12 DEF MemberField, MemberMissing, CloseIndex, IndexMissing, CloseGroup,
           ExpectTokenFails, new_binary, new_unary, ReturnTo
    <2> QED
        BY <1>5, <2>1
<1>13. CASE NextArgument \/ CloseCall
    BY <1>1, <1>13 DEF NextArgument, CloseCall
<1>14. CASE TakeOperator
    BY <1>1, <1>14 DEF TakeOperator, TakesOperator
<1>15. CASE Finish
    BY <1>1, <1>15 DEF Finish
<1> QED
    BY <1>6, <1>7, <1>8, <1>9, <1>10, <1>11, <1>12, <1>13, <1>14, <1>15 DEF Next, Primary

(* An argument list takes what is returned, or stands still from now on.   *)
LEMMA AgainStep ==
    ASSUME IndInv, IndInv', tokens' = tokens, ArgumentsMove, NothingThere, TextKept,
           NextArgument \/ RepeatArgument
    PROVE  Looping' \/ (ArgumentsMove' /\ TextKept')
<1>1. /\ ReturnTo("args") /\ ParseNextArgument /\ pc' = "unary" /\ pool' = pool
      /\ stack # <<>> /\ pc = "return" /\ Caller.at = "args"
    BY DEF NextArgument, RepeatArgument, ReturnTo
<1>2. toki \in Nat /\ current = Tok(toki)
    BY DEF IndInv, TypeOK, CursorSound
<1>3. ArgsAppended = Append(Caller.args, ret)
    BY <1>1, ArgumentFits
<1>4. CASE NextArgument
    <2>1. toki' = toki + 1 /\ Tok(toki) \in Punctuation
        BY <1>2, <1>4 DEF NextArgument, advance, Punctuation
    <2>2. Operands[toki + 1] = Operands[toki] \o <<>>
        BY <1>2, <2>1, ReadOne
    <2>3. Operands[toki'] = Operands[toki]
        <3>1. PICK text \in Seq(Nat) : text = Operands[toki]
            BY HeldType
        <3>2. text \o <<>> = text
            OBVIOUS
        <3> QED
            BY <2>1, <2>2, <3>1, <3>2
    <2>4. TextKept'
        BY <1>1, <1>3, <2>3, MoreText
    <2>5. ArgumentsMove'
        BY <1>1, <1>3, <2>1, MoreMoves
    <2> QED
        BY <2>4, <2>5
<1>5. CASE RepeatArgument /\ ret # NULL
    <2>1. toki' = toki
        BY <1>5 DEF RepeatArgument
    <2>2. TextKept'
        BY <1>1, <1>3, <2>1, MoreText
    <2>3. ArgumentsMove'
        BY <1>1, <1>3, <1>5, <2>1, MoreMoves
    <2> QED
        BY <2>2, <2>3
<1>6. CASE RepeatArgument /\ ret = NULL
    <2>1. toki' = toki /\ current' = current /\ current \notin {"TOK_COMMA", "TOK_RPAREN"}
        BY <1>6 DEF RepeatArgument
    <2>2. Barren /\ get_precedence(Tok(toki)) = PREC_NONE
        <3> HIDE DEF Barren
        <3> QED
            BY <1>1, <1>6 DEF NothingThere
    <2> HIDE DEF Barren
    <2> QED
        BY <1>1, <2>1, <2>2, LoopEnter
<1> QED
    BY <1>4, <1>5, <1>6

(* No activation, no text.                                                 *)
LEMMA EmptyText ==
    ASSUME NEW y
    PROVE  StackText(<<>>, y) = <<>>
<1>1. PICK e : e = <<>>
    OBVIOUS
<1>2. Len(e) = 0 /\ e \in Seq(Nat)
    BY <1>1
<1>3. \A i : ~(i \in 1 .. Len(e))
    BY <1>2
<1>4. PICK p : p = [i \in 1 .. Len(e) |-> FrameText(e[i], y)]
    OBVIOUS
<1>5. p = <<>>
    BY <1>2, <1>3, <1>4
<1>6. FlattenSeq(<<>>) = <<>>
    BY FlattenNone
<1> QED
    BY <1>1, <1>4, <1>5, <1>6 DEF StackText

(* Nothing read, no operands.                                              *)
LEMMA NothingRead == Operands[0] = <<>>
<1>1. PICK z \in Nat : z = 0
    OBVIOUS
<1> QED
    BY <1>1, OperandsStep DEF OperandsOf

(* No step changes what the activations and the tree hold of the text.     *)
LEMMA TextStep == IndInv /\ TextInv /\ [Next]_vars => TextInv'
<1> SUFFICES ASSUME IndInv, TextInv, [Next]_vars
             PROVE  TextInv'
    OBVIOUS
<1>1. IndInv' /\ tokens' = tokens
    BY NextInv, TokensKept
<1> HIDE DEF IndInv, Looping, ArgumentsMove, NothingThere, CallsEnd, StackText, HeldText
<1>2. CASE reported
    <2>1. reported'
        <3>1. CASE UNCHANGED vars
            BY <1>2, <3>1 DEF vars
        <3>2. CASE \/ PrefixOperator \/ PrimaryIdentifier \/ PrimaryLiteral \/ PrimaryEnumLiteral
                   \/ PrimaryGroup \/ PrimaryNone \/ PostfixMember \/ PostfixEmptyCall
                   \/ PostfixCall \/ PostfixIndex \/ PostfixEnd
            BY <1>2, <3>2 DEF PrefixOperator, PrimaryIdentifier, PrimaryLiteral,
               PrimaryEnumLiteral, PrimaryGroup, PrimaryNone, PostfixMember, PostfixEmptyCall,
               PostfixCall, PostfixIndex, PostfixEnd
        <3>3. CASE \/ MemberField \/ MemberMissing \/ NextArgument \/ RepeatArgument \/ CloseCall
                   \/ CloseIndex \/ IndexMissing \/ ExpectTokenFails \/ CloseGroup
                   \/ TakeOperator \/ LeaveLoop \/ new_binary \/ new_unary \/ Finish
            BY <1>2, <3>3 DEF MemberField, MemberMissing, NextArgument, RepeatArgument, CloseCall,
               CloseIndex, IndexMissing, ExpectTokenFails, CloseGroup, TakeOperator, LeaveLoop,
               new_binary, new_unary, Finish
        <3> QED
            BY <3>1, <3>2, <3>3 DEF Next, Primary
    <2> QED
        BY <2>1 DEF TextInv
<1>3. CASE Looping
    <2>1. Looping'
        BY <1>1, <1>3, LoopCloses
    <2> QED
        BY <2>1 DEF TextInv
<1>4. CASE ArgumentsMove /\ NothingThere /\ CallsEnd /\ TextKept
    <2>1. CASE UNCHANGED vars
        <3>1. ArgumentsMove' /\ NothingThere' /\ CallsEnd'
            BY <1>4, <2>1 DEF vars, ArgumentsMove, ArgumentMoves, Fresh, NothingThere, CallsEnd,
               Caller, Barren, match, Tok
        <3>2. TextKept'
            <4>1. HeldText' = HeldText \o <<>> /\ PoolKept /\ stack' = stack
                <5>1. HeldText' = HeldText
                    <6>1. Yield' = Yield
                        BY <2>1 DEF vars, Yield
                    <6> QED
                        BY <2>1, <6>1 DEF vars, HeldText
                <5>2. PICK h \in Seq(Nat) : h = HeldText
                    BY HeldType
                <5>3. h \o <<>> = h
                    OBVIOUS
                <5> QED
                    BY <2>1, <5>1, <5>2, <5>3 DEF vars, PoolKept
            <4>2. Operands[toki'] = Operands[toki] \o <<>>
                <5>1. PICK text \in Seq(Nat) : text = Operands[toki]
                    BY HeldType
                <5>2. text \o <<>> = text
                    OBVIOUS
                <5> QED
                    BY <2>1, <5>1, <5>2 DEF vars
            <4>3. <<>> \in Seq(Nat)
                OBVIOUS
            <4> QED
                BY <1>1, <1>4, <4>1, <4>2, <4>3, HoldText
        <3> QED
            BY <3>1, <3>2 DEF TextInv, TextKept
    <2>2. CASE MemberMissing \/ ExpectTokenFails
        <3>1. reported'
            BY <2>2 DEF MemberMissing, ExpectTokenFails
        <3> QED
            BY <3>1 DEF TextInv
    <2>3. CASE Next /\ ~MemberMissing /\ ~ExpectTokenFails
        <3>1. NothingThere' /\ CallsEnd'
            BY <1>1, <1>4, <2>3, NothingStep, EndsStep
        <3>2. Looping' \/ (ArgumentsMove' /\ TextKept')
            <4>1. CASE \/ PrefixOperator \/ PrimaryGroup \/ PostfixMember \/ PostfixCall
                       \/ PostfixIndex \/ TakeOperator
                BY <1>1, <1>4, <4>1, CallText, MovesCalls
            <4>2. CASE \/ PrimaryIdentifier \/ PrimaryLiteral \/ PrimaryEnumLiteral \/ PrimaryNone
                       \/ PostfixEmptyCall \/ PostfixEnd \/ IndexMissing \/ Finish
                BY <1>1, <1>4, <4>2, StayText, MovesStay
            <4>3. CASE \/ LeaveLoop \/ new_binary \/ new_unary \/ CloseGroup \/ MemberField
                       \/ CloseIndex \/ CloseCall
                BY <1>1, <1>4, <4>3, ReturnText, MovesReturn
            <4>4. CASE NextArgument \/ RepeatArgument
                BY <1>1, <1>4, <4>4, AgainStep
            <4> QED
                BY <2>3, <4>1, <4>2, <4>3, <4>4 DEF Next, Primary
        <3> QED
            BY <3>1, <3>2 DEF TextInv, TextKept
    <2> QED
        BY <2>1, <2>2, <2>3 DEF Next, Primary
<1> QED
    BY <1>2, <1>3, <1>4 DEF TextInv, TextKept

(* The tree says what the text said, for every text.                       *)
THEOREM TreeKeepsTheTokens == Spec => []TreeKeepsTokens
<1>1. Init => TextInv
    <2> SUFFICES ASSUME Init
                 PROVE  TextInv
        OBVIOUS
    <2>1. /\ stack = <<PrecedenceFrame(0)>> /\ Len(stack) = 1 /\ stack[1] = PrecedenceFrame(0)
          /\ toki = 0 /\ pc = "unary" /\ pool = <<>>
        BY DEF Init
    <2>2. stack[1].at = "precedence"
        BY <2>1 DEF PrecedenceFrame, Frame
    <2>3. ArgumentsMove
        BY <2>1, <2>2 DEF ArgumentsMove
    <2>4. NothingThere /\ CallsEnd
        BY <2>1 DEF NothingThere, CallsEnd
    <2>5. StackText(stack, Yield) = <<>>
        <3>1. IndInv
            BY InitInv
        <3>2. PICK y : y = Yield
            OBVIOUS
        <3>3. PICK n \in Nat : n = Len(pool) /\ y \in [0 .. n -> Seq(Nat)]
            BY <3>1, <3>2, YieldFacts, HeldType
        <3>4. PICK m \in 0 .. 12 : m = 0
            OBVIOUS
        <3>5. PICK f : f = PrecedenceFrame(m)
            OBVIOUS
        <3>6. PICK s : s = <<f>>
            OBVIOUS
        <3>7. StackInto(s, n)
            BY <2>1, <3>1, <3>3, <3>4, <3>5, <3>6, StackPoints
        <3>8. Front(s) = <<>> /\ Last(s) = f /\ s # <<>>
            BY <3>6 DEF Front, Last
        <3>9. StackText(s, y) = StackText(Front(s), y) \o FrameText(Last(s), y)
            BY <3>3, <3>7, <3>8, StackTextPop
        <3>10. FrameText(f, y) = <<>>
            <4>1. f.at = "precedence"
                BY <3>5 DEF PrecedenceFrame, Frame
            <4> QED
                BY <4>1, CallerText
        <3>11. StackText(<<>>, y) = <<>>
            BY EmptyText
        <3>12. <<>> \o <<>> = <<>>
            OBVIOUS
        <3>13. s = stack
            BY <2>1, <3>4, <3>5, <3>6
        <3> QED
            BY <3>2, <3>8, <3>9, <3>10, <3>11, <3>12, <3>13
    <2>6. Operands[toki] = <<>>
        BY <2>1, NothingRead
    <2>7. HeldText = <<>>
        BY <2>1 DEF HeldText
    <2>8. <<>> \o <<>> = <<>>
        OBVIOUS
    <2> QED
        BY <2>3, <2>4, <2>5, <2>6, <2>7, <2>8 DEF TextInv
<1>2. IndInv /\ TextInv => TreeKeepsTokens
    <2> SUFFICES ASSUME IndInv, TextInv, pc = "done", ~reported
                 PROVE  Yield[ret] = Operands[toki]
        BY DEF TreeKeepsTokens
    <2>1. ~Looping
        BY DEF Looping
    <2>2. stack = <<>> /\ StackText(stack, Yield) \o HeldText = Operands[toki]
        BY <2>1 DEF TextInv, CallsEnd
    <2>3. HeldText = Yield[ret]
        BY DEF HeldText
    <2>4. StackText(stack, Yield) = <<>>
        <3>1. PICK y : y = Yield
            OBVIOUS
        <3>2. StackText(<<>>, y) = <<>>
            BY EmptyText
        <3> QED
            BY <2>2, <3>1, <3>2
    <2>5. PICK t \in Seq(Nat) : t = Yield[ret]
        BY HeldType
    <2>6. <<>> \o t = t
        OBVIOUS
    <2> QED
        BY <2>2, <2>3, <2>4, <2>5, <2>6
<1> QED
    BY <1>1, <1>2, TextStep, Invariance, PTL DEF Spec
=============================================================================
