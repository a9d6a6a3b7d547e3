---------------------------- MODULE LexerProofs -----------------------------
(***************************************************************************)
(* The lexer, for every text: the tokens are the text, none of them could  *)
(* have been longer, and TOK_EOF is the last one and no other.             *)
(***************************************************************************)
EXTENDS Lexer, MinMax, TLAPS

Token ==
    [kind : {"word", "number", "char", "string", "operator", "eof"},
     start : Nat, end : Nat]

Shape ==
    /\ source \in Sources
    /\ pos \in Nat
    /\ tokens \in Seq(Token)
    /\ pc \in {"next", "done", "exit", "abort", "crash"}

(* The tokens stand in the order of the text, before the position.         *)
InOrder ==
    \A k \in 1 .. Len(tokens) :
        /\ tokens[k].start <= tokens[k].end /\ tokens[k].end <= pos
        /\ k < Len(tokens) => tokens[k].end <= tokens[k + 1].start

-----------------------------------------------------------------------------
(* Where the loops of the scanners stop.                                   *)

LEMMA SourceType ==
    ASSUME Shape
    PROVE  /\ buflen \in Nat
           /\ \A p \in Nat : p < buflen => Char(p) = source[p + 1] /\ Char(p) # "NUL"
           /\ \A p \in Nat : p >= buflen => Char(p) = "NUL"
<1>1. source \in Seq(STRING \ {"NUL"})
  BY SourcesAssumption DEF Shape
<1>2. buflen \in Nat
  BY <1>1 DEF buflen
<1>3. \A p \in Nat : p < buflen => source[p + 1] \in STRING \ {"NUL"}
  BY <1>1, <1>2 DEF buflen
<1> QED
  BY <1>2, <1>3 DEF Char

LEMMA EndOfStops ==
    ASSUME Shape, NEW p \in Nat, p <= buflen, NEW over, "NUL" \notin over
    PROVE  /\ EndOf(p, over) \in p .. buflen
           /\ Char(EndOf(p, over)) \notin over
           /\ \A q \in p .. EndOf(p, over) - 1 : Char(q) \in over
<1> DEFINE S == {q \in p .. buflen : Char(q) \notin over}
<1>1. buflen \in Nat /\ Char(buflen) = "NUL"
  BY SourceType
<1>2. S \subseteq Nat /\ buflen \in S
  BY <1>1
<1>3. Min(S) \in S /\ \A y \in S : Min(S) <= y
  BY <1>2, MinIsLeast
<1>4. EndOf(p, over) = Min(S)
  BY DEF EndOf
<1> QED
  BY <1>1, <1>3, <1>4

LEMMA FindsFirst ==
    ASSUME Shape, NEW p \in Nat, NEW chars, Find(p, chars) # {}
    PROVE  /\ Min(Find(p, chars)) \in p .. buflen - 1
           /\ Char(Min(Find(p, chars))) \in chars
           /\ \A q \in p .. Min(Find(p, chars)) - 1 : Char(q) \notin chars
<1> DEFINE S == Find(p, chars)
<1>1. buflen \in Nat
  BY SourceType
<1>2. S \subseteq Nat
  BY <1>1 DEF Find
<1>3. Min(S) \in S /\ \A y \in S : Min(S) <= y
  BY <1>2, MinIsLeast
<1> QED
  BY <1>1, <1>3 DEF Find

-----------------------------------------------------------------------------
(* What a scanner does to the list.                                        *)

LEMMA NewToken ==
    ASSUME Shape, NEW kind \in {"word", "number", "char", "string", "operator", "eof"},
           NEW s \in Nat, NEW e \in Nat, new_token(kind, s, e)
    PROVE  /\ tokens' \in Seq(Token)
           /\ Len(tokens) \in Nat /\ Len(tokens') = Len(tokens) + 1
           /\ \A k \in 1 .. Len(tokens) : tokens'[k] = tokens[k]
           /\ tokens'[Len(tokens')] = [kind |-> kind, start |-> s, end |-> e]
           /\ tokens' # <<>>
<1> DEFINE t == [kind |-> kind, start |-> s, end |-> e]
<1>1. t \in Token
  BY DEF Token
<1> HIDE DEF t
<1>2. tokens \in Seq(Token) /\ tokens' = Append(tokens, t)
  BY DEF Shape, new_token, t
<1>3. /\ tokens' \in Seq(Token)
      /\ Len(tokens) \in Nat /\ Len(tokens') = Len(tokens) + 1
      /\ \A k \in 1 .. Len(tokens) : tokens'[k] = tokens[k]
      /\ tokens'[Len(tokens')] = t
  BY <1>1, <1>2
<1> QED
  BY <1>3 DEF t

-----------------------------------------------------------------------------
(* The scanners, by what they do to the text and the list.                 *)

Kinds == {"word", "number", "char", "string", "operator"}
Blanks == {"sp", "tab", "nl", "cr"}

(* Is t as long as LongestMatch wants it?                                  *)
Longest(t) ==
    /\ t.kind = "word" => Char(t.end) \notin WordChars
    /\ t.kind = "number" => Char(t.end) # "0"
    /\ t.kind = "operator" =>
           \A op \in Operators2 \cup Operators3 :
               Len(op) > t.end - t.start =>
                   \E n \in 1 .. Len(op) : op[n] # Char(t.start + n - 1)

TokenStep ==
    \E kind \in Kinds, e \in Nat :
        /\ pos < buflen /\ pos < e
        /\ e <= buflen + (IF kind = "char" THEN 2 ELSE 0)
        /\ new_token(kind, pos, e) /\ pos' = e
        /\ Longest([kind |-> kind, start |-> pos, end |-> e])
        /\ Continue

BlankStep ==
    /\ pos' \in Nat /\ pos < pos' /\ pos' <= buflen
    /\ \A q \in pos .. pos' - 1 : Char(q) \in Blanks
    /\ Continue /\ UNCHANGED tokens

CommentStep ==
    /\ Char(pos) = "/" /\ Char(pos + 1) = "/"
    /\ pos' \in Nat /\ pos + 1 < pos' /\ pos' <= buflen
    /\ \A q \in pos .. pos' - 1 : Char(q) = "nl" => q = pos' - 1
    /\ pos' = buflen \/ Char(pos' - 1) = "nl"
    /\ Continue /\ UNCHANGED tokens

StopStep ==
    /\ pos' \in Nat /\ pos <= pos' /\ pos' <= buflen
    /\ pc' \in {"exit", "abort", "crash"}
    /\ UNCHANGED <<source, tokens>>

(* A character that is not the null one is in the buffer.                  *)
LEMMA InBuffer ==
    ASSUME Shape, NEW p \in Nat, Char(p) # "NUL"
    PROVE  p < buflen
  BY SourceType

LEMMA SkipStep ==
    ASSUME Shape, skip_whitespace \/ NewLine
    PROVE  BlankStep
<1>1. pos \in Nat /\ buflen \in Nat /\ Char(pos) # "NUL"
  BY SourceType DEF Shape, skip_whitespace, NewLine
<1>2. pos < buflen
  BY <1>1, InBuffer
<1>3. CASE skip_whitespace
  <2> DEFINE e == EndOf(pos, {"sp", "tab"})
  <2>1. /\ e \in pos .. buflen /\ Char(e) \notin {"sp", "tab"}
        /\ \A q \in pos .. e - 1 : Char(q) \in {"sp", "tab"}
    BY <1>1, <1>2, EndOfStops
  <2>2. pos' = pos + (e - pos) /\ Char(pos) \in {"sp", "tab"} /\ Continue /\ UNCHANGED tokens
    BY <1>3 DEF skip_whitespace, advance
  <2> HIDE DEF e
  <2>3. pos' = e /\ e # pos
    BY <1>1, <2>1, <2>2
  <2> QED
    BY <1>1, <2>1, <2>2, <2>3 DEF BlankStep, Blanks
<1>4. CASE NewLine
  BY <1>1, <1>2, <1>4 DEF NewLine, advance_to_nl, BlankStep, Blanks
<1> QED
  BY <1>3, <1>4

LEMMA SkipComment ==
    ASSUME Shape, skip_comment_line
    PROVE  CommentStep
<1> DEFINE ends == Find(pos + 2, {"nl"})
           e == Min(ends)
<1>1. /\ pos \in Nat /\ buflen \in Nat
      /\ Char(pos) = "/" /\ Char(pos + 1) = "/" /\ Continue /\ UNCHANGED tokens
  BY SourceType DEF Shape, skip_comment_line
<1>2. pos + 1 < buflen
  BY <1>1, InBuffer
<1>3. CASE ends # {}
  <2>1. /\ e \in pos + 2 .. buflen - 1 /\ Char(e) = "nl"
        /\ \A q \in pos + 2 .. e - 1 : Char(q) # "nl"
    BY <1>1, <1>3, FindsFirst
  <2>2. pos' = e + 1
    BY <1>3 DEF skip_comment_line, advance_to_nl
  <2> HIDE DEF e
  <2> QED
    BY <1>1, <2>1, <2>2 DEF CommentStep
<1>4. CASE ends = {}
  <2>1. pos' = buflen
    BY <1>1, <1>4 DEF skip_comment_line, advance
  <2>2. \A q \in pos + 2 .. buflen - 1 : Char(q) # "nl"
    BY <1>4 DEF Find
  <2> QED
    BY <1>1, <1>2, <2>1, <2>2 DEF CommentStep
<1> QED
  BY <1>3, <1>4

LEMMA WordStep ==
    ASSUME Shape, identifier \/ number_literal
    PROVE  TokenStep
<1>1. pos \in Nat /\ buflen \in Nat /\ Char(pos) # "NUL" /\ Continue
  BY SourceType DEF Shape, identifier, number_literal, WordChars
<1>2. pos < buflen
  BY <1>1, InBuffer
<1>3. CASE identifier
  <2> DEFINE e == EndOf(pos + 1, WordChars)
  <2>1. e \in pos + 1 .. buflen /\ Char(e) \notin WordChars
    <3>1. pos + 1 \in Nat /\ pos + 1 <= buflen /\ "NUL" \notin WordChars
      BY <1>1, <1>2 DEF WordChars
    <3> QED
      BY <3>1, EndOfStops
  <2>2. new_token("word", pos, e) /\ pos' = pos + (e - pos)
    BY <1>3 DEF identifier, advance
  <2> HIDE DEF e
  <2>3. Longest([kind |-> "word", start |-> pos, end |-> e])
    BY <2>1 DEF Longest
  <2> QED
    BY <1>1, <1>2, <2>1, <2>2, <2>3 DEF TokenStep, Kinds
<1>4. CASE number_literal
  <2> DEFINE e == EndOf(pos, {"0"})
  <2>1. e \in pos .. buflen /\ Char(e) \notin {"0"}
    BY <1>1, <1>2, EndOfStops
  <2>2. new_token("number", pos, e) /\ pos' = pos + (e - pos) /\ Char(pos) = "0"
    BY <1>4 DEF number_literal, advance
  <2> HIDE DEF e
  <2>3. Longest([kind |-> "number", start |-> pos, end |-> e]) /\ e # pos
    BY <2>1, <2>2 DEF Longest
  <2> QED
    BY <1>1, <1>2, <2>1, <2>2, <2>3 DEF TokenStep, Kinds
<1> QED
  BY <1>3, <1>4

LEMMA QuoteStep ==
    ASSUME Shape, char_literal \/ string_literal
    PROVE  TokenStep
<1> DEFINE e(q) == Min(Find(pos + 1, {q})) + 1
<1>1. pos \in Nat /\ buflen \in Nat /\ Char(pos) # "NUL" /\ Continue
  BY SourceType DEF Shape, char_literal, string_literal
<1>2. pos < buflen
  BY <1>1, InBuffer
<1>3. ASSUME NEW q \in {"'", "dq"}, Find(pos + 1, {q}) # {}
      PROVE  e(q) \in pos + 2 .. buflen
  BY <1>1, <1>3, FindsFirst
<1>4. CASE char_literal
  <2>1. /\ Find(pos + 1, {"'"}) # {} /\ new_token("char", pos, e("'"))
        /\ pos' = pos + (e("'") - pos)
    BY <1>4 DEF char_literal, advance
  <2>2. e("'") \in pos + 2 .. buflen
    BY <1>3, <2>1
  <2> HIDE DEF e
  <2>3. Longest([kind |-> "char", start |-> pos, end |-> e("'")])
    BY DEF Longest
  <2> QED
    BY <1>1, <1>2, <2>1, <2>2, <2>3 DEF TokenStep, Kinds
<1>5. CASE string_literal
  <2>1. /\ Find(pos + 1, {"dq"}) # {} /\ new_token("string", pos, e("dq"))
        /\ pos' = e("dq")
    BY <1>5 DEF string_literal, ThroughString
  <2>2. e("dq") \in pos + 2 .. buflen
    BY <1>3, <2>1
  <2> HIDE DEF e
  <2>3. Longest([kind |-> "string", start |-> pos, end |-> e("dq")])
    BY DEF Longest
  <2> QED
    BY <1>1, <1>2, <2>1, <2>2, <2>3 DEF TokenStep, Kinds
<1> QED
  BY <1>4, <1>5

(* The lookahead for operators: the longest one of one to three characters.*)
LEMMA OperatorStep ==
    ASSUME Shape, Operator
    PROVE  TokenStep
<1> DEFINE n == OperatorLength(pos)
           e == pos + n
           t == [kind |-> "operator", start |-> pos, end |-> e]
<1>1. /\ pos \in Nat /\ buflen \in Nat /\ Char(pos) # "NUL" /\ Continue
      /\ new_token("operator", pos, e) /\ pos' = e
  BY SourceType DEF Shape, Operator, Operators1, advance
<1>2. pos < buflen
  BY <1>1, InBuffer
<1>3. /\ \A op \in Operators2 : Len(op) = 2 /\ op = <<op[1], op[2]>> /\ op[2] # "NUL"
      /\ \A op \in Operators3 :
             /\ Len(op) = 3 /\ op = <<op[1], op[2], op[3]>> /\ op[3] # "NUL"
             /\ <<op[1], op[2]>> \in Operators2
  BY DEF Operators2, Operators3
<1>4. CASE <<Char(pos), Char(pos + 1)>> \notin Operators2
  <2>1. n = 1
    BY <1>4 DEF OperatorLength
  <2>2. ASSUME NEW op \in Operators2 \cup Operators3, op[1] = Char(pos), op[2] = Char(pos + 1)
        PROVE  FALSE
    BY <1>3, <1>4, <2>2
  <2>3. Longest(t)
    <3> SUFFICES ASSUME NEW op \in Operators2 \cup Operators3
                 PROVE  \E m \in 1 .. Len(op) : op[m] # Char(pos + m - 1)
      BY DEF Longest
    <3>1. 1 \in 1 .. Len(op) /\ 2 \in 1 .. Len(op)
      <4>1. Len(op) \in {2, 3}
        BY <1>3
      <4> QED
        BY <4>1
    <3>2. pos + 1 - 1 = pos /\ pos + 2 - 1 = pos + 1
      BY <1>1
    <3> QED
      BY <2>2, <3>1, <3>2
  <2> HIDE DEF n
  <2>4. e \in Nat /\ pos < e /\ e <= buflen
    BY <1>1, <1>2, <2>1
  <2> HIDE DEF e
  <2> QED
    BY <1>1, <1>2, <2>3, <2>4 DEF TokenStep, Kinds
<1>5. CASE /\ <<Char(pos), Char(pos + 1)>> \in Operators2
           /\ <<Char(pos), Char(pos + 1), Char(pos + 2)>> \notin Operators3
  <2>1. n = 2
    BY <1>5 DEF OperatorLength
  <2>2. ASSUME NEW op \in Operators3, op[1] = Char(pos), op[2] = Char(pos + 1),
               op[3] = Char(pos + 2)
        PROVE  FALSE
    BY <1>3, <1>5, <2>2
  <2> HIDE DEF n
  <2>3. Longest(t)
    <3> SUFFICES ASSUME NEW op \in Operators2 \cup Operators3, Len(op) > 2
                 PROVE  \E m \in 1 .. Len(op) : op[m] # Char(pos + m - 1)
      <4>1. e - pos = 2
        BY <1>1, <2>1
      <4> QED
        BY <4>1 DEF Longest
    <3>1. op \in Operators3
      BY <1>3
    <3>2. 1 \in 1 .. Len(op) /\ 2 \in 1 .. Len(op) /\ 3 \in 1 .. Len(op)
      BY <1>3, <3>1
    <3>3. pos + 1 - 1 = pos /\ pos + 2 - 1 = pos + 1 /\ pos + 3 - 1 = pos + 2
      BY <1>1
    <3> QED
      BY <2>2, <3>1, <3>2, <3>3
  <2>4. Char(pos + 1) # "NUL"
    BY <1>5 DEF Operators2
  <2>5. pos + 1 < buflen
    BY <1>1, <2>4, InBuffer
  <2>6. e \in Nat /\ pos < e /\ e <= buflen
    BY <1>1, <2>1, <2>5
  <2> HIDE DEF e
  <2> QED
    BY <1>1, <1>2, <2>3, <2>6 DEF TokenStep, Kinds
<1>6. CASE /\ <<Char(pos), Char(pos + 1)>> \in Operators2
           /\ <<Char(pos), Char(pos + 1), Char(pos + 2)>> \in Operators3
  <2>1. n = 3
    BY <1>6 DEF OperatorLength
  <2> HIDE DEF n
  <2>2. Longest(t)
    <3>1. e - pos = 3
      BY <1>1, <2>1
    <3>2. ASSUME NEW op \in Operators2 \cup Operators3
          PROVE  ~(Len(op) > 3)
      <4> DEFINE l == Len(op)
      <4>1. l \in {2, 3}
        BY <1>3
      <4> HIDE DEF l
      <4>2. ~(l > 3)
        BY <4>1
      <4> QED
        BY <4>2 DEF l
    <3> QED
      BY <3>1, <3>2 DEF Longest
  <2>3. Char(pos + 2) # "NUL"
    BY <1>6 DEF Operators3
  <2>4. pos + 2 < buflen
    BY <1>1, <2>3, InBuffer
  <2>5. e \in Nat /\ pos < e /\ e <= buflen
    BY <1>1, <2>1, <2>4
  <2> HIDE DEF e
  <2> QED
    BY <1>1, <1>2, <2>2, <2>5 DEF TokenStep, Kinds
<1> QED
  BY <1>4, <1>5, <1>6

(* A char literal or string that does not end, and what starts no token.   *)
LEMMA BrokenStep ==
    ASSUME Shape, UnterminatedChar \/ UnterminatedString \/ UnhandledChar
    PROVE  TokenStep \/ StopStep
<1>1. pos \in Nat /\ buflen \in Nat /\ Char(pos) # "NUL"
  BY SourceType DEF Shape, UnterminatedChar, UnterminatedString, UnhandledChar, Handled
<1>2. pos < buflen
  BY <1>1, InBuffer
<1>3. CASE UnterminatedChar
  <2>1. CASE pc' = "crash" /\ UNCHANGED <<source, pos, tokens>>
    BY <1>1, <1>2, <2>1 DEF StopStep
  <2>2. CASE new_token("char", pos, buflen + 2) /\ advance(buflen + 2 - pos) /\ Continue
    <3> DEFINE e == buflen + 2
    <3>1. pos' = e /\ e \in Nat /\ pos < e /\ new_token("char", pos, e)
      BY <1>1, <1>2, <2>2 DEF advance
    <3>2. Longest([kind |-> "char", start |-> pos, end |-> e])
      BY DEF Longest
    <3>3. e <= buflen + (IF "char" = "char" THEN 2 ELSE 0)
      BY <1>1
    <3> HIDE DEF e
    <3> QED
      BY <1>2, <2>2, <3>1, <3>2, <3>3 DEF TokenStep, Kinds
  <2> QED
    BY <1>3, <2>1, <2>2 DEF UnterminatedChar
<1>4. CASE UnterminatedString
  BY <1>1, <1>2, <1>4 DEF UnterminatedString, ThroughString, line_of, StopStep
<1>5. CASE UnhandledChar
  BY <1>1, <1>2, <1>5 DEF UnhandledChar, line_of, StopStep
<1> QED
  BY <1>3, <1>4, <1>5

LEMMA ScannerSteps ==
    ASSUME Shape, next_token
    PROVE  TokenStep \/ BlankStep \/ CommentStep \/ Eof \/ StopStep
  BY SkipStep, SkipComment, WordStep, QuoteStep, OperatorStep, BrokenStep DEF next_token

-----------------------------------------------------------------------------
(* The inductive invariant.                                                *)

(* Two slashes before the position that are in no token begin a comment    *)
(* that has ended: the scanners never stop inside one, and never between   *)
(* its slashes.                                                            *)
Closed ==
    pc = "next" => \A j \in 0 .. pos - 1 :
        Char(j) = "/" /\ Char(j + 1) = "/" /\ ~InToken(j) /\ ~InToken(j + 1) =>
            \/ pos >= buflen
            \/ \E q \in j .. pos - 1 : Char(q) = "nl"

Begins(s) == \E k \in 1 .. Len(tokens) : tokens[k].kind # "eof" /\ tokens[k].start = s

OutsideComments == \A s \in Nat : Begins(s) => ~InComment(s)

Covered ==
    pc \in {"next", "done"} => \A i \in Nat :
        i < pos /\ i < buflen => InToken(i) \/ InComment(i) \/ Char(i) \in Blanks

LexInv ==
    /\ Shape /\ InOrder /\ LongestMatch /\ EofLast
    /\ Closed /\ OutsideComments /\ Covered

LEMMA LengthType ==
    ASSUME Shape
    PROVE  /\ Len(tokens) \in Nat
           /\ \A k \in 1 .. Len(tokens) : tokens[k] \in Token
  BY DEF Shape

LEMMA TokenFields ==
    ASSUME NEW t \in Token
    PROVE  t.start \in Nat /\ t.end \in Nat
  BY DEF Token

LEMMA SameText ==
    ASSUME UNCHANGED source
    PROVE  /\ buflen' = buflen
           /\ \A p : Char(p)' = Char(p)
           /\ \A t : Longest(t)' <=> Longest(t)
<1>1. buflen' = buflen /\ \A p : Char(p)' = Char(p)
  BY DEF Char, buflen
<1> QED
  BY <1>1 DEF Longest

LEMMA InTokenBefore ==
    ASSUME Shape, InOrder, NEW i \in Nat, InToken(i)
    PROVE  i < pos
<1>1. PICK k \in 1 .. Len(tokens) : tokens[k].start <= i /\ i < tokens[k].end
  BY DEF InToken
<1>2. tokens[k].end \in Nat /\ tokens[k].end <= pos /\ pos \in Nat
  BY LengthType, TokenFields DEF InOrder, Shape
<1> QED
  BY <1>1, <1>2

(* A step that adds no token.                                              *)
LEMMA ListKept ==
    ASSUME LexInv, UNCHANGED <<source, tokens>>, pos' \in Nat, pos <= pos',
           pc' \in {"next", "done", "exit", "abort", "crash"}
    PROVE  /\ Shape' /\ InOrder' /\ LongestMatch' /\ OutsideComments'
           /\ \A i : InToken(i)' <=> InToken(i)
           /\ \A i : InComment(i)' <=> InComment(i)
<1>1. Shape'
  BY DEF LexInv, Shape
<1>2. InOrder'
  <2>1. ASSUME NEW k \in 1 .. Len(tokens)
        PROVE  tokens[k].end <= pos'
    <3>1. tokens[k].end \in Nat /\ tokens[k].end <= pos /\ pos \in Nat
      BY LengthType, TokenFields DEF LexInv, InOrder, Shape
    <3> QED
      BY <3>1
  <2> QED
    BY <2>1 DEF LexInv, InOrder
<1>3. \A i : InToken(i)' <=> InToken(i)
  BY DEF InToken
<1>4. \A i : InComment(i)' <=> InComment(i)
  BY <1>3, SameText DEF InComment
<1>5. OutsideComments'
  BY <1>4 DEF LexInv, OutsideComments, Begins
<1>6. LongestMatch'
  <2>1. \A k \in 1 .. Len(tokens) : Longest(tokens[k])
    BY DEF LexInv, LongestMatch, Longest
  <2>2. \A k \in 1 .. Len(tokens') : Longest(tokens[k])'
    BY <2>1, SameText
  <2> QED
    BY <2>2 DEF LongestMatch, Longest
<1> QED
  BY <1>1, <1>2, <1>3, <1>4, <1>5, <1>6

LEMMA StopKeeps ==
    ASSUME LexInv, pc = "next", StopStep
    PROVE  LexInv'
<1>1. Shape' /\ InOrder' /\ LongestMatch' /\ OutsideComments'
  BY ListKept DEF StopStep
<1>2. EofLast' /\ Closed' /\ Covered'
  BY DEF LexInv, StopStep, EofLast, Closed, Covered
<1> QED
  BY <1>1, <1>2 DEF LexInv

LEMMA BlankKeeps ==
    ASSUME LexInv, pc = "next", BlankStep
    PROVE  LexInv'
<1> DEFINE e == pos'
<1>1. /\ pos \in Nat /\ pos' = e /\ e \in Nat /\ pos < e /\ buflen \in Nat
      /\ pc' = "next" /\ UNCHANGED <<source, tokens>>
      /\ \A q \in pos .. e - 1 : Char(q) \in Blanks
  BY SourceType DEF LexInv, Shape, BlankStep, Continue
<1> HIDE DEF e
<1>2. /\ Shape' /\ InOrder' /\ LongestMatch' /\ OutsideComments'
      /\ \A i : InToken(i)' <=> InToken(i)
      /\ \A i : InComment(i)' <=> InComment(i)
  BY <1>1, ListKept
<1>3. buflen' = buflen /\ \A p : Char(p)' = Char(p)
  BY <1>1, SameText
<1>4. EofLast'
  BY <1>1 DEF LexInv, EofLast
<1>5. Closed'
  <2> SUFFICES ASSUME NEW j \in 0 .. e - 1, Char(j) = "/", Char(j + 1) = "/",
                      ~InToken(j), ~InToken(j + 1)
               PROVE  e >= buflen \/ \E q \in j .. e - 1 : Char(q) = "nl"
    BY <1>1, <1>2, <1>3 DEF Closed
  <2>1. j \in 0 .. pos - 1
    BY <1>1 DEF Blanks
  <2>2. pos >= buflen \/ \E q \in j .. pos - 1 : Char(q) = "nl"
    BY <1>1, <2>1 DEF LexInv, Closed
  <2> QED
    BY <1>1, <2>2
<1>6. Covered'
  <2> SUFFICES ASSUME NEW i \in Nat, i < e, i < buflen
               PROVE  InToken(i) \/ InComment(i) \/ Char(i) \in Blanks
    BY <1>1, <1>2, <1>3 DEF Covered
  <2>1. CASE i < pos
    BY <1>1, <2>1 DEF LexInv, Covered
  <2>2. CASE i >= pos
    BY <1>1, <2>2
  <2> QED
    BY <1>1, <2>1, <2>2
<1> QED
  BY <1>2, <1>4, <1>5, <1>6 DEF LexInv

LEMMA CommentKeeps ==
    ASSUME LexInv, pc = "next", CommentStep
    PROVE  LexInv'
<1> DEFINE e == pos'
<1>1. /\ pos \in Nat /\ pos' = e /\ e \in Nat /\ pos + 1 < e /\ buflen \in Nat
      /\ pc' = "next" /\ UNCHANGED <<source, tokens>>
      /\ Char(pos) = "/" /\ Char(pos + 1) = "/" /\ e <= buflen
      /\ \A q \in pos .. e - 1 : Char(q) = "nl" => q = e - 1
      /\ e = buflen \/ Char(e - 1) = "nl"
  BY SourceType DEF LexInv, Shape, CommentStep, Continue
<1> HIDE DEF e
<1>2. /\ Shape' /\ InOrder' /\ LongestMatch' /\ OutsideComments'
      /\ \A i : InToken(i)' <=> InToken(i)
      /\ \A i : InComment(i)' <=> InComment(i)
  BY <1>1, ListKept
<1>3. buflen' = buflen /\ \A p : Char(p)' = Char(p)
  BY <1>1, SameText
<1>4. EofLast'
  BY <1>1 DEF LexInv, EofLast
<1>5. Closed'
  <2> SUFFICES ASSUME NEW j \in 0 .. e - 1, e # buflen
               PROVE  \E q \in j .. e - 1 : Char(q) = "nl"
    BY <1>1, <1>3 DEF Closed
  <2>1. e - 1 \in j .. e - 1
    BY <1>1
  <2> QED
    BY <1>1, <2>1
<1>6. Covered'
  <2> SUFFICES ASSUME NEW i \in Nat, i < e, i < buflen
               PROVE  InToken(i) \/ InComment(i) \/ Char(i) \in Blanks
    BY <1>1, <1>2, <1>3 DEF Covered
  <2>1. CASE i < pos
    BY <1>1, <2>1 DEF LexInv, Covered
  <2>2. CASE i >= pos /\ Char(i) = "nl"
    BY <2>2 DEF Blanks
  <2>3. CASE i >= pos /\ Char(i) # "nl"
    <3>1. ~InToken(pos) /\ ~InToken(pos + 1)
      BY <1>1, InTokenBefore DEF LexInv
    <3>2. pos \in 0 .. i
      BY <1>1, <2>3
    <3>3. \A q \in pos .. i : Char(q) # "nl"
      BY <1>1, <2>3
    <3> QED
      BY <1>1, <3>1, <3>2, <3>3 DEF InComment
  <2> QED
    BY <1>1, <2>1, <2>2, <2>3
<1> QED
  BY <1>2, <1>4, <1>5, <1>6 DEF LexInv

(* A step that adds a token from the position on; that it begins in no     *)
(* comment is left to the steps.                                           *)
LEMMA ListGrows ==
    ASSUME LexInv, pc = "next", UNCHANGED source,
           NEW kind \in Kinds \cup {"eof"}, NEW p, p = pos, NEW e \in Nat,
           new_token(kind, pos, e), pos <= e, pos' = e,
           Longest([kind |-> kind, start |-> pos, end |-> e]),
           pc' = IF kind = "eof" THEN "done" ELSE "next"
    PROVE  /\ Shape' /\ InOrder' /\ LongestMatch' /\ EofLast'
           /\ \A i \in Nat : InToken(i)' <=> InToken(i) \/ (pos <= i /\ i < e)
           /\ \A i \in Nat : i < pos /\ InComment(i) => InComment(i)'
           /\ (kind # "eof" => ~InComment(p)') => OutsideComments'
<1> DEFINE t == [kind |-> kind, start |-> pos, end |-> e]
           n == Len(tokens)
<1>1. /\ pos \in Nat /\ kind \in {"word", "number", "char", "string", "operator", "eof"}
      /\ Shape /\ InOrder
  BY DEF LexInv, Shape, Kinds
<1>2. /\ tokens' \in Seq(Token) /\ n \in Nat /\ Len(tokens') = n + 1
      /\ \A k \in 1 .. n : tokens'[k] = tokens[k]
      /\ tokens'[n + 1] = t /\ tokens' # <<>>
  BY <1>1, NewToken
<1>3. t.kind = kind /\ t.start = pos /\ t.end = e
  OBVIOUS
<1> HIDE DEF t, n
<1>4. /\ \A k \in 1 .. n : /\ tokens[k].start \in Nat /\ tokens[k].end \in Nat
                           /\ tokens[k].start <= tokens[k].end /\ tokens[k].end <= pos
                           /\ k < n => tokens[k].end <= tokens[k + 1].start
  BY <1>1, LengthType, TokenFields DEF InOrder, n
<1>5. \A k \in 1 .. n + 1 : k \in 1 .. n \/ k = n + 1
  BY <1>2
<1>6. Shape'
  BY <1>1, <1>2 DEF Shape
<1>7. InOrder'
  <2> SUFFICES ASSUME NEW k \in 1 .. n + 1
               PROVE  /\ tokens'[k].start <= tokens'[k].end /\ tokens'[k].end <= e
                      /\ k < n + 1 => tokens'[k].end <= tokens'[k + 1].start
    BY <1>2 DEF InOrder
  <2>1. CASE k = n + 1
    BY <1>1, <1>2, <1>3, <2>1
  <2>2. CASE k \in 1 .. n /\ k # n
    <3>1. k < n /\ k + 1 \in 1 .. n /\ n \in Nat /\ k \in Nat
      BY <1>2, <2>2
    <3>2. tokens'[k] = tokens[k] /\ tokens'[k + 1] = tokens[k + 1]
      BY <1>2, <2>2, <3>1
    <3>3. tokens[k].end \in Nat /\ tokens[k].end <= pos
      BY <1>4, <2>2
    <3> QED
      BY <1>1, <1>4, <2>2, <3>1, <3>2, <3>3
  <2>3. CASE k \in 1 .. n /\ k = n
    <3>1. tokens'[k] = tokens[k] /\ tokens'[k + 1] = t
      BY <1>2, <2>3
    <3>2. tokens[k].end \in Nat /\ tokens[k].end <= pos /\ tokens[k].start <= tokens[k].end
      BY <1>4, <2>3
    <3> QED
      BY <1>1, <1>3, <3>1, <3>2
  <2> QED
    BY <1>5, <2>1, <2>2, <2>3
<1>8. LongestMatch'
  <2>1. \A k \in 1 .. n : Longest(tokens[k])
    BY DEF LexInv, LongestMatch, Longest, n
  <2>2. Longest(t)
    BY DEF t
  <2>3. \A k \in 1 .. n + 1 : Longest(tokens'[k])
    BY <1>2, <1>5, <2>1, <2>2
  <2>4. \A k \in 1 .. n + 1 : Longest(tokens[k])'
    BY <2>3, SameText
  <2> QED
    BY <1>2, <2>4 DEF LongestMatch, Longest
<1>9. EofLast'
  <2>1. \A k \in 1 .. n : tokens[k].kind # "eof"
    BY DEF LexInv, EofLast, n
  <2> QED
    BY <1>2, <1>3, <1>5, <2>1 DEF EofLast
<1>10. \A i \in Nat : InToken(i)' <=> InToken(i) \/ (pos <= i /\ i < e)
  <2> SUFFICES ASSUME NEW i \in Nat
               PROVE  InToken(i)' <=> InToken(i) \/ (pos <= i /\ i < e)
    OBVIOUS
  <2>1. InToken(i)' <=> \E k \in 1 .. n + 1 : tokens'[k].start <= i /\ i < tokens'[k].end
    BY <1>2 DEF InToken
  <2>2. InToken(i) <=> \E k \in 1 .. n : tokens[k].start <= i /\ i < tokens[k].end
    BY DEF InToken, n
  <2>3. n + 1 \in 1 .. n + 1 /\ 1 .. n \subseteq 1 .. n + 1
    BY <1>2
  <2>4. ASSUME InToken(i)'
        PROVE  InToken(i) \/ (pos <= i /\ i < e)
    <3>1. PICK k \in 1 .. n + 1 : tokens'[k].start <= i /\ i < tokens'[k].end
      BY <2>1, <2>4
    <3> QED
      BY <1>2, <1>3, <1>5, <2>2, <3>1
  <2>5. ASSUME InToken(i)
        PROVE  InToken(i)'
    <3>1. PICK k \in 1 .. n : tokens[k].start <= i /\ i < tokens[k].end
      BY <2>2, <2>5
    <3> QED
      BY <1>2, <2>1, <2>3, <3>1
  <2>6. ASSUME pos <= i, i < e
        PROVE  InToken(i)'
    BY <1>2, <1>3, <2>1, <2>3, <2>6
  <2> QED
    BY <2>4, <2>5, <2>6
<1>11. ASSUME NEW i \in Nat, i < pos, InComment(i)
       PROVE  InComment(i)'
  <2>1. PICK j \in 0 .. i : /\ Char(j) = "/" /\ Char(j + 1) = "/"
                            /\ ~InToken(j) /\ ~InToken(j + 1)
                            /\ \A k \in j .. i : Char(k) # "nl"
    BY <1>11 DEF InComment
  <2>2. j \in Nat /\ j < pos /\ j + 1 \in Nat
    BY <1>1, <1>11
  <2>3. ~InToken(j)'
    BY <1>1, <1>10, <2>1, <2>2
  <2>4. CASE j + 1 < pos
    <3>1. ~InToken(j + 1)'
      BY <1>1, <1>10, <2>1, <2>2, <2>4
    <3> QED
      BY <2>1, <2>3, <3>1, SameText DEF InComment
  <2>5. CASE j + 1 = pos
    <3>1. j \in 0 .. pos - 1 /\ \A q \in j .. pos - 1 : q = j
      BY <1>1, <2>2, <2>5
    <3>2. \A q \in j .. pos - 1 : Char(q) # "nl"
      BY <2>1, <3>1
    <3>3. pos >= buflen
      BY <2>1, <3>1, <3>2 DEF LexInv, Closed
    <3>4. Char(pos) = "NUL"
      BY <1>1, <3>3, SourceType
    <3> QED
      BY <2>1, <2>5, <3>4
  <2> QED
    BY <1>1, <2>2, <2>4, <2>5
<1>12. \A s : Begins(s)' => Begins(s) \/ (kind # "eof" /\ s = p)
  <2> SUFFICES ASSUME NEW s, NEW k \in 1 .. n + 1, tokens'[k].kind # "eof", tokens'[k].start = s
               PROVE  Begins(s) \/ (kind # "eof" /\ s = p)
    BY <1>2 DEF Begins
  <2>1. CASE k = n + 1
    BY <1>2, <1>3, <2>1
  <2>2. CASE k \in 1 .. n
    BY <1>2, <2>2 DEF Begins, n
  <2> QED
    BY <1>5, <2>1, <2>2
<1>13. ASSUME kind # "eof" => ~InComment(p)'
       PROVE  OutsideComments'
  <2> SUFFICES ASSUME NEW s \in Nat, Begins(s)', InComment(s)'
               PROVE  FALSE
    BY DEF OutsideComments
  <2>1. Begins(s)
    BY <1>12, <1>13
  <2>2. PICK j \in 0 .. s : /\ Char(j) = "/" /\ Char(j + 1) = "/"
                            /\ ~InToken(j)' /\ ~InToken(j + 1)'
                            /\ \A q \in j .. s : Char(q) # "nl"
    BY SameText DEF InComment
  <2>3. j \in Nat /\ j + 1 \in Nat
    OBVIOUS
  <2>4. ~InToken(j) /\ ~InToken(j + 1)
    BY <1>10, <2>2, <2>3
  <2>5. InComment(s)
    BY <2>2, <2>4 DEF InComment
  <2> QED
    BY <2>1, <2>5 DEF LexInv, OutsideComments
<1> QED
  BY <1>6, <1>7, <1>8, <1>9, <1>10, <1>11, <1>13

LEMMA EofKeeps ==
    ASSUME LexInv, pc = "next", Eof
    PROVE  LexInv'
<1>1. /\ UNCHANGED source /\ new_token("eof", pos, pos) /\ pos' = pos /\ pc' = "done"
      /\ pos \in Nat /\ buflen' = buflen /\ \A p : Char(p)' = Char(p)
  BY SameText DEF Eof, LexInv, Shape
<1>2. Longest([kind |-> "eof", start |-> pos, end |-> pos])
  BY DEF Longest
<1>3. /\ Shape' /\ InOrder' /\ LongestMatch' /\ EofLast' /\ OutsideComments'
      /\ \A i \in Nat : InToken(i)' <=> InToken(i) \/ (pos <= i /\ i < pos)
      /\ \A i \in Nat : i < pos /\ InComment(i) => InComment(i)'
  BY <1>1, <1>2, ListGrows
<1>4. Closed'
  BY <1>1 DEF Closed
<1>5. Covered'
  BY <1>1, <1>3 DEF LexInv, Covered
<1> QED
  BY <1>3, <1>4, <1>5 DEF LexInv

LEMMA TokenKeeps ==
    ASSUME LexInv, pc = "next", TokenStep
    PROVE  LexInv'
<1>0. PICK p : p = pos
  OBVIOUS
<1>1. PICK kind \in Kinds, e \in Nat :
          /\ pos < buflen /\ pos < e /\ pos' = e
          /\ new_token(kind, pos, e)
          /\ Longest([kind |-> kind, start |-> pos, end |-> e])
          /\ Continue
  BY DEF TokenStep
<1>2. /\ UNCHANGED source /\ pc' = "next" /\ pos \in Nat /\ buflen \in Nat
      /\ buflen' = buflen /\ \A x : Char(x)' = Char(x)
      /\ kind # "eof" /\ pos <= e
  BY <1>1, SourceType, SameText DEF Continue, LexInv, Shape, Kinds
<1>3. /\ Shape' /\ InOrder' /\ LongestMatch' /\ EofLast'
      /\ \A i \in Nat : InToken(i)' <=> InToken(i) \/ (pos <= i /\ i < e)
      /\ \A i \in Nat : i < pos /\ InComment(i) => InComment(i)'
      /\ (kind # "eof" => ~InComment(p)') => OutsideComments'
  BY <1>0, <1>1, <1>2, ListGrows
<1>4. ~InComment(p)'
  <2> SUFFICES ASSUME NEW j \in 0 .. p, Char(j) = "/", Char(j + 1) = "/",
                      ~InToken(j)', ~InToken(j + 1)',
                      \A q \in j .. p : Char(q) # "nl"
               PROVE  FALSE
    BY <1>2 DEF InComment
  <2>1. j \in Nat /\ j + 1 \in Nat
    BY <1>0, <1>2
  <2>2. ~InToken(j) /\ ~InToken(j + 1) /\ j # pos
    BY <1>0, <1>1, <1>2, <1>3, <2>1
  <2>3. j \in 0 .. pos - 1 /\ j .. pos - 1 \subseteq j .. p
    BY <1>0, <1>2, <2>1, <2>2
  <2>4. pos >= buflen \/ \E q \in j .. pos - 1 : Char(q) = "nl"
    BY <2>2, <2>3 DEF LexInv, Closed
  <2> QED
    BY <1>1, <1>2, <2>3, <2>4
<1>5. Closed'
  <2> SUFFICES ASSUME NEW j \in 0 .. e - 1, Char(j) = "/", Char(j + 1) = "/",
                      ~InToken(j)', ~InToken(j + 1)'
               PROVE  e >= buflen \/ \E q \in j .. e - 1 : Char(q) = "nl"
    BY <1>1, <1>2 DEF Closed
  <2>1. j \in Nat /\ j + 1 \in Nat /\ j < e
    BY <1>1
  <2>2. ~InToken(j) /\ ~InToken(j + 1) /\ j < pos
    BY <1>2, <1>3, <2>1
  <2>3. j \in 0 .. pos - 1 /\ j .. pos - 1 \subseteq j .. e - 1
    BY <1>1, <1>2, <2>1, <2>2
  <2>4. pos >= buflen \/ \E q \in j .. pos - 1 : Char(q) = "nl"
    BY <1>2, <2>2, <2>3 DEF LexInv, Closed
  <2> QED
    BY <1>1, <1>2, <2>3, <2>4
<1>6. Covered'
  <2> SUFFICES ASSUME NEW i \in Nat, i < e, i < buflen
               PROVE  InToken(i)' \/ InComment(i)' \/ Char(i) \in Blanks
    BY <1>1, <1>2 DEF Covered
  <2>1. CASE i < pos
    BY <1>3, <2>1 DEF LexInv, Covered
  <2>2. CASE i >= pos
    BY <1>2, <1>3, <2>2
  <2> QED
    BY <1>2, <2>1, <2>2
<1> QED
  BY <1>3, <1>4, <1>5, <1>6 DEF LexInv

-----------------------------------------------------------------------------
(* Where the lexer says it is: within the text.                            *)

Where ==
    /\ pos <= buflen + 2
    /\ line \in Nat /\ 1 <= line /\ line <= pos + 1 /\ line <= buflen + 1
    /\ col \in Nat /\ 1 <= col /\ col <= pos + 1
    /\ line_start \in Nat /\ line_start <= pos /\ line_start <= buflen

Bounded(t) == t.end <= buflen + (IF t.kind \in {"char", "eof"} THEN 2 ELSE 0)

InBounds == \A k \in 1 .. Len(tokens) : Bounded(tokens[k])

LEMMA AdvanceWhere ==
    ASSUME Shape, Where, UNCHANGED source, pos < buflen,
           NEW n \in Nat, advance(n), pos + n <= buflen + 2
    PROVE  Where'
<1>1. pos \in Nat /\ buflen \in Nat /\ buflen' = buflen
  BY SourceType, SameText DEF Shape
<1>2. pos' = pos + n /\ col' = col + n /\ UNCHANGED <<line, line_start>>
  BY DEF advance
<1> QED
  BY <1>1, <1>2 DEF Where

LEMMA NewLineWhere ==
    ASSUME Shape, Where, UNCHANGED source,
           NEW p \in Nat, pos <= p, p < buflen, advance_to_nl(p, 1)
    PROVE  Where'
<1>1. pos \in Nat /\ buflen \in Nat /\ buflen' = buflen
  BY SourceType, SameText DEF Shape
<1>2. pos' = p + 1 /\ col' = 1 /\ line_start' = p + 1 /\ line' = line + 1
  BY DEF advance_to_nl
<1> QED
  BY <1>1, <1>2 DEF Where

(* The lines that a string spans are fewer than its characters.            *)
LEMMA StringWhere ==
    ASSUME Shape, Where, UNCHANGED source,
           NEW p \in Nat, pos < p, p <= buflen, ThroughString(p)
    PROVE  Where'
<1> DEFINE breaks == {q \in Find(pos + 1, {"nl"}) : q < p}
           c == Cardinality(breaks)
           m == Max(breaks)
<1>1. pos \in Nat /\ buflen \in Nat /\ buflen' = buflen
  BY SourceType, SameText DEF Shape
<1>2. breaks \subseteq pos + 1 .. p - 1
  BY <1>1 DEF Find
<1>3. /\ pos' = p /\ line' = line + c
      /\ line_start' = IF breaks = {} THEN line_start ELSE m + 1
      /\ col' = IF breaks = {} THEN col + p - pos ELSE p - m
  BY DEF ThroughString
<1> HIDE DEF breaks
<1>4. c \in Nat /\ c <= p - pos - 1
  <2>1. /\ IsFiniteSet(pos + 1 .. p - 1)
        /\ Cardinality(pos + 1 .. p - 1) = p - pos - 1
    <3>1. pos + 1 \in Int /\ p - 1 \in Int
      BY <1>1
    <3>2. /\ IsFiniteSet(pos + 1 .. p - 1)
          /\ Cardinality(pos + 1 .. p - 1)
                 = IF pos + 1 > p - 1 THEN 0 ELSE (p - 1) - (pos + 1) + 1
      BY <3>1, FS_Interval
    <3> QED
      BY <1>1, <3>2
  <2>2. IsFiniteSet(breaks) /\ c <= Cardinality(pos + 1 .. p - 1)
    BY <1>2, <2>1, FS_Subset
  <2> QED
    BY <2>1, <2>2, FS_CardinalityType
<1>5. CASE breaks = {}
  <2> HIDE DEF c, m
  <2> QED
    BY <1>1, <1>3, <1>4, <1>5 DEF Where
<1>6. CASE breaks # {}
  <2>1. breaks \subseteq Nat /\ \A y \in breaks : y <= p
    BY <1>1, <1>2
  <2>2. m \in breaks
    BY <1>6, <2>1, MaxIsGreatest
  <2>3. m \in pos + 1 .. p - 1
    BY <1>2, <2>2
  <2> HIDE DEF c, m
  <2> QED
    BY <1>1, <1>3, <1>4, <1>6, <2>3 DEF Where
<1> QED
  BY <1>5, <1>6

LEMMA WhereKept ==
    ASSUME Shape, Where, UNCHANGED <<source, pos, line, col, line_start>>
    PROVE  Where'
  BY SameText DEF Where

LEMMA WhereStep ==
    ASSUME Shape, Where, next_token
    PROVE  Where'
<1>1. pos \in Nat /\ buflen \in Nat
  BY SourceType DEF Shape
<1>2. CASE Eof
  BY <1>2, WhereKept DEF Eof
<1>3. ASSUME ~Eof
      PROVE  pos < buflen
  <2>1. Char(pos) # "NUL"
    BY <1>3 DEF next_token, Eof, skip_whitespace, NewLine, skip_comment_line, identifier,
       number_literal, char_literal, UnterminatedChar, string_literal, UnterminatedString,
       Operator, UnhandledChar, WordChars, Operators1, Handled
  <2> QED
    BY <1>1, <2>1, InBuffer
<1>4. ASSUME NEW e \in Nat, pos <= e, e <= buflen + 2, pos < buflen,
             advance(e - pos), UNCHANGED source
      PROVE  Where'
  <2>1. e - pos \in Nat /\ pos + (e - pos) <= buflen + 2
    BY <1>1, <1>4
  <2> QED
    BY <1>4, <2>1, AdvanceWhere
<1>5. ASSUME skip_whitespace, pos < buflen
      PROVE  Where'
  <2> DEFINE e == EndOf(pos, {"sp", "tab"})
  <2>1. e \in pos .. buflen
    BY <1>1, <1>5, EndOfStops
  <2>2. advance(e - pos) /\ UNCHANGED source
    BY <1>5 DEF skip_whitespace, Continue
  <2> HIDE DEF e
  <2>3. e \in Nat /\ pos <= e /\ e <= buflen + 2
    BY <1>1, <2>1
  <2> QED
    BY <1>4, <1>5, <2>2, <2>3
<1>6. ASSUME NewLine, pos < buflen
      PROVE  Where'
  BY <1>1, <1>6, NewLineWhere DEF NewLine, Continue
<1>7. ASSUME skip_comment_line, pos < buflen
      PROVE  Where'
  <2> DEFINE ends == Find(pos + 2, {"nl"})
             p == Min(ends)
  <2>1. CASE ends = {}
    <3>1. advance(buflen - pos) /\ UNCHANGED source
      BY <1>7, <2>1 DEF skip_comment_line, Continue
    <3> QED
      BY <1>1, <1>4, <1>7, <3>1
  <2>2. CASE ends # {}
    <3>1. advance_to_nl(p, 1) /\ UNCHANGED source
      BY <1>7, <2>2 DEF skip_comment_line, Continue
    <3>2. p \in pos + 2 .. buflen - 1
      <4>1. pos + 2 \in Nat
        BY <1>1
      <4> QED
        BY <2>2, <4>1, FindsFirst
    <3> HIDE DEF p
    <3>3. p \in Nat /\ pos <= p /\ p < buflen
      BY <1>1, <3>2
    <3> QED
      BY <3>1, <3>3, NewLineWhere
  <2> QED
    BY <2>1, <2>2
<1>8. ASSUME identifier, pos < buflen
      PROVE  Where'
  <2> DEFINE e == EndOf(pos + 1, WordChars)
  <2>1. e \in pos + 1 .. buflen
    <3>1. pos + 1 \in Nat /\ pos + 1 <= buflen /\ "NUL" \notin WordChars
      BY <1>1, <1>8 DEF WordChars
    <3> QED
      BY <3>1, EndOfStops
  <2>2. advance(e - pos) /\ UNCHANGED source
    BY <1>8 DEF identifier, Continue
  <2> HIDE DEF e
  <2>3. e \in Nat /\ pos <= e /\ e <= buflen + 2
    BY <1>1, <2>1
  <2> QED
    BY <1>4, <1>8, <2>2, <2>3
<1>9. ASSUME number_literal, pos < buflen
      PROVE  Where'
  <2> DEFINE e == EndOf(pos, {"0"})
  <2>1. e \in pos .. buflen
    BY <1>1, <1>9, EndOfStops
  <2>2. advance(e - pos) /\ UNCHANGED source
    BY <1>9 DEF number_literal, Continue
  <2> HIDE DEF e
  <2>3. e \in Nat /\ pos <= e /\ e <= buflen + 2
    BY <1>1, <2>1
  <2> QED
    BY <1>4, <1>9, <2>2, <2>3
<1>10. ASSUME NEW q, Find(pos + 1, {q}) # {}
       PROVE  Min(Find(pos + 1, {q})) + 1 \in pos + 2 .. buflen
  <2> DEFINE m == Min(Find(pos + 1, {q}))
  <2>1. pos + 1 \in Nat
    BY <1>1
  <2>2. m \in pos + 1 .. buflen - 1
    BY <1>10, <2>1, FindsFirst
  <2> HIDE DEF m
  <2>3. m + 1 \in pos + 2 .. buflen
    BY <1>1, <2>2
  <2> QED
    BY <2>3 DEF m
<1>11. ASSUME char_literal, pos < buflen
       PROVE  Where'
  <2> DEFINE e == Min(Find(pos + 1, {"'"})) + 1
  <2>1. advance(e - pos) /\ UNCHANGED source /\ Find(pos + 1, {"'"}) # {}
    BY <1>11 DEF char_literal, Continue
  <2>2. e \in pos + 2 .. buflen
    BY <1>10, <2>1
  <2> HIDE DEF e
  <2>3. e \in Nat /\ pos <= e /\ e <= buflen + 2
    BY <1>1, <2>2
  <2> QED
    BY <1>4, <1>11, <2>1, <2>3
<1>12. ASSUME UnterminatedChar, pos < buflen
       PROVE  Where'
  <2>1. CASE UNCHANGED <<source, pos, line, col, line_start, tokens>>
    BY <2>1, WhereKept
  <2>2. CASE advance(buflen + 2 - pos) /\ Continue
    BY <1>1, <1>4, <1>12, <2>2 DEF Continue
  <2> QED
    BY <1>12, <2>1, <2>2 DEF UnterminatedChar
<1>13. ASSUME string_literal, pos < buflen
       PROVE  Where'
  <2> DEFINE e == Min(Find(pos + 1, {"dq"})) + 1
  <2>1. ThroughString(e) /\ UNCHANGED source /\ Find(pos + 1, {"dq"}) # {}
    BY <1>13 DEF string_literal, Continue
  <2>2. e \in pos + 2 .. buflen
    BY <1>10, <2>1
  <2> HIDE DEF e
  <2>3. e \in Nat /\ pos < e /\ e <= buflen
    BY <1>1, <2>2
  <2> QED
    BY <2>1, <2>3, StringWhere
<1>14. ASSUME UnterminatedString, pos < buflen
       PROVE  Where'
  BY <1>1, <1>14, StringWhere DEF UnterminatedString
<1>15. ASSUME Operator, pos < buflen
       PROVE  Where'
  <2>1. pos' \in Nat /\ pos' <= buflen + 2
    <3>1. TokenStep
      BY <1>15, OperatorStep
    <3> QED
      BY <1>1, <3>1 DEF TokenStep
  <2>2. OperatorLength(pos) \in {1, 2, 3}
    BY DEF OperatorLength
  <2>3. advance(OperatorLength(pos)) /\ UNCHANGED source
    BY <1>15 DEF Operator, Continue
  <2>4. pos' = pos + OperatorLength(pos)
    BY <2>3 DEF advance
  <2> QED
    BY <1>15, <2>1, <2>2, <2>3, <2>4, AdvanceWhere
<1>16. CASE UnhandledChar
  BY <1>16, WhereKept DEF UnhandledChar
<1> QED
  BY <1>2, <1>3, <1>5, <1>6, <1>7, <1>8, <1>9, <1>11, <1>12, <1>13, <1>14, <1>15, <1>16
  DEF next_token

LEMMA BoundsStep ==
    ASSUME LexInv, Where, InBounds, next_token
    PROVE  InBounds'
<1>1. /\ Shape /\ pos \in Nat /\ buflen \in Nat
  BY SourceType DEF LexInv, Shape
<1>2. TokenStep \/ BlankStep \/ CommentStep \/ Eof \/ StopStep
  BY <1>1, ScannerSteps
<1>3. ASSUME UNCHANGED <<source, tokens>>
      PROVE  InBounds'
  BY <1>3, SameText DEF InBounds, Bounded
<1>4. ASSUME NEW kind \in Kinds \cup {"eof"}, NEW e \in Nat, new_token(kind, pos, e),
             e <= buflen + (IF kind \in {"char", "eof"} THEN 2 ELSE 0), UNCHANGED source
      PROVE  InBounds'
  <2> DEFINE t == [kind |-> kind, start |-> pos, end |-> e]
             n == Len(tokens)
  <2>1. /\ n \in Nat /\ Len(tokens') = n + 1
        /\ \A k \in 1 .. n : tokens'[k] = tokens[k]
        /\ tokens'[n + 1] = t
    <3>1. kind \in {"word", "number", "char", "string", "operator", "eof"}
      BY DEF Kinds
    <3> QED
      BY <1>1, <1>4, <3>1, NewToken
  <2>2. Bounded(t)
    BY <1>4 DEF Bounded
  <2>3. \A k \in 1 .. n : Bounded(tokens[k])
    BY DEF InBounds
  <2> HIDE DEF t, n
  <2>4. \A k \in 1 .. n + 1 : Bounded(tokens'[k])
    <3>1. \A k \in 1 .. n + 1 : k \in 1 .. n \/ k = n + 1
      BY <2>1
    <3> QED
      BY <2>1, <2>2, <2>3, <3>1
  <2>5. buflen' = buflen
    BY <1>4, SameText
  <2> QED
    BY <2>1, <2>4, <2>5 DEF InBounds, Bounded
<1>5. CASE TokenStep
  BY <1>4, <1>5 DEF TokenStep, Kinds, Continue
<1>6. CASE Eof
  <2>1. new_token("eof", pos, pos) /\ UNCHANGED source /\ pos <= buflen + 2
    BY <1>6 DEF Eof, Where
  <2> QED
    BY <1>1, <1>4, <2>1
<1>7. CASE BlankStep \/ CommentStep \/ StopStep
  BY <1>3, <1>7 DEF BlankStep, CommentStep, StopStep, Continue
<1> QED
  BY <1>2, <1>5, <1>6, <1>7

-----------------------------------------------------------------------------
(* Where the lexer says it is, is where it is.                             *)

Located ==
    /\ line = 1 + Cardinality(LineBreaks)
    /\ line_start = (IF LineBreaks = {} THEN 0 ELSE Max(LineBreaks) + 1)
    /\ col = pos - line_start + 1

(* The end of a line, as LineBreaks counts them.                           *)
Break(i) ==
    \/ /\ Char(i) = "nl"
       /\ \A k \in 1 .. Len(tokens) :
              tokens[k].start <= i /\ i < tokens[k].end => tokens[k].kind # "char"
    \/ Char(i) = "cr" /\ ~InToken(i) /\ ~InComment(i)

(* A step leaves the ends of lines before the position as they are.        *)
BreaksStay == \A i \in Nat : i < pos => (Break(i)' <=> Break(i))

(* The ends of lines before the position: the position is in the buffer,   *)
(* or behind it after a char literal that does not end.                    *)
LEMMA BeforeBoth ==
    ASSUME NEW p \in Nat, NEW q \in Nat
    PROVE  \A i : i \in 0 .. Min({p, q}) - 1 <=> i \in Nat /\ i < p /\ i < q
<1> PICK m : m = Min({p, q})
  OBVIOUS
<1>1. m \in {p, q} /\ \A y \in {p, q} : m <= y
  BY MinIsLeast
<1>2. m \in Nat /\ m <= p /\ m <= q /\ (m = p \/ m = q)
  BY <1>1
<1>3. \A i : i \in 0 .. m - 1 <=> i \in Nat /\ i < p /\ i < q
  BY <1>2
<1> QED
  BY <1>3

LEMMA BreaksAre ==
    ASSUME Shape
    PROVE  \A i : i \in LineBreaks <=> i \in Nat /\ i < pos /\ i < buflen /\ Break(i)
<1>1. pos \in Nat /\ buflen \in Nat
  BY SourceType DEF Shape
<1> QED
  BY <1>1, BeforeBoth DEF LineBreaks, Break

(* What a step adds to them.                                               *)
LEMMA BreaksGrow ==
    ASSUME Shape, Shape', UNCHANGED source, pos < buflen, pos <= pos', BreaksStay
    PROVE  \A i : i \in LineBreaks' <=>
               \/ i \in LineBreaks
               \/ i \in Nat /\ pos <= i /\ i < pos' /\ i < buflen /\ Break(i)'
<1>1. pos \in Nat /\ pos' \in Nat /\ buflen \in Nat /\ buflen' = buflen
  BY SourceType, SameText DEF Shape
<1>2. \A i : i \in LineBreaks <=> i \in Nat /\ i < pos /\ i < buflen /\ Break(i)
  BY BreaksAre
<1>3. \A i : i \in LineBreaks' <=> i \in Nat /\ i < pos' /\ i < buflen /\ Break(i)'
  <2>1. \A i : i \in 0 .. Min({pos', buflen'}) - 1 <=> i \in Nat /\ i < pos' /\ i < buflen'
    BY <1>1, BeforeBoth
  <2>2. LineBreaks' = {i \in 0 .. Min({pos', buflen'}) - 1 : Break(i)'}
    BY DEF LineBreaks, Break
  <2> QED
    BY <1>1, <2>1, <2>2
<1>4. ASSUME NEW i \in Nat
      PROVE  i < pos' <=> i < pos \/ (pos <= i /\ i < pos')
  BY <1>1
<1>5. \A i \in Nat : i < pos => (Break(i)' <=> Break(i))
  BY DEF BreaksStay
<1> QED
  BY <1>1, <1>2, <1>3, <1>4, <1>5

(* A step that adds no token.                                              *)
LEMMA SkipBreaks ==
    ASSUME LexInv, UNCHANGED <<source, tokens>>, pos' \in Nat, pos <= pos', pc' = "next"
    PROVE  /\ Shape' /\ BreaksStay
           /\ \A i : Break(i)' <=> Break(i)
<1>1. /\ Shape' /\ (\A i : InToken(i)' <=> InToken(i))
      /\ \A i : InComment(i)' <=> InComment(i)
  BY ListKept
<1>2. \A i : Break(i)' <=> Break(i)
  BY <1>1, SameText DEF Break
<1> QED
  BY <1>1, <1>2 DEF BreaksStay

(* A token has the ends of lines that are in it, unless it is a char       *)
(* literal, and no "\r".                                                   *)
LEMMA TokenBreaks ==
    ASSUME LexInv, pc = "next", UNCHANGED source, pc' = "next",
           NEW kind \in Kinds, NEW e \in Nat, new_token(kind, pos, e), pos <= e, pos' = e,
           Longest([kind |-> kind, start |-> pos, end |-> e])
    PROVE  /\ Shape' /\ BreaksStay
           /\ \A i \in Nat : pos <= i /\ i < e => (Break(i)' <=> Char(i) = "nl" /\ kind # "char")
<1>0. PICK p : p = pos
  OBVIOUS
<1>1. /\ Shape /\ InOrder /\ pos \in Nat /\ kind # "eof"
      /\ kind \in {"word", "number", "char", "string", "operator", "eof"}
  BY DEF LexInv, Shape, Kinds
<1>2. /\ Shape'
      /\ \A i \in Nat : InToken(i)' <=> InToken(i) \/ (pos <= i /\ i < e)
      /\ \A i \in Nat : i < pos /\ InComment(i) => InComment(i)'
  BY <1>0, <1>1, ListGrows
<1>n. PICK n : n = Len(tokens)
  OBVIOUS
<1>t. PICK t : t = [kind |-> kind, start |-> pos, end |-> e]
  OBVIOUS
<1>3. /\ n \in Nat /\ Len(tokens') = n + 1 /\ tokens'[n + 1] = t
      /\ \A k \in 1 .. n : tokens'[k] = tokens[k]
      /\ t.kind = kind /\ t.start = pos /\ t.end = e
  BY <1>1, <1>n, <1>t, NewToken
<1>4. \A k \in 1 .. n : tokens[k].end \in Nat /\ tokens[k].end <= pos
  BY <1>1, <1>n, LengthType, TokenFields DEF InOrder
<1>5. \A k \in 1 .. n + 1 : k \in 1 .. n \/ k = n + 1
  BY <1>3
<1>6. \A i \in Nat : i < pos /\ InComment(i)' => InComment(i)
  <2> SUFFICES ASSUME NEW i \in Nat, i < pos, InComment(i)'
               PROVE  InComment(i)
    OBVIOUS
  <2>1. PICK j \in 0 .. i : /\ Char(j) = "/" /\ Char(j + 1) = "/"
                            /\ ~InToken(j)' /\ ~InToken(j + 1)'
                            /\ \A k \in j .. i : Char(k) # "nl"
    BY SameText DEF InComment
  <2>2. j \in Nat /\ j + 1 \in Nat
    OBVIOUS
  <2> QED
    BY <1>2, <2>1, <2>2 DEF InComment
<1>7. ASSUME NEW i \in Nat, i < pos
      PROVE  Break(i)' <=> Break(i)
  <2>1. InToken(i)' <=> InToken(i)
    BY <1>1, <1>2, <1>7
  <2>2. InComment(i)' <=> InComment(i)
    BY <1>2, <1>6, <1>7
  <2>3. (\A k \in 1 .. n + 1 :
             tokens'[k].start <= i /\ i < tokens'[k].end => tokens'[k].kind # "char")
        <=> \A k \in 1 .. n :
                tokens[k].start <= i /\ i < tokens[k].end => tokens[k].kind # "char"
    <3>1. ~(pos <= i)
      BY <1>1, <1>7
    <3>2. \A k \in 1 .. n : k \in 1 .. n + 1
      BY <1>3
    <3> QED
      BY <1>3, <1>5, <3>1, <3>2
  <2> QED
    BY <1>3, <1>n, <2>1, <2>2, <2>3, SameText DEF Break
<1>8. ASSUME NEW i \in Nat, pos <= i, i < e
      PROVE  Break(i)' <=> Char(i) = "nl" /\ kind # "char"
  <2>1. InToken(i)'
    BY <1>2, <1>8
  <2>2. (\A k \in 1 .. n + 1 :
             tokens'[k].start <= i /\ i < tokens'[k].end => tokens'[k].kind # "char")
        <=> kind # "char"
    <3>1. \A k \in 1 .. n : ~(i < tokens[k].end)
      BY <1>1, <1>4, <1>8
    <3>2. n + 1 \in 1 .. n + 1
      BY <1>3
    <3> QED
      BY <1>3, <1>5, <1>8, <3>1, <3>2
  <2> QED
    BY <1>3, <2>1, <2>2, SameText DEF Break
<1> QED
  BY <1>2, <1>7, <1>8 DEF BreaksStay

(* More ends of lines, behind the others.                                  *)
LEMMA MoreBreaks ==
    ASSUME NEW old, NEW new, NEW p \in Nat, NEW q \in Nat,
           old \subseteq 0 .. p - 1, new \subseteq p .. q, new # {}
    PROVE  /\ Cardinality(old) \in Nat /\ Cardinality(new) \in Nat
           /\ Cardinality(old \cup new) = Cardinality(old) + Cardinality(new)
           /\ Max(new) \in new /\ Max(old \cup new) = Max(new)
<1>1. IsFiniteSet(old) /\ IsFiniteSet(new)
  <2>1. IsFiniteSet(0 .. p - 1) /\ IsFiniteSet(p .. q)
    <3>1. p - 1 \in Int /\ 0 \in Int /\ p \in Int /\ q \in Int
      OBVIOUS
    <3> QED
      BY <3>1, FS_Interval
  <2> QED
    BY <2>1, FS_Subset
<1>2. Cardinality(old) \in Nat /\ Cardinality(new) \in Nat
  BY <1>1, FS_CardinalityType
<1>3. old \cap new = {}
  OBVIOUS
<1>4. Cardinality(old \cap new) = 0
  BY <1>3, FS_EmptySet
<1>5. Cardinality(old \cup new) = Cardinality(old) + Cardinality(new) - Cardinality(old \cap new)
  BY <1>1, FS_Union
<1>6. /\ new \subseteq Nat /\ old \cup new \subseteq Nat /\ old \cup new # {}
      /\ p + q \in Nat /\ \A y \in old \cup new : y <= p + q
  OBVIOUS
<1>7. Max(new) \in new /\ \A y \in new : Max(new) >= y
  BY <1>6, MaxIsGreatest
<1>8. Max(old \cup new) \in old \cup new /\ \A y \in old \cup new : Max(old \cup new) >= y
  BY <1>6, MaxIsGreatest
<1>9. Max(old \cup new) = Max(new)
  <2> PICK a, b : a = Max(new) /\ b = Max(old \cup new)
    OBVIOUS
  <2>1. a \in new /\ \A y \in new : a >= y
    BY <1>7
  <2>2. b \in old \cup new /\ \A y \in old \cup new : b >= y
    BY <1>8
  <2>3. b >= a /\ a \in Nat /\ b \in Nat /\ a >= p
    BY <1>6, <2>1, <2>2
  <2>4. b \in new
    BY <2>2, <2>3
  <2> QED
    BY <2>1, <2>3, <2>4
<1> QED
  BY <1>2, <1>4, <1>5, <1>7, <1>9

(* On a line.                                                              *)
LEMMA SameLine ==
    ASSUME Located, Where, Shape, NEW n \in Nat, advance(n), LineBreaks' = LineBreaks
    PROVE  Located'
<1>1. pos' = pos + n /\ col' = col + n /\ line' = line /\ line_start' = line_start
  BY DEF advance
<1>2. pos \in Nat /\ line_start \in Nat
  BY DEF Shape, Where
<1>3. col' = pos' - line_start' + 1
  BY <1>1, <1>2 DEF Located
<1> QED
  BY <1>1, <1>3 DEF Located

(* To another line, the last of those that begin on the way.               *)
LEMMA NewLines ==
    ASSUME Located, Shape, pos < buflen, pos' \in Nat, NEW new, new # {},
           new \subseteq pos .. pos', \A i : i \in LineBreaks' <=> i \in LineBreaks \/ i \in new,
           line' = line + Cardinality(new), line_start' = Max(new) + 1, col' = pos' - Max(new)
    PROVE  Located'
<1>1. pos \in Nat
  BY DEF Shape
<1> PICK old, p, q : old = LineBreaks /\ p = pos /\ q = pos'
  OBVIOUS
<1>2. old \subseteq 0 .. p - 1
  BY <1>1, BreaksAre
<1>3. /\ Cardinality(old) \in Nat /\ Cardinality(new) \in Nat
      /\ Cardinality(old \cup new) = Cardinality(old) + Cardinality(new)
      /\ Max(new) \in new /\ Max(old \cup new) = Max(new)
  BY <1>1, <1>2, MoreBreaks
<1>4. LineBreaks' = old \cup new
  OBVIOUS
<1> PICK c, d, m : c = Cardinality(old) /\ d = Cardinality(new) /\ m = Max(new)
  OBVIOUS
<1>5. line' = 1 + Cardinality(LineBreaks')
  <2>1. line = 1 + c /\ line' = line + d /\ Cardinality(LineBreaks') = c + d
    BY <1>3, <1>4 DEF Located
  <2> QED
    BY <1>3, <2>1
<1>6. line_start' = Max(LineBreaks') + 1 /\ LineBreaks' # {}
  BY <1>3, <1>4
<1>7. col' = pos' - line_start' + 1
  <2>0. \A y \in new : y \in Nat
    BY <1>1
  <2>1. m \in Nat /\ q \in Nat
    BY <1>3, <2>0
  <2>2. col' = q - m /\ line_start' = m + 1
    OBVIOUS
  <2>3. q - m = q - (m + 1) + 1
    BY <2>1
  <2> QED
    BY <2>2, <2>3
<1> QED
  BY <1>5, <1>6, <1>7 DEF Located

(* To the line behind p.                                                   *)
LEMMA OneLine ==
    ASSUME Located, Shape, pos < buflen, NEW p \in Nat, pos <= p, advance_to_nl(p, 1),
           \A i : i \in LineBreaks' <=> i \in LineBreaks \/ i = p
    PROVE  Located'
<1>1. pos' = p + 1 /\ col' = 1 /\ line_start' = p + 1 /\ line' = line + 1 /\ pos \in Nat
  BY DEF advance_to_nl, Shape
<1> PICK new : new = {p}
  OBVIOUS
<1>2. Cardinality(new) = 1
  BY FS_Singleton
<1>3. Max(new) = p
  <2>1. new \subseteq Nat /\ new # {} /\ \A y \in new : y <= p
    OBVIOUS
  <2>2. Max(new) \in new
    BY <2>1, MaxIsGreatest
  <2> QED
    BY <2>2
<1>4. /\ new # {} /\ new \subseteq pos .. pos' /\ pos' \in Nat
      /\ \A i : i \in LineBreaks' <=> i \in LineBreaks \/ i \in new
      /\ line' = line + Cardinality(new) /\ line_start' = Max(new) + 1 /\ col' = pos' - Max(new)
  BY <1>1, <1>2, <1>3
<1> QED
  BY <1>4, NewLines

(* What next_token reads, unless it is at the end.                         *)
LEMMA NotAtEnd ==
    ASSUME Shape, next_token, ~Eof
    PROVE  pos < buflen
<1>1. Char(pos) # "NUL"
  BY DEF next_token, Eof, skip_whitespace, NewLine, skip_comment_line, identifier,
     number_literal, char_literal, UnterminatedChar, string_literal, UnterminatedString,
     Operator, UnhandledChar, WordChars, Operators1, Handled
<1>2. pos \in Nat
  BY DEF Shape
<1> QED
  BY <1>1, <1>2, InBuffer

(* No word, number or operator holds the end of a line.                    *)
LEMMA WordsHaveNoBreak ==
    ASSUME Shape, pos < buflen, identifier \/ number_literal \/ Operator
    PROVE  /\ TokenStep /\ advance(pos' - pos)
           /\ \A q \in pos .. pos' - 1 : Char(q) # "nl"
<1>1. pos \in Nat /\ buflen \in Nat
  BY SourceType DEF Shape
<1>2. CASE identifier
  <2> PICK e : e = EndOf(pos + 1, WordChars)
    OBVIOUS
  <2>1. e \in pos + 1 .. buflen /\ \A q \in pos + 1 .. e - 1 : Char(q) \in WordChars
    <3>1. pos + 1 \in Nat /\ pos + 1 <= buflen
      BY <1>1
    <3>2. "NUL" \notin WordChars
      BY DEF WordChars
    <3> QED
      BY <1>1, <3>1, <3>2, EndOfStops
  <2>2. Char(pos) \in WordChars /\ advance(e - pos)
    BY <1>2 DEF identifier
  <2>3. pos' = e
    BY <1>1, <2>1, <2>2 DEF advance
  <2>4. ASSUME NEW q \in pos .. e - 1
        PROVE  Char(q) # "nl"
    <3>1. q = pos \/ q \in pos + 1 .. e - 1
      BY <1>1, <2>1
    <3> QED
      BY <2>1, <2>2, <3>1 DEF WordChars
  <2> QED
    BY <1>2, <2>2, <2>3, <2>4, WordStep
<1>3. CASE number_literal
  <2> PICK e : e = EndOf(pos, {"0"})
    OBVIOUS
  <2>1. e \in pos .. buflen /\ \A q \in pos .. e - 1 : Char(q) \in {"0"}
    BY <1>1, EndOfStops
  <2>2. advance(e - pos)
    BY <1>3 DEF number_literal
  <2>3. pos' = e
    BY <1>1, <2>1, <2>2 DEF advance
  <2> QED
    BY <1>3, <2>1, <2>2, <2>3, WordStep
<1>4. CASE Operator
  <2> PICK n : n = OperatorLength(pos)
    OBVIOUS
  <2>1. /\ Char(pos) # "nl" /\ n \in {1, 2, 3}
        /\ n >= 2 => Char(pos + 1) # "nl"
        /\ n = 3 => Char(pos + 2) # "nl"
    <3>1. Char(pos) # "nl" /\ n \in {1, 2, 3}
      BY <1>4 DEF Operator, Operators1, OperatorLength
    <3>2. ASSUME <<Char(pos), Char(pos + 1)>> \in Operators2
          PROVE  Char(pos + 1) # "nl"
      BY <3>2 DEF Operators2
    <3>3. ASSUME <<Char(pos), Char(pos + 1), Char(pos + 2)>> \in Operators3
          PROVE  Char(pos + 2) # "nl"
      BY <3>3 DEF Operators3
    <3>4. /\ n >= 2 => <<Char(pos), Char(pos + 1)>> \in Operators2
          /\ n = 3 => <<Char(pos), Char(pos + 1), Char(pos + 2)>> \in Operators3
      BY DEF OperatorLength
    <3> QED
      BY <3>1, <3>2, <3>3, <3>4
  <2>2. advance(n)
    BY <1>4 DEF Operator
  <2>3. pos' = pos + n /\ pos' - pos = n
    BY <1>1, <2>1, <2>2 DEF advance
  <2>4. ASSUME NEW q \in pos .. pos' - 1
        PROVE  Char(q) # "nl"
    <3>1. q = pos \/ (q = pos + 1 /\ n >= 2) \/ (q = pos + 2 /\ n = 3)
      BY <1>1, <2>1, <2>3
    <3> QED
      BY <2>1, <3>1
  <2> QED
    BY <1>4, <2>2, <2>3, <2>4, OperatorStep
<1> QED
  BY <1>2, <1>3, <1>4

(* A step that ends no line.                                               *)
LEMMA StaysOnLine ==
    ASSUME LexInv, Where, Located, pos < buflen, Shape', UNCHANGED source,
           NEW e \in Nat, pos <= e, advance(e - pos), BreaksStay,
           \A i \in Nat : pos <= i /\ i < e /\ i < buflen => ~Break(i)'
    PROVE  Located'
<1>1. Shape /\ pos \in Nat
  BY DEF LexInv, Shape
<1>2. pos' = e /\ e - pos \in Nat
  BY <1>1 DEF advance
<1>3. \A i : i \in LineBreaks' <=>
          \/ i \in LineBreaks
          \/ i \in Nat /\ pos <= i /\ i < pos' /\ i < buflen /\ Break(i)'
  BY <1>1, <1>2, BreaksGrow
<1>4. \A i : i \in LineBreaks' <=> i \in LineBreaks
  BY <1>2, <1>3
<1>5. LineBreaks' = LineBreaks
  BY <1>4
<1> QED
  BY <1>1, <1>2, <1>5, SameLine

(* The steps.                                                              *)
LEMMA LocationStep ==
    ASSUME LexInv, Where, Located, pc = "next", next_token, pc' = "next"
    PROVE  Located'
<1>1. /\ Shape /\ InOrder /\ Closed /\ pos \in Nat /\ buflen \in Nat
  BY SourceType DEF LexInv, Shape
<1>2. ~Eof /\ pos < buflen
  <2>1. ~Eof
    BY DEF Eof
  <2> QED
    BY <1>1, <2>1, NotAtEnd
<1>3. ASSUME skip_whitespace
      PROVE  Located'
  <2> PICK e : e = EndOf(pos, {"sp", "tab"})
    OBVIOUS
  <2>1. e \in pos .. buflen /\ \A q \in pos .. e - 1 : Char(q) \in {"sp", "tab"}
    BY <1>1, <1>2, EndOfStops
  <2>2. advance(e - pos) /\ UNCHANGED <<source, tokens>>
    BY <1>3 DEF skip_whitespace, Continue
  <2>3. e \in Nat /\ pos <= e /\ pos' = e
    BY <1>1, <2>1, <2>2 DEF advance
  <2>4. Shape' /\ BreaksStay /\ \A i : Break(i)' <=> Break(i)
    BY <2>2, <2>3, SkipBreaks
  <2>5. \A i \in Nat : pos <= i /\ i < e /\ i < buflen => ~Break(i)'
    <3>1. \A i \in Nat : pos <= i /\ i < e => i \in pos .. e - 1
      BY <1>1, <2>3
    <3>2. \A i \in Nat : pos <= i /\ i < e => ~Break(i)
      BY <2>1, <3>1 DEF Break
    <3> QED
      BY <2>4, <3>2
  <2> QED
    BY <1>2, <2>2, <2>3, <2>4, <2>5, StaysOnLine
<1>4. ASSUME NewLine
      PROVE  Located'
  <2>1. /\ advance_to_nl(pos, 1) /\ pos' = pos + 1 /\ pos' \in Nat /\ pos <= pos'
        /\ UNCHANGED <<source, tokens>> /\ Char(pos) \in {"nl", "cr"}
    BY <1>1, <1>4 DEF NewLine, advance_to_nl, Continue
  <2>2. Shape' /\ BreaksStay /\ \A i : Break(i)' <=> Break(i)
    BY <2>1, SkipBreaks
  <2>3. ~InToken(pos)
    BY <1>1, InTokenBefore
  <2>4. ~InComment(pos)
    <3> SUFFICES ASSUME NEW j \in 0 .. pos, Char(j) = "/", Char(j + 1) = "/",
                        ~InToken(j), ~InToken(j + 1), \A k \in j .. pos : Char(k) # "nl"
                 PROVE  FALSE
      BY DEF InComment
    <3>1. j \in 0 .. pos - 1
      BY <1>1, <2>1
    <3>2. \E q \in j .. pos - 1 : Char(q) = "nl"
      BY <1>1, <1>2, <3>1 DEF Closed
    <3> QED
      BY <1>1, <3>1, <3>2
  <2>5. Break(pos)
    <3>1. \A k \in 1 .. Len(tokens) : ~(tokens[k].start <= pos /\ pos < tokens[k].end)
      BY <2>3 DEF InToken
    <3> QED
      BY <2>1, <2>3, <2>4, <3>1 DEF Break
  <2>6. \A i : i \in LineBreaks' <=>
            \/ i \in LineBreaks
            \/ i \in Nat /\ pos <= i /\ i < pos' /\ i < buflen /\ Break(i)'
    BY <1>1, <1>2, <2>1, <2>2, BreaksGrow
  <2>7. \A i : i \in Nat /\ pos <= i /\ i < pos' /\ i < buflen /\ Break(i)' <=> i = pos
    BY <1>1, <1>2, <2>1, <2>2, <2>5
  <2>8. \A i : i \in LineBreaks' <=> i \in LineBreaks \/ i = pos
    BY <2>6, <2>7
  <2> PICK p : p = pos
    OBVIOUS
  <2>9. p \in Nat /\ pos <= p /\ advance_to_nl(p, 1) /\ \A i : i \in LineBreaks' <=> i \in LineBreaks \/ i = p
    BY <1>1, <2>1, <2>8
  <2> QED
    BY <1>1, <1>2, <2>9, OneLine
<1>5. ASSUME skip_comment_line
      PROVE  Located'
  <2> PICK ends : ends = Find(pos + 2, {"nl"})
    OBVIOUS
  <2>1. CommentStep
    BY <1>1, <1>5, SkipComment
  <2>2. /\ Char(pos) = "/" /\ Char(pos + 1) = "/" /\ pos' \in Nat /\ pos + 1 < pos' /\ pos <= pos'
        /\ UNCHANGED <<source, tokens>>
    BY <1>1, <2>1 DEF CommentStep, Continue
  <2>3. Shape' /\ BreaksStay /\ \A i : Break(i)' <=> Break(i)
    BY <2>2, SkipBreaks
  <2>4. ASSUME NEW i \in Nat, pos <= i, \A k \in pos .. i : Char(k) # "nl"
        PROVE  ~Break(i)
    <3>1. ~InToken(pos) /\ ~InToken(pos + 1)
      BY <1>1, InTokenBefore
    <3>2. pos \in 0 .. i /\ i \in pos .. i
      BY <1>1, <2>4
    <3>3. InComment(i)
      BY <2>2, <2>4, <3>1, <3>2 DEF InComment
    <3>4. Char(i) # "nl"
      BY <2>4, <3>2
    <3> QED
      BY <3>3, <3>4 DEF Break
  <2>5. \A i : i \in LineBreaks' <=>
            \/ i \in LineBreaks
            \/ i \in Nat /\ pos <= i /\ i < pos' /\ i < buflen /\ Break(i)'
    BY <1>1, <1>2, <2>2, <2>3, BreaksGrow
  <2>6. CASE ends = {}
    <3>1. advance(buflen - pos) /\ pos' = buflen
      BY <1>1, <1>5, <2>6 DEF skip_comment_line, advance
    <3>2. \A k \in pos .. buflen - 1 : Char(k) # "nl"
      <4>1. \A k \in pos + 2 .. buflen - 1 : Char(k) # "nl"
        BY <2>6 DEF Find
      <4>2. \A k \in pos .. buflen - 1 : k = pos \/ k = pos + 1 \/ k \in pos + 2 .. buflen - 1
        BY <1>1
      <4> QED
        BY <2>2, <4>1, <4>2
    <3>3. ASSUME NEW i \in Nat, pos <= i, i < buflen
          PROVE  ~Break(i)'
      <4>1. \A k \in pos .. i : k \in pos .. buflen - 1
        BY <1>1, <3>3
      <4> QED
        BY <2>3, <2>4, <3>2, <3>3, <4>1
    <3>4. \A i \in Nat : pos <= i /\ i < buflen /\ i < buflen => ~Break(i)'
      BY <3>3
    <3>5. PICK e : e = buflen
      OBVIOUS
    <3>6. /\ e \in Nat /\ pos <= e /\ advance(e - pos)
          /\ \A i \in Nat : pos <= i /\ i < e /\ i < buflen => ~Break(i)'
      BY <1>1, <1>2, <3>1, <3>4, <3>5
    <3> QED
      BY <1>2, <2>2, <2>3, <3>6, StaysOnLine
  <2>7. CASE ends # {}
    <3> PICK p : p = Min(ends)
      OBVIOUS
    <3>1. p \in pos + 2 .. buflen - 1 /\ Char(p) = "nl" /\ \A q \in pos + 2 .. p - 1 : Char(q) # "nl"
      <4>1. pos + 2 \in Nat
        BY <1>1
      <4> QED
        BY <1>1, <2>7, <4>1, FindsFirst
    <3>2. advance_to_nl(p, 1)
      BY <1>5, <2>7 DEF skip_comment_line
    <3>3. pos' = p + 1 /\ p \in Nat /\ pos <= p /\ p < buflen
      BY <1>1, <3>1, <3>2 DEF advance_to_nl
    <3>4. Break(p)
      <4>1. ~InToken(p)
        BY <1>1, <3>3, InTokenBefore
      <4>2. \A k \in 1 .. Len(tokens) : ~(tokens[k].start <= p /\ p < tokens[k].end)
        BY <4>1 DEF InToken
      <4> QED
        BY <3>1, <4>2 DEF Break
    <3>5. ASSUME NEW i \in Nat, pos <= i, i < p
          PROVE  ~Break(i)
      <4>1. \A k \in pos .. i : k = pos \/ k = pos + 1 \/ k \in pos + 2 .. p - 1
        BY <1>1, <3>3, <3>5
      <4>2. \A k \in pos .. i : Char(k) # "nl"
        BY <2>2, <3>1, <4>1
      <4> QED
        BY <2>4, <3>5, <4>2
    <3>6. ASSUME NEW i
          PROVE  i \in Nat /\ pos <= i /\ i < pos' /\ i < buflen /\ Break(i)' <=> i = p
      <4>1. i \in Nat /\ i < p + 1 => i < p \/ i = p
        BY <3>3
      <4>2. p < p + 1
        BY <3>3
      <4> QED
        BY <2>3, <3>3, <3>4, <3>5, <4>1, <4>2
    <3>7. \A i : i \in LineBreaks' <=> i \in LineBreaks \/ i = p
      BY <2>5, <3>6
    <3> QED
      BY <1>1, <1>2, <3>2, <3>3, <3>7, OneLine
  <2> QED
    BY <2>6, <2>7
<1>6. ASSUME identifier \/ number_literal \/ Operator
      PROVE  Located'
  <2>1. /\ TokenStep /\ advance(pos' - pos)
        /\ \A q \in pos .. pos' - 1 : Char(q) # "nl"
    BY <1>1, <1>2, <1>6, WordsHaveNoBreak
  <2>2. PICK kind \in Kinds, e \in Nat :
            /\ pos < e /\ new_token(kind, pos, e) /\ pos' = e
            /\ Longest([kind |-> kind, start |-> pos, end |-> e]) /\ UNCHANGED source
    BY <2>1 DEF TokenStep, Continue
  <2>3. /\ Shape' /\ BreaksStay
        /\ \A i \in Nat : pos <= i /\ i < e => (Break(i)' <=> Char(i) = "nl" /\ kind # "char")
    <3>1. pos <= e
      BY <1>1, <2>2
    <3> QED
      BY <2>2, <3>1, TokenBreaks
  <2>4. \A i \in Nat : pos <= i /\ i < e /\ i < buflen => ~Break(i)'
    <3>1. \A i \in Nat : pos <= i /\ i < e => i \in pos .. pos' - 1
      BY <1>1, <2>2
    <3> QED
      BY <2>1, <2>3, <3>1
  <2>5. pos <= e /\ advance(e - pos)
    BY <1>1, <2>1, <2>2
  <2> QED
    BY <1>2, <2>2, <2>3, <2>4, <2>5, StaysOnLine
<1>7. ASSUME NEW e \in Nat, pos < e, new_token("char", pos, e), advance(e - pos), UNCHANGED source
      PROVE  Located'
  <2>1. Longest([kind |-> "char", start |-> pos, end |-> e])
    BY DEF Longest
  <2>2. "char" \in Kinds /\ pos <= e /\ pos' = e
    BY <1>1, <1>7 DEF Kinds, advance
  <2>k. PICK kind : kind = "char"
    OBVIOUS
  <2>3. kind \in Kinds /\ new_token(kind, pos, e) /\ Longest([kind |-> kind, start |-> pos, end |-> e])
    BY <1>7, <2>1, <2>2, <2>k
  <2>4. /\ Shape' /\ BreaksStay
        /\ \A i \in Nat : pos <= i /\ i < e => (Break(i)' <=> Char(i) = "nl" /\ kind # "char")
    BY <1>7, <2>2, <2>3, TokenBreaks
  <2>5. \A i \in Nat : pos <= i /\ i < e /\ i < buflen => ~Break(i)'
    BY <2>k, <2>4
  <2> QED
    BY <1>2, <1>7, <2>2, <2>4, <2>5, StaysOnLine
<1>8. ASSUME char_literal
      PROVE  Located'
  <2> PICK e : e = Min(Find(pos + 1, {"'"})) + 1
    OBVIOUS
  <2>1. Find(pos + 1, {"'"}) # {} /\ new_token("char", pos, e) /\ advance(e - pos) /\ UNCHANGED source
    BY <1>8 DEF char_literal, Continue
  <2>2. e \in Nat /\ pos < e
    <3> PICK m : m = Min(Find(pos + 1, {"'"}))
      OBVIOUS
    <3>1. m \in pos + 1 .. buflen - 1
      <4>1. pos + 1 \in Nat
        BY <1>1
      <4> QED
        BY <1>1, <2>1, <4>1, FindsFirst
    <3> QED
      BY <1>1, <3>1
  <2> QED
    BY <1>7, <2>1, <2>2
<1>9. ASSUME UnterminatedChar
      PROVE  Located'
  <2> PICK e : e = buflen + 2
    OBVIOUS
  <2>0. pc' # "crash"
    OBVIOUS
  <2>1. new_token("char", pos, e) /\ advance(e - pos) /\ UNCHANGED source
    <3>1. new_token("char", pos, buflen + 2) /\ advance(buflen + 2 - pos) /\ Continue
      BY <1>9, <2>0 DEF UnterminatedChar
    <3> QED
      BY <1>1, <3>1 DEF Continue, new_token, advance
  <2>2. e \in Nat /\ pos < e
    BY <1>1, <1>2
  <2> QED
    BY <1>7, <2>1, <2>2
<1>10. ASSUME string_literal
       PROVE  Located'
  <2> PICK e, breaks : /\ e = Min(Find(pos + 1, {"dq"})) + 1
                       /\ breaks = {q \in Find(pos + 1, {"nl"}) : q < e}
    OBVIOUS
  <2>1. /\ Find(pos + 1, {"dq"}) # {} /\ new_token("string", pos, e) /\ Char(pos) = "dq"
        /\ ThroughString(e) /\ UNCHANGED source
    BY <1>10 DEF string_literal, Continue
  <2>2. e \in Nat /\ pos < e /\ e <= buflen
    <3> PICK m : m = Min(Find(pos + 1, {"dq"}))
      OBVIOUS
    <3>1. m \in pos + 1 .. buflen - 1
      <4>1. pos + 1 \in Nat
        BY <1>1
      <4> QED
        BY <1>1, <2>1, <4>1, FindsFirst
    <3> QED
      BY <1>1, <3>1
  <2>3. /\ pos' = e /\ line' = line + Cardinality(breaks)
        /\ line_start' = (IF breaks = {} THEN line_start ELSE Max(breaks) + 1)
        /\ col' = IF breaks = {} THEN col + e - pos ELSE e - Max(breaks)
    BY <2>1 DEF ThroughString
  <2>4. \A i : i \in breaks <=> i \in Nat /\ pos <= i /\ i < e /\ i < buflen /\ Char(i) = "nl"
    <3>1. \A i : i \in breaks <=> i \in pos + 1 .. buflen - 1 /\ Char(i) = "nl" /\ i < e
      BY DEF Find
    <3>2. \A i \in Nat : i \in pos + 1 .. buflen - 1 <=> pos <= i /\ i # pos /\ i < buflen
      BY <1>1
    <3>3. \A i \in pos + 1 .. buflen - 1 : i \in Nat
      BY <1>1
    <3> QED
      BY <2>1, <3>1, <3>2, <3>3
  <2>5. Longest([kind |-> "string", start |-> pos, end |-> e])
    BY DEF Longest
  <2>k. PICK kind : kind = "string"
    OBVIOUS
  <2>6. /\ kind \in Kinds /\ kind # "char" /\ new_token(kind, pos, e) /\ pos <= e
        /\ Longest([kind |-> kind, start |-> pos, end |-> e])
    BY <1>1, <2>1, <2>2, <2>5, <2>k DEF Kinds
  <2>7. /\ Shape' /\ BreaksStay
        /\ \A i \in Nat : pos <= i /\ i < e => (Break(i)' <=> Char(i) = "nl" /\ kind # "char")
    BY <2>1, <2>2, <2>3, <2>6, TokenBreaks
  <2>8. \A i : i \in LineBreaks' <=>
            \/ i \in LineBreaks
            \/ i \in Nat /\ pos <= i /\ i < pos' /\ i < buflen /\ Break(i)'
    <3>1. pos <= pos'
      BY <2>3, <2>6
    <3> QED
      BY <1>1, <1>2, <2>1, <2>7, <3>1, BreaksGrow
  <2>9. \A i : i \in LineBreaks' <=> i \in LineBreaks \/ i \in breaks
    BY <2>3, <2>4, <2>6, <2>7, <2>8
  <2>10. CASE breaks = {}
    <3>1. LineBreaks' = LineBreaks
      BY <2>9, <2>10
    <3>2. Cardinality(breaks) = 0
      BY <2>10, FS_EmptySet
    <3>3. advance(e - pos)
      <4>1. line' = line /\ line_start' = line_start /\ col' = col + e - pos
        BY <2>3, <2>10, <3>2 DEF Where
      <4>2. col \in Nat /\ col + e - pos = col + (e - pos) /\ e = pos + (e - pos)
        BY <1>1, <2>2 DEF Where
      <4> QED
        BY <2>3, <4>1, <4>2 DEF advance
    <3>4. e - pos \in Nat
      BY <1>1, <2>2
    <3> QED
      BY <1>1, <3>1, <3>3, <3>4, SameLine
  <2>11. CASE breaks # {}
    <3>1. /\ breaks \subseteq pos .. pos' /\ pos' \in Nat
      BY <1>1, <2>2, <2>3, <2>4
    <3>2. line_start' = Max(breaks) + 1 /\ col' = pos' - Max(breaks) /\ line' = line + Cardinality(breaks)
      BY <2>3, <2>11
    <3> QED
      BY <1>1, <1>2, <2>9, <2>11, <3>1, <3>2, NewLines
  <2> QED
    BY <2>10, <2>11
<1>11. ASSUME UnterminatedString \/ UnhandledChar
       PROVE  FALSE
  BY <1>11 DEF UnterminatedString, UnhandledChar, line_of
<1> QED
  BY <1>2, <1>3, <1>4, <1>5, <1>6, <1>8, <1>9, <1>10, <1>11 DEF next_token

-----------------------------------------------------------------------------
(* The theorems.                                                           *)

IndInv == LexInv /\ Where /\ InBounds

LEMMA InitInv ==
    ASSUME Init
    PROVE  IndInv
<1>1. tokens = <<>> /\ pos = 0 /\ pc = "next" /\ Len(tokens) = 0 /\ 1 .. Len(tokens) = {}
  BY DEF Init
<1>2. Shape
  BY <1>1 DEF Init, Shape
<1>3. buflen \in Nat
  BY <1>2, SourceType
<1>4. InOrder /\ LongestMatch /\ EofLast /\ InBounds
  BY <1>1 DEF InOrder, LongestMatch, EofLast, InBounds
<1>5. Closed /\ OutsideComments /\ Covered
  <2>1. 0 .. pos - 1 = {}
    BY <1>1
  <2> QED
    BY <1>1, <2>1 DEF Closed, OutsideComments, Begins, Covered
<1>6. Where
  BY <1>3 DEF Init, Where
<1> QED
  BY <1>2, <1>4, <1>5, <1>6 DEF IndInv, LexInv

LEMMA StepInv ==
    ASSUME IndInv, [Next]_vars
    PROVE  IndInv'
<1>1. CASE Next
  <2>1. LexInv /\ Where /\ InBounds /\ Shape /\ pc = "next" /\ next_token
    BY <1>1 DEF IndInv, LexInv, Next
  <2>2. TokenStep \/ BlankStep \/ CommentStep \/ Eof \/ StopStep
    BY <2>1, ScannerSteps
  <2>3. LexInv'
    BY <2>1, <2>2, TokenKeeps, BlankKeeps, CommentKeeps, EofKeeps, StopKeeps
  <2> QED
    BY <2>1, <2>3, WhereStep, BoundsStep DEF IndInv
<1>2. CASE UNCHANGED vars
  <2>1. /\ UNCHANGED <<source, pos, line, col, line_start, tokens, pc>>
        /\ LexInv /\ Where /\ InBounds /\ Shape
    BY <1>2 DEF vars, IndInv, LexInv
  <2>2. buflen' = buflen /\ (\A p : Char(p)' = Char(p)) /\ \A t : Longest(t)' <=> Longest(t)
    BY <2>1, SameText
  <2>3. /\ Shape' /\ InOrder' /\ LongestMatch' /\ OutsideComments'
        /\ \A i : InToken(i)' <=> InToken(i)
        /\ \A i : InComment(i)' <=> InComment(i)
    <3>1. pos' \in Nat /\ pos <= pos' /\ pc' \in {"next", "done", "exit", "abort", "crash"}
      BY <2>1 DEF Shape
    <3> QED
      BY <2>1, <3>1, ListKept
  <2>4. EofLast' /\ Closed' /\ Covered'
    BY <2>1, <2>2, <2>3 DEF LexInv, EofLast, Closed, Covered
  <2>5. Where' /\ InBounds'
    BY <2>1, <2>2, WhereKept DEF InBounds, Bounded
  <2> QED
    BY <2>3, <2>4, <2>5 DEF IndInv, LexInv
<1> QED
  BY <1>1, <1>2

(* The strengthening is an invariant of the lexer.                         *)
THEOREM Invariant == Spec => []IndInv
<1>1. Init => IndInv
  BY InitInv
<1>2. IndInv /\ [Next]_vars => IndInv'
  BY StepInv
<1> QED
  BY <1>1, <1>2, PTL DEF Spec

(* Positions, lines and columns stay within the text, and so do the tokens.*)
THEOREM TypeCorrect == Spec => []TypeOK
<1>1. IndInv => TypeOK
  <2> SUFFICES ASSUME IndInv
               PROVE  TypeOK
    OBVIOUS
  <2>1. /\ Shape /\ InOrder /\ Where /\ InBounds
        /\ buflen \in Nat /\ pos \in Nat
    BY SourceType DEF IndInv, LexInv, Shape
  <2>2. /\ pos \in 0 .. buflen + 2 /\ line \in 1 .. buflen + 1
        /\ col \in 1 .. buflen + 3 /\ line_start \in 0 .. buflen
    BY <2>1 DEF Where
  <2>3. ASSUME NEW k \in 1 .. Len(tokens)
        PROVE  /\ tokens[k].kind \in {"word", "number", "char", "string", "operator", "eof"}
               /\ 0 <= tokens[k].start /\ tokens[k].start <= tokens[k].end
               /\ tokens[k].end
                      <= buflen + (IF tokens[k].kind \in {"char", "eof"} THEN 2 ELSE 0)
    <3>1. tokens[k] \in Token /\ tokens[k].start \in Nat
      BY <2>1, LengthType, TokenFields
    <3>2. tokens[k].kind \in {"word", "number", "char", "string", "operator", "eof"}
      BY <3>1 DEF Token
    <3>3. 0 <= tokens[k].start
      BY <3>1
    <3> QED
      BY <2>1, <3>2, <3>3 DEF InOrder, InBounds, Bounded
  <2> QED
    BY <2>1, <2>2, <2>3 DEF TypeOK, Shape
<1> QED
  BY <1>1, Invariant, PTL

(* The list ends with its only TOK_EOF: what the parsers rely on.          *)
THEOREM EofIsLast == Spec => []EofLast
<1>1. IndInv => EofLast
  BY DEF IndInv, LexInv
<1> QED
  BY <1>1, Invariant, PTL

(* No word, number or operator could have been longer.                     *)
THEOREM TokensAreLongest == Spec => []LongestMatch
<1>1. IndInv => LongestMatch
  BY DEF IndInv, LexInv
<1> QED
  BY <1>1, Invariant, PTL

(* The tokens are the text: none overlap, and what was read and is in none *)
(* of them is blank or a comment.                                          *)
THEOREM TextIsTiled == Spec => []TokensTile
<1>1. IndInv => TokensTile
  <2> SUFFICES ASSUME IndInv
               PROVE  TokensTile
    OBVIOUS
  <2>1. /\ Shape /\ InOrder /\ OutsideComments /\ Covered
        /\ buflen \in Nat /\ pos \in Nat /\ Len(tokens) \in Nat
    BY SourceType, LengthType DEF IndInv, LexInv, Shape
  <2>2. \A k \in 1 .. Len(tokens) - 1 : tokens[k].end <= tokens[k + 1].start
    <3> SUFFICES ASSUME NEW k \in 1 .. Len(tokens) - 1
                 PROVE  tokens[k].end <= tokens[k + 1].start
      OBVIOUS
    <3>1. k \in 1 .. Len(tokens) /\ k < Len(tokens)
      BY <2>1
    <3> QED
      BY <2>1, <3>1 DEF InOrder
  <2>3. \A k \in 1 .. Len(tokens) : tokens[k].end <= pos
    BY <2>1 DEF InOrder
  <2>4. \A k \in 1 .. Len(tokens) : tokens[k].kind # "eof" => ~InComment(tokens[k].start)
    <3> SUFFICES ASSUME NEW k \in 1 .. Len(tokens), tokens[k].kind # "eof"
                 PROVE  ~InComment(tokens[k].start)
      OBVIOUS
    <3>1. tokens[k].start \in Nat
      BY <2>1, LengthType, TokenFields
    <3>2. Begins(tokens[k].start)
      BY DEF Begins
    <3> QED
      BY <2>1, <3>1, <3>2 DEF OutsideComments
  <2>5. ASSUME pc \in {"next", "done"}, NEW i \in 0 .. Min({pos, buflen}) - 1
        PROVE  InToken(i) \/ InComment(i) \/ Char(i) \in {"sp", "tab", "nl", "cr"}
    <3> DEFINE m == Min({pos, buflen})
    <3>1. m \in Nat /\ m <= pos /\ m <= buflen
      <4>1. {pos, buflen} \subseteq Nat
        BY <2>1
      <4>2. m \in {pos, buflen} /\ \A y \in {pos, buflen} : m <= y
        BY <4>1, MinIsLeast
      <4> QED
        BY <4>1, <4>2
    <3> HIDE DEF m
    <3>2. i \in 0 .. m - 1
      BY <2>5 DEF m
    <3>3. i \in Nat /\ i < pos /\ i < buflen
      BY <2>1, <3>1, <3>2
    <3> QED
      BY <2>1, <2>5, <3>3 DEF Covered, Blanks
  <2> QED
    BY <2>2, <2>3, <2>4, <2>5 DEF TokensTile
<1> QED
  BY <1>1, Invariant, PTL

(* line, line_start and col are those of the position: what a diagnostic   *)
(* names is where it is, also behind strings of several lines, comments    *)
(* and char literals with an end of a line in them.                        *)
THEOREM LocationIsExact == Spec => []LocationExact
<1>1. Init => LocationExact
  <2> SUFFICES ASSUME Init
               PROVE  Located
    BY DEF LocationExact, Located
  <2>1. pos = 0 /\ line = 1 /\ col = 1 /\ line_start = 0
    BY DEF Init
  <2>2. Shape
    BY InitInv DEF IndInv, LexInv
  <2>3. \A i : i \notin LineBreaks
    BY <2>1, <2>2, BreaksAre
  <2>4. LineBreaks = {}
    BY <2>3
  <2> QED
    BY <2>1, <2>4, FS_EmptySet DEF Located
<1>2. LocationExact /\ IndInv /\ [Next]_vars => LocationExact'
  <2> SUFFICES ASSUME LocationExact, IndInv, [Next]_vars, pc' = "next"
               PROVE  Located'
    BY DEF LocationExact, Located
  <2>1. CASE Next
    <3>1. pc = "next" /\ next_token /\ Located /\ LexInv /\ Where
      BY <2>1 DEF Next, LocationExact, Located, IndInv
    <3> QED
      BY <3>1, LocationStep
  <2>2. CASE UNCHANGED vars
    <3>1. Located
      BY <2>2 DEF vars, LocationExact, Located
    <3>2. UNCHANGED <<source, pos, line, col, line_start, tokens, pc>>
      BY <2>2 DEF vars
    <3>3. LineBreaks' = LineBreaks
      BY <3>2 DEF LineBreaks, Char, buflen, InToken, InComment
    <3> QED
      BY <3>1, <3>2, <3>3 DEF Located
  <2> QED
    BY <2>1, <2>2
<1> QED
  BY <1>1, <1>2, Invariant, PTL DEF Spec
=============================================================================
