---------------------------- MODULE MCExprParser ----------------------------
(* Small sets of token sequences for ExprParser. *)
EXTENDS ExprParser

Words(alphabet, n) == UNION {[1 .. k -> alphabet] : k \in 0 .. n}

Ended(S) == {Append(s, "TOK_EOF") : s \in S}

Alphabet ==
    {"TOK_IDENTIFIER", "TOK_NUMBER_LITERAL", "TOK_MINUS", "TOK_ASTERISK",
     "TOK_EQUAL", "TOK_LPAREN", "TOK_RPAREN", "TOK_LBRACKET", "TOK_RBRACKET",
     "TOK_COMMA", "TOK_PERIOD", "TOK_SEMICOLON"}

(* Every text of at most three tokens, most of them malformed. *)
ShortTexts == Words(Alphabet, 3)

Operators ==
    {"TOK_EQUAL", "TOK_PIPE_PIPE", "TOK_LESS_THAN", "TOK_MINUS", "TOK_ASTERISK"}

(* `a op b op c op d op e`, the operators from five levels. *)
Chain(ops) ==
    <<"TOK_IDENTIFIER">>
        \o FlattenSeq([i \in 1 .. Len(ops) |-> <<ops[i], "TOK_IDENTIFIER">>])

Chains == {Chain(ops) : ops \in [1 .. 4 -> Operators]}

a == <<"TOK_IDENTIFIER">>
LParen == <<"TOK_LPAREN">>
RParen == <<"TOK_RPAREN">>
Comma == <<"TOK_COMMA">>

(* Small expressions, the empty one and broken ones included... *)
Pieces ==
    {<<>>, a, <<"TOK_NUMBER_LITERAL">>, <<"TOK_BANG">> \o a, <<"TOK_PERIOD">> \o a,
     a \o <<"TOK_PERIOD">> \o a, LParen \o a \o RParen, a \o LParen \o RParen,
     a \o <<"TOK_LBRACKET", "TOK_NULL", "TOK_RBRACKET">>,
     a \o <<"TOK_MINUS">> \o a, a \o <<"TOK_PLUS_EQ">> \o a, a \o <<"TOK_PERIOD">>}

(* ... and each of them at each place of a larger one. *)
Nested ==
    UNION {{a \o LParen \o e \o Comma \o f \o RParen,
            LParen \o e \o RParen \o <<"TOK_ASTERISK">> \o f,
            a \o <<"TOK_LBRACKET">> \o e \o <<"TOK_RBRACKET", "TOK_PERIOD">> \o f,
            <<"TOK_MINUS">> \o e \o <<"TOK_EQUAL_EQ">> \o f} : e, f \in Pieces}

MCInputs == Ended(ShortTexts \cup Chains \cup Nested)
=============================================================================
