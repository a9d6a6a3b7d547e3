---------------------------- MODULE MCStatements -----------------------------
(* Small statements for Statements, nested in each other. *)
EXTENDS Statements

id == <<"TOK_IDENTIFIER">>
num == <<"TOK_NUMBER_LITERAL">>
semi == <<"TOK_SEMICOLON">>
eq == <<"TOK_EQUAL">>
star == <<"TOK_ASTERISK">>
period == <<"TOK_PERIOD">>
int == <<"TOK_INT">>
const == <<"TOK_CONST">>
Paren(e) == <<"TOK_LPAREN">> \o e \o <<"TOK_RPAREN">>
Index(e) == <<"TOK_LBRACKET">> \o e \o <<"TOK_RBRACKET">>
Braces(s) == <<"TOK_LBRACE">> \o s \o <<"TOK_RBRACE">>
If(s) == <<"TOK_IF">> \o Paren(num) \o s
IfElse(s, t) == If(s) \o <<"TOK_ELSE">> \o t
While(s) == <<"TOK_WHILE">> \o Paren(num) \o s

(* Declarations, expressions, and what may be either until its end. *)
Simple ==
    {num \o semi, semi, id \o semi, id \o Paren(num) \o semi,
     <<"TOK_RETURN">> \o num \o semi, <<"TOK_RETURN">> \o semi, Braces(<<>>),
     id \o id \o eq \o num \o semi,
     id \o star \o id \o semi, id \o star \o num \o semi,
     id \o star \o star \o id \o semi, id \o star \o id \o star \o num \o semi,
     id \o period \o id \o id \o Index(num) \o Index(<<>>) \o Index(num)
        \o eq \o num \o semi,
     id \o period \o id \o eq \o num \o semi,
     int \o id \o Index(num) \o eq \o num \o semi,
     const \o id \o eq \o num \o semi, const \o id \o star \o id \o semi,
     <<"TOK_LET">> \o id \o eq \o num \o <<"TOK_MINUS">> \o num \o semi,
     <<"TOK_STATIC">> \o int \o id \o semi}

(* Refused, unterminated or endless ones. *)
Broken ==
    {<<>>, num, id \o id, int \o id, <<"TOK_RETURN">> \o num, <<"TOK_ELSE">> \o semi,
     <<"TOK_IF">> \o num, <<"TOK_WHILE">> \o <<"TOK_LPAREN">> \o num, <<"TOK_FOR">>,
     <<"TOK_SWITCH">> \o Paren(id), id \o period \o star \o id \o semi,
     const \o id \o star \o semi, <<"TOK_STATIC">> \o id \o num \o semi,
     id \o <<"TOK_LPAREN">>, id \o id \o id \o semi, star \o id \o semi}

Few == {num \o semi, semi, id \o id \o semi, <<"TOK_FOR">>}

Level(S) ==
    {If(s) : s \in S} \cup {While(s) : s \in S} \cup {Braces(s \o t) : s, t \in S}
        \cup {IfElse(s, t) : s, t \in S}

(* Every pair of statements in a block, an if and a while... *)
Pairs == Level(Simple) \cup {Braces(s \o t) : s \in Simple, t \in Broken}
         \cup {IfElse(s, t) : s \in Few, t \in Broken}
         \cup {While(s) : s \in Broken}

(* ... and ifs with and without else up to three deep. *)
Shallow == Few \cup Level(Few)
Deep == {If(s) : s \in Level(Shallow)} \cup Level(Level(Few \ {semi}))
        \cup {IfElse(If(If(s)), t) : s, t \in Few}

(* The block of test/var_decl.c12, and each text it may be cut off to. *)
var_decl_c12 ==
    Braces(id \o id \o eq \o num \o semi
           \o <<"TOK_U32">> \o id \o eq \o <<"TOK_STRING_LITERAL">> \o semi
           \o <<"TOK_LET">> \o id \o eq \o num \o semi
           \o <<"TOK_IF">> \o Paren(<<"TOK_TRUE">>) \o Braces(id \o semi)
           \o <<"TOK_ELSE">>
           \o Braces(num \o semi
                     \o id \o Paren(<<"TOK_STRING_LITERAL", "TOK_COMMA">> \o num) \o semi)
           \o <<"TOK_WHILE">> \o Paren(<<"TOK_TRUE">>)
           \o Braces(id \o Paren(<<"TOK_STRING_LITERAL">>) \o semi)
           \o id \o Paren(num) \o semi)

Cut == {SubSeq(var_decl_c12, 1, k) : k \in 1 .. Len(var_decl_c12)}

MCInputs == {Append(s, "TOK_EOF") : s \in Simple \cup Broken \cup Pairs \cup Deep \cup Cut}
=============================================================================
