----------------------------- MODULE MCFrontEnd -----------------------------
(* Small source texts of structs for FrontEnd. *)
EXTENDS FrontEnd

id == <<"TOK_IDENTIFIER">>
semi == <<"TOK_SEMICOLON">>
int == <<"TOK_INT">>
num == <<"TOK_NUMBER_LITERAL">>
eq == <<"TOK_EQUAL">>
star == <<"TOK_ASTERISK">>
long == <<"TOK_LONG">>
period == <<"TOK_PERIOD">>
pair == <<"TOK_LBRACKET", "TOK_RBRACKET">>
Index(e) == <<"TOK_LBRACKET">> \o e \o <<"TOK_RBRACKET">>

(* Declarations, good ones... *)
GoodDecls ==
    {int \o id, id \o id, id \o period \o id \o star \o id,
     <<"TOK_CONST", "TOK_STATIC">> \o int \o star \o star \o id \o pair \o Index(num),
     <<"TOK_UNSIGNED", "TOK_CHAR">> \o id \o Index(id \o Index(num)) \o eq \o num,
     <<"TOK_LET">> \o id \o eq \o num, <<"TOK_CONST">> \o id \o eq \o <<"TOK_MINUS">> \o num,
     <<"TOK_VOID">> \o star \o id \o eq, long \o long \o id, long \o id,
     id \o <<"TOK_COLON_COLON">> \o id \o id \o pair \o pair \o eq
        \o id \o <<"TOK_LPAREN">> \o num \o <<"TOK_RPAREN">>,
     star \o id}

(* ... and refused or endless ones. *)
BadDecls ==
    {<<"TOK_CONST">> \o id, <<"TOK_LET">> \o id, id \o period \o star,
     int \o id \o Index(<<>>) \o <<"TOK_LBRACKET">> \o num, int \o num,
     <<"TOK_STATIC", "TOK_CONST">> \o int \o id,
     id \o id \o eq \o id \o <<"TOK_LPAREN">>}

(* Qualified pointers, types of several words, lengths that are missing.   *)
MoreDecls ==
    LET static == <<"TOK_STATIC">>
        const == <<"TOK_CONST">>
    IN  {const \o t \o star \o id : t \in {<<>>, long, id, id \o period \o id, static \o int}}
            \cup {static \o long \o int \o star \o star \o id \o Index(num),
                  const \o static \o id \o star \o id, static \o star \o id,
                  <<"TOK_UNSIGNED">> \o long \o long \o int \o id}
            \cup {const \o int \o star \o id \o Index(e) \o Index(num) :
                  e \in {id \o period, id \o period \o <<"TOK_PLUS">> \o num, period \o id}}
            \cup {int \o id \o Index(num) \o Index(id \o period), int \o id \o Index(eq)}

Body(fields) == <<"TOK_LBRACE">> \o fields \o <<"TOK_RBRACE">>
Struct(name, fields) == <<"TOK_STRUCT">> \o name \o Body(fields)
Field(d) == d \o semi

F == Field(int \o id)
Names == {<<>>, id}

Flat ==
    {Struct(id, Field(d) \o Field(e)) : d \in GoodDecls, e \in GoodDecls \cup BadDecls}
        \cup {Struct(id, Field(d) \o F) : d \in MoreDecls}
        \cup {Struct(n, <<>>) \o m : n \in Names, m \in {<<>>, F, Struct(id, F), semi}}
        \cup {<<"TOK_STRUCT">> \o n \o m : n \in Names, m \in {<<>>, id, semi}}

(* What may stand behind a nested struct. *)
After == {<<>>, id \o semi, id \o eq \o num \o semi, semi, id, F}

Nested1(kw) ==
    {Struct(n, f \o <<kw>> \o m \o Body(g) \o a) :
        n, m \in Names, f, g \in {<<>>, F}, a \in After}

Nested2 ==
    {Struct(n, Struct(m, f \o Struct(k, F) \o a) \o b) :
        n, m, k \in Names, f \in {<<>>, F}, a, b \in After}

Whole == {<<>>, semi, int} \cup Flat \cup Nested1("TOK_STRUCT") \cup Nested2
         \cup {Struct(id, <<"TOK_UNION">> \o m \o Body(F)) : m \in Names}

(* A text that ends too early. *)
Cut ==
    UNION {{SubSeq(s, 1, k) : k \in 0 .. Len(s)} :
        s \in {Struct(id, F \o Struct(id, F \o Struct(id, F)) \o id \o semi \o F),
               Struct(id, Field(<<"TOK_CONST">> \o id \o star \o id \o Index(num) \o eq \o num))}}

MCInputs == {Append(s, "TOK_EOF") : s \in Whole \cup Cut}
=============================================================================
