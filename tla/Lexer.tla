------------------------------- MODULE Lexer --------------------------------
(***************************************************************************)
(* The lexer (lexer.cpp, lexer.h): Lexer::create calls next_token until it *)
(* returns TOK_EOF.  A character is itself or, for "sp", "tab", "nl", "cr" *)
(* and "dq", its name; "a" and "0" stand for all letters and digits, and   *)
(* anything else for the characters that start no token.  A token is its   *)
(* kind and the piece of the source it was read from; which keyword a word *)
(* is, is left out.  A scanning loop is one step, up to where it stops.    *)
(***************************************************************************)
EXTENDS Integers, Sequences, FiniteSetsExt

CONSTANT
    Sources     \* the contents of a file, up to the first null character

ASSUME SourcesAssumption == \A s \in Sources : s \in Seq(STRING \ {"NUL"})

VARIABLES
    source, pos, line, col, line_start,
    tokens,
    pc          \* "next", or how lexing has ended

vars == <<source, pos, line, col, line_start, tokens, pc>>

buflen == Len(source)

(* source[p]; read_file ends the buffer with a null character.             *)
Char(p) == IF p < buflen THEN source[p + 1] ELSE "NUL"

Operators1 ==
    {"=", "+", "-", "*", "/", "%", ":", ".", "~", "^", "&", "<", ">", "|", "!",
     ";", ",", "$", "@", "?", "{", "}", "[", "]", "(", ")"}

Operators2 ==
    {<<c, "=">> : c \in {"=", "+", "-", "*", "/", "%", ":", "~", "^", "&", "<",
                         ">", "|", "!"}}
        \cup {<<c, c>> : c \in {"+", "-", ":", ".", "&", "<", ">", "|"}}

Operators3 == {<<".", ".", ".">>, <<"<", "<", "=">>, <<">", ">", "=">>}

(* The second character is matched before the third is looked at.          *)
OperatorLength_slip(p) ==
    IF <<Char(p), Char(p + 1)>> \in Operators2 THEN 2
    ELSE IF <<Char(p), Char(p + 1), Char(p + 2)>> \in Operators3 THEN 3 ELSE 1

(* One character too many is consumed.                                     *)
OperatorLength_long_slip(p) ==
    IF <<Char(p), Char(p + 1)>> \notin Operators2 THEN 1 ELSE 3

(* The inner switch of each operator looks one character ahead, and two    *)
(* where there is an operator of three.                                    *)
OperatorLength(p) ==
    IF <<Char(p), Char(p + 1)>> \notin Operators2 THEN 1
    ELSE IF <<Char(p), Char(p + 1), Char(p + 2)>> \in Operators3 THEN 3 ELSE 2

(* Where a loop that starts at p and goes on over these characters stops.  *)
EndOf(p, over) == Min({q \in p .. buflen : Char(q) \notin over})

(* Where the first of these characters from p on is, if it is anywhere.    *)
Find(p, chars) == {q \in p .. buflen - 1 : Char(q) \in chars}

WordChars == {"a", "0", "_"}

(* The characters next_token has a case for.                               *)
Handled ==
    Operators1 \cup WordChars \cup {"sp", "tab", "nl", "cr", "'", "dq", "NUL"}

-----------------------------------------------------------------------------

(* nextChar and advance: n characters on the same line.                    *)
advance(n) ==
    /\ pos' = pos + n
    /\ col' = col + n
    /\ UNCHANGED <<line, line_start>>

advance_to_nl_slip(p, lines) ==
    /\ pos' = p + 1
    /\ col' = 1
    /\ line_start' = p
    /\ line' = line + lines

(* The last of some ends of lines is at p.                                 *)
advance_to_nl(p, lines) ==
    /\ pos' = p + 1
    /\ col' = 1
    /\ line_start' = p + 1
    /\ line' = line + lines

new_token(kind, start, end) ==
    tokens' = Append(tokens, [kind |-> kind, start |-> start, end |-> end])

Continue == pc' = "next" /\ UNCHANGED source

Eof_slip ==
    /\ Char(pos) = "NUL"
    /\ pc' = "done"
    /\ UNCHANGED <<source, pos, line, col, line_start, tokens>>

(* The end of the buffer, the null character or anything behind it.        *)
Eof ==
    /\ Char(pos) = "NUL"
    /\ new_token("eof", pos, pos)
    /\ pc' = "done"
    /\ UNCHANGED <<source, pos, line, col, line_start>>

skip_whitespace_slip ==
    /\ Char(pos) \in {"sp", "tab"}
    /\ advance(EndOf(pos, {"sp"}) - pos)
    /\ Continue /\ UNCHANGED tokens

skip_whitespace ==
    /\ Char(pos) \in {"sp", "tab"}
    /\ advance(EndOf(pos, {"sp", "tab"}) - pos)
    /\ Continue /\ UNCHANGED tokens

NewLine ==
    /\ Char(pos) \in {"nl", "cr"}
    /\ advance_to_nl(pos, 1)
    /\ Continue /\ UNCHANGED tokens

skip_comment_line ==
    /\ Char(pos) = "/" /\ Char(pos + 1) = "/"
    /\ LET ends == Find(pos + 2, {"nl"})
       IN  IF ends # {} THEN advance_to_nl(Min(ends), 1)
                        ELSE advance(buflen - pos)
    /\ Continue /\ UNCHANGED tokens

identifier ==
    /\ Char(pos) \in WordChars \ {"0"}
    /\ LET end == EndOf(pos + 1, WordChars)
       IN  new_token("word", pos, end) /\ advance(end - pos)
    /\ Continue

number_literal ==
    /\ Char(pos) = "0"
    /\ LET end == EndOf(pos, {"0"})
       IN  new_token("number", pos, end) /\ advance(end - pos)
    /\ Continue

(* The next quote ends it, whatever is between; the ends of lines in it    *)
(* are not counted.                                                        *)
char_literal ==
    /\ Char(pos) = "'"
    /\ LET quotes == Find(pos + 1, {"'"})
           end == Min(quotes) + 1
       IN  quotes # {} /\ new_token("char", pos, end) /\ advance(end - pos)
    /\ Continue

(* Without one the loop reads on behind the buffer: it meets a quote there *)
(* (one place stands for all), or memory that cannot be read.              *)
UnterminatedChar ==
    /\ Char(pos) = "'" /\ Find(pos + 1, {"'"}) = {}
    /\ \/ /\ new_token("char", pos, buflen + 2)
          /\ advance(buflen + 2 - pos)
          /\ Continue
       \/ pc' = "crash" /\ UNCHANGED <<source, pos, line, col, line_start, tokens>>

(* To position p, counting the ends of lines on the way.                   *)
ThroughString(p) ==
    LET breaks == {q \in Find(pos + 1, {"nl"}) : q < p}
    IN  /\ pos' = p
        /\ line' = line + Cardinality(breaks)
        /\ line_start' = IF breaks = {} THEN line_start ELSE Max(breaks) + 1
        /\ col' = IF breaks = {} THEN col + p - pos ELSE p - Max(breaks)

(* The token ends before its quote.                                        *)
string_literal_slip ==
    /\ Char(pos) = "dq"
    /\ LET quotes == Find(pos + 1, {"dq"})
           end == Min(quotes)
       IN  quotes # {} /\ new_token("string", pos, end) /\ ThroughString(end + 1)
    /\ Continue

string_literal ==
    /\ Char(pos) = "dq"
    /\ LET quotes == Find(pos + 1, {"dq"})
           end == Min(quotes) + 1
       IN  quotes # {} /\ new_token("string", pos, end) /\ ThroughString(end)
    /\ Continue

(* line_of, which prints the line: assert(line_start < self.buflen).       *)
line_of == pc' = IF line_start' < buflen THEN "exit" ELSE "abort"

UnterminatedString ==
    /\ Char(pos) = "dq" /\ Find(pos + 1, {"dq"}) = {}
    /\ ThroughString(buflen)
    /\ line_of
    /\ UNCHANGED <<source, tokens>>

Operator ==
    /\ Char(pos) \in Operators1
    /\ ~(Char(pos) = "/" /\ Char(pos + 1) = "/")
    /\ new_token("operator", pos, pos + OperatorLength(pos))
    /\ advance(OperatorLength(pos))
    /\ Continue

UnhandledChar ==
    /\ Char(pos) \notin Handled
    /\ UNCHANGED <<source, pos, line, col, line_start, tokens>>
    /\ line_of

-----------------------------------------------------------------------------

Init ==
    /\ source \in Sources
    /\ pos = 0 /\ line = 1 /\ col = 1 /\ line_start = 0
    /\ tokens = <<>>
    /\ pc = "next"

next_token ==
    \/ Eof \/ skip_whitespace \/ NewLine \/ skip_comment_line
    \/ identifier \/ number_literal
    \/ char_literal \/ UnterminatedChar
    \/ string_literal \/ UnterminatedString
    \/ Operator \/ UnhandledChar

Next == pc = "next" /\ next_token

Spec == Init /\ [][Next]_vars

(* The program is sequential: nothing else runs.                           *)
FairSpec == Spec /\ WF_vars(Next)

-----------------------------------------------------------------------------

(* The type invariant: a token is a piece of the source, but for one of a  *)
(* char literal that does not end, which reaches behind it.                *)
TypeOK ==
    /\ source \in Sources
    /\ pos \in 0 .. buflen + 2 /\ line \in 1 .. buflen + 1
    /\ col \in 1 .. buflen + 3 /\ line_start \in 0 .. buflen
    /\ pc \in {"next", "done", "exit", "abort", "crash"}
    /\ \A k \in 1 .. Len(tokens) :
           LET t == tokens[k]
           IN  /\ t.kind \in {"word", "number", "char", "string", "operator", "eof"}
               /\ 0 <= t.start /\ t.start <= t.end
               /\ t.end <= buflen + (IF t.kind \in {"char", "eof"} THEN 2 ELSE 0)

InToken(i) == \E k \in 1 .. Len(tokens) : tokens[k].start <= i /\ i < tokens[k].end

(* Is character i in a comment: behind two slashes that are in no token,   *)
(* on the same line?                                                       *)
InComment(i) ==
    \E j \in 0 .. i :
        /\ Char(j) = "/" /\ Char(j + 1) = "/"
        /\ ~InToken(j) /\ ~InToken(j + 1)
        /\ \A k \in j .. i : Char(k) # "nl"

(* The tokens are the text: they stand in its order and do not overlap,    *)
(* what was read and is in none of them is blank or a comment, and none    *)
(* begins in a comment.                                                    *)
TokensTile ==
    /\ \A k \in 1 .. Len(tokens) - 1 : tokens[k].end <= tokens[k + 1].start
    /\ \A k \in 1 .. Len(tokens) :
           /\ tokens[k].end <= pos
           /\ tokens[k].kind # "eof" => ~InComment(tokens[k].start)
    /\ pc \in {"next", "done"} => \A i \in 0 .. Min({pos, buflen}) - 1 :
           InToken(i) \/ InComment(i) \/ Char(i) \in {"sp", "tab", "nl", "cr"}

(* No token could have been longer: no word or number stops before one of  *)
(* its characters, and no operator is the beginning of a longer operator   *)
(* that the text goes on with.                                             *)
LongestMatch ==
    \A k \in 1 .. Len(tokens) :
        LET t == tokens[k]
        IN  /\ t.kind = "word" => Char(t.end) \notin WordChars
            /\ t.kind = "number" => Char(t.end) # "0"
            /\ t.kind = "operator" =>
                   \A op \in Operators2 \cup Operators3 :
                       Len(op) > t.end - t.start =>
                           \E n \in 1 .. Len(op) : op[n] # Char(t.start + n - 1)

(* What the parsers assume of their tokens: TOK_EOF is the last one, and   *)
(* no other is TOK_EOF; also when the lexer has read behind the buffer.    *)
EofLast ==
    /\ \A k \in 1 .. Len(tokens) :
           tokens[k].kind = "eof" => pc = "done" /\ k = Len(tokens)
    /\ pc = "done" => tokens # <<>> /\ tokens[Len(tokens)].kind = "eof"

(* The ends of lines before pos: each "\n" but in a char literal, and each *)
(* "\r" that is in no token and in no comment.                             *)
LineBreaks ==
    {i \in 0 .. Min({pos, buflen}) - 1 :
        \/ /\ Char(i) = "nl"
           /\ \A k \in 1 .. Len(tokens) :
                  tokens[k].start <= i /\ i < tokens[k].end => tokens[k].kind # "char"
        \/ Char(i) = "cr" /\ ~InToken(i) /\ ~InComment(i)}

(* Where the lexer says it is, is where it is: line and line_start, which  *)
(* every token takes as its location and every diagnostic quotes, and col. *)
LocationExact ==
    pc = "next" =>
        /\ line = 1 + Cardinality(LineBreaks)
        /\ line_start = (IF LineBreaks = {} THEN 0 ELSE Max(LineBreaks) + 1)
        /\ col = pos - line_start + 1

(* Lexing ends on every text.                                              *)
LexerStops == <>(pc # "next")

(* "assert(line_start < self.buflen)" (lexer.cpp 50): the line that a      *)
(* diagnostic prints begins in the buffer.                                 *)
LineOfAsserts == pc # "abort"
=============================================================================
