------------------------------ MODULE MCLexer -------------------------------
(* Small texts for Lexer: every text of three characters and every longer  *)
(* one of a few.                                                           *)
EXTENDS Lexer

Texts(alphabet, n) == UNION {[1 .. k -> alphabet] : k \in 0 .. n}

Mixed ==
    {"a", "0", "sp", "tab", "nl", "cr", "'", "dq", "/", "=", "<", ".", "-", ";", "#"}

Words == {"a", "0", "sp", "-", "="}

Lines == {"a", "nl", "cr", "/", "dq", "'"}

Symbols == {"<", ">", "=", ".", "/"}

MCSources == Texts(Mixed, 3) \cup Texts(Words, 4) \cup Texts(Lines, 5) \cup Texts(Symbols, 5)
=============================================================================
