------------------------------- MODULE Strings -------------------------------
(***************************************************************************)
(* String (cortex.h 909-1120) on string_allocator, the C heap: a pointer   *)
(* to a block, the length of the text and the capacity of the block.  A    *)
(* variable that is not constructed yet, was destroyed or moved from has   *)
(* the null pointer.                                                       *)
(*                                                                         *)
(* What a call does is computed on a record of the heap and the String it  *)
(* is made on, in the order of the code: destroy, then grow, then write.   *)
(***************************************************************************)
EXTENDS Integers, SequencesExt

CONSTANTS
    Strs,       \* the variables of type String
    Chars,
    NUL,        \* '\0'
    Untouched,  \* what lies behind a block as long as nobody writes there
    Literals,   \* the const char* and CortexStr that calls are made with
    GrowBy,     \* the 8 of `better_capacity * 5 / 2 + 8`
    MaxLen,     \* bound on the length of a text
    MaxBlocks   \* bound on the number of blocks, leaked ones included

ASSUME StringsAssumption ==
    /\ NUL \notin Chars
    /\ Literals \subseteq Seq(Chars)
    /\ GrowBy \in Nat \ {0}
    /\ MaxLen \in Nat /\ MaxBlocks \in Nat

VARIABLES
    heap,   \* the allocated blocks, by their address
    strs,   \* the Strings
    call    \* the call made last, of no importance to the code

vars == <<heap, strs, call>>

NULL == 0

Null == [ptr |-> NULL, len |-> 0, capacity |-> 0]

On(h, str) == [heap |-> h, str |-> str]

-----------------------------------------------------------------------------
(* CAllocator (cortex.h 186-195).                                          *)

NewPtr(h) == CHOOSE p \in 1 .. Cardinality(DOMAIN h) + 1 : p \notin DOMAIN h

(* A block of memory is zeroed. *)
Zeroed(size) == [bytes |-> [n \in 1 .. size |-> NUL], behind |-> Untouched]

alloc(h, ptr, size) ==
    [p \in DOMAIN h \cup {ptr} |-> IF p = ptr THEN Zeroed(size) ELSE h[p]]

dealloc(h, ptr) == [p \in DOMAIN h \ {ptr} |-> h[p]]

-----------------------------------------------------------------------------
(* The parts of the calls.                                                 *)

(* The smallest capacity above c that the growth leads to and that is enough. *)
Better(c) == (c * 5) \div 2 + GrowBy

Grown(c, new_capacity) ==
    LET grow[x \in Nat] ==
            IF Better(x) < new_capacity THEN grow[Better(x)] ELSE Better(x)
    IN  grow[c]

(* The bytes of the string, from the first on, as they are in its block. *)
TextAt(h, str) == SubSeq(h[str.ptr].bytes, 1, str.len)

(* A block with an empty text in it is forgotten, not freed.               *)
ensure_capacity(m, new_capacity) ==
    LET better == Grown(m.str.capacity, new_capacity)
        tmp == NewPtr(m.heap)
        grown == [ptr |-> tmp, len |-> m.str.len, capacity |-> better]
        empty == alloc(m.heap, tmp, better)
        filled == [empty EXCEPT ![tmp].bytes =
                       [n \in 1 .. better |-> IF n <= m.str.len
                                              THEN m.heap[m.str.ptr].bytes[n] ELSE NUL]]
    IN  CASE m.str.capacity >= new_capacity -> m
          [] m.str.capacity < new_capacity /\ m.str.len = 0 -> On(empty, grown)
          [] OTHER -> On(dealloc(filled, m.str.ptr), grown)

enough_space_for(str, n) == str.capacity - str.len >= n

(* Bytes at ptr[len]; what lies behind the block is one byte here, the     *)
(* only one that is ever reached.                                          *)
Overwritten(block, capacity, len, bytes) ==
    [bytes |-> [n \in 1 .. capacity |-> IF n - len \in DOMAIN bytes
                                        THEN bytes[n - len] ELSE block.bytes[n]],
     behind |-> IF capacity + 1 - len \in DOMAIN bytes
                THEN bytes[capacity + 1 - len] ELSE block.behind]

(* The bytes, and the new length.                                          *)
Write(m, bytes, len) ==
    On(IF bytes = <<>> THEN m.heap
       ELSE [m.heap EXCEPT ![m.str.ptr] =
                 Overwritten(@, m.str.capacity, m.str.len, bytes)],
       [m.str EXCEPT !.len = len])

Room(m, needed, asked) ==
    IF enough_space_for(m.str, needed) THEN m ELSE ensure_capacity(m, asked)

append_chars(m, x) ==
    LET n == Len(x)
    IN  Write(Room(m, n + 1, m.str.len + n + 1), x \o <<NUL>>, m.str.len + n)

(* append(String&) asks for one byte less and writes no terminator.        *)
append_string(m, x) ==
    LET n == Len(x)
    IN  Write(Room(m, n, m.str.len + n + 1), x, m.str.len + n)

(* append(char) asks for less than it looks for: at capacity - 1 it stays. *)
append_char(m, c) ==
    Write(Room(m, 2, m.str.len + 1), <<c, NUL>>, m.str.len + 1)

destroyed(m) ==
    On(IF m.str.ptr = NULL THEN m.heap ELSE dealloc(m.heap, m.str.ptr), Null)

TextOf(s) == IF strs[s].ptr = NULL THEN <<>> ELSE TextAt(heap, strs[s])

-----------------------------------------------------------------------------
(* The calls.  The bounds are part of each.                                *)

This(s) == On(heap, strs[s])

Done(s, m, op, arg) ==
    /\ m.str.len <= MaxLen
    /\ DOMAIN m.heap \subseteq 1 .. MaxBlocks
    /\ heap' = m.heap
    /\ strs' = [strs EXCEPT ![s] = m.str]
    /\ call' = <<op, s, arg>>

(* append(const char*, n), which the others but one come down to, and the  *)
(* constructors that call it.                                              *)
AppendChars(s, x) == Done(s, append_chars(This(s), x), "append", x)

AppendChar(s, c) == Done(s, append_char(This(s), c), "append", <<c>>)

AppendString(s, t) == Done(s, append_string(This(s), TextOf(t)), "append_string", t)

Copy_slip(s, t) ==
    /\ s # t
    /\ Done(s, append_chars(This(s), TextOf(t)), "copy", t)

(* The copy constructor and, over an older text, the assignment.           *)
Copy(s, t) ==
    /\ s # t
    /\ Done(s, append_chars(destroyed(This(s)), TextOf(t)), "copy", t)

Move_slip(s, t) ==
    /\ strs[s] = Null /\ s # t
    /\ strs' = [strs EXCEPT ![s] = strs[t], ![t].len = 0]
    /\ call' = <<"move", s, t>>
    /\ UNCHANGED heap

(* The move constructor and toOwner.                                       *)
Move(s, t) ==
    /\ strs[s] = Null /\ s # t
    /\ strs' = [strs EXCEPT ![s] = strs[t], ![t] = Null]
    /\ call' = <<"move", s, t>>
    /\ UNCHANGED heap

(* operator+ of a const char*: a clone and an append.                      *)
Concat(s, t, x) ==
    /\ strs[s] = Null
    /\ Done(s, append_chars(append_chars(On(heap, Null), TextOf(t)), x), "concat", <<t, x>>)

(* operator+ of a String.                                                  *)
ConcatString(s, t, u) ==
    /\ strs[s] = Null
    /\ Done(s, append_string(append_chars(On(heap, Null), TextOf(t)), TextOf(u)),
            "concat", <<t, TextOf(u)>>)

destroy(s) == Done(s, destroyed(This(s)), "clear", s)

reset_slip(s) == Done(s, On(heap, [strs[s] EXCEPT !.len = 0]), "clear", s)

reset(s) ==
    LET ptr == strs[s].ptr
        cleared == IF ptr = NULL THEN heap
                   ELSE [heap EXCEPT ![ptr].bytes = [n \in DOMAIN @ |-> NUL]]
    IN  Done(s, On(cleared, [strs[s] EXCEPT !.len = 0]), "clear", s)

-----------------------------------------------------------------------------

Init ==
    /\ heap = << >>
    /\ strs = [s \in Strs |-> Null]
    /\ call = <<>>

Next ==
    \E s \in Strs :
        \/ \E x \in Literals : AppendChars(s, x)
        \/ \E c \in Chars : AppendChar(s, c)
        \/ \E t \in Strs : AppendString(s, t) \/ Copy(s, t) \/ Move(s, t)
        \/ \E t \in Strs, x \in Literals : Concat(s, t, x)
        \/ \E t, u \in Strs : ConcatString(s, t, u)
        \/ destroy(s) \/ reset(s)

Spec == Init /\ [][Next]_vars
-----------------------------------------------------------------------------

Owners(p) == {s \in Strs : strs[s].ptr = p}

(* The type invariant: a String that is not null owns a block of its       *)
(* capacity, alone: nothing is freed twice and no text is written through  *)
(* two variables.  A block that no String points to any more is leaked; it *)
(* holds no text, it is one that ensure_capacity forgot as it was empty.   *)
TypeOK ==
    /\ \A p \in DOMAIN heap :
           /\ heap[p].bytes \in Seq(Chars \cup {NUL})
           /\ Cardinality(Owners(p)) <= 1
           /\ Owners(p) = {} => \A n \in DOMAIN heap[p].bytes : heap[p].bytes[n] = NUL
    /\ \A s \in Strs :
           LET str == strs[s]
           IN  IF str.ptr = NULL THEN str = Null
               ELSE /\ str.ptr \in DOMAIN heap
                    /\ str.capacity = Len(heap[str.ptr].bytes)
                    /\ str.len \in 0 .. str.capacity

(* The variables hold texts of their own, each as the calls made on it say,*)
(* through growth, copies, moves and blocks that are freed and used again. *)
Texts == INSTANCE Text WITH text <- [s \in Strs |-> TextOf(s)],
                            Pieces <- BoundedSeq(Chars, MaxLen)

IsText == Texts!Spec

(* What C functions read at ptr (printf, pretty_print.cpp 7) is the text   *)
(* of the String: all bytes of a block behind its text are zero, although  *)
(* append(String&) writes no terminator and reset and growth change the    *)
(* length, and a copy has at least one.  Only append(String&) and          *)
(* append(char) can fill a block to its end.                               *)
Terminated ==
    \A s \in Strs : strs[s].ptr # NULL =>
        LET str == strs[s]
        IN  /\ \A n \in str.len + 1 .. str.capacity : heap[str.ptr].bytes[n] = NUL
            /\ (call[1] = "copy" /\ call[2] = s => str.len < str.capacity)

(* What append(char) says of itself, "at least enough space for `elem` and *)
(* `null`" (cortex.h 1039): nothing is written behind a block.             *)
WritesStayInBlock == \A p \in DOMAIN heap : heap[p].behind = Untouched
=============================================================================
