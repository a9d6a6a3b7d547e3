--------------------------- MODULE StringsProofs ----------------------------
(***************************************************************************)
(* The Strings, for all variables, characters, growths and bounds: blocks  *)
(* are owned alone, texts are terminated, and the texts are those that the *)
(* calls made say.                                                         *)
(*                                                                         *)
(* The calls are made of parts that compute on a heap and one String in    *)
(* it; what each part guarantees to the Strings beside it is Leads.        *)
(***************************************************************************)
EXTENDS Strings, MinMax, SequenceTheorems, TLAPS

-----------------------------------------------------------------------------
(* Growth.                                                                 *)

(* Every step of the growth leads to a larger capacity.                    *)
LEMMA BetterGrows == \A c \in Nat : Better(c) \in Nat /\ Better(c) > c
    BY StringsAssumption DEF Better

(* The capacities that growth goes through from c on: those in every set   *)
(* that has the next one and is closed.                                    *)
Closed(T) == T \subseteq Nat /\ \A y \in T : Better(y) \in T

Orbit(c) == {y \in Nat : \A T \in SUBSET Nat : Closed(T) /\ Better(c) \in T => y \in T}

(* The capacities behind c are the next one and those behind that.         *)
LEMMA OrbitStep ==
    ASSUME NEW c \in Nat
    PROVE  /\ Orbit(c) = {Better(c)} \cup Orbit(Better(c))
           /\ \A y \in Orbit(c) : y >= Better(c) /\ Better(y) \in Orbit(c)
<1>0. Better(c) \in Nat /\ Better(Better(c)) \in Nat
    BY BetterGrows
<1>1. \A y \in Orbit(c) : Better(y) \in Orbit(c)
    BY BetterGrows DEF Orbit, Closed
<1>2. \A y \in Orbit(c) : y >= Better(c)
    <2> DEFINE T == {y \in Nat : y >= Better(c)}
    <2>1. \A y \in T : Better(y) \in T
        <3> SUFFICES ASSUME NEW y \in Nat, y >= Better(c)
                     PROVE  Better(y) \in Nat /\ Better(y) >= Better(c)
            OBVIOUS
        <3>1. Better(y) \in Nat /\ Better(y) > y
            BY BetterGrows
        <3> QED
            BY <1>0, <3>1
    <2>2. Closed(T) /\ Better(c) \in T
        BY <1>0, <2>1 DEF Closed
    <2>3. T \in SUBSET Nat
        OBVIOUS
    <2> HIDE DEF T
    <2>4. Orbit(c) \subseteq T
        BY <2>2, <2>3 DEF Orbit
    <2> QED
        BY <2>4 DEF T
<1>3. Better(c) \in Orbit(c)
    BY <1>0 DEF Orbit
<1>4. Orbit(Better(c)) \subseteq Orbit(c)
    <2> SUFFICES ASSUME NEW y \in Orbit(Better(c)), NEW T \in SUBSET Nat, Closed(T), Better(c) \in T
                 PROVE  y \in T
        BY DEF Orbit
    <2>1. Better(Better(c)) \in T
        BY DEF Closed
    <2> QED
        BY <2>1 DEF Orbit
<1>5. Orbit(c) \subseteq {Better(c)} \cup Orbit(Better(c))
    <2> DEFINE T == {Better(c)} \cup Orbit(Better(c))
    <2>1. Better(Better(c)) \in Orbit(Better(c))
        BY <1>0 DEF Orbit
    <2>2. \A y \in Orbit(Better(c)) : Better(y) \in Orbit(Better(c))
        BY BetterGrows DEF Orbit, Closed
    <2>3. T \in SUBSET Nat
        BY <1>0 DEF Orbit
    <2>4. Closed(T) /\ Better(c) \in T
        BY <2>1, <2>2, <2>3 DEF Closed
    <2> HIDE DEF T
    <2>5. Orbit(c) \subseteq T
        BY <2>3, <2>4 DEF Orbit
    <2> QED
        BY <2>5 DEF T
<1> QED
    BY <1>1, <1>2, <1>3, <1>4, <1>5

(* Growth passes every capacity.                                           *)
LEMMA OrbitPasses ==
    ASSUME NEW c \in Nat, NEW n \in Nat
    PROVE  \E y \in Orbit(c) : y >= n
<1> SUFFICES ASSUME \A y \in Orbit(c) : y < n
             PROVE  FALSE
    <2>1. \A y \in Orbit(c) : y \in Nat
        BY DEF Orbit
    <2> QED
        BY <2>1
<1>1. Orbit(c) \subseteq Nat /\ Orbit(c) # {}
    BY OrbitStep DEF Orbit
<1>2. \A y \in Orbit(c) : y <= n
    BY <1>1
<1>3. Max(Orbit(c)) \in Orbit(c) /\ \A y \in Orbit(c) : Max(Orbit(c)) >= y
    BY <1>1, <1>2, MaxIsGreatest
<1>4. Better(Max(Orbit(c))) \in Orbit(c) /\ Better(Max(Orbit(c))) > Max(Orbit(c))
    BY <1>1, <1>3, OrbitStep, BetterGrows
<1> QED
    BY <1>1, <1>3, <1>4

(* The growth of ensure_capacity is enough for what is asked.              *)
LEMMA GrownEnough ==
    ASSUME NEW c \in Nat, NEW n \in Nat
    PROVE  Grown(c, n) \in Nat /\ Grown(c, n) >= n
<1> DEFINE Rest(g) == [x \in Nat |-> IF Better(x) < n THEN g[Better(x)] ELSE Better(x)]
           Enough(x) == {y \in Orbit(x) : y >= n}
           least == [x \in Nat |-> Min(Enough(x))]
           grow == CHOOSE g : g = Rest(g)
<1>1. \A x \in Nat : least[x] = Rest(least)[x]
    <2> SUFFICES ASSUME NEW x \in Nat
                 PROVE  Min(Enough(x)) = IF Better(x) < n THEN Min(Enough(Better(x))) ELSE Better(x)
        BY BetterGrows
    <2>1. Better(x) \in Nat
        BY BetterGrows
    <2>2. CASE Better(x) < n
        <3>1. Enough(x) = Enough(Better(x))
            BY <2>1, <2>2, OrbitStep
        <3> QED
            BY <2>2, <3>1
    <2>3. CASE ~(Better(x) < n)
        <3>1. Better(x) \in Enough(x) /\ \A y \in Enough(x) : Better(x) <= y
            BY <2>1, <2>3, OrbitStep
        <3>2. Enough(x) \subseteq Nat /\ Enough(x) # {}
            BY <3>1 DEF Orbit
        <3> HIDE DEF Enough
        <3>3. Min(Enough(x)) \in Enough(x) /\ \A y \in Enough(x) : Min(Enough(x)) <= y
            BY <3>2, MinIsLeast
        <3>4. Min(Enough(x)) = Better(x)
            BY <2>1, <3>1, <3>2, <3>3
        <3> QED
            BY <2>3, <3>4
    <2> QED
        BY <2>2, <2>3
<1>2. least = Rest(least)
    BY <1>1
<1>3. grow = Rest(grow)
    BY <1>2
<1> HIDE DEF grow, least
<1>4. \A x \in Nat : grow[x] = IF Better(x) < n THEN grow[Better(x)] ELSE Better(x)
    BY <1>3
<1>5. \A x \in Nat : grow[x] \in Nat /\ grow[x] >= n
    <2> DEFINE Bad == {x \in Nat : ~(grow[x] \in Nat /\ grow[x] >= n)}
    <2>1. \A x \in Bad : Better(x) \in Bad /\ Better(x) <= n /\ x <= n /\ Better(x) > x
        <3> SUFFICES ASSUME NEW x \in Nat, ~(grow[x] \in Nat /\ grow[x] >= n)
                     PROVE  /\ ~(grow[Better(x)] \in Nat /\ grow[Better(x)] >= n)
                            /\ Better(x) \in Nat /\ Better(x) <= n /\ x <= n /\ Better(x) > x
            OBVIOUS
        <3>1. Better(x) \in Nat /\ Better(x) > x
            BY BetterGrows
        <3>2. grow[x] = IF Better(x) < n THEN grow[Better(x)] ELSE Better(x)
            BY <1>4
        <3>3. Better(x) < n
            BY <3>1, <3>2
        <3> QED
            BY <3>1, <3>2, <3>3
    <2>2. Bad \subseteq Nat
        OBVIOUS
    <2> SUFFICES ASSUME Bad # {}
                 PROVE  FALSE
        OBVIOUS
    <2> HIDE DEF Bad
    <2>3. PICK top \in Bad : \A x \in Bad : top >= x
        BY <2>1, <2>2, MaxIsGreatest
    <2>4. Better(top) \in Bad /\ Better(top) > top
        BY <2>1, <2>3
    <2>5. top \in Nat /\ Better(top) \in Nat /\ top >= Better(top)
        BY <2>2, <2>3, <2>4
    <2> QED
        BY <2>4, <2>5
<1>6. Grown(c, n) = grow[c]
    BY DEF Grown, grow
<1> QED
    BY <1>5, <1>6

-----------------------------------------------------------------------------
(* The heap.                                                               *)

Byte == Chars \cup {NUL}

Block == [bytes : Seq(Byte), behind : Byte \cup {Untouched}]

(* There is no text in the block.                                          *)
Blank(block) == \A n \in DOMAIN block.bytes : block.bytes[n] = NUL

HeapOK(h) ==
    /\ IsFiniteSet(DOMAIN h)
    /\ DOMAIN h \subseteq Nat \ {NULL}
    /\ h \in [DOMAIN h -> Block]

(* The allocator finds an address that is not in use.                      *)
LEMMA FreshBlock ==
    ASSUME NEW h, HeapOK(h)
    PROVE  NewPtr(h) \in Nat \ {NULL} /\ NewPtr(h) \notin DOMAIN h
<1>1. IsFiniteSet(DOMAIN h) /\ Cardinality(DOMAIN h) \in Nat
    BY FS_CardinalityType DEF HeapOK
<1>2. PICK c : c = Cardinality(DOMAIN h)
    OBVIOUS
<1>3. \E p \in 1 .. c + 1 : p \notin DOMAIN h
    <2> SUFFICES ASSUME 1 .. c + 1 \subseteq DOMAIN h
                 PROVE  FALSE
        OBVIOUS
    <2>1. Cardinality(1 .. c + 1) <= c
        BY <1>1, <1>2, FS_Subset
    <2>2. Cardinality(1 .. c + 1) = c + 1
        BY <1>1, <1>2, FS_Interval
    <2> QED
        BY <1>1, <1>2, <2>1, <2>2
<1>4. NewPtr(h) \in 1 .. c + 1 /\ NewPtr(h) \notin DOMAIN h
    BY <1>2, <1>3 DEF NewPtr
<1> QED
    BY <1>1, <1>2, <1>4 DEF NULL

(* A block is added, changed or freed.                                     *)
LEMMA HeapAdd ==
    ASSUME NEW h, HeapOK(h), NEW p \in Nat \ {NULL}, p \notin DOMAIN h, NEW size \in Nat
    PROVE  LET r == alloc(h, p, size)
           IN  /\ HeapOK(r) /\ DOMAIN r = {p} \cup DOMAIN h /\ r[p] = Zeroed(size)
               /\ \A q \in DOMAIN h : r[q] = h[q]
<1>1. IsFiniteSet(DOMAIN h \cup {p})
    BY FS_AddElement DEF HeapOK
<1>2. Zeroed(size) \in Block
    <2>1. [n \in 1 .. size |-> NUL] \in Seq(Byte)
        BY DEF Byte
    <2> QED
        BY <2>1 DEF Zeroed, Block
<1> QED
    BY <1>1, <1>2 DEF HeapOK, alloc

(* One block gets other bytes.                                             *)
LEMMA HeapChange ==
    ASSUME NEW h, HeapOK(h), NEW p \in DOMAIN h, NEW b \in Block
    PROVE  LET r == [h EXCEPT ![p] = b]
           IN  /\ HeapOK(r) /\ DOMAIN r = DOMAIN h /\ r[p] = b
               /\ \A q \in DOMAIN h : q # p => r[q] = h[q]
    BY DEF HeapOK

(* One block is freed.                                                     *)
LEMMA HeapFree ==
    ASSUME NEW h, HeapOK(h), NEW p
    PROVE  /\ HeapOK(dealloc(h, p)) /\ DOMAIN dealloc(h, p) = DOMAIN h \ {p}
           /\ \A q \in DOMAIN h : q # p => dealloc(h, p)[q] = h[q]
<1>1. IsFiniteSet(DOMAIN h \ {p})
    BY FS_Difference DEF HeapOK
<1> QED
    BY <1>1 DEF HeapOK, dealloc

-----------------------------------------------------------------------------
(* One String in a heap.                                                   *)

StrType == [ptr : Nat, len : Nat, capacity : Nat]

(* The text is followed by zeros.                                          *)
Sound(m) ==
    /\ HeapOK(m.heap)
    /\ m.str \in StrType
    /\ m.str.ptr = NULL => m.str = Null
    /\ m.str.ptr # NULL =>
           /\ m.str.ptr \in DOMAIN m.heap
           /\ m.str.capacity = Len(m.heap[m.str.ptr].bytes)
           /\ m.str.len <= m.str.capacity
           /\ \A n \in 1 .. m.str.len : m.heap[m.str.ptr].bytes[n] \in Chars
           /\ \A n \in m.str.len + 1 .. m.str.capacity : m.heap[m.str.ptr].bytes[n] = NUL

TextIn(m) == IF m.str.ptr = NULL THEN <<>> ELSE TextAt(m.heap, m.str)

(* The blocks of others.                                                   *)
Beside(m) == DOMAIN m.heap \ {m.str.ptr}

(* A String is its three fields, also with another length.                 *)
LEMMA StrFields ==
    ASSUME NEW str \in StrType
    PROVE  /\ str = [ptr |-> str.ptr, len |-> str.len, capacity |-> str.capacity]
           /\ \A n : [str EXCEPT !.len = n] = [ptr |-> str.ptr, len |-> n, capacity |-> str.capacity]
<1>1. str = [ptr |-> str.ptr, len |-> str.len, capacity |-> str.capacity]
    BY DEF StrType
<1>2. PICK p0, n0, c0 : str = [ptr |-> p0, len |-> n0, capacity |-> c0]
    BY <1>1
<1>4. ASSUME NEW n
      PROVE  [str EXCEPT !.len = n] = [ptr |-> p0, len |-> n, capacity |-> c0]
    BY <1>2
<1>5. str.ptr = p0 /\ str.len = n0 /\ str.capacity = c0
    BY <1>2
<1> QED
    BY <1>1, <1>4, <1>5

(* From m the code comes to r, where the String holds x: the blocks beside *)
(* it stay as they are, and those it leaves behind are blank.              *)
Leads(m, r, x) ==
    /\ Sound(r)
    /\ TextIn(r) = x
    /\ \A p \in Beside(m) : p \in Beside(r) /\ r.heap[p] = m.heap[p]
    /\ \A p \in Beside(r) \ Beside(m) : Blank(r.heap[p])

(* What leads from m to r and from r to s leads from m to s.               *)
LEMMA LeadsOn ==
    ASSUME NEW m, NEW r, NEW s, NEW x, NEW y, Leads(m, r, x), Leads(r, s, y)
    PROVE  Leads(m, s, y)
<1>1. Sound(s) /\ TextIn(s) = y
    BY DEF Leads
<1>2. \A p \in Beside(m) : p \in Beside(s) /\ s.heap[p] = m.heap[p]
    BY DEF Leads
<1>3. ASSUME NEW p \in Beside(s) \ Beside(m)
      PROVE  Blank(s.heap[p])
    <2>1. CASE p \in Beside(r)
        <3>1. Blank(r.heap[p]) /\ s.heap[p] = r.heap[p]
            BY <1>3, <2>1 DEF Leads
        <3> QED
            BY <3>1
    <2>2. CASE p \notin Beside(r)
        BY <1>3, <2>2 DEF Leads
    <2> QED
        BY <2>1, <2>2
<1> QED
    BY <1>1, <1>2, <1>3 DEF Leads

(* Nothing is done.                                                        *)
LEMMA LeadsStay ==
    ASSUME NEW m, Sound(m)
    PROVE  Leads(m, m, TextIn(m))
    BY DEF Leads

(* The first n elements of a sequence.                                     *)
LEMMA FirstBytes ==
    ASSUME NEW S, NEW s, NEW n \in Nat, \A i \in 1 .. n : s[i] \in S
    PROVE  /\ SubSeq(s, 1, n) \in Seq(S) /\ Len(SubSeq(s, 1, n)) = n
           /\ \A i \in 1 .. n : SubSeq(s, 1, n)[i] = s[i]
<1>1. /\ SubSeq(s, 1, n) \in Seq(S)
      /\ Len(SubSeq(s, 1, n)) = IF 1 <= n THEN n - 1 + 1 ELSE 0
      /\ \A i \in 1 .. n - 1 + 1 : SubSeq(s, 1, n)[i] = s[1 + i - 1]
    BY SubSeqProperties
<1>2. Len(SubSeq(s, 1, n)) = n
    BY <1>1
<1>3. ASSUME NEW i \in 1 .. n
      PROVE  SubSeq(s, 1, n)[i] = s[i]
    <2>1. i \in 1 .. n - 1 + 1 /\ 1 + i - 1 = i
        OBVIOUS
    <2> QED
        BY <1>1, <2>1
<1> QED
    BY <1>1, <1>2, <1>3

(* What the text of a String is, byte by byte.                             *)
LEMMA TextFacts ==
    ASSUME NEW m, Sound(m)
    PROVE  /\ TextIn(m) \in Seq(Chars) /\ Len(TextIn(m)) = m.str.len /\ m.str.len \in Nat
           /\ \A i \in 1 .. m.str.len : TextIn(m)[i] = m.heap[m.str.ptr].bytes[i]
<1>0. m.str.len \in Nat
    BY DEF Sound, StrType
<1>1. CASE m.str.ptr = NULL
    <2>1. m.str.len = 0 /\ TextIn(m) = <<>>
        BY <1>1 DEF Sound, Null, TextIn
    <2> QED
        BY <2>1
<1>2. CASE m.str.ptr # NULL
    <2>1. TextIn(m) = SubSeq(m.heap[m.str.ptr].bytes, 1, m.str.len)
        BY <1>2 DEF TextIn, TextAt
    <2>2. \A i \in 1 .. m.str.len : m.heap[m.str.ptr].bytes[i] \in Chars
        BY <1>2 DEF Sound
    <2> QED
        BY <1>0, <2>1, <2>2, FirstBytes
<1> QED
    BY <1>1, <1>2

(* A String that owns block p, with text x in it.                          *)
LEMMA Owned ==
    ASSUME NEW h, HeapOK(h), NEW p \in DOMAIN h, NEW x \in Seq(Chars),
           NEW len, len = Len(x), NEW capacity, capacity = Len(h[p].bytes), len <= capacity,
           \A n \in 1 .. len : h[p].bytes[n] = x[n],
           \A n \in len + 1 .. capacity : h[p].bytes[n] = NUL
    PROVE  LET m == On(h, [ptr |-> p, len |-> len, capacity |-> capacity])
           IN  Sound(m) /\ TextIn(m) = x
<1> DEFINE str == [ptr |-> p, len |-> len, capacity |-> capacity]
           m == On(h, str)
<1>1. m.heap = h /\ m.str = str /\ str.ptr = p /\ str.len = len /\ str.capacity = capacity
    BY DEF On
<1>2. h[p].bytes \in Seq(Byte) /\ p \in Nat \ {NULL}
    BY DEF HeapOK, Block
<1>3. str \in StrType
    BY <1>2 DEF StrType
<1>4. \A n \in 1 .. len : h[p].bytes[n] \in Chars
    OBVIOUS
<1> HIDE DEF m, str
<1>5. Sound(m)
    BY <1>1, <1>2, <1>3, <1>4 DEF Sound
<1>6. m.str.len = len /\ m.heap[m.str.ptr] = h[p]
    BY <1>1
<1>7. /\ TextIn(m) \in Seq(Chars) /\ Len(TextIn(m)) = Len(x)
      /\ \A i \in 1 .. Len(x) : TextIn(m)[i] = x[i]
    BY <1>5, <1>6, TextFacts
<1>8. TextIn(m) = x
    BY <1>7, SeqEqual
<1> QED
    BY <1>5, <1>8 DEF m, str

-----------------------------------------------------------------------------
(* The parts of the calls.                                                 *)

(* The two parts that a call computes on.                                  *)
LEMMA OnFields == \A h, str : On(h, str).heap = h /\ On(h, str).str = str
    BY DEF On

(* ensure_capacity keeps the text and makes room.                          *)
LEMMA Grow ==
    ASSUME NEW m, Sound(m), NEW n \in Nat
    PROVE  LET r == ensure_capacity(m, n)
           IN  Leads(m, r, TextIn(m)) /\ r.str.len = m.str.len /\ r.str.capacity >= n
<1> DEFINE better == Grown(m.str.capacity, n)
           tmp == NewPtr(m.heap)
           grown == [ptr |-> tmp, len |-> m.str.len, capacity |-> better]
           empty == alloc(m.heap, tmp, better)
           f == [i \in 1 .. better |-> IF i <= m.str.len
                                       THEN m.heap[m.str.ptr].bytes[i] ELSE NUL]
           filled == [empty EXCEPT ![tmp].bytes = f]
           r == ensure_capacity(m, n)
<1> SUFFICES Leads(m, r, TextIn(m)) /\ r.str.len = m.str.len /\ r.str.capacity >= n
    OBVIOUS
<1>0. /\ m.str \in StrType /\ HeapOK(m.heap)
      /\ m.str.len \in Nat /\ m.str.capacity \in Nat /\ m.str.ptr \in Nat
    BY DEF Sound, StrType
<1>1. better \in Nat /\ better >= n
    BY <1>0, GrownEnough
<1>2. tmp \in Nat \ {NULL} /\ tmp \notin DOMAIN m.heap
    BY <1>0, FreshBlock
<1>r. r = CASE m.str.capacity >= n -> m
            [] m.str.capacity < n /\ m.str.len = 0 -> On(empty, grown)
            [] OTHER -> On(dealloc(filled, m.str.ptr), grown)
    BY DEF ensure_capacity
<1> HIDE DEF better, tmp
<1>4. /\ HeapOK(empty) /\ DOMAIN empty = {tmp} \cup DOMAIN m.heap /\ empty[tmp] = Zeroed(better)
      /\ \A q \in DOMAIN m.heap : empty[q] = m.heap[q]
    BY <1>0, <1>1, <1>2, HeapAdd
<1>5. /\ TextIn(m) \in Seq(Chars) /\ Len(TextIn(m)) = m.str.len
      /\ \A i \in 1 .. m.str.len : TextIn(m)[i] = m.heap[m.str.ptr].bytes[i]
    BY TextFacts
<1> HIDE DEF empty, r
<1>6. CASE m.str.capacity >= n
    <2>1. r = m
        BY <1>0, <1>r, <1>6
    <2> QED
        BY <1>6, <2>1, LeadsStay
<1>7. CASE m.str.capacity < n /\ m.str.len = 0
    <2>1. empty[tmp].bytes = [i \in 1 .. better |-> NUL]
        BY <1>4 DEF Zeroed
    <2>2. Len(empty[tmp].bytes) = better /\ \A i \in 1 .. better : empty[tmp].bytes[i] = NUL
        BY <1>1, <2>1
    <2>4. Sound(On(empty, [ptr |-> tmp, len |-> m.str.len, capacity |-> better]))
          /\ TextIn(On(empty, [ptr |-> tmp, len |-> m.str.len, capacity |-> better])) = TextIn(m)
        <3>1. \A i \in 1 .. m.str.len : empty[tmp].bytes[i] = TextIn(m)[i]
            BY <1>7
        <3>2. \A i \in m.str.len + 1 .. better : empty[tmp].bytes[i] = NUL
            BY <1>7, <2>2
        <3>3. tmp \in DOMAIN empty /\ m.str.len <= better
            BY <1>1, <1>4, <1>7
        <3> QED
            BY <1>4, <1>5, <2>2, <3>1, <3>2, <3>3, Owned
    <2>5. r = On(empty, [ptr |-> tmp, len |-> m.str.len, capacity |-> better])
        BY <1>0, <1>r, <1>7
    <2>6. r.heap = empty /\ r.str.ptr = tmp /\ r.str.len = m.str.len /\ r.str.capacity = better
        BY <2>5, OnFields
    <2>7. Beside(r) = DOMAIN m.heap
        BY <1>2, <1>4, <2>6 DEF Beside
    <2>8. \A p \in Beside(m) : p \in Beside(r) /\ r.heap[p] = m.heap[p]
        BY <1>4, <2>6, <2>7 DEF Beside
    <2>9. ASSUME NEW p \in Beside(r) \ Beside(m)
          PROVE  Blank(r.heap[p])
        <3>1. p = m.str.ptr /\ p \in DOMAIN m.heap /\ p # NULL
            BY <1>0, <2>7, <2>9 DEF Beside, HeapOK
        <3>2. m.heap[p].bytes \in Seq(Byte) /\ m.str.capacity = Len(m.heap[p].bytes)
            BY <1>0, <3>1 DEF Sound, HeapOK, Block
        <3>3. \A i \in 1 .. m.str.capacity : m.heap[p].bytes[i] = NUL
            BY <1>0, <1>7, <3>1 DEF Sound
        <3> QED
            BY <1>4, <2>6, <3>1, <3>2, <3>3 DEF Blank
    <2>10. Sound(r) /\ TextIn(r) = TextIn(m)
        BY <2>4, <2>5
    <2>11. Leads(m, r, TextIn(m))
        BY <2>8, <2>9, <2>10 DEF Leads
    <2> QED
        BY <1>1, <1>7, <2>6, <2>11
<1>8. CASE m.str.capacity < n /\ m.str.len # 0
    <2>1. /\ m.str.ptr # NULL /\ m.str.ptr \in DOMAIN m.heap /\ m.str.len <= m.str.capacity
          /\ m.str.capacity = Len(m.heap[m.str.ptr].bytes)
        BY <1>8 DEF Sound, Null
    <2>2. f \in Seq(Byte) /\ Len(f) = better /\ m.str.len <= better
          /\ \A i \in 1 .. better :
                 f[i] = IF i <= m.str.len THEN m.heap[m.str.ptr].bytes[i] ELSE NUL
        <3>1. \A i \in 1 .. m.str.len : m.heap[m.str.ptr].bytes[i] \in Chars
            BY <2>1 DEF Sound
        <3>2. \A i \in 1 .. better : f[i] \in Byte
            BY <1>0, <3>1 DEF Byte
        <3> QED
            BY <1>0, <1>1, <1>8, <2>1, <3>2
    <2> HIDE DEF f
    <2> DEFINE b == [bytes |-> f, behind |-> Untouched]
    <2>3. b \in Block /\ b.bytes = f
        BY <2>2 DEF Block
    <2>4. filled = [empty EXCEPT ![tmp] = b]
        <3>1. [empty[tmp] EXCEPT !.bytes = f] = b
            BY <1>4 DEF Zeroed
        <3> QED
            BY <3>1
    <2> HIDE DEF b, filled
    <2>5. /\ HeapOK(filled) /\ DOMAIN filled = DOMAIN empty /\ filled[tmp] = b
          /\ \A q \in DOMAIN empty : q # tmp => filled[q] = empty[q]
        BY <1>4, <2>3, <2>4, HeapChange
    <2> DEFINE h == dealloc(filled, m.str.ptr)
    <2>6. /\ HeapOK(h) /\ DOMAIN h = {tmp} \cup (DOMAIN m.heap \ {m.str.ptr}) /\ h[tmp] = b
          /\ \A q \in DOMAIN m.heap : q # m.str.ptr => h[q] = m.heap[q]
        <3>1. /\ HeapOK(h) /\ DOMAIN h = DOMAIN filled \ {m.str.ptr}
              /\ \A q \in DOMAIN filled : q # m.str.ptr => h[q] = filled[q]
            BY <2>5, HeapFree
        <3> HIDE DEF h
        <3>2. tmp # m.str.ptr
            BY <1>2, <2>1
        <3> QED
            BY <1>2, <1>4, <2>5, <3>1, <3>2
    <2> HIDE DEF h
    <2>7. Sound(On(h, [ptr |-> tmp, len |-> m.str.len, capacity |-> better]))
          /\ TextIn(On(h, [ptr |-> tmp, len |-> m.str.len, capacity |-> better])) = TextIn(m)
        <3>1. tmp \in DOMAIN h /\ h[tmp].bytes = f
            BY <2>3, <2>6
        <3>2. \A i \in 1 .. m.str.len : f[i] = TextIn(m)[i]
            BY <1>0, <1>1, <1>5, <2>2
        <3>3. \A i \in m.str.len + 1 .. better : f[i] = NUL
            BY <1>0, <1>1, <2>2
        <3> QED
            BY <1>5, <2>2, <2>6, <3>1, <3>2, <3>3, Owned
    <2>8. r = On(h, [ptr |-> tmp, len |-> m.str.len, capacity |-> better])
        BY <1>0, <1>r, <1>8 DEF h
    <2>9. r.heap = h /\ r.str.ptr = tmp /\ r.str.len = m.str.len /\ r.str.capacity = better
        BY <2>8, OnFields
    <2>10. Beside(r) = Beside(m)
        BY <1>2, <2>6, <2>9 DEF Beside
    <2>11. \A p \in Beside(m) : r.heap[p] = m.heap[p]
        BY <2>6, <2>9 DEF Beside
    <2>12. Sound(r) /\ TextIn(r) = TextIn(m)
        BY <2>7, <2>8
    <2>13. Leads(m, r, TextIn(m))
        BY <2>10, <2>11, <2>12 DEF Leads
    <2> QED
        BY <1>1, <2>9, <2>13
<1> QED
    BY <1>0, <1>6, <1>7, <1>8

(* The characters of x, with a terminator or without.                      *)
Spells(bytes, x) ==
    /\ bytes \in Seq(Byte) /\ Len(bytes) \in {Len(x), Len(x) + 1}
    /\ \A i \in 1 .. Len(x) : bytes[i] = x[i]
    /\ \A i \in Len(x) + 1 .. Len(bytes) : bytes[i] = NUL

(* What append(String&) writes.                                            *)
LEMMA PlainSpells ==
    ASSUME NEW x \in Seq(Chars)
    PROVE  Spells(x, x)
<1>1. x \in Seq(Byte) /\ Len(x) \in Nat
    BY DEF Byte
<1> QED
    BY <1>1 DEF Spells

(* What append(const char*, n) writes.                                     *)
LEMMA TerminatedSpells ==
    ASSUME NEW x \in Seq(Chars)
    PROVE  Spells(x \o <<NUL>>, x) /\ Len(x \o <<NUL>>) = Len(x) + 1
<1>1. x \in Seq(Byte) /\ <<NUL>> \in Seq(Byte) /\ Len(x) \in Nat
    BY DEF Byte
<1>2. /\ x \o <<NUL>> \in Seq(Byte) /\ Len(x \o <<NUL>>) = Len(x) + 1
      /\ \A i \in 1 .. Len(x) + 1 :
             (x \o <<NUL>>)[i] = IF i <= Len(x) THEN x[i] ELSE <<NUL>>[i - Len(x)]
    BY <1>1, ConcatProperties
<1>3. \A i \in 1 .. Len(x) : (x \o <<NUL>>)[i] = x[i]
    BY <1>1, <1>2
<1>4. ASSUME NEW i \in Len(x) + 1 .. Len(x) + 1
      PROVE  (x \o <<NUL>>)[i] = NUL
    <2>1. i = Len(x) + 1 /\ i - Len(x) = 1
        BY <1>1
    <2> QED
        BY <1>1, <1>2, <2>1
<1> QED
    BY <1>2, <1>3, <1>4 DEF Spells

(* Bytes that overwrite bytes.                                             *)
LEMMA OverwrittenBytes ==
    ASSUME NEW len \in Nat, NEW s \in Seq(Byte), NEW block, block.bytes \in Seq(Byte)
    PROVE  LET b == Overwritten(block, Len(block.bytes), len, s).bytes
           IN  /\ b \in Seq(Byte) /\ Len(b) = Len(block.bytes)
               /\ \A i \in 1 .. Len(block.bytes) :
                      b[i] = IF i - len \in DOMAIN s THEN s[i - len] ELSE block.bytes[i]
<1> DEFINE b == [i \in 1 .. Len(block.bytes) |->
                    IF i - len \in DOMAIN s THEN s[i - len] ELSE block.bytes[i]]
<1>0. Len(block.bytes) \in Nat
    OBVIOUS
<1>1. Overwritten(block, Len(block.bytes), len, s).bytes = b
    BY DEF Overwritten
<1>2. \A i \in 1 .. Len(block.bytes) : b[i] \in Byte
    <2>1. \A i \in 1 .. Len(block.bytes) : block.bytes[i] \in Byte
        OBVIOUS
    <2>2. \A i \in DOMAIN s : s[i] \in Byte
        OBVIOUS
    <2> QED
        BY <2>1, <2>2
<1>3. b \in [1 .. Len(block.bytes) -> Byte]
    BY <1>2
<1>4. b \in Seq(Byte) /\ Len(b) = Len(block.bytes)
    BY <1>0, <1>3
<1> QED
    BY <1>1, <1>4

(* The bytes start with the text and are zero behind it.                   *)
Holds(bytes, t) ==
    /\ bytes \in Seq(Byte) /\ Len(t) <= Len(bytes)
    /\ \A i \in 1 .. Len(t) : bytes[i] = t[i]
    /\ \A i \in Len(t) + 1 .. Len(bytes) : bytes[i] = NUL

(* The bytes of a block after they were written behind the text t in it.   *)
LEMMA BlockWritten ==
    ASSUME NEW t \in Seq(Chars), NEW block, Holds(block.bytes, t),
           NEW x \in Seq(Chars), NEW s, Spells(s, x),
           Len(t) + Len(x) <= Len(block.bytes)
    PROVE  LET b == Overwritten(block, Len(block.bytes), Len(t), s).bytes
           IN  Holds(b, t \o x) /\ Len(b) = Len(block.bytes)
<1> PICK len : len = Len(t)
    OBVIOUS
<1>0. len \in Nat /\ s \in Seq(Byte) /\ block.bytes \in Seq(Byte)
    BY DEF Holds, Spells
<1>a. LET b == Overwritten(block, Len(block.bytes), len, s).bytes
      IN  /\ b \in Seq(Byte) /\ Len(b) = Len(block.bytes)
          /\ \A i \in 1 .. Len(block.bytes) :
                 b[i] = IF i - len \in DOMAIN s THEN s[i - len] ELSE block.bytes[i]
    BY <1>0, OverwrittenBytes
<1> PICK n, k, capacity : n = Len(x) /\ k = Len(s) /\ capacity = Len(block.bytes)
    OBVIOUS
<1> PICK old : old = block.bytes
    OBVIOUS
<1> PICK b : b = Overwritten(block, Len(block.bytes), len, s).bytes
    OBVIOUS
<1>1. /\ s \in Seq(Byte) /\ n \in Nat /\ k \in {n, n + 1} /\ DOMAIN s = 1 .. k
      /\ \A i \in 1 .. n : s[i] = x[i]
      /\ \A i \in n + 1 .. k : s[i] = NUL
      /\ len \in Nat /\ capacity \in Nat /\ len + n <= capacity
    BY <1>0 DEF Spells
<1>2. /\ b \in Seq(Byte) /\ Len(b) = capacity
      /\ \A i \in 1 .. capacity : b[i] = IF i - len \in DOMAIN s THEN s[i - len] ELSE old[i]
    BY <1>a
<1>3. /\ \A i \in 1 .. len : old[i] = t[i]
      /\ \A i \in len + 1 .. capacity : old[i] = NUL
    BY DEF Holds
<1>4. \A i \in 1 .. len + n : (t \o x)[i] = IF i <= len THEN t[i] ELSE x[i - len]
    BY ConcatProperties
<1>5. ASSUME NEW i \in 1 .. len + n
      PROVE  b[i] = (t \o x)[i]
    <2>1. i \in 1 .. capacity
        BY <1>1
    <2>2. CASE i <= len
        <3>1. i - len \notin DOMAIN s /\ i \in 1 .. len
            BY <1>1, <2>2
        <3>2. b[i] = old[i] /\ old[i] = t[i]
            BY <1>2, <1>3, <2>1, <3>1
        <3> QED
            BY <1>4, <2>2, <3>2
    <2>3. CASE ~(i <= len)
        <3>1. i - len \in DOMAIN s /\ i - len \in 1 .. n
            BY <1>1, <2>3
        <3>2. b[i] = s[i - len] /\ s[i - len] = x[i - len]
            BY <1>1, <1>2, <2>1, <3>1
        <3> QED
            BY <1>4, <2>3, <3>2
    <2> QED
        BY <2>2, <2>3
<1>6. ASSUME NEW i \in len + n + 1 .. capacity
      PROVE  b[i] = NUL
    <2>1. /\ i \in 1 .. capacity /\ i \in len + 1 .. capacity
          /\ i - len \in DOMAIN s => i - len \in n + 1 .. k
        BY <1>1
    <2>2. CASE i - len \in DOMAIN s
        BY <1>1, <1>2, <2>1, <2>2
    <2>3. CASE i - len \notin DOMAIN s
        BY <1>2, <1>3, <2>1, <2>3
    <2> QED
        BY <2>2, <2>3
<1>7. Len(t \o x) = len + n
    BY ConcatProperties
<1>8. Holds(b, t \o x) /\ Len(b) = capacity
    BY <1>1, <1>2, <1>5, <1>6, <1>7 DEF Holds
<1> QED
    BY <1>8

(* Bytes written behind the text, with a terminator or without.            *)
LEMMA Written ==
    ASSUME NEW m, Sound(m), NEW x \in Seq(Chars), NEW bytes, Spells(bytes, x),
           m.str.len + Len(x) <= m.str.capacity, m.str.ptr # NULL \/ bytes = <<>>
    PROVE  LET r == Write(m, bytes, m.str.len + Len(x))
           IN  /\ Leads(m, r, TextIn(m) \o x)
               /\ r.str.len = m.str.len + Len(x) /\ r.str.capacity = m.str.capacity
               /\ r.str.ptr = m.str.ptr
<1> DEFINE ptr == m.str.ptr
           len == m.str.len
           capacity == m.str.capacity
           t == TextIn(m)
           n == len + Len(x)
           old == m.heap[ptr]
           new == Overwritten(old, capacity, len, bytes)
           str == [ptr |-> ptr, len |-> n, capacity |-> capacity]
           r == Write(m, bytes, n)
<1> SUFFICES /\ Leads(m, r, t \o x)
             /\ r.str.len = n /\ r.str.capacity = capacity /\ r.str.ptr = ptr
    OBVIOUS
<1>0. /\ m.str \in StrType /\ HeapOK(m.heap) /\ Len(x) \in Nat
      /\ len \in Nat /\ capacity \in Nat /\ ptr \in Nat /\ n \in Nat /\ n <= capacity
    BY DEF Sound, StrType
<1>1. t \in Seq(Chars) /\ Len(t) = len /\ \A i \in 1 .. len : t[i] = old.bytes[i]
    BY TextFacts
<1>2. r = On(IF bytes = <<>> THEN m.heap ELSE [m.heap EXCEPT ![ptr] = new], str)
    <2>1. [m.str EXCEPT !.len = n] = str
        BY <1>0, StrFields
    <2>2. r = On(IF bytes = <<>> THEN m.heap ELSE [m.heap EXCEPT ![ptr] = new],
                 [m.str EXCEPT !.len = n])
        BY DEF Write
    <2> HIDE DEF r, new, str, n
    <2> QED
        BY <2>1, <2>2
<1>a. /\ bytes \in Seq(Byte) /\ Len(bytes) \in {Len(x), Len(x) + 1} /\ DOMAIN bytes = 1 .. Len(bytes)
      /\ \A i \in Len(x) + 1 .. Len(bytes) : bytes[i] = NUL
    BY DEF Spells
<1>b. /\ ptr # NULL => /\ ptr \in DOMAIN m.heap /\ Len(old.bytes) = capacity
                        /\ \A i \in len + 1 .. capacity : old.bytes[i] = NUL
      /\ ptr # NULL \/ bytes = <<>>
    BY DEF Sound
<1>c. Leads(m, m, t) /\ Beside(m) = DOMAIN m.heap \ {ptr}
    BY LeadsStay DEF Beside
<1>d. m.str = [ptr |-> ptr, len |-> len, capacity |-> capacity]
    BY <1>0, StrFields
<1>e. ASSUME NEW s, s.heap = m.heap, s.str = m.str
      PROVE  Leads(m, s, t)
    BY <1>c, <1>e DEF Leads, Sound, TextIn, Beside
<1> HIDE DEF r, ptr, len, capacity, t
<1>3. /\ r.heap = IF bytes = <<>> THEN m.heap ELSE [m.heap EXCEPT ![ptr] = new]
      /\ r.str = str
    BY <1>2, OnFields
<1>4. r.str.ptr = ptr /\ r.str.len = n /\ r.str.capacity = capacity
    BY <1>3
<1>5. CASE bytes = <<>>
    <2>1. Len(x) = 0
        BY <1>0, <1>5, <1>a
    <2>2. x = <<>>
        BY <2>1
    <2>3. t \o x = t
        BY <1>1, <2>2, ConcatEmptySeq
    <2>4. r.heap = m.heap /\ r.str = m.str
        BY <1>0, <1>3, <1>5, <1>d, <2>1
    <2>5. Leads(m, r, t)
        BY <1>e, <2>4
    <2> QED
        BY <1>4, <2>1, <2>3, <2>5
<1>6. CASE bytes # <<>>
    <2>1. /\ ptr # NULL /\ ptr \in DOMAIN m.heap
          /\ old.bytes \in Seq(Byte) /\ old.behind \in Byte \cup {Untouched}
          /\ Len(old.bytes) = capacity
          /\ \A i \in len + 1 .. capacity : old.bytes[i] = NUL
        <3>1. old \in Block
            BY <1>0, <1>6, <1>b DEF HeapOK
        <3> QED
            BY <1>6, <1>b, <3>1 DEF Block
    <2> DEFINE b == new.bytes
               last == new.behind
    <2>2. Holds(b, t \o x) /\ Len(b) = capacity
        <3>1. /\ Holds(old.bytes, t) /\ t \in Seq(Chars) /\ len = Len(t) /\ capacity = Len(old.bytes)
              /\ Len(t) + Len(x) <= Len(old.bytes) /\ n = len + Len(x)
            BY <1>0, <1>1, <2>1 DEF Holds
        <3> HIDE DEF old, n
        <3>2. LET c == Overwritten(old, Len(old.bytes), Len(t), bytes).bytes
              IN  Holds(c, t \o x) /\ Len(c) = Len(old.bytes)
            BY <3>1, BlockWritten
        <3> QED
            BY <3>1, <3>2
    <2>p. /\ last = IF capacity + 1 - len \in DOMAIN bytes
                    THEN bytes[capacity + 1 - len] ELSE old.behind
          /\ new = [bytes |-> b, behind |-> last]
        BY DEF Overwritten
    <2> HIDE DEF new, b, last
    <2>3. last \in Byte \cup {Untouched}
        <3>1. \A i \in DOMAIN bytes : bytes[i] \in Byte
            BY <1>a, ElementOfSeq
        <3> QED
            BY <3>1, <2>p, <2>1
    <2>4. new \in Block /\ new.bytes = b
        BY <2>p, <2>2, <2>3 DEF Block, Holds
    <2> DEFINE h == [m.heap EXCEPT ![ptr] = new]
    <2>5. /\ HeapOK(h) /\ DOMAIN h = DOMAIN m.heap /\ h[ptr] = new
          /\ \A q \in DOMAIN m.heap : q # ptr => h[q] = m.heap[q]
        BY <1>0, <2>1, <2>4, HeapChange
    <2>6. r.heap = h /\ r = On(h, str)
        BY <1>2, <1>3, <1>6
    <2> HIDE DEF h
    <2>7. t \o x \in Seq(Chars) /\ n = Len(t \o x)
        BY <1>1, ConcatProperties
    <2>8. Sound(On(h, str)) /\ TextIn(On(h, str)) = t \o x
        <3>1. ptr \in DOMAIN h /\ h[ptr].bytes = b /\ capacity = Len(h[ptr].bytes)
            BY <2>1, <2>2, <2>4, <2>5
        <3>2. /\ \A i \in 1 .. n : h[ptr].bytes[i] = (t \o x)[i]
              /\ \A i \in n + 1 .. capacity : h[ptr].bytes[i] = NUL
            BY <2>2, <2>7, <3>1 DEF Holds
        <3>3. PICK text : text = t \o x
            OBVIOUS
        <3>4. /\ text \in Seq(Chars) /\ n = Len(text) /\ n <= capacity
              /\ \A i \in 1 .. n : h[ptr].bytes[i] = text[i]
              /\ \A i \in n + 1 .. capacity : h[ptr].bytes[i] = NUL
              /\ HeapOK(h) /\ ptr \in DOMAIN h /\ capacity = Len(h[ptr].bytes)
            BY <1>0, <2>5, <2>7, <3>1, <3>2, <3>3
        <3> HIDE DEF n, old
        <3>5. Sound(On(h, str)) /\ TextIn(On(h, str)) = text
            BY <3>4, Owned
        <3> QED
            BY <3>3, <3>5
    <2>9. Beside(r) = Beside(m) /\ \A p \in Beside(m) : r.heap[p] = m.heap[p]
        BY <1>4, <1>c, <2>5, <2>6 DEF Beside
    <2>10. Leads(m, r, t \o x)
        BY <2>6, <2>8, <2>9 DEF Leads
    <2> QED
        BY <1>4, <2>10
<1> QED
    BY <1>5, <1>6

(* A call of append: room was made, and the bytes are written behind.      *)
LEMMA Appended ==
    ASSUME NEW m, Sound(m), NEW x \in Seq(Chars), NEW bytes, Spells(bytes, x),
           NEW q, Leads(m, q, TextIn(m)), q.str.len = m.str.len,
           m.str.len + Len(x) <= q.str.capacity, q.str.ptr # NULL \/ bytes = <<>>
    PROVE  LET r == Write(q, bytes, m.str.len + Len(x))
           IN  /\ Leads(m, r, TextIn(m) \o x)
               /\ r.str.len = m.str.len + Len(x) /\ r.str.capacity = q.str.capacity
<1> DEFINE r == Write(q, bytes, q.str.len + Len(x))
<1>1. Sound(q) /\ TextIn(q) = TextIn(m) /\ q.str.len + Len(x) <= q.str.capacity
    BY DEF Leads
<1>2. /\ Leads(q, r, TextIn(q) \o x)
      /\ r.str.len = q.str.len + Len(x) /\ r.str.capacity = q.str.capacity
    BY <1>1, Written
<1> HIDE DEF r
<1>3. Leads(m, r, TextIn(q) \o x)
    BY <1>2, LeadsOn
<1>4. r = Write(q, bytes, m.str.len + Len(x))
    BY DEF r
<1> QED
    BY <1>1, <1>2, <1>3, <1>4

(* Before it writes, append grows the block, or has enough already.        *)
LEMMA RoomMade ==
    ASSUME NEW m, Sound(m), NEW needed \in Nat, NEW asked \in Nat
    PROVE  LET r == Room(m, needed, asked)
           IN  /\ Leads(m, r, TextIn(m)) /\ r.str.len = m.str.len
               /\ r.str.len \in Nat /\ r.str.capacity \in Nat
               /\ r.str.capacity >= r.str.len + needed \/ r.str.capacity >= asked
               /\ r.str.capacity >= 1 => r.str.ptr # NULL
<1> DEFINE r == Room(m, needed, asked)
<1> SUFFICES /\ Leads(m, r, TextIn(m)) /\ r.str.len = m.str.len
             /\ r.str.len \in Nat /\ r.str.capacity \in Nat
             /\ r.str.capacity >= r.str.len + needed \/ r.str.capacity >= asked
             /\ r.str.capacity >= 1 => r.str.ptr # NULL
    OBVIOUS
<1>1. m.str.len \in Nat /\ m.str.capacity \in Nat
    BY DEF Sound, StrType
<1>2. /\ Leads(m, r, TextIn(m)) /\ r.str.len = m.str.len
      /\ r.str.capacity >= r.str.len + needed \/ r.str.capacity >= asked
    <2>1. CASE enough_space_for(m.str, needed)
        <3>1. r = m
            BY <2>1 DEF Room
        <3> QED
            BY <1>1, <2>1, <3>1, LeadsStay DEF enough_space_for
    <2>2. CASE ~enough_space_for(m.str, needed)
        <3>1. r = ensure_capacity(m, asked)
            BY <2>2 DEF Room
        <3> HIDE DEF r
        <3> QED
            BY <3>1, Grow
    <2> QED
        BY <2>1, <2>2
<1>3. Sound(r)
    BY <1>2 DEF Leads
<1> HIDE DEF r
<1>4. r.str.capacity \in Nat /\ (r.str.capacity >= 1 => r.str.ptr # NULL)
    BY <1>3 DEF Sound, StrType, Null
<1> QED
    BY <1>1, <1>2, <1>4

(* The three forms of append.                                              *)
LEMMA CharsAppended ==
    ASSUME NEW m, Sound(m), NEW x \in Seq(Chars)
    PROVE  LET r == append_chars(m, x)
           IN  /\ Leads(m, r, TextIn(m) \o x)
               /\ r.str.len = m.str.len + Len(x) /\ r.str.len < r.str.capacity
<1> DEFINE q == Room(m, Len(x) + 1, m.str.len + Len(x) + 1)
<1>1. Len(x) \in Nat /\ m.str.len \in Nat
    BY DEF Sound, StrType
<1>2. /\ Leads(m, q, TextIn(m)) /\ q.str.len = m.str.len
      /\ q.str.len \in Nat /\ q.str.capacity \in Nat
      /\ q.str.capacity >= m.str.len + Len(x) + 1
      /\ q.str.ptr # NULL
    <2>1. Len(x) + 1 \in Nat /\ m.str.len + Len(x) + 1 \in Nat
        BY <1>1
    <2>2. /\ Leads(m, q, TextIn(m)) /\ q.str.len = m.str.len
          /\ q.str.len \in Nat /\ q.str.capacity \in Nat
          /\ q.str.capacity >= q.str.len + (Len(x) + 1) \/ q.str.capacity >= m.str.len + Len(x) + 1
          /\ q.str.capacity >= 1 => q.str.ptr # NULL
        BY <2>1, RoomMade
    <2> HIDE DEF q
    <2> QED
        BY <1>1, <2>2
<1>3. append_chars(m, x) = Write(q, x \o <<NUL>>, m.str.len + Len(x))
    BY DEF append_chars
<1> HIDE DEF q
<1>4. PICK bytes : bytes = x \o <<NUL>> /\ Spells(bytes, x)
    BY TerminatedSpells
<1> DEFINE r == Write(q, bytes, m.str.len + Len(x))
<1>5. m.str.len + Len(x) <= q.str.capacity
    BY <1>1, <1>2
<1>6. Leads(m, r, TextIn(m) \o x) /\ r.str.len = m.str.len + Len(x) /\ r.str.capacity = q.str.capacity
    BY <1>2, <1>4, <1>5, Appended
<1>7. append_chars(m, x) = r
    BY <1>3, <1>4
<1> HIDE DEF r
<1>8. r.str.len < r.str.capacity
    BY <1>1, <1>2, <1>6
<1> QED
    BY <1>6, <1>7, <1>8

(* append(String&) needs a byte less than it asks for.                     *)
LEMMA StringAppended ==
    ASSUME NEW m, Sound(m), NEW x \in Seq(Chars)
    PROVE  LET r == append_string(m, x)
           IN  Leads(m, r, TextIn(m) \o x) /\ r.str.len = m.str.len + Len(x)
<1> DEFINE q == Room(m, Len(x), m.str.len + Len(x) + 1)
<1>1. Len(x) \in Nat /\ m.str.len \in Nat
    BY DEF Sound, StrType
<1>2. /\ Leads(m, q, TextIn(m)) /\ q.str.len = m.str.len
      /\ q.str.len \in Nat /\ q.str.capacity \in Nat
      /\ q.str.capacity >= m.str.len + Len(x)
      /\ q.str.ptr # NULL \/ x = <<>>
    <2>1. m.str.len + Len(x) + 1 \in Nat
        BY <1>1
    <2>2. /\ Leads(m, q, TextIn(m)) /\ q.str.len = m.str.len
          /\ q.str.len \in Nat /\ q.str.capacity \in Nat
          /\ q.str.capacity >= q.str.len + Len(x) \/ q.str.capacity >= m.str.len + Len(x) + 1
          /\ q.str.capacity >= 1 => q.str.ptr # NULL
        BY <1>1, <2>1, RoomMade
    <2> HIDE DEF q
    <2>3. Len(x) = 0 => x = <<>>
        OBVIOUS
    <2> QED
        BY <1>1, <2>2, <2>3
<1>3. append_string(m, x) = Write(q, x, m.str.len + Len(x))
    BY DEF append_string
<1> HIDE DEF q
<1>4. Spells(x, x)
    BY PlainSpells
<1> DEFINE r == Write(q, x, m.str.len + Len(x))
<1>5. m.str.len + Len(x) <= q.str.capacity
    BY <1>1, <1>2
<1>6. Leads(m, r, TextIn(m) \o x) /\ r.str.len = m.str.len + Len(x)
    BY <1>2, <1>4, <1>5, Appended
<1> QED
    BY <1>3, <1>6

(* append(char) may fill the block and write the terminator behind it.     *)
LEMMA CharAppended ==
    ASSUME NEW m, Sound(m), NEW c \in Chars
    PROVE  LET r == append_char(m, c)
           IN  Leads(m, r, TextIn(m) \o <<c>>) /\ r.str.len = m.str.len + 1
<1> DEFINE q == Room(m, 2, m.str.len + 1)
<1>1. m.str.len \in Nat
    BY DEF Sound, StrType
<1>2. /\ Leads(m, q, TextIn(m)) /\ q.str.len = m.str.len
      /\ q.str.capacity \in Nat /\ q.str.capacity >= m.str.len + 1 /\ q.str.ptr # NULL
    <2>1. m.str.len + 1 \in Nat /\ 2 \in Nat
        BY <1>1
    <2>2. /\ Leads(m, q, TextIn(m)) /\ q.str.len = m.str.len
          /\ q.str.len \in Nat /\ q.str.capacity \in Nat
          /\ q.str.capacity >= q.str.len + 2 \/ q.str.capacity >= m.str.len + 1
          /\ q.str.capacity >= 1 => q.str.ptr # NULL
        BY <2>1, RoomMade
    <2> HIDE DEF q
    <2> QED
        BY <1>1, <2>2
<1>3. append_char(m, c) = Write(q, <<c, NUL>>, m.str.len + 1)
    BY DEF append_char
<1> HIDE DEF q
<1>a. <<c>> \in Seq(Chars) /\ Len(<<c>>) = 1
    OBVIOUS
<1>4. PICK x : x = <<c>> /\ x \in Seq(Chars) /\ Len(x) = 1
    BY <1>a
<1>5. PICK bytes : bytes = <<c, NUL>> /\ Spells(bytes, x) /\ Len(bytes) = Len(x) + 1
    <2>1. <<c, NUL>> \in Seq(Byte) /\ Len(<<c, NUL>>) = 2
        BY DEF Byte
    <2> PICK bytes : bytes = <<c, NUL>>
        OBVIOUS
    <2>2. x[1] = c /\ bytes[1] = c /\ bytes[2] = NUL
        BY <1>4
    <2>3. \A i \in 1 .. Len(x) : i = 1
        BY <1>4
    <2>4. \A i \in Len(x) + 1 .. Len(bytes) : i = 2
        BY <1>4, <2>1
    <2>5. Len(bytes) = Len(x) + 1 /\ bytes \in Seq(Byte)
        BY <1>4, <2>1
    <2>6. Spells(bytes, x)
        BY <2>2, <2>3, <2>4, <2>5 DEF Spells
    <2> QED
        BY <2>5, <2>6
<1> DEFINE r == Write(q, bytes, m.str.len + Len(x))
<1>6. m.str.len + Len(x) <= q.str.capacity
    BY <1>1, <1>2, <1>4
<1>b. Spells(bytes, x) /\ Len(bytes) = Len(x) + 1 /\ x \in Seq(Chars)
    BY <1>4, <1>5
<1>7. Leads(m, r, TextIn(m) \o x) /\ r.str.len = m.str.len + Len(x)
    BY <1>2, <1>6, <1>b, Appended
<1>8. append_char(m, c) = r
    BY <1>3, <1>4, <1>5
<1> HIDE DEF r
<1> QED
    BY <1>4, <1>5, <1>7, <1>8

(* The destructor and reset.                                               *)
LEMMA Destroyed ==
    ASSUME NEW m, Sound(m)
    PROVE  /\ Leads(m, destroyed(m), <<>>) /\ destroyed(m).str = Null
<1> DEFINE h == IF m.str.ptr = NULL THEN m.heap ELSE dealloc(m.heap, m.str.ptr)
           r == destroyed(m)
<1>1. r.heap = h /\ r.str = Null
    BY OnFields DEF destroyed
<1>2. /\ HeapOK(h) /\ DOMAIN h = DOMAIN m.heap \ {m.str.ptr}
      /\ \A q \in DOMAIN h : h[q] = m.heap[q]
    <2>1. CASE m.str.ptr = NULL
        BY <2>1 DEF Sound, HeapOK
    <2>2. CASE m.str.ptr # NULL
        <3>1. HeapOK(m.heap) /\ h = dealloc(m.heap, m.str.ptr)
            BY <2>2 DEF Sound
        <3> HIDE DEF h
        <3>2. /\ HeapOK(dealloc(m.heap, m.str.ptr))
              /\ DOMAIN dealloc(m.heap, m.str.ptr) = DOMAIN m.heap \ {m.str.ptr}
              /\ \A q \in DOMAIN m.heap : q # m.str.ptr => dealloc(m.heap, m.str.ptr)[q] = m.heap[q]
            BY <3>1, HeapFree
        <3> QED
            BY <3>1, <3>2
    <2> QED
        BY <2>1, <2>2
<1>3. Null \in StrType /\ Null.ptr = NULL
    BY DEF Null, StrType, NULL
<1>4. NULL \notin DOMAIN h
    BY <1>2 DEF HeapOK
<1> HIDE DEF h, r
<1>5. Sound(r) /\ TextIn(r) = <<>>
    BY <1>1, <1>2, <1>3 DEF Sound, TextIn
<1>6. Beside(r) = Beside(m)
    BY <1>1, <1>2, <1>3, <1>4 DEF Beside
<1>7. Leads(m, r, <<>>)
    BY <1>1, <1>2, <1>5, <1>6 DEF Leads, Beside
<1> QED
    BY <1>1, <1>7 DEF r

-----------------------------------------------------------------------------
(* The state.                                                              *)

(* A copy leaves room for its terminator.                                  *)
Ended ==
    \A s \in Strs :
        strs[s].ptr # NULL /\ call[1] = "copy" /\ call[2] = s => strs[s].len < strs[s].capacity

Inv ==
    /\ HeapOK(heap)
    /\ strs \in [Strs -> StrType]
    /\ \A s \in Strs : Sound(This(s))
    /\ \A s, t \in Strs : strs[s].ptr # NULL /\ strs[s].ptr = strs[t].ptr => s = t
    /\ \A p \in DOMAIN heap : (\A s \in Strs : strs[s].ptr # p) => Blank(heap[p])
    /\ Ended

(* The text of a variable is that of the String a call on it works on.     *)
LEMMA ThisText ==
    ASSUME Inv, NEW s \in Strs
    PROVE  /\ Sound(This(s)) /\ TextOf(s) = TextIn(This(s))
           /\ TextOf(s) \in Seq(Chars) /\ Len(TextOf(s)) = strs[s].len
<1>1. Sound(This(s)) /\ This(s).str = strs[s] /\ This(s).heap = heap
    BY OnFields DEF Inv, This
<1>2. TextOf(s) = TextIn(This(s))
    BY <1>1 DEF TextOf, TextIn
<1>3. TextIn(This(s)) \in Seq(Chars) /\ Len(TextIn(This(s))) = This(s).str.len
    BY <1>1, TextFacts
<1> QED
    BY <1>1, <1>2, <1>3

(* What a String that stays the same needs of the heap.                    *)
LEMMA SameBlock ==
    ASSUME NEW m, Sound(m), NEW r, r.str = m.str, HeapOK(r.heap),
           m.str.ptr # NULL => m.str.ptr \in DOMAIN r.heap /\ r.heap[m.str.ptr] = m.heap[m.str.ptr]
    PROVE  Sound(r) /\ TextIn(r) = TextIn(m)
<1>1. Sound(r)
    BY DEF Sound
<1>2. TextIn(r) = TextIn(m)
    BY DEF TextIn, TextAt
<1> QED
    BY <1>1, <1>2

(* A call that leads the String s to another text changes nothing else.    *)
LEMMA DoneStep ==
    ASSUME Inv, NEW s \in Strs, NEW m, NEW x, Leads(This(s), m, x),
           NEW op, NEW arg, Done(s, m, op, arg),
           op = "copy" => m.str.len < m.str.capacity
    PROVE  /\ Inv'
           /\ \A t \in Strs : TextOf(t)' = IF t = s THEN x ELSE TextOf(t)
           /\ Len(x) \in Nat /\ Len(x) <= MaxLen
<1>1. heap' = m.heap /\ strs' = [strs EXCEPT ![s] = m.str] /\ call' = <<op, s, arg>>
      /\ m.str.len <= MaxLen
    BY DEF Done
<1>2. /\ Sound(m) /\ TextIn(m) = x /\ HeapOK(m.heap) /\ m.str \in StrType
      /\ \A p \in Beside(This(s)) : p \in Beside(m) /\ m.heap[p] = heap[p]
      /\ \A p \in Beside(m) \ Beside(This(s)) : Blank(m.heap[p])
    BY OnFields DEF Leads, Sound, This
<1>3. /\ Beside(This(s)) = DOMAIN heap \ {strs[s].ptr}
      /\ Beside(m) = DOMAIN m.heap \ {m.str.ptr}
    BY OnFields DEF Beside, This
<1>4. strs' \in [Strs -> StrType] /\ strs'[s] = m.str
      /\ \A t \in Strs : t # s => strs'[t] = strs[t]
    BY <1>1, <1>2 DEF Inv
<1>5. ASSUME NEW t \in Strs, t # s, strs[t].ptr # NULL
      PROVE  /\ strs[t].ptr \in Beside(This(s)) /\ strs[t].ptr \in DOMAIN m.heap
             /\ strs[t].ptr # m.str.ptr /\ m.heap[strs[t].ptr] = heap[strs[t].ptr]
    <2>1. strs[t].ptr \in DOMAIN heap
        BY <1>5, OnFields DEF Inv, Sound, This
    <2>2. strs[t].ptr # strs[s].ptr
        BY <1>5 DEF Inv
    <2>3. strs[t].ptr \in Beside(This(s))
        BY <1>3, <2>1, <2>2
    <2> QED
        BY <1>2, <1>3, <2>3
<1>6. ASSUME NEW t \in Strs
      PROVE  Sound(This(t))' /\ TextOf(t)' = IF t = s THEN x ELSE TextOf(t)
    <2> DEFINE r == On(heap', strs'[t])
    <2>1. r.heap = m.heap /\ r.str = strs'[t]
        BY <1>1, OnFields
    <2>2. This(t)' = r /\ TextOf(t)' = TextIn(r)
        BY OnFields DEF This, TextOf, TextIn
    <2> HIDE DEF r
    <2>3. CASE t = s
        <3>1. r.str = m.str
            BY <1>4, <2>1, <2>3
        <3>2. m.str.ptr # NULL => m.str.ptr \in DOMAIN m.heap
            BY <1>2 DEF Sound
        <3>3. Sound(r) /\ TextIn(r) = TextIn(m)
            BY <1>2, <2>1, <3>1, <3>2, SameBlock
        <3> QED
            BY <1>2, <2>2, <2>3, <3>3
    <2>4. CASE t # s
        <3>1. Sound(This(t)) /\ TextOf(t) = TextIn(This(t)) /\ This(t).str = strs[t] /\ This(t).heap = heap
            BY ThisText, OnFields DEF This
        <3>2. r.str = This(t).str
            BY <1>4, <2>1, <2>4, <3>1
        <3>3. This(t).str.ptr # NULL =>
                  /\ This(t).str.ptr \in DOMAIN r.heap
                  /\ r.heap[This(t).str.ptr] = This(t).heap[This(t).str.ptr]
            BY <1>5, <2>1, <2>4, <3>1
        <3>4. Sound(r) /\ TextIn(r) = TextIn(This(t))
            BY <1>2, <2>1, <3>1, <3>2, <3>3, SameBlock
        <3> QED
            BY <2>2, <2>4, <3>1, <3>4
    <2> QED
        BY <2>3, <2>4
<1>7. ASSUME NEW u \in Strs, NEW t \in Strs, strs'[u].ptr # NULL, strs'[u].ptr = strs'[t].ptr
      PROVE  u = t
    <2>1. CASE u # s /\ t # s
        BY <1>4, <1>7, <2>1 DEF Inv
    <2>2. CASE u = s /\ t # s
        BY <1>4, <1>5, <1>7, <2>2
    <2>3. CASE u # s /\ t = s
        BY <1>4, <1>5, <1>7, <2>3
    <2> QED
        BY <2>1, <2>2, <2>3
<1>8. ASSUME NEW p \in DOMAIN m.heap, \A t \in Strs : strs'[t].ptr # p
      PROVE  Blank(m.heap[p])
    <2>1. p \in Beside(m)
        BY <1>3, <1>4, <1>8
    <2>2. CASE p \in Beside(This(s))
        <3>1. p \in DOMAIN heap /\ \A t \in Strs : strs[t].ptr # p
            BY <1>3, <1>4, <1>8, <2>2
        <3>2. Blank(heap[p])
            BY <3>1 DEF Inv
        <3> QED
            BY <1>2, <2>2, <3>2
    <2>3. CASE p \notin Beside(This(s))
        BY <1>2, <2>1, <2>3
    <2> QED
        BY <2>2, <2>3
<1>9. Ended'
    <2> SUFFICES ASSUME NEW t \in Strs, call'[1] = "copy", call'[2] = t
                 PROVE  strs'[t].len < strs'[t].capacity
        BY DEF Ended
    <2>1. call'[1] = op /\ call'[2] = s
        BY <1>1
    <2>2. t = s /\ op = "copy" /\ strs'[t] = m.str
        BY <1>4, <2>1
    <2> QED
        BY <1>1, <2>2
<1>10. Inv'
    <2>1. HeapOK(heap)' /\ (\A t \in Strs : Sound(This(t)))'
        BY <1>1, <1>2, <1>6
    <2>2. (\A p \in DOMAIN heap : (\A t \in Strs : strs[t].ptr # p) => Blank(heap[p]))'
        BY <1>1, <1>8
    <2> QED
        BY <1>4, <1>7, <1>9, <2>1, <2>2 DEF Inv
<1>11. Len(x) \in Nat /\ Len(x) <= MaxLen
    BY <1>1, <1>2, TextFacts
<1> QED
    BY <1>6, <1>10, <1>11

(* A String moves to a variable that has none.                             *)
LEMMA MoveStep ==
    ASSUME Inv, NEW s \in Strs, NEW t \in Strs, Move(s, t)
    PROVE  /\ Inv' /\ s # t
           /\ TextOf(s)' = TextOf(t) /\ TextOf(t)' = <<>>
           /\ \A u \in Strs : u # s /\ u # t => TextOf(u)' = TextOf(u)
<1>1. /\ heap' = heap /\ s # t /\ strs[s] = Null /\ call' = <<"move", s, t>>
      /\ strs' = [strs EXCEPT ![s] = strs[t], ![t] = Null]
    BY DEF Move
<1>2. Null \in StrType /\ Null.ptr = NULL
    BY DEF Null, StrType, NULL
<1>3. /\ strs' \in [Strs -> StrType] /\ strs'[s] = strs[t] /\ strs'[t] = Null
      /\ \A u \in Strs : u # s /\ u # t => strs'[u] = strs[u]
    BY <1>1, <1>2 DEF Inv
<1>4. ASSUME NEW u \in Strs, NEW v \in Strs, strs'[u] = strs[v]
      PROVE  Sound(This(u))' /\ TextOf(u)' = TextOf(v)
    <2>1. Sound(This(v)) /\ This(v) = On(heap, strs[v])
        BY DEF Inv, This
    <2>2. This(u)' = This(v)
        BY <1>1, <1>4 DEF This, On
    <2>3. TextOf(u)' = TextOf(v)
        BY <1>1, <1>4 DEF TextOf, TextAt
    <2> QED
        BY <2>1, <2>2, <2>3
<1>5. TextOf(s)' = TextOf(t) /\ TextOf(t)' = <<>> /\ TextOf(s) = <<>>
    BY <1>1, <1>2, <1>3, <1>4 DEF TextOf
<1>6. \A u \in Strs : u # s /\ u # t => TextOf(u)' = TextOf(u)
    BY <1>3, <1>4
<1>7. \A u \in Strs : Sound(This(u))'
    BY <1>1, <1>3, <1>4
<1>8. ASSUME NEW u \in Strs, NEW v \in Strs, strs'[u].ptr # NULL, strs'[u].ptr = strs'[v].ptr
      PROVE  u = v
    <2>1. u # t /\ v # t
        BY <1>2, <1>3, <1>8
    <2>2. CASE u # s /\ v # s
        BY <1>3, <1>8, <2>1, <2>2 DEF Inv
    <2>3. CASE u = s /\ v # s
        BY <1>3, <1>8, <2>1, <2>3 DEF Inv
    <2>4. CASE u # s /\ v = s
        BY <1>3, <1>8, <2>1, <2>4 DEF Inv
    <2> QED
        BY <2>2, <2>3, <2>4
<1>9. ASSUME NEW p \in DOMAIN heap, \A u \in Strs : strs'[u].ptr # p
      PROVE  Blank(heap[p])
    <2>1. p # NULL
        BY DEF Inv, HeapOK
    <2>2. \A u \in Strs : strs[u].ptr # p
        BY <1>1, <1>2, <1>3, <1>9, <2>1
    <2> QED
        BY <2>2 DEF Inv
<1>10. Ended'
    BY <1>1 DEF Ended
<1>11. Inv'
    <2>1. HeapOK(heap)'
        BY <1>1 DEF Inv
    <2>2. (\A p \in DOMAIN heap : (\A u \in Strs : strs[u].ptr # p) => Blank(heap[p]))'
        BY <1>1, <1>9
    <2> QED
        BY <1>3, <1>7, <1>8, <1>10, <2>1, <2>2 DEF Inv
<1> QED
    BY <1>1, <1>5, <1>6, <1>11

(* reset clears the block of the String.                                   *)
LEMMA ResetClears ==
    ASSUME NEW m, Sound(m),
           NEW r, r.heap = IF m.str.ptr = NULL THEN m.heap
                           ELSE [m.heap EXCEPT ![m.str.ptr].bytes = [n \in DOMAIN @ |-> NUL]],
           r.str = [m.str EXCEPT !.len = 0]
    PROVE  Leads(m, r, <<>>)
<1> DEFINE ptr == m.str.ptr
           capacity == m.str.capacity
<1>1. /\ HeapOK(m.heap) /\ m.str \in StrType /\ capacity \in Nat
      /\ r.str = [ptr |-> ptr, len |-> 0, capacity |-> capacity]
    BY StrFields DEF Sound, StrType
<1>2. r.str.ptr = ptr /\ r.str.len = 0 /\ r.str.capacity = capacity
    BY <1>1
<1>3. CASE ptr = NULL
    <2>1. m.str = Null /\ r.heap = m.heap
        BY <1>3 DEF Sound
    <2>2. r.str = m.str
        BY <1>1, <2>1 DEF Null
    <2>3. Sound(r) /\ TextIn(r) = <<>>
        BY <1>1, <1>2, <1>3, <2>1, <2>2 DEF Sound, TextIn
    <2>4. Beside(r) = Beside(m)
        BY <1>2, <2>1 DEF Beside
    <2> QED
        BY <2>1, <2>3, <2>4 DEF Leads
<1>4. CASE ptr # NULL
    <2>1. ptr \in DOMAIN m.heap /\ capacity = Len(m.heap[ptr].bytes)
        BY <1>4 DEF Sound
    <2> DEFINE f == [n \in DOMAIN m.heap[ptr].bytes |-> NUL]
               b == [m.heap[ptr] EXCEPT !.bytes = f]
    <2>2. m.heap[ptr] \in Block
        BY <1>1, <2>1 DEF HeapOK
    <2>3. f \in Seq(Byte) /\ Len(f) = capacity /\ \A n \in 1 .. capacity : f[n] = NUL
        <3>1. DOMAIN m.heap[ptr].bytes = 1 .. capacity
            BY <2>1, <2>2 DEF Block
        <3>2. f \in [1 .. capacity -> Byte] /\ \A n \in 1 .. capacity : f[n] = NUL
            BY <3>1 DEF Byte
        <3> HIDE DEF f, capacity
        <3> QED
            BY <1>1, <3>2
    <2>4. r.heap = [m.heap EXCEPT ![ptr] = b]
        BY <1>4, <2>1
    <2> HIDE DEF f
    <2>5. b \in Block /\ b.bytes = f
        BY <2>2, <2>3 DEF Block
    <2> HIDE DEF b
    <2>6. /\ HeapOK(r.heap) /\ DOMAIN r.heap = DOMAIN m.heap /\ r.heap[ptr] = b
          /\ \A q \in DOMAIN m.heap : q # ptr => r.heap[q] = m.heap[q]
        BY <1>1, <2>1, <2>4, <2>5, HeapChange
    <2>7. <<>> \in Seq(Chars) /\ Len(<<>>) = 0
        OBVIOUS
    <2> HIDE DEF ptr, capacity
    <2> DEFINE s == On(r.heap, [ptr |-> ptr, len |-> 0, capacity |-> capacity])
    <2>8. Sound(s) /\ TextIn(s) = <<>>
        <3>1. /\ s.heap = r.heap /\ s.str = [ptr |-> ptr, len |-> 0, capacity |-> capacity]
              /\ s.str.ptr = ptr /\ s.str.len = 0 /\ s.str.capacity = capacity
            BY OnFields
        <3> HIDE DEF s
        <3>2. ptr \in Nat /\ s.str \in StrType
            BY <1>1, <3>1 DEF StrType, ptr
        <3>3. /\ ptr # NULL /\ ptr \in DOMAIN r.heap
              /\ capacity = Len(r.heap[ptr].bytes) /\ 0 <= capacity
              /\ \A n \in 1 .. capacity : r.heap[ptr].bytes[n] = NUL
            <4>1. ptr # NULL /\ ptr \in DOMAIN r.heap
                BY <1>4, <2>1, <2>6
            <4>2. r.heap[ptr].bytes = f
                BY <2>5, <2>6
            <4>3. capacity = Len(f) /\ 0 <= capacity
                BY <1>1, <2>3
            <4> QED
                BY <2>3, <4>1, <4>2, <4>3
        <3>a. /\ s.str.ptr # NULL /\ s.str.ptr \in DOMAIN s.heap
              /\ s.str.capacity = Len(s.heap[s.str.ptr].bytes) /\ s.str.len <= s.str.capacity
              /\ \A n \in 1 .. s.str.len : s.heap[s.str.ptr].bytes[n] \in Chars
              /\ \A n \in s.str.len + 1 .. s.str.capacity : s.heap[s.str.ptr].bytes[n] = NUL
            <4> PICK c, block : c = capacity /\ block = r.heap[ptr]
                OBVIOUS
            <4>1. /\ s.heap[s.str.ptr] = block /\ s.str.ptr # NULL /\ s.str.ptr \in DOMAIN s.heap
                  /\ s.str.len = 0 /\ s.str.capacity = c
                BY <3>1, <3>3
            <4>2. c = Len(block.bytes) /\ c \in Nat /\ \A n \in 1 .. c : block.bytes[n] = NUL
                BY <1>1, <3>3
            <4>3. \A n \in 1 .. s.str.len : FALSE
                BY <4>1
            <4>4. ASSUME NEW n \in s.str.len + 1 .. s.str.capacity
                  PROVE  block.bytes[n] = NUL
                <5> PICK l, k : l = s.str.len /\ k = s.str.capacity
                    OBVIOUS
                <5>1. l = 0 /\ k = c /\ n \in l + 1 .. k
                    BY <4>1
                <5>2. n \in 1 .. c
                    <6>1. l + 1 = 1
                        BY <5>1
                    <6> QED
                        BY <5>1, <6>1, Zenon
                <5> QED
                    BY <4>2, <5>2
            <4>5. s.str.capacity = Len(s.heap[s.str.ptr].bytes) /\ s.str.len <= s.str.capacity
                <5>1. s.str.capacity = Len(s.heap[s.str.ptr].bytes)
                    BY <4>1, <4>2
                <5>2. 0 <= c
                    BY <4>2
                <5>3. s.str.len = 0 /\ s.str.capacity = c
                    BY <4>1
                <5> QED
                    BY <5>1, <5>2, <5>3
            <4>6. \A n \in 1 .. s.str.len : s.heap[s.str.ptr].bytes[n] \in Chars
                BY <4>3
            <4>7. \A n \in s.str.len + 1 .. s.str.capacity : s.heap[s.str.ptr].bytes[n] = NUL
                BY <4>1, <4>4
            <4> QED
                BY <4>1, <4>5, <4>6, <4>7
        <3>4. Sound(s)
            BY <2>6, <3>1, <3>2, <3>a DEF Sound
        <3>5. Len(TextIn(s)) = 0 /\ TextIn(s) \in Seq(Chars)
            BY <3>1, <3>4, TextFacts
        <3> QED
            BY <3>4, <3>5
    <2>9. Sound(r) /\ TextIn(r) = <<>>
        <3>1. s.heap = r.heap /\ s.str = r.str
            BY <1>1, OnFields DEF ptr, capacity
        <3> HIDE DEF s
        <3> QED
            BY <2>8, <3>1 DEF Sound, TextIn
    <2>10. Beside(r) = Beside(m) /\ \A q \in Beside(m) : r.heap[q] = m.heap[q]
        BY <1>2, <2>6 DEF Beside, ptr
    <2> QED
        BY <2>9, <2>10 DEF Leads
<1> QED
    BY <1>3, <1>4

-----------------------------------------------------------------------------
(* The texts.                                                              *)

(* The texts within the bound.                                             *)
LEMMA ShortTexts ==
    ASSUME NEW x \in Seq(Chars), Len(x) <= MaxLen
    PROVE  x \in BoundedSeq(Chars, MaxLen)
<1>1. Len(x) \in 0 .. MaxLen /\ x \in [1 .. Len(x) -> Chars]
    BY StringsAssumption
<1> QED
    BY <1>1 DEF BoundedSeq, SeqOf

texts == [s \in Strs |-> TextOf(s)]

(* One text changes, the others stay.                                      *)
LEMMA TextsChange ==
    ASSUME NEW s \in Strs, NEW x, \A t \in Strs : TextOf(t)' = IF t = s THEN x ELSE TextOf(t)
    PROVE  texts' = [texts EXCEPT ![s] = x]
    BY DEF texts

(* One text takes the place of another.                                    *)
LEMMA TextsMove ==
    ASSUME NEW s \in Strs, NEW t \in Strs, s # t,
           TextOf(s)' = TextOf(t), TextOf(t)' = <<>>,
           \A u \in Strs : u # s /\ u # t => TextOf(u)' = TextOf(u)
    PROVE  texts' = [texts EXCEPT ![s] = TextOf(t), ![t] = <<>>]
    BY DEF texts

(* The calls, each as its effect on the texts.                             *)
LEMMA AppendCharsStep ==
    ASSUME Inv, NEW s \in Strs, NEW x \in Seq(Chars), AppendChars(s, x)
    PROVE  Inv' /\ \E y \in BoundedSeq(Chars, MaxLen) : Texts!Extend(s, y)
<1>m. PICK m : m = append_chars(This(s), x)
    OBVIOUS
<1>1. Sound(This(s)) /\ TextOf(s) = TextIn(This(s)) /\ TextOf(s) \in Seq(Chars)
    BY ThisText
<1>2. Leads(This(s), m, TextIn(This(s)) \o x)
    BY <1>1, <1>m, CharsAppended
<1>3. Done(s, m, "append", x)
    BY <1>m DEF AppendChars
<1>t. PICK text : text = TextOf(s) \o x
    OBVIOUS
<1>5. /\ Inv'
      /\ \A t \in Strs : TextOf(t)' = IF t = s THEN text ELSE TextOf(t)
      /\ Len(text) <= MaxLen
    <2>1. Leads(This(s), m, text)
        BY <1>1, <1>2, <1>t
    <2> QED
        BY <1>3, <2>1, DoneStep
<1>6. texts' = [texts EXCEPT ![s] = text]
    BY <1>5, TextsChange
<1>7. x \in BoundedSeq(Chars, MaxLen)
    <2>1. Len(text) = Len(TextOf(s)) + Len(x)
        BY <1>1, <1>t, ConcatProperties
    <2>2. Len(x) \in Nat /\ Len(TextOf(s)) \in Nat
        BY <1>1
    <2>3. Len(x) <= MaxLen
        BY <1>5, <2>1, <2>2, StringsAssumption
    <2> QED
        BY <2>3, ShortTexts
<1>8. Texts!Extend(s, x)
    <2>1. texts' = [texts EXCEPT ![s] = texts[s] \o x]
        BY <1>6, <1>t DEF texts
    <2>2. call' = <<"append", s, x>>
        BY <1>3 DEF Done
    <2> QED
        BY <2>1, <2>2, Zenon DEF texts, Texts!Extend, Texts!Called
<1> QED
    BY <1>5, <1>7, <1>8

(* append(char) extends the text by the character.                         *)
LEMMA AppendCharStep ==
    ASSUME Inv, NEW s \in Strs, NEW c \in Chars, AppendChar(s, c)
    PROVE  Inv' /\ \E y \in BoundedSeq(Chars, MaxLen) : Texts!Extend(s, y)
<1>m. PICK m : m = append_char(This(s), c)
    OBVIOUS
<1>1. Sound(This(s)) /\ TextOf(s) = TextIn(This(s)) /\ TextOf(s) \in Seq(Chars)
    BY ThisText
<1>2. Leads(This(s), m, TextIn(This(s)) \o <<c>>)
    BY <1>1, <1>m, CharAppended
<1>3. Done(s, m, "append", <<c>>)
    BY <1>m DEF AppendChar
<1>t. PICK text : text = TextOf(s) \o <<c>>
    OBVIOUS
<1>5. /\ Inv'
      /\ \A t \in Strs : TextOf(t)' = IF t = s THEN text ELSE TextOf(t)
      /\ Len(text) <= MaxLen
    <2>1. Leads(This(s), m, text)
        BY <1>1, <1>2, <1>t
    <2>x. PICK x : x = <<c>>
        OBVIOUS
    <2>3. Done(s, m, "append", x)
        BY <1>3, <2>x
    <2> QED
        BY <2>1, <2>3, DoneStep
<1>6. texts' = [texts EXCEPT ![s] = text]
    BY <1>5, TextsChange
<1>7. <<c>> \in BoundedSeq(Chars, MaxLen)
    <2>0. <<c>> \in Seq(Chars) /\ Len(<<c>>) = 1
        OBVIOUS
    <2>1. Len(text) = Len(TextOf(s)) + 1
        BY <1>1, <1>t, <2>0, ConcatProperties
    <2>2. Len(TextOf(s)) \in Nat
        BY <1>1
    <2>3. Len(<<c>>) <= MaxLen
        BY <1>5, <2>0, <2>1, <2>2, StringsAssumption
    <2> QED
        BY <2>0, <2>3, ShortTexts
<1>8. Texts!Extend(s, <<c>>)
    <2>1. texts' = [texts EXCEPT ![s] = texts[s] \o <<c>>]
        BY <1>6, <1>t DEF texts
    <2>2. call' = <<"append", s, <<c>>>>
        BY <1>3 DEF Done
    <2> QED
        BY <2>1, <2>2, Zenon DEF texts, Texts!Extend, Texts!Called
<1> QED
    BY <1>5, <1>7, <1>8

(* append(String&) extends the text by that of the other, or by itself.    *)
LEMMA AppendStringStep ==
    ASSUME Inv, NEW s \in Strs, NEW u \in Strs, AppendString(s, u)
    PROVE  Inv' /\ Texts!AppendText(s, u)
<1>m. PICK m : m = append_string(This(s), TextOf(u))
    OBVIOUS
<1>1. Sound(This(s)) /\ TextOf(s) = TextIn(This(s)) /\ TextOf(u) \in Seq(Chars)
    BY ThisText
<1>2. Leads(This(s), m, TextIn(This(s)) \o TextOf(u))
    BY <1>1, <1>m, StringAppended
<1>3. Done(s, m, "append_string", u)
    BY <1>m DEF AppendString
<1>t. PICK text : text = TextOf(s) \o TextOf(u)
    OBVIOUS
<1>5. Inv' /\ \A t \in Strs : TextOf(t)' = IF t = s THEN text ELSE TextOf(t)
    <2>1. Leads(This(s), m, text)
        BY <1>1, <1>2, <1>t
    <2> QED
        BY <1>3, <2>1, DoneStep
<1>6. texts' = [texts EXCEPT ![s] = text]
    BY <1>5, TextsChange
<1>8. Texts!AppendText(s, u)
    <2>1. texts' = [texts EXCEPT ![s] = texts[s] \o texts[u]]
        BY <1>6, <1>t DEF texts
    <2>2. call' = <<"append_string", s, u>>
        BY <1>3 DEF Done
    <2> QED
        BY <2>1, <2>2, Zenon DEF texts, Texts!AppendText, Texts!Called
<1> QED
    BY <1>5, <1>8

(* A copy has the text of the other, whatever it held before.              *)
LEMMA CopyStep ==
    ASSUME Inv, NEW s \in Strs, NEW u \in Strs, Copy(s, u)
    PROVE  Inv' /\ Texts!Copy(s, u)
<1>q. PICK q : q = destroyed(This(s))
    OBVIOUS
<1>m. PICK m : m = append_chars(q, TextOf(u))
    OBVIOUS
<1>1. Sound(This(s)) /\ TextOf(u) \in Seq(Chars)
    BY ThisText
<1>2. Leads(This(s), q, <<>>)
    BY <1>1, <1>q, Destroyed
<1>3. Sound(q) /\ TextIn(q) = <<>>
    BY <1>2 DEF Leads
<1>4. Leads(q, m, TextIn(q) \o TextOf(u)) /\ m.str.len < m.str.capacity
    BY <1>1, <1>3, <1>m, CharsAppended
<1>5. TextIn(q) \o TextOf(u) = TextOf(u)
    BY <1>1, <1>3, ConcatEmptySeq
<1>t. PICK text : text = TextOf(u)
    OBVIOUS
<1>6. Leads(This(s), m, text)
    BY <1>2, <1>4, <1>5, <1>t, LeadsOn
<1>7. Done(s, m, "copy", u)
    BY <1>m, <1>q DEF Copy
<1>9. Inv' /\ \A t \in Strs : TextOf(t)' = IF t = s THEN text ELSE TextOf(t)
    BY <1>4, <1>6, <1>7, DoneStep
<1>10. texts' = [texts EXCEPT ![s] = text]
    BY <1>9, TextsChange
<1>11. Texts!Copy(s, u)
    <2>1. texts' = [texts EXCEPT ![s] = texts[u]]
        BY <1>10, <1>t DEF texts
    <2>2. call' = <<"copy", s, u>>
        BY <1>7 DEF Done
    <2> QED
        BY <2>1, <2>2, Zenon DEF texts, Texts!Copy, Texts!Called
<1> QED
    BY <1>9, <1>11

(* A text that moved is gone where it was.                                 *)
LEMMA MoveTextStep ==
    ASSUME Inv, NEW s \in Strs, NEW u \in Strs, Move(s, u)
    PROVE  Inv' /\ Texts!Move(s, u)
<1>1. /\ Inv' /\ s # u
      /\ TextOf(s)' = TextOf(u) /\ TextOf(u)' = <<>>
      /\ \A t \in Strs : t # s /\ t # u => TextOf(t)' = TextOf(t)
    BY MoveStep
<1>2. texts' = [texts EXCEPT ![s] = TextOf(u), ![u] = <<>>]
    BY <1>1, TextsMove
<1>3. texts' = [texts EXCEPT ![s] = texts[u], ![u] = <<>>]
    BY <1>2 DEF texts
<1>4. call' = <<"move", s, u>>
    BY DEF Move
<1>5. Texts!Move(s, u)
    BY <1>1, <1>3, <1>4, Zenon DEF texts, Texts!Move, Texts!Called
<1> QED
    BY <1>1, <1>5

(* A String without a block: what an operator+ starts from.                *)
LEMMA FromNull ==
    ASSUME Inv, NEW s \in Strs, strs[s] = Null, NEW x \in Seq(Chars),
           NEW q, q = append_chars(On(heap, Null), x)
    PROVE  Leads(This(s), q, x)
<1>1. Sound(This(s)) /\ TextIn(This(s)) = <<>>
    BY ThisText DEF TextOf, Null
<1>2. q = append_chars(This(s), x)
    BY DEF This
<1>3. Leads(This(s), q, TextIn(This(s)) \o x)
    BY <1>1, <1>2, CharsAppended
<1>4. TextIn(This(s)) \o x = x
    BY <1>1, ConcatEmptySeq
<1> QED
    BY <1>3, <1>4

(* operator+ makes a text of two, of which none changes.                   *)
LEMMA ConcatStep ==
    ASSUME Inv, NEW s \in Strs, NEW u \in Strs, NEW x \in Seq(Chars), NEW q, NEW m,
           q = append_chars(On(heap, Null), TextOf(u)),
           Leads(q, m, TextIn(q) \o x), strs[s] = Null, Done(s, m, "concat", <<u, x>>)
    PROVE  Inv' /\ \E y \in BoundedSeq(Chars, MaxLen) : Texts!Concat(s, u, y)
<1>1. TextOf(u) \in Seq(Chars)
    BY ThisText
<1>2. Leads(This(s), q, TextOf(u))
    BY <1>1, FromNull
<1>t. PICK text : text = TextOf(u) \o x
    OBVIOUS
<1>3. Leads(This(s), m, text)
    <2>1. TextIn(q) \o x = text
        BY <1>2, <1>t DEF Leads
    <2> QED
        BY <1>2, <2>1, LeadsOn
<1>5. /\ Inv'
      /\ \A t \in Strs : TextOf(t)' = IF t = s THEN text ELSE TextOf(t)
      /\ Len(text) <= MaxLen
    <2>x. PICK arg : arg = <<u, x>>
        OBVIOUS
    <2>1. Done(s, m, "concat", arg)
        BY <2>x
    <2> QED
        BY <1>3, <2>1, DoneStep
<1>6. texts' = [texts EXCEPT ![s] = text]
    BY <1>5, TextsChange
<1>7. x \in BoundedSeq(Chars, MaxLen)
    <2>1. Len(text) = Len(TextOf(u)) + Len(x)
        BY <1>1, <1>t, ConcatProperties
    <2>2. Len(x) \in Nat /\ Len(TextOf(u)) \in Nat
        BY <1>1
    <2>3. Len(x) <= MaxLen
        BY <1>5, <2>1, <2>2, StringsAssumption
    <2> QED
        BY <2>3, ShortTexts
<1>8. Texts!Concat(s, u, x)
    <2>1. texts' = [texts EXCEPT ![s] = texts[u] \o x]
        BY <1>6, <1>t DEF texts
    <2>2. call' = <<"concat", s, <<u, x>>>>
        BY DEF Done
    <2> QED
        BY <2>1, <2>2, Zenon DEF texts, Texts!Concat, Texts!Called
<1> QED
    BY <1>5, <1>7, <1>8

(* destroy and reset leave an empty text.                                  *)
LEMMA ClearStep ==
    ASSUME Inv, NEW s \in Strs, NEW m, Leads(This(s), m, <<>>), Done(s, m, "clear", s)
    PROVE  Inv' /\ Texts!Clear(s)
<1>t. PICK text : text = <<>>
    OBVIOUS
<1>1. Inv' /\ \A t \in Strs : TextOf(t)' = IF t = s THEN text ELSE TextOf(t)
    <2>1. Leads(This(s), m, text)
        BY <1>t
    <2> QED
        BY <2>1, DoneStep
<1>2. texts' = [texts EXCEPT ![s] = text]
    BY <1>1, TextsChange
<1>3. texts' = [texts EXCEPT ![s] = <<>>] /\ call' = <<"clear", s, s>>
    BY <1>2, <1>t DEF Done
<1>4. Texts!Clear(s)
    BY <1>3, Zenon DEF texts, Texts!Clear, Texts!Called
<1> QED
    BY <1>1, <1>4

(* Every call keeps the invariant, and is a call on the texts.             *)
LEMMA NextStep ==
    ASSUME Inv, Next
    PROVE  Inv' /\ Texts!Next
<1> PICK s \in Strs :
        \/ \E x \in Literals : AppendChars(s, x)
        \/ \E c \in Chars : AppendChar(s, c)
        \/ \E t \in Strs : AppendString(s, t) \/ Copy(s, t) \/ Move(s, t)
        \/ \E t \in Strs, x \in Literals : Concat(s, t, x)
        \/ \E t, u \in Strs : ConcatString(s, t, u)
        \/ destroy(s) \/ reset(s)
    BY DEF Next
<1>0. Sound(This(s)) /\ Literals \subseteq Seq(Chars)
    BY ThisText, StringsAssumption
<1>1. ASSUME NEW x \in Literals, AppendChars(s, x)
      PROVE  Inv' /\ Texts!Next
    <2>1. x \in Seq(Chars)
        BY <1>0
    <2>2. Inv' /\ \E y \in BoundedSeq(Chars, MaxLen) : Texts!Extend(s, y)
        BY <1>1, <2>1, AppendCharsStep
    <2> QED
        BY <2>2 DEF Texts!Next
<1>2. ASSUME NEW c \in Chars, AppendChar(s, c)
      PROVE  Inv' /\ Texts!Next
    <2>1. Inv' /\ \E y \in BoundedSeq(Chars, MaxLen) : Texts!Extend(s, y)
        BY <1>2, AppendCharStep
    <2> QED
        BY <2>1 DEF Texts!Next
<1>3. ASSUME NEW t \in Strs, AppendString(s, t)
      PROVE  Inv' /\ Texts!Next
    BY <1>3, AppendStringStep DEF Texts!Next
<1>4. ASSUME NEW t \in Strs, Copy(s, t)
      PROVE  Inv' /\ Texts!Next
    BY <1>4, CopyStep DEF Texts!Next
<1>5. ASSUME NEW t \in Strs, Move(s, t)
      PROVE  Inv' /\ Texts!Next
    BY <1>5, MoveTextStep DEF Texts!Next
<1>6. ASSUME NEW t \in Strs, NEW x \in Literals, Concat(s, t, x)
      PROVE  Inv' /\ Texts!Next
    <2>q. PICK q : q = append_chars(On(heap, Null), TextOf(t))
        OBVIOUS
    <2>m. PICK m : m = append_chars(q, x)
        OBVIOUS
    <2>1. strs[s] = Null /\ Done(s, m, "concat", <<t, x>>)
        BY <1>6, <2>q, <2>m DEF Concat
    <2>2. Sound(q)
        <3>1. TextOf(t) \in Seq(Chars)
            BY ThisText
        <3>2. Leads(This(s), q, TextOf(t))
            BY <2>1, <2>q, <3>1, FromNull
        <3> QED
            BY <3>2 DEF Leads
    <2>3. x \in Seq(Chars)
        BY <1>0
    <2>4. Leads(q, m, TextIn(q) \o x)
        BY <2>2, <2>3, <2>m, CharsAppended
    <2>5. Inv' /\ \E y \in BoundedSeq(Chars, MaxLen) : Texts!Concat(s, t, y)
        BY <2>q, <2>1, <2>3, <2>4, ConcatStep
    <2> QED
        BY <2>5 DEF Texts!Next
<1>7. ASSUME NEW t \in Strs, NEW u \in Strs, ConcatString(s, t, u)
      PROVE  Inv' /\ Texts!Next
    <2>q. PICK q : q = append_chars(On(heap, Null), TextOf(t))
        OBVIOUS
    <2>x. PICK x : x = TextOf(u)
        OBVIOUS
    <2>m. PICK m : m = append_string(q, x)
        OBVIOUS
    <2>1. strs[s] = Null /\ Done(s, m, "concat", <<t, x>>)
        BY <1>7, <2>q, <2>m, <2>x DEF ConcatString
    <2>2. Sound(q) /\ x \in Seq(Chars)
        <3>1. TextOf(t) \in Seq(Chars) /\ TextOf(u) \in Seq(Chars)
            BY ThisText
        <3>2. Leads(This(s), q, TextOf(t))
            BY <2>1, <2>q, <3>1, FromNull
        <3> QED
            BY <2>x, <3>1, <3>2 DEF Leads
    <2>4. Leads(q, m, TextIn(q) \o x)
        BY <2>2, <2>m, StringAppended
    <2>5. Inv' /\ \E y \in BoundedSeq(Chars, MaxLen) : Texts!Concat(s, t, y)
        BY <2>q, <2>1, <2>2, <2>4, ConcatStep
    <2> QED
        BY <2>5 DEF Texts!Next
<1>8. ASSUME destroy(s)
      PROVE  Inv' /\ Texts!Next
    <2>m. PICK m : m = destroyed(This(s))
        OBVIOUS
    <2>1. Leads(This(s), m, <<>>)
        BY <1>0, <2>m, Destroyed
    <2>2. Done(s, m, "clear", s)
        BY <1>8, <2>m DEF destroy
    <2>3. Inv' /\ Texts!Clear(s)
        BY <2>1, <2>2, ClearStep
    <2> QED
        BY <2>3 DEF Texts!Next
<1>9. ASSUME reset(s)
      PROVE  Inv' /\ Texts!Next
    <2>h. PICK h : h = IF strs[s].ptr = NULL THEN heap
                       ELSE [heap EXCEPT ![strs[s].ptr].bytes = [n \in DOMAIN @ |-> NUL]]
        OBVIOUS
    <2>m. PICK m : m = On(h, [strs[s] EXCEPT !.len = 0])
        OBVIOUS
    <2>1. Done(s, m, "clear", s)
        BY <1>9, <2>h, <2>m DEF reset
    <2>2. This(s).heap = heap /\ This(s).str = strs[s] /\ m.heap = h /\ m.str = [strs[s] EXCEPT !.len = 0]
        BY <2>m, OnFields DEF This
    <2>3. Leads(This(s), m, <<>>)
        <3>1. PICK q : q = This(s)
            OBVIOUS
        <3>2. Sound(q) /\ q.heap = heap /\ q.str = strs[s]
            BY <1>0, <2>2, <3>1
        <3>3. /\ m.heap = IF q.str.ptr = NULL THEN q.heap
                          ELSE [q.heap EXCEPT ![q.str.ptr].bytes = [n \in DOMAIN @ |-> NUL]]
              /\ m.str = [q.str EXCEPT !.len = 0]
            BY <2>h, <2>2, <3>2
        <3>4. Leads(q, m, <<>>)
            BY <3>2, <3>3, ResetClears
        <3> QED
            BY <3>1, <3>4
    <2>4. Inv' /\ Texts!Clear(s)
        BY <2>1, <2>3, ClearStep
    <2> QED
        BY <2>4 DEF Texts!Next
<1> QED
    BY <1>1, <1>2, <1>3, <1>4, <1>5, <1>6, <1>7, <1>8, <1>9

(* At the start no variable has a block.                                   *)
LEMMA InitInv == Init => Inv /\ Texts!Init
<1> SUFFICES ASSUME Init
             PROVE  Inv /\ Texts!Init
    OBVIOUS
<1>1. heap = << >> /\ strs = [s \in Strs |-> Null] /\ call = <<>>
    BY DEF Init
<1>2. HeapOK(heap) /\ DOMAIN heap = {}
    BY <1>1, FS_EmptySet DEF HeapOK
<1>3. Null \in StrType /\ Null.ptr = NULL
    BY DEF Null, StrType, NULL
<1>4. ASSUME NEW s \in Strs
      PROVE  strs[s] = Null /\ Sound(This(s)) /\ TextOf(s) = <<>>
    <2>1. strs[s] = Null /\ This(s).str = Null /\ This(s).heap = heap
        BY <1>1, OnFields DEF This
    <2> QED
        BY <1>2, <1>3, <2>1 DEF Sound, TextOf
<1>5. Ended
    BY <1>3, <1>4 DEF Ended
<1>6. strs \in [Strs -> StrType]
    BY <1>1, <1>3
<1>7. Inv
    BY <1>2, <1>3, <1>4, <1>5, <1>6 DEF Inv
<1>8. texts = [s \in Strs |-> <<>>]
    BY <1>4 DEF texts
<1>9. Texts!Init
    BY <1>1, <1>8, Zenon DEF texts, Texts!Init
<1> QED
    BY <1>7, <1>9

(* Where nothing changes, the texts stay.                                  *)
LEMMA StaySame ==
    ASSUME Inv, UNCHANGED vars
    PROVE  Inv' /\ texts' = texts /\ call' = call
<1>1. heap' = heap /\ strs' = strs /\ call' = call
    BY DEF vars
<1>2. \A s \in Strs : This(s)' = This(s) /\ TextOf(s)' = TextOf(s)
    BY <1>1 DEF This, TextOf
<1>3. texts' = texts
    BY <1>2 DEF texts
<1>4. Ended'
    BY <1>1 DEF Inv, Ended
<1>5. Inv'
    BY <1>1, <1>2, <1>4 DEF Inv
<1> QED
    BY <1>1, <1>3, <1>5

(* The invariant holds in every state.                                     *)
LEMMA Invariant == Spec => []Inv
<1>1. Init => Inv
    BY InitInv
<1>2. Inv /\ [Next]_vars => Inv'
    BY NextStep, StaySame
<1> QED
    BY <1>1, <1>2, PTL DEF Spec

-----------------------------------------------------------------------------
(* A String that is not null owns a block of its capacity, alone; a block  *)
(* that no String points to holds no text: nothing is freed twice, and no  *)
(* text is lost.                                                           *)
THEOREM BlocksAreOwned == Spec => []TypeOK
<1>1. Inv => TypeOK
    <2> SUFFICES ASSUME Inv
                 PROVE  TypeOK
        OBVIOUS
    <2>1. ASSUME NEW p \in DOMAIN heap
          PROVE  /\ heap[p].bytes \in Seq(Chars \cup {NUL})
                 /\ Cardinality(Owners(p)) <= 1
                 /\ Owners(p) = {} => \A n \in DOMAIN heap[p].bytes : heap[p].bytes[n] = NUL
        <3>1. heap[p] \in Block /\ p # NULL
            BY <2>1 DEF Inv, HeapOK
        <3>2. heap[p].bytes \in Seq(Chars \cup {NUL})
            BY <3>1 DEF Block, Byte
        <3>3. Cardinality(Owners(p)) <= 1
            <4>1. CASE Owners(p) = {}
                BY <4>1, FS_EmptySet
            <4>2. CASE Owners(p) # {}
                <5>1. PICK s : s \in Owners(p)
                    BY <4>2
                <5>2. \A t \in Owners(p) : t = s
                    BY <3>1, <5>1 DEF Owners, Inv
                <5>3. Owners(p) = {s}
                    BY <5>1, <5>2
                <5> QED
                    BY <5>3, FS_Singleton
            <4> QED
                BY <4>1, <4>2
        <3>4. ASSUME Owners(p) = {}
              PROVE  \A n \in DOMAIN heap[p].bytes : heap[p].bytes[n] = NUL
            <4>1. \A s \in Strs : strs[s].ptr # p
                BY <3>4 DEF Owners
            <4> QED
                BY <4>1 DEF Inv, Blank
        <3> QED
            BY <3>2, <3>3, <3>4
    <2>2. ASSUME NEW s \in Strs
          PROVE  IF strs[s].ptr = NULL THEN strs[s] = Null
                 ELSE /\ strs[s].ptr \in DOMAIN heap
                      /\ strs[s].capacity = Len(heap[strs[s].ptr].bytes)
                      /\ strs[s].len \in 0 .. strs[s].capacity
        <3>1. Sound(This(s)) /\ This(s).str = strs[s] /\ This(s).heap = heap
            BY OnFields DEF Inv, This
        <3>2. strs[s].len \in Nat /\ strs[s].capacity \in Nat
            BY DEF Inv, StrType
        <3> QED
            BY <3>1, <3>2 DEF Sound
    <2> QED
        BY <2>1, <2>2 DEF TypeOK
<1> QED
    BY <1>1, Invariant, PTL

(* Behind every text its block is zero, whatever was in the block before   *)
(* and whichever call changed the length (cortex.h 966-1044), and a copied *)
(* text has at least one such byte: C functions read no more than it.      *)
THEOREM TextsAreTerminated == Spec => []Terminated
<1>1. Inv => Terminated
    <2> SUFFICES ASSUME Inv, NEW s \in Strs, strs[s].ptr # NULL
                 PROVE  /\ \A n \in strs[s].len + 1 .. strs[s].capacity :
                               heap[strs[s].ptr].bytes[n] = NUL
                        /\ call[1] = "copy" /\ call[2] = s => strs[s].len < strs[s].capacity
        BY DEF Terminated
    <2>1. Sound(This(s)) /\ This(s).str = strs[s] /\ This(s).heap = heap
        BY OnFields DEF Inv, This
    <2>2. Ended
        BY DEF Inv
    <2> QED
        BY <2>1, <2>2 DEF Sound, Ended
<1> QED
    BY <1>1, Invariant, PTL

(* The Strings implement variables that hold texts: whatever grows, moves, *)
(* is freed or cleared, every call has the effect on the texts that it     *)
(* says, and no other.                                                     *)
THEOREM StringsImplementTexts == Spec => IsText
<1>1. Init => Texts!Init
    BY InitInv
<1>2. Inv /\ [Next]_vars => [Texts!Next]_<<texts, call>>
    BY NextStep, StaySame
<1> QED
    BY <1>1, <1>2, Invariant, PTL DEF Spec, IsText, Texts!Spec, texts
=============================================================================
