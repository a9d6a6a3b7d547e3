------------------------------- MODULE Pools --------------------------------
(***************************************************************************)
(* The arrays of the front end that share the Arena of the Ast: DynArray   *)
(* (cortex.h 679-760), the pools of nodes and types, which hand out        *)
(* pointers to their elements (ast.h 447-465), and the lists of nodes,     *)
(* which are read through the array (`args` and `stmts` of the parser).    *)
(* An array that is full moves; its old memory stays, for dealloc does     *)
(* nothing, and so do the pointers into it.                                *)
(***************************************************************************)
EXTENDS Arena, SequencesExt

CONSTANTS
    PoolArrays,     \* the pools: node_pool, type_pool
    ListArrays,     \* the lists
    ElemSize,       \* sizeof(T)
    GrowBy,         \* the 8 of `better_capacity * 5 / 2 + 8`
    MaxAppends      \* bound: the elements appended in a run

Arrays == PoolArrays \cup ListArrays

ASSUME PoolsAssumption ==
    /\ PoolArrays \cap ListArrays = {}
    /\ ElemSize \in [Arrays -> Nat \ {0}]
    /\ GrowBy \in Nat \ {0}
    /\ MaxAppends \in Nat

VARIABLES
    arrays,     \* the DynArrays: ptr, len, capacity
    mem,        \* what the bytes that were written hold
    elems,      \* for each array what was appended: the pointer returned, and
                \* the value last written to the element by whoever has it
    kept        \* the lists that were moved into a node, with their elements

poolVars == <<blocks, offset, allocs, arrays, mem, elems, kept>>

NULL == [block |-> 0, start |-> 0]

-----------------------------------------------------------------------------
(* Memory.  A value fills the bytes of its element.                        *)

Bytes(ptr, size) == {ptr.block} \X (ptr.start .. ptr.start + size - 1)

(* What mmap returns is zero. *)
Byte(m, x) == IF x \in DOMAIN m THEN m[x] ELSE 0

Store(m, ptr, size, val) ==
    [x \in DOMAIN m \cup Bytes(ptr, size) |->
        IF x \in Bytes(ptr, size) THEN val ELSE m[x]]

memcpy(m, dst, src, size) ==
    [x \in DOMAIN m \cup Bytes(dst, size) |->
        IF x \in Bytes(dst, size)
        THEN Byte(m, <<src.block, src.start + x[2] - dst.start>>)
        ELSE m[x]]

Reads(ptr, size, val) == \A x \in Bytes(ptr, size) : Byte(mem, x) = val

-----------------------------------------------------------------------------

Element(a, ptr, idx) == [block |-> ptr.block, start |-> ptr.start + idx * ElemSize[a]]

(* The array is taken for full one element too late, but for the first.    *)
Full_slip(a) == arrays[a].capacity < arrays[a].len \/ arrays[a].capacity = 0

(* `capacity <= len + 1` makes append call ensure_capacity(len + 1), which *)
(* returns if there is room for that.                                      *)
Full(a) ==
    /\ arrays[a].capacity <= arrays[a].len + 1
    /\ ~(arrays[a].capacity >= arrays[a].len + 1)

(* An array without memory grows to nothing.                               *)
Better_slip(capacity) == (capacity * 5) \div 2

(* The loop of ensure_capacity: once is enough for one more element.       *)
Better(capacity) == (capacity * 5) \div 2 + GrowBy

(* The values are the numbers of the elements, in the order they come.     *)
Appended ==
    SumFunction([a \in Arrays |-> Len(elems[a])])
        + SumFunction([l \in kept |-> Len(l.elems)])

(* append of an element to array a, which is now at ptr, in memory m.      *)
Append_to(a, ptr, capacity, m) ==
    LET len == arrays[a].len
        at  == Element(a, ptr, len)
        val == Appended + 1
    IN  /\ arrays' = [arrays EXCEPT
               ![a] = [ptr |-> ptr, len |-> len + 1, capacity |-> capacity]]
        /\ mem' = Store(m, at, ElemSize[a], val)
        /\ elems' = [elems EXCEPT ![a] = Append(@, [at |-> at, val |-> val])]
        /\ UNCHANGED kept

AppendInPlace(a) ==
    /\ ~Full(a)
    /\ Append_to(a, arrays[a].ptr, arrays[a].capacity, mem)
    /\ UNCHANGED vars

(* The new block takes the old contents, len elements of them.             *)
AppendMoved(a) ==
    LET old    == arrays[a]
        better == Better(old.capacity)
        tmp    == [block |-> Last(allocs').block, start |-> Last(allocs').start]
    IN  /\ Full(a)
        /\ alloc(better * ElemSize[a])
        /\ Append_to(a, tmp, better,
               memcpy(mem, tmp, old.ptr, old.len * ElemSize[a]))

append(a) == AppendInPlace(a) \/ AppendMoved(a)

(* The parser writes to a node or a type through the pointer that new_node *)
(* or new_type returned, at any time later: the value becomes its negative. *)
Write(a) ==
    \E n \in DOMAIN elems[a] :
        /\ elems[a][n].val > 0
        /\ mem' = Store(mem, elems[a][n].at, ElemSize[a], -elems[a][n].val)
        /\ elems' = [elems EXCEPT ![a][n].val = -@]
        /\ UNCHANGED <<vars, arrays, kept>>

NoArray == [ptr |-> NULL, len |-> 0, capacity |-> 0]

(* move: the list is handed to its node, which keeps the memory, and the   *)
(* next list (`args` and `stmts` are locals) begins without any.           *)
move(a) ==
    /\ arrays[a].len > 0
    /\ kept' = kept \cup {[of |-> a, ptr |-> arrays[a].ptr, elems |-> elems[a]]}
    /\ arrays' = [arrays EXCEPT ![a] = NoArray]
    /\ elems' = [elems EXCEPT ![a] = <<>>]
    /\ UNCHANGED <<vars, mem>>

PoolInit ==
    /\ Init
    /\ arrays = [a \in Arrays |-> NoArray]
    /\ mem = <<>>
    /\ elems = [a \in Arrays |-> <<>>]
    /\ kept = {}

PoolNext ==
    \/ Appended < MaxAppends /\ \E a \in Arrays : append(a)
    \/ \E a \in PoolArrays : Write(a)
    \/ \E a \in ListArrays : move(a)

PoolSpec == PoolInit /\ [][PoolNext]_poolVars

-----------------------------------------------------------------------------

Pointer == [block : 0 .. Len(blocks), start : Nat]

(* The memory of an array is what alloc returned for its capacity.         *)
Backed ==
    \A a \in Arrays : arrays[a].capacity > 0 =>
        \E n \in DOMAIN allocs : allocs[n] =
            [block |-> arrays[a].ptr.block, start |-> arrays[a].ptr.start,
             size |-> arrays[a].capacity * ElemSize[a]]

(* The type invariant of the arena and its arrays, whose memory is all     *)
(* from the arena.                                                         *)
PoolTypeOK ==
    /\ TypeOK
    /\ Backed
    /\ arrays \in [Arrays -> [ptr : Pointer, len : Nat, capacity : Nat]]
    /\ \A a \in Arrays :
           /\ arrays[a].len = Len(elems[a])
           /\ arrays[a].len <= arrays[a].capacity
           /\ \A n \in DOMAIN elems[a] : elems[a][n].at \in Pointer
    /\ \A l \in kept : l.ptr \in Pointer

(* A pointer that new_node or new_type returned reads what was last        *)
(* written through it, also after the pool has moved.                      *)
PointersHold ==
    \A a \in PoolArrays : \A n \in DOMAIN elems[a] :
        Reads(elems[a][n].at, ElemSize[a], elems[a][n].val)

(* A list reads what was appended to it, in order, wherever it is now.     *)
ListsHold ==
    LET growing == {[of |-> a, ptr |-> arrays[a].ptr, elems |-> elems[a]] : a \in ListArrays}
    IN  \A l \in kept \cup growing : \A n \in DOMAIN l.elems :
            Reads(Element(l.of, l.ptr, n - 1), ElemSize[l.of], l.elems[n].val)

(* Nothing that another array or an older block of the same array does     *)
(* changes a node, a type or a list (the pools hand out pointers into      *)
(* memory that they leave, ast.h 462-465).                                 *)
NothingLost == PointersHold /\ ListsHold
=============================================================================
