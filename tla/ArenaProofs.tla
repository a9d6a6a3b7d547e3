---------------------------- MODULE ArenaProofs -----------------------------
(***************************************************************************)
(* The arena, for every size of block and word: what alloc returns lies in *)
(* the block it names and overlaps nothing returned before, as long as no  *)
(* call asks for more than a block.  And the arrays that share it, for any *)
(* pools and lists and any sizes of their elements: whatever is reached    *)
(* through an old pointer reads what was written there last.               *)
(***************************************************************************)
EXTENDS Pools, SequenceTheorems, TLAPS

USE ArenaAssumption

(* No call asks for more than a block: what the callers must see to, for   *)
(* alloc does not (ArenaOversize).                                         *)
SizesFit == Sizes \subseteq 0 .. BlockSize

(* The offset keeps clear of what was returned from the last block.        *)
OffsetClear ==
    \A a \in 1 .. Len(allocs) :
        allocs[a].block = Len(blocks) => allocs[a].start + allocs[a].size <= offset

(* No block is smaller than the block_size that alloc compares with.       *)
BlocksLargeEnough == \A b \in 1 .. Len(blocks) : blocks[b] >= BlockSize

IndInv ==
    TypeOK /\ BlocksLargeEnough /\ OffsetClear
    /\ AllocationsInBlock /\ AllocationsDisjoint

-----------------------------------------------------------------------------

(* usize arithmetic that does not wrap is arithmetic.                      *)
LEMMA NoWrap == \A x \in Nat : x < Word => x % Word = x
  BY SMT

(* What alloc computes: the pointer ends within a block, and the offset is *)
(* its end.                                                                *)
LEMMA AllocFits ==
    ASSUME offset \in 0 .. BlockSize, NEW size \in 0 .. BlockSize
    PROVE  /\ NoRoom(size) <=> size > BlockSize - offset
           /\ Start(size) \in Nat
           /\ Start(size) + size \in 0 .. BlockSize
           /\ (Start(size) + size) % Word = Start(size) + size
           /\ ~NoRoom(size) => Start(size) = offset
<1>1. (BlockSize - offset) % Word = BlockSize - offset
  BY NoWrap
<1>2. NoRoom(size) <=> size > BlockSize - offset
  BY <1>1 DEF NoRoom
<1>3. Start(size) \in Nat /\ Start(size) + size \in 0 .. BlockSize
  BY <1>2 DEF Start
<1>4. (Start(size) + size) % Word = Start(size) + size
  BY <1>3, NoWrap
<1> QED
  BY <1>2, <1>3, <1>4 DEF Start

(* The list of allocations after a call.                                   *)
LEMMA AllocsGrow ==
    ASSUME TypeOK, NEW size \in 0 .. BlockSize, alloc(size)
    PROVE  LET p == [block |-> Len(blocks'), start |-> Start(size), size |-> size]
           IN  /\ p \in Allocation
               /\ allocs' \in Seq(Allocation)
               /\ Len(allocs') = Len(allocs) + 1
               /\ allocs'[Len(allocs) + 1] = p
               /\ \A a \in 1 .. Len(allocs) : allocs'[a] = allocs[a]
<1> DEFINE p == [block |-> Len(blocks'), start |-> Start(size), size |-> size]
<1>1. Len(blocks') \in Nat \ {0}
  BY DEF TypeOK, alloc
<1>2. p \in Allocation
  BY <1>1, AllocFits DEF TypeOK, Allocation
<1>3. allocs' = Append(allocs, p) /\ allocs \in Seq(Allocation)
  BY DEF alloc, TypeOK
<1> HIDE DEF p
<1> QED
  BY <1>2, <1>3 DEF p

(* The list of blocks after a call: the same one, or one block longer.     *)
LEMMA BlocksGrow ==
    ASSUME TypeOK, NEW size \in 0 .. BlockSize, alloc(size)
    PROVE  /\ blocks' \in Seq(Nat)
           /\ Len(blocks') = IF NoRoom(size) THEN Len(blocks) + 1 ELSE Len(blocks)
           /\ NoRoom(size) => blocks'[Len(blocks')] = BlockSize
           /\ \A b \in 1 .. Len(blocks) : blocks'[b] = blocks[b]
<1>1. CASE NoRoom(size)
  BY <1>1 DEF alloc, TypeOK
<1>2. CASE ~NoRoom(size)
  BY <1>2 DEF alloc, TypeOK
<1> QED
  BY <1>1, <1>2

(* A new arena: one block, nothing returned.                               *)
LEMMA InitIndInv == Init => IndInv
<1> SUFFICES ASSUME Init PROVE IndInv
  OBVIOUS
<1> PICK first \in FirstSizes : blocks = <<first>>
  BY DEF Init
<1> QED
  BY DEF Init, IndInv, TypeOK, BlocksLargeEnough, OffsetClear,
         AllocationsInBlock, AllocationsDisjoint

(* A call that asks for no more than a block keeps the invariant.          *)
LEMMA AllocKeeps ==
    ASSUME IndInv, NEW size \in 0 .. BlockSize, alloc(size)
    PROVE  IndInv'
<1> DEFINE p == [block |-> Len(blocks'), start |-> Start(size), size |-> size]
           n == Len(allocs) + 1
<1>1. TypeOK
  BY DEF IndInv
<1>2. /\ NoRoom(size) <=> size > BlockSize - offset
      /\ Start(size) \in Nat
      /\ Start(size) + size \in 0 .. BlockSize
      /\ offset' = Start(size) + size
      /\ ~NoRoom(size) => Start(size) = offset
  BY <1>1, AllocFits DEF alloc, TypeOK
<1>3. /\ p \in Allocation /\ allocs' \in Seq(Allocation)
      /\ Len(allocs') = n /\ allocs'[n] = p
      /\ \A a \in 1 .. n - 1 : allocs'[a] = allocs[a]
  <2>1. Len(allocs) \in Nat /\ n - 1 = Len(allocs)
    BY <1>1 DEF TypeOK
  <2> QED
    BY <1>1, <2>1, AllocsGrow
<1>4. /\ blocks' \in Seq(Nat)
      /\ Len(blocks') = IF NoRoom(size) THEN Len(blocks) + 1 ELSE Len(blocks)
      /\ NoRoom(size) => blocks'[Len(blocks')] = BlockSize
      /\ \A b \in 1 .. Len(blocks) : blocks'[b] = blocks[b]
  BY <1>1, BlocksGrow
<1>5. /\ Len(blocks) \in Nat \ {0} /\ Len(blocks') \in Nat \ {0}
      /\ Len(allocs) \in Nat
      /\ \A a \in 1 .. n - 1 :
             allocs[a] \in Allocation /\ allocs[a].block \in 1 .. Len(blocks)
  <2>1. Len(blocks) \in Nat \ {0} /\ Len(allocs) \in Nat
    BY <1>1 DEF TypeOK
  <2>2. Len(blocks') \in Nat \ {0}
    BY <1>4, <2>1
  <2>3. ASSUME NEW a \in 1 .. n - 1
        PROVE  allocs[a] \in Allocation /\ allocs[a].block \in 1 .. Len(blocks)
    <3>1. a \in 1 .. Len(allocs)
      BY <2>1
    <3>2. allocs[a] \in Allocation /\ allocs[a].block <= Len(blocks)
      BY <1>1, <3>1 DEF TypeOK
    <3> QED
      BY <3>2, <2>1 DEF Allocation
  <2> QED
    BY <2>1, <2>2, <2>3
<1>6. p.block = Len(blocks') /\ p.start = Start(size) /\ p.size = size
  OBVIOUS
<1> HIDE DEF p
<1>7. TypeOK'
  <2>1. \A a \in 1 .. n : allocs'[a].block <= Len(blocks')
    BY <1>3, <1>4, <1>5, <1>6
  <2> QED
    BY <1>2, <1>3, <1>4, <1>5, <2>1 DEF TypeOK
<1>8. BlocksLargeEnough'
  BY <1>4, <1>5 DEF IndInv, BlocksLargeEnough
<1>9. OffsetClear'
  <2>1. p.start + p.size <= offset'
    BY <1>2, <1>6
  <2>2. ASSUME NEW a \in 1 .. n - 1, allocs[a].block = Len(blocks')
        PROVE  allocs[a].start + allocs[a].size <= offset'
    <3>1. ~NoRoom(size) /\ Len(blocks') = Len(blocks)
      BY <2>2, <1>4, <1>5
    <3>2. allocs[a].start + allocs[a].size <= offset
      BY <2>2, <3>1 DEF IndInv, OffsetClear
    <3>3. allocs[a].start + allocs[a].size \in Nat
      BY <2>2, <1>5 DEF Allocation
    <3>4. offset \in Nat /\ offset' = offset + size
      BY <3>1, <1>1, <1>2 DEF TypeOK
    <3> QED
      BY <3>2, <3>3, <3>4
  <2> QED
    BY <1>3, <1>5, <2>1, <2>2 DEF OffsetClear
<1>10. AllocationsInBlock'
  <2>1. blocks'[p.block] >= BlockSize
    BY <1>5, <1>6, <1>8 DEF BlocksLargeEnough
  <2>2. blocks'[p.block] \in Nat
    BY <1>4, <1>5, <1>6
  <2>3. p.start + p.size <= blocks'[p.block]
    BY <1>2, <1>6, <2>1, <2>2
  <2>4. ASSUME NEW a \in 1 .. n - 1
        PROVE  allocs[a].start + allocs[a].size <= blocks'[allocs[a].block]
    BY <2>4, <1>4, <1>5 DEF IndInv, AllocationsInBlock
  <2> QED
    BY <1>3, <1>5, <2>3, <2>4 DEF AllocationsInBlock
<1>11. AllocationsDisjoint'
  <2>1. ASSUME NEW a \in 1 .. n - 1, allocs[a].block = p.block
        PROVE  allocs[a].start + allocs[a].size <= p.start
    <3>1. ~NoRoom(size) /\ Len(blocks') = Len(blocks)
      BY <2>1, <1>4, <1>5, <1>6
    <3> QED
      BY <2>1, <3>1, <1>2, <1>6 DEF IndInv, OffsetClear
  <2>2. ASSUME NEW b \in 1 .. n - 1, NEW a \in 1 .. b - 1,
               allocs[a].block = allocs[b].block
        PROVE  allocs[a].start + allocs[a].size <= allocs[b].start
    BY <2>2 DEF IndInv, AllocationsDisjoint
  <2>3. ASSUME NEW b \in 1 .. n, NEW a \in 1 .. b - 1,
               allocs'[a].block = allocs'[b].block
        PROVE  allocs'[a].start + allocs'[a].size <= allocs'[b].start
    <3>1. a \in 1 .. n - 1 /\ allocs'[a] = allocs[a]
      BY <1>3, <1>5
    <3>2. CASE b = n
      BY <3>1, <3>2, <2>1, <2>3, <1>3
    <3>3. CASE b # n
      <4>1. b \in 1 .. n - 1
        BY <3>3, <1>5
      <4>2. allocs'[b] = allocs[b]
        BY <4>1, <1>3
      <4> QED
        BY <3>1, <4>1, <4>2, <2>2, <2>3
    <3> QED
      BY <3>2, <3>3
  <2> QED
    BY <1>3, <2>3 DEF AllocationsDisjoint
<1> QED
  BY <1>7, <1>8, <1>9, <1>10, <1>11 DEF IndInv

(* Calls of any of the sizes keep the invariant.                           *)
LEMMA NextIndInv == SizesFit /\ IndInv /\ [Next]_vars => IndInv'
<1> SUFFICES ASSUME SizesFit, IndInv, [Next]_vars PROVE IndInv'
  OBVIOUS
<1>1. CASE UNCHANGED vars
  BY <1>1 DEF vars, IndInv, TypeOK, BlocksLargeEnough, OffsetClear,
              AllocationsInBlock, AllocationsDisjoint
<1>2. ASSUME NEW size \in Sizes, alloc(size) PROVE IndInv'
  <2>1. size \in 0 .. BlockSize
    BY DEF SizesFit
  <2> QED
    BY <1>2, <2>1, AllocKeeps
<1> QED
  BY <1>1, <1>2 DEF Next

(* The invariant of the arena.                                             *)
LEMMA Inductive == SizesFit => (Spec => []IndInv)
<1> SUFFICES ASSUME SizesFit PROVE Spec => []IndInv
  OBVIOUS
<1>1. IndInv /\ [Next]_vars => IndInv'
  BY NextIndInv
<1> QED
  BY InitIndInv, <1>1, PTL DEF Spec

(* Every pointer is into a block that was mapped, and the offset stays in  *)
(* the block.                                                              *)
THEOREM TypeCorrect == SizesFit => (Spec => []TypeOK)
<1>1. IndInv => TypeOK
  BY DEF IndInv
<1> QED
  BY Inductive, <1>1, PTL

(* What alloc returns lies within its block, if no call asks for more than *)
(* a block holds.                                                          *)
THEOREM AllocationsStayInBlock == SizesFit => (Spec => []AllocationsInBlock)
<1>1. IndInv => AllocationsInBlock
  BY DEF IndInv
<1> QED
  BY Inductive, <1>1, PTL

(* No byte is handed out twice, under the same condition.                  *)
THEOREM AllocationsAreDisjoint == SizesFit => (Spec => []AllocationsDisjoint)
<1>1. IndInv => AllocationsDisjoint
  BY DEF IndInv
<1> QED
  BY Inductive, <1>1, PTL

-----------------------------------------------------------------------------
(* The arrays of the Ast.                                                  *)

(* No call so far asked for more than a block. *)
RequestsFit == \A n \in 1 .. Len(allocs) : allocs[n].size <= BlockSize

Ptr == [block : Nat, start : Nat]

Item(V) == [at : Ptr, val : V]

(* Each byte has one owner: an element of a pool, the spare part of an     *)
(* array, the lists, or nobody yet.                                        *)
OfElement(a, n) == <<"element", a, n>>
OfSpare(a) == <<"spare", a, 0>>
OfLists == <<"lists", 0, 0>>
Unused == <<"unused", 0, 0>>

(* Different things are different owners.                                  *)
LEMMA OwnersDiffer ==
    /\ \A a, n, b, k : OfElement(a, n) = OfElement(b, k) => a = b /\ n = k
    /\ \A a, n, b : OfElement(a, n) # OfSpare(b)
    /\ \A a, n : OfElement(a, n) # OfLists /\ OfElement(a, n) # Unused
    /\ \A a, b : OfSpare(a) = OfSpare(b) => a = b
    /\ \A a : OfSpare(a) # OfLists /\ OfSpare(a) # Unused
    /\ OfLists # Unused
    BY DEF OfElement, OfSpare, OfLists, Unused

(* A pointer, the byte in memory.                                          *)
LEMMA BytesIn ==
    ASSUME NEW ptr \in Ptr, NEW size \in Nat
    PROVE  \A x : x \in Bytes(ptr, size) <=>
               x \in Nat \X Nat /\ x[1] = ptr.block /\ ptr.start <= x[2] /\ x[2] < ptr.start + size
<1>1. ptr.block \in Nat /\ ptr.start \in Nat
    BY DEF Ptr
<1>2. ASSUME NEW x \in Bytes(ptr, size)
      PROVE  x \in Nat \X Nat /\ x[1] = ptr.block /\ ptr.start <= x[2] /\ x[2] < ptr.start + size
    BY <1>1, <1>2 DEF Bytes
<1>3. ASSUME NEW x \in Nat \X Nat, x[1] = ptr.block, ptr.start <= x[2], x[2] < ptr.start + size
      PROVE  x \in Bytes(ptr, size)
    <2>1. x = <<x[1], x[2]>> /\ x[2] \in Nat
        OBVIOUS
    <2>2. x[2] \in ptr.start .. ptr.start + size - 1
        BY <1>1, <1>3, <2>1
    <2> QED
        BY <1>3, <2>1, <2>2 DEF Bytes
<1> QED
    BY <1>2, <1>3

(* What a memory reads after a write.                                      *)
LEMMA StoreReads ==
    ASSUME NEW m, NEW ptr, NEW size, NEW val
    PROVE  \A x : Byte(Store(m, ptr, size, val), x) = IF x \in Bytes(ptr, size) THEN val ELSE Byte(m, x)
    BY DEF Store, Byte

(* What a memory reads after a copy.                                       *)
LEMMA memcpyReads ==
    ASSUME NEW m, NEW dst, NEW src, NEW size
    PROVE  /\ \A x \in Bytes(dst, size) :
                  Byte(memcpy(m, dst, src, size), x) = Byte(m, <<src.block, src.start + x[2] - dst.start>>)
           /\ \A x : x \notin Bytes(dst, size) => Byte(memcpy(m, dst, src, size), x) = Byte(m, x)
    BY DEF memcpy, Byte

(* The bytes of i elements, and of one element more.                       *)
LEMMA Sized ==
    ASSUME NEW a \in Arrays, NEW i \in Nat, NEW k \in Nat
    PROVE  /\ ElemSize[a] \in Nat \ {0} /\ i * ElemSize[a] \in Nat
           /\ (i + 1) * ElemSize[a] = i * ElemSize[a] + ElemSize[a]
           /\ i < k => (i + 1) * ElemSize[a] <= k * ElemSize[a]
           /\ i <= k => i * ElemSize[a] <= k * ElemSize[a]
                        /\ (k - i) * ElemSize[a] = k * ElemSize[a] - i * ElemSize[a]
<1>1. PICK e : e = ElemSize[a]
    OBVIOUS
<1>2. e \in Nat \ {0}
    BY <1>1, PoolsAssumption
<1>3. i * e \in Nat /\ (i + 1) * e = i * e + e
    BY <1>2
<1>4. i <= k => i * e <= k * e /\ (k - i) * e = k * e - i * e
    BY <1>2
<1>5. i < k => (i + 1) * e <= k * e
    BY <1>2
<1> QED
    BY <1>1, <1>2, <1>3, <1>4, <1>5

(* Where an element is.                                                    *)
LEMMA ElementAt ==
    ASSUME NEW a \in Arrays, NEW ptr \in Ptr, NEW i \in Nat
    PROVE  /\ Element(a, ptr, i) \in Ptr /\ Element(a, ptr, i).block = ptr.block
           /\ Element(a, ptr, i).start = ptr.start + i * ElemSize[a]
<1>1. i * ElemSize[a] \in Nat
    BY Sized
<1> QED
    BY <1>1 DEF Element, Ptr

(* A better capacity has room for one element more.                        *)
LEMMA BetterGrows == \A c \in Nat : Better(c) \in Nat /\ Better(c) >= c + 1
    BY PoolsAssumption DEF Better

(* An arena that is left alone.                                            *)
LEMMA ArenaStays == IndInv /\ UNCHANGED vars => IndInv'
    BY DEF vars, IndInv, TypeOK, BlocksLargeEnough, OffsetClear,
           AllocationsInBlock, AllocationsDisjoint

-----------------------------------------------------------------------------
(* The memory that alloc has not returned yet.                             *)
FreeBytes ==
    {x \in Nat \X Nat : x[1] > Len(blocks) \/ (x[1] = Len(blocks) /\ x[2] >= offset)}

(* What alloc returns was free, and is no more.                            *)
LEMMA AllocTakes ==
    ASSUME IndInv, NEW size \in 0 .. BlockSize, alloc(size)
    PROVE  LET tmp == [block |-> Last(allocs').block, start |-> Last(allocs').start]
           IN  /\ tmp \in Ptr /\ tmp.block <= Len(blocks')
               /\ Len(blocks) \in Nat /\ Len(blocks') \in Nat /\ Len(blocks) <= Len(blocks')
               /\ \A x \in Bytes(tmp, size) : x \in FreeBytes /\ x \notin FreeBytes'
               /\ FreeBytes' \subseteq FreeBytes
<1> DEFINE tmp == [block |-> Last(allocs').block, start |-> Last(allocs').start]
           n == Len(allocs) + 1
<1>1. TypeOK /\ offset \in 0 .. BlockSize /\ Len(blocks) \in Nat /\ Len(allocs) \in Nat
    BY DEF IndInv, TypeOK
<1>2. /\ NoRoom(size) <=> size > BlockSize - offset
      /\ Start(size) \in Nat /\ Start(size) + size \in 0 .. BlockSize
      /\ offset' = Start(size) + size
      /\ ~NoRoom(size) => Start(size) = offset
    BY <1>1, AllocFits DEF alloc
<1>3. Len(blocks') = IF NoRoom(size) THEN Len(blocks) + 1 ELSE Len(blocks)
    BY <1>1, BlocksGrow
<1>4. Last(allocs') = [block |-> Len(blocks'), start |-> Start(size), size |-> size]
    <2>1. /\ Len(allocs') = n
          /\ allocs'[n] = [block |-> Len(blocks'), start |-> Start(size), size |-> size]
        BY <1>1, AllocsGrow
    <2> QED
        BY <2>1 DEF Last
<1>5. tmp.block = Len(blocks') /\ tmp.start = Start(size) /\ tmp \in Ptr
    BY <1>1, <1>2, <1>3, <1>4 DEF Ptr
<1> HIDE DEF tmp
<1>6. FreeBytes' \subseteq FreeBytes
    <2> SUFFICES ASSUME NEW x \in Nat \X Nat,
                        x[1] > Len(blocks') \/ (x[1] = Len(blocks') /\ x[2] >= offset')
                 PROVE  x[1] > Len(blocks) \/ (x[1] = Len(blocks) /\ x[2] >= offset)
        BY DEF FreeBytes
    <2>1. x[1] \in Nat /\ x[2] \in Nat
        OBVIOUS
    <2> QED
        BY <1>1, <1>2, <1>3, <2>1
<1>7. ASSUME NEW x \in Bytes(tmp, size)
      PROVE  x \in FreeBytes /\ x \notin FreeBytes'
    <2>1. x \in Nat \X Nat /\ x[1] = tmp.block /\ tmp.start <= x[2] /\ x[2] < tmp.start + size
        BY <1>5, <1>7, BytesIn
    <2>2. x[1] \in Nat /\ x[2] \in Nat
        BY <2>1
    <2>3. x[1] > Len(blocks) \/ (x[1] = Len(blocks) /\ x[2] >= offset)
        BY <1>1, <1>2, <1>3, <1>5, <2>1, <2>2
    <2>4. ~(x[1] > Len(blocks') \/ (x[1] = Len(blocks') /\ x[2] >= offset'))
        BY <1>1, <1>2, <1>3, <1>5, <2>1, <2>2
    <2> QED
        BY <2>1, <2>3, <2>4 DEF FreeBytes
<1> QED
    BY <1>1, <1>3, <1>5, <1>6, <1>7 DEF tmp

-----------------------------------------------------------------------------
(* The lists, where they grow and where they are kept.                     *)
Lists == kept \cup {[of |-> a, ptr |-> arrays[a].ptr, elems |-> elems[a]] : a \in ListArrays}

(* An element of a pool, a list and the spare part of an array own their   *)
(* bytes; what is written to an element is in its bytes.                   *)
ElementHolds(own, m, a, n, e) ==
    \A x \in Bytes(e.at, ElemSize[a]) : own[x] = OfElement(a, n) /\ Byte(m, x) = e.val

ListHolds(own, m, l) ==
    \A n \in 1 .. Len(l.elems) : \A x \in Bytes(Element(l.of, l.ptr, n - 1), ElemSize[l.of]) :
        own[x] = OfLists /\ Byte(m, x) = l.elems[n].val

SpareIs(own, a, arr) ==
    \A x \in Bytes(Element(a, arr.ptr, arr.len), (arr.capacity - arr.len) * ElemSize[a]) :
        own[x] = OfSpare(a)

Owned(own) ==
    /\ \A a \in PoolArrays : \A n \in 1 .. Len(elems[a]) : ElementHolds(own, mem, a, n, elems[a][n])
    /\ \A l \in Lists : ListHolds(own, mem, l)
    /\ \A a \in Arrays : SpareIs(own, a, arrays[a])
    /\ \A x \in FreeBytes : own[x] = Unused

List(V) == [of : ListArrays, ptr : Ptr, elems : Seq(Item(V))]

Array == [ptr : Ptr, len : Nat, capacity : Nat]

Typed(V) ==
    /\ arrays \in [Arrays -> Array]
    /\ elems \in [Arrays -> Seq(Item(V))]
    /\ kept \subseteq List(V)
    /\ \A a \in Arrays :
           /\ arrays[a].len = Len(elems[a]) /\ arrays[a].len <= arrays[a].capacity
           /\ arrays[a].ptr.block <= Len(blocks)
           /\ \A n \in 1 .. Len(elems[a]) : elems[a][n].at.block <= Len(blocks)
    /\ \A l \in kept : l.ptr.block <= Len(blocks)

PInv == IndInv /\ (\E V : Typed(V)) /\ (\E own : Owned(own))

(* What array a may write to: its spare part, and what nobody uses.        *)
Writable(own, a, W) == \A x \in W : own[x] = OfSpare(a) \/ own[x] = Unused

(* Owners and memory change in W only.                                     *)
ChangedIn(W, own, m, own2, m2) ==
    \A x \in Nat \X Nat : x \notin W => own2[x] = own[x] /\ Byte(m2, x) = Byte(m, x)

(* Bytes that nobody uses, or that are spare in array a, may be written:   *)
(* no element, no list and no other array is changed.                      *)
LEMMA Frame ==
    ASSUME NEW own, Owned(own), NEW a \in Arrays,
           NEW W, Writable(own, a, W), NEW own2, NEW m2, ChangedIn(W, own, mem, own2, m2),
           NEW V, Typed(V)
    PROVE  /\ \A b \in PoolArrays : \A n \in 1 .. Len(elems[b]) : ElementHolds(own2, m2, b, n, elems[b][n])
           /\ \A l \in Lists : ListHolds(own2, m2, l)
           /\ \A b \in Arrays : b # a => SpareIs(own2, b, arrays[b])
<1>0. ASSUME NEW x \in Nat \X Nat, own[x] # OfSpare(a), own[x] # Unused
      PROVE  own2[x] = own[x] /\ Byte(m2, x) = Byte(mem, x)
    BY <1>0 DEF Writable, ChangedIn
<1>s. \A b \in Arrays : ElemSize[b] \in Nat
    BY PoolsAssumption
<1>1. ASSUME NEW b \in PoolArrays, NEW n \in 1 .. Len(elems[b])
      PROVE  ElementHolds(own2, m2, b, n, elems[b][n])
    <2>1. ElementHolds(own, mem, b, n, elems[b][n])
        BY DEF Owned
    <2>2. elems[b][n].at \in Ptr /\ b \in Arrays
        <3>1. b \in Arrays
            BY DEF Arrays
        <3>2. elems[b] \in Seq(Item(V))
            BY <3>1 DEF Typed
        <3>3. elems[b][n] \in Item(V)
            BY <3>2, ElementOfSeq
        <3> QED
            BY <3>1, <3>3 DEF Item
    <2>3. \A x \in Bytes(elems[b][n].at, ElemSize[b]) : x \in Nat \X Nat
        BY <1>s, <2>2, BytesIn
    <2> QED
        BY <1>0, <2>1, <2>3, OwnersDiffer DEF ElementHolds
<1>2. ASSUME NEW l \in Lists
      PROVE  ListHolds(own2, m2, l)
    <2>1. ListHolds(own, mem, l)
        BY DEF Owned
    <2>2. l.of \in Arrays /\ l.ptr \in Ptr
        <3>1. CASE l \in kept
            BY <3>1 DEF Typed, List, Arrays
        <3>2. CASE l \notin kept
            <4>1. PICK b \in ListArrays : l = [of |-> b, ptr |-> arrays[b].ptr, elems |-> elems[b]]
                BY <3>2 DEF Lists
            <4>2. b \in Arrays
                BY DEF Arrays
            <4>3. arrays[b].ptr \in Ptr
                BY <4>2 DEF Typed, Array
            <4> QED
                BY <4>1, <4>2, <4>3
        <3> QED
            BY <3>1, <3>2
    <2>3. ASSUME NEW n \in 1 .. Len(l.elems),
                 NEW x \in Bytes(Element(l.of, l.ptr, n - 1), ElemSize[l.of])
          PROVE  own2[x] = OfLists /\ Byte(m2, x) = l.elems[n].val
        <3>1. own[x] = OfLists /\ Byte(mem, x) = l.elems[n].val
            BY <2>1, <2>3 DEF ListHolds
        <3>2. x \in Nat \X Nat
            <4>1. Element(l.of, l.ptr, n - 1) \in Ptr
                BY <2>2, ElementAt
            <4> QED
                BY <1>s, <2>2, <2>3, <4>1, BytesIn
        <3> QED
            BY <1>0, <3>1, <3>2, OwnersDiffer
    <2> QED
        BY <2>3 DEF ListHolds
<1>3. ASSUME NEW b \in Arrays, b # a
      PROVE  SpareIs(own2, b, arrays[b])
    <2>1. SpareIs(own, b, arrays[b])
        BY DEF Owned
    <2>2. /\ arrays[b].ptr \in Ptr /\ arrays[b].len \in Nat /\ arrays[b].capacity \in Nat
          /\ arrays[b].len <= arrays[b].capacity
        BY DEF Typed, Array
    <2>3. /\ Element(b, arrays[b].ptr, arrays[b].len) \in Ptr
          /\ (arrays[b].capacity - arrays[b].len) * ElemSize[b] \in Nat
        <3>1. arrays[b].capacity - arrays[b].len \in Nat
            BY <2>2
        <3> QED
            BY <2>2, <3>1, ElementAt, Sized
    <2>4. ASSUME NEW x \in Bytes(Element(b, arrays[b].ptr, arrays[b].len),
                                 (arrays[b].capacity - arrays[b].len) * ElemSize[b])
          PROVE  own2[x] = OfSpare(b)
        <3>1. own[x] = OfSpare(b)
            BY <2>1, <2>4 DEF SpareIs
        <3>2. x \in Nat \X Nat
            BY <2>3, <2>4, BytesIn
        <3> QED
            BY <1>0, <1>3, <3>1, <3>2, OwnersDiffer
    <2> QED
        BY <2>4 DEF SpareIs
<1> QED
    BY <1>1, <1>2, <1>3

(* The arrays after an append.                                             *)
LEMMA AppendTyped ==
    ASSUME NEW V, Typed(V), NEW a \in Arrays, NEW ptr \in Ptr, NEW capacity \in Nat, NEW m,
           Append_to(a, ptr, capacity, m), arrays[a].len + 1 <= capacity,
           Len(blocks) \in Nat, Len(blocks') \in Nat, Len(blocks) <= Len(blocks'),
           ptr.block <= Len(blocks')
    PROVE  LET len == arrays[a].len
               at == Element(a, ptr, len)
           IN  /\ \E U : Typed(U)'
               /\ len \in Nat /\ len = Len(elems[a])
               /\ arrays'[a] = [ptr |-> ptr, len |-> len + 1, capacity |-> capacity]
               /\ \A b \in Arrays : b # a => arrays'[b] = arrays[b] /\ elems'[b] = elems[b]
               /\ Len(elems'[a]) = len + 1
               /\ \A n \in 1 .. len : elems'[a][n] = elems[a][n]
               /\ elems'[a][len + 1].at = at /\ elems'[a][len + 1].val = Appended + 1
               /\ mem' = Store(m, at, ElemSize[a], elems'[a][len + 1].val)
               /\ kept' = kept
<1> DEFINE len == arrays[a].len
           at == Element(a, ptr, len)
           new == [ptr |-> ptr, len |-> len + 1, capacity |-> capacity]
<1>v. PICK val : val = Appended + 1
    OBVIOUS
<1> DEFINE e == [at |-> at, val |-> val]
           U == V \cup {val}
<1>1. /\ arrays' = [arrays EXCEPT ![a] = new]
      /\ mem' = Store(m, at, ElemSize[a], val)
      /\ elems' = [elems EXCEPT ![a] = Append(elems[a], e)]
      /\ kept' = kept
    BY <1>v DEF Append_to
<1>2. /\ len \in Nat /\ len = Len(elems[a]) /\ elems[a] \in Seq(Item(V))
      /\ arrays \in [Arrays -> Array] /\ elems \in [Arrays -> Seq(Item(V))]
    BY DEF Typed, Array
<1>3. at \in Ptr /\ at.block = ptr.block
    BY <1>2, ElementAt
<1>4. new \in Array
    BY <1>2 DEF Array
<1>5. e \in Item(U) /\ e.at = at /\ e.val = val
    BY <1>3 DEF Item
<1> HIDE DEF e, U, len, at
<1>6. Item(V) \subseteq Item(U)
    BY DEF Item, U
<1> HIDE DEF new
<1>7. /\ arrays' \in [Arrays -> Array] /\ arrays'[a] = new
      /\ \A b \in Arrays : b # a => arrays'[b] = arrays[b]
    BY <1>1, <1>2, <1>4
<1>8. /\ Append(elems[a], e) \in Seq(Item(U)) /\ Len(Append(elems[a], e)) = len + 1
      /\ Append(elems[a], e)[len + 1] = e
      /\ \A n \in 1 .. len : Append(elems[a], e)[n] = elems[a][n]
    <2>1. elems[a] \in Seq(Item(U))
        BY <1>2, <1>6
    <2> QED
        BY <1>2, <1>5, <2>1
<1>9. /\ elems' \in [Arrays -> Seq(Item(U))] /\ elems'[a] = Append(elems[a], e)
      /\ \A b \in Arrays : b # a => elems'[b] = elems[b]
    <2>1. \A b \in Arrays : elems[b] \in Seq(Item(U))
        BY <1>2, <1>6
    <2> QED
        BY <1>1, <1>2, <1>8, <2>1
<1>10. kept' \subseteq List(U)
    <2>1. ASSUME NEW l \in List(V)
          PROVE  l \in List(U)
        <3>1. l.elems \in Seq(Item(V)) => l.elems \in Seq(Item(U))
            BY <1>6
        <3> QED
            BY <3>1 DEF List
    <2> QED
        BY <1>1, <2>1 DEF Typed
<1>11. ASSUME NEW b \in Arrays
       PROVE  /\ arrays'[b].len = Len(elems'[b]) /\ arrays'[b].len <= arrays'[b].capacity
              /\ arrays'[b].ptr.block <= Len(blocks')
              /\ \A n \in 1 .. Len(elems'[b]) : elems'[b][n].at.block <= Len(blocks')
    <2>0. /\ arrays[b].ptr.block \in Nat /\ elems[b] \in Seq(Item(V))
          /\ \A n \in 1 .. Len(elems[b]) : elems[b][n].at.block \in Nat
        <3>1. arrays[b].ptr \in Ptr /\ elems[b] \in Seq(Item(V))
            BY <1>2 DEF Array
        <3>2. \A n \in 1 .. Len(elems[b]) : elems[b][n] \in Item(V)
            BY <3>1, ElementOfSeq
        <3> QED
            BY <3>1, <3>2 DEF Item, Ptr
    <2>1. /\ arrays[b].len = Len(elems[b]) /\ arrays[b].len <= arrays[b].capacity
          /\ arrays[b].ptr.block <= Len(blocks')
          /\ \A n \in 1 .. Len(elems[b]) : elems[b][n].at.block <= Len(blocks')
        BY <2>0 DEF Typed
    <2>2. CASE b # a
        BY <1>7, <1>9, <2>1, <2>2
    <2>3. CASE b = a
        <3>1. /\ arrays'[a].len = len + 1 /\ arrays'[a].capacity = capacity /\ arrays'[a].ptr = ptr
            BY <1>7 DEF new
        <3>2. ASSUME NEW n \in 1 .. len + 1
              PROVE  elems'[a][n].at.block <= Len(blocks')
            <4>1. CASE n = len + 1
                BY <1>3, <1>5, <1>8, <1>9, <4>1
            <4>2. CASE n # len + 1
                <5>0. len \in Nat
                    BY <1>2
                <5>1. n \in 1 .. len
                    BY <4>2, <5>0
                <5> QED
                    BY <1>2, <1>8, <1>9, <2>1, <2>3, <5>1
            <4> QED
                BY <4>1, <4>2
        <3> QED
            BY <1>8, <1>9, <2>3, <3>1, <3>2 DEF len
    <2> QED
        BY <2>2, <2>3
<1>12. \A l \in kept' : l.ptr.block <= Len(blocks')
    <2>1. ASSUME NEW l \in kept
          PROVE  l.ptr.block <= Len(blocks')
        <3>1. l.ptr.block \in Nat /\ l.ptr.block <= Len(blocks)
            BY DEF Typed, List, Ptr
        <3> QED
            BY <3>1
    <2> QED
        BY <1>1, <2>1
<1>13. Typed(U)'
    BY <1>7, <1>9, <1>10, <1>11, <1>12 DEF Typed
<1>14. /\ Len(elems'[a]) = len + 1 /\ \A n \in 1 .. len : elems'[a][n] = elems[a][n]
       /\ elems'[a][len + 1] = e
    BY <1>8, <1>9
<1>15. \A b \in Arrays : b # a => arrays'[b] = arrays[b] /\ elems'[b] = elems[b]
    BY <1>7, <1>9
<1> QED
    BY <1>1, <1>2, <1>5, <1>7, <1>13, <1>14, <1>15, <1>v DEF new, len, at

(* The bytes of an array after an append: the spare part is the room that  *)
(* there was, without the element.                                         *)
LEMMA RoomSplits ==
    ASSUME NEW a \in Arrays, NEW ptr \in Ptr, NEW len \in Nat, NEW capacity \in Nat, len + 1 <= capacity
    PROVE  LET cell == Bytes(Element(a, ptr, len), ElemSize[a])
               room == Bytes(Element(a, ptr, len), (capacity - len) * ElemSize[a])
               spare == Bytes(Element(a, ptr, len + 1), (capacity - (len + 1)) * ElemSize[a])
           IN  /\ cell \subseteq room /\ spare \subseteq room /\ room \subseteq Nat \X Nat
               /\ \A x \in spare : x \notin cell
<1>1. /\ Element(a, ptr, len) \in Ptr /\ Element(a, ptr, len).block = ptr.block
      /\ Element(a, ptr, len).start = ptr.start + len * ElemSize[a]
      /\ Element(a, ptr, len + 1) \in Ptr /\ Element(a, ptr, len + 1).block = ptr.block
      /\ Element(a, ptr, len + 1).start = ptr.start + (len + 1) * ElemSize[a]
      /\ ptr.start \in Nat
    <2>1. len + 1 \in Nat /\ ptr.start \in Nat
        BY DEF Ptr
    <2> QED
        BY <2>1, ElementAt
<1>2. /\ capacity - len \in Nat /\ capacity - (len + 1) \in Nat
      /\ capacity - len = (capacity - (len + 1)) + 1
    OBVIOUS
<1> PICK p, q, e, k, r :
        /\ p = Element(a, ptr, len) /\ q = Element(a, ptr, len + 1) /\ e = ElemSize[a]
        /\ k = (capacity - len) * e /\ r = (capacity - (len + 1)) * e
    OBVIOUS
<1>3. /\ e \in Nat /\ k \in Nat /\ r \in Nat /\ k = r + e
      /\ len * e \in Nat /\ (len + 1) * e = len * e + e
    BY <1>2, Sized
<1>4. /\ p \in Ptr /\ q \in Ptr /\ p.block = q.block /\ p.start \in Nat /\ q.start = p.start + e
    BY <1>1, <1>3
<1>5. \A x : x \in Bytes(p, e) <=>
          x \in Nat \X Nat /\ x[1] = p.block /\ p.start <= x[2] /\ x[2] < p.start + e
    BY <1>3, <1>4, BytesIn
<1>6. \A x : x \in Bytes(p, k) <=>
          x \in Nat \X Nat /\ x[1] = p.block /\ p.start <= x[2] /\ x[2] < p.start + k
    BY <1>3, <1>4, BytesIn
<1>7. \A x : x \in Bytes(q, r) <=>
          x \in Nat \X Nat /\ x[1] = q.block /\ q.start <= x[2] /\ x[2] < q.start + r
    BY <1>3, <1>4, BytesIn
<1>8. ASSUME NEW x
      PROVE  /\ x \in Bytes(p, e) => x \in Bytes(p, k)
             /\ x \in Bytes(q, r) => x \in Bytes(p, k) /\ x \notin Bytes(p, e)
             /\ x \in Bytes(p, k) => x \in Nat \X Nat
    <2>1. x \in Nat \X Nat => x[2] \in Nat
        OBVIOUS
    <2>2. x \in Bytes(p, e) => x \in Bytes(p, k)
        BY <1>3, <1>4, <1>5, <1>6, <2>1
    <2>3. x \in Bytes(q, r) => x \in Bytes(p, k)
        BY <1>3, <1>4, <1>6, <1>7, <2>1
    <2>4. x \in Bytes(q, r) => x \notin Bytes(p, e)
        BY <1>3, <1>4, <1>5, <1>7, <2>1
    <2> QED
        BY <1>6, <2>2, <2>3, <2>4
<1> QED
    BY <1>8

(* An append writes to room that is the array's own, or that nobody used:  *)
(* everything else stays.                                                  *)
LEMMA AppendKeeps ==
    ASSUME NEW V, Typed(V), NEW own, Owned(own),
           NEW a \in Arrays, NEW ptr \in Ptr, NEW capacity \in Nat, NEW m,
           Append_to(a, ptr, capacity, m), arrays[a].len + 1 <= capacity,
           Len(blocks) \in Nat, Len(blocks') \in Nat, Len(blocks) <= Len(blocks'),
           ptr.block <= Len(blocks'),
           NEW W, Writable(own, a, W), NEW own1, ChangedIn(W, own, mem, own1, m),
           \A x \in Bytes(Element(a, ptr, arrays[a].len), (capacity - arrays[a].len) * ElemSize[a]) :
               x \in W /\ own1[x] = OfSpare(a),
           \A x \in FreeBytes' : own1[x] = Unused,
           a \in ListArrays =>
               ListHolds(own1, m, [of |-> a, ptr |-> ptr, elems |-> elems[a]])
    PROVE  (\E U : Typed(U)') /\ (\E own2 : Owned(own2)')
<1> DEFINE len == arrays[a].len
           at == Element(a, ptr, len)
           cell == Bytes(at, ElemSize[a])
           id == IF a \in PoolArrays THEN OfElement(a, len + 1) ELSE OfLists
           val == elems'[a][len + 1].val
<1>1. /\ \E U : Typed(U)'
      /\ len \in Nat /\ len = Len(elems[a])
      /\ arrays'[a] = [ptr |-> ptr, len |-> len + 1, capacity |-> capacity]
      /\ \A b \in Arrays : b # a => arrays'[b] = arrays[b] /\ elems'[b] = elems[b]
      /\ Len(elems'[a]) = len + 1
      /\ \A n \in 1 .. len : elems'[a][n] = elems[a][n]
      /\ elems'[a][len + 1].at = at
      /\ mem' = Store(m, at, ElemSize[a], val)
      /\ kept' = kept
    BY AppendTyped
<1>2. /\ cell \subseteq Nat \X Nat
      /\ \A x \in cell : x \in W /\ own1[x] = OfSpare(a)
      /\ \A x \in Bytes(Element(a, ptr, len + 1), (capacity - (len + 1)) * ElemSize[a]) :
             x \in Nat \X Nat /\ x \notin cell /\ own1[x] = OfSpare(a)
    <2> DEFINE room == Bytes(at, (capacity - len) * ElemSize[a])
               spare == Bytes(Element(a, ptr, len + 1), (capacity - (len + 1)) * ElemSize[a])
    <2>1. /\ cell \subseteq room /\ spare \subseteq room /\ room \subseteq Nat \X Nat
          /\ \A x \in spare : x \notin cell
        <3>1. len \in Nat /\ len + 1 <= capacity
            BY <1>1
        <3> HIDE DEF len
        <3> QED
            BY <3>1, RoomSplits
    <2>2. \A x \in room : x \in W /\ own1[x] = OfSpare(a)
        OBVIOUS
    <2> HIDE DEF room, spare, cell
    <2>3. \A x \in spare : x \in Nat \X Nat /\ x \notin cell /\ own1[x] = OfSpare(a)
        BY <2>1, <2>2
    <2> QED
        BY <2>1, <2>2, <2>3 DEF spare
<1>3. PICK own2 :
         /\ \A x \in cell : own2[x] = id
         /\ \A x \in Nat \X Nat : x \notin cell => own2[x] = own1[x]
    <2> DEFINE o == [x \in Nat \X Nat |-> IF x \in cell THEN id ELSE own1[x]]
    <2> HIDE DEF cell, id
    <2>1. /\ \A x \in cell : o[x] = id
          /\ \A x \in Nat \X Nat : x \notin cell => o[x] = own1[x]
        BY <1>2
    <2> QED
        BY <2>1
<1>4. \A x : Byte(mem', x) = IF x \in cell THEN val ELSE Byte(m, x)
    BY <1>1, StoreReads
<1> HIDE DEF val, cell, id, at
<1>5. ChangedIn(W, own, mem, own2, mem')
    BY <1>2, <1>3, <1>4 DEF ChangedIn
<1>6. /\ \A b \in PoolArrays : \A n \in 1 .. Len(elems[b]) : ElementHolds(own2, mem', b, n, elems[b][n])
      /\ \A l \in Lists : ListHolds(own2, mem', l)
      /\ \A b \in Arrays : b # a => SpareIs(own2, b, arrays[b])
    <2>m. PICK m2 : m2 = mem'
        OBVIOUS
    <2>1. ChangedIn(W, own, mem, own2, m2)
        BY <1>5, <2>m
    <2>2. /\ \A b \in PoolArrays : \A n \in 1 .. Len(elems[b]) : ElementHolds(own2, m2, b, n, elems[b][n])
          /\ \A l \in Lists : ListHolds(own2, m2, l)
          /\ \A b \in Arrays : b # a => SpareIs(own2, b, arrays[b])
        BY <2>1, Frame
    <2> QED
        BY <2>2, <2>m
<1>7. ASSUME NEW b \in PoolArrays, NEW n \in 1 .. Len(elems'[b])
      PROVE  ElementHolds(own2, mem', b, n, elems'[b][n])
    <2>0. b \in Arrays
        BY DEF Arrays
    <2>1. CASE b # a
        BY <1>1, <1>6, <2>0, <2>1
    <2>2. CASE b = a /\ n # len + 1
        <3>1. n \in 1 .. len
            <4>1. n \in 1 .. len + 1 /\ len \in Nat
                BY <1>1, <2>2
            <4> QED
                BY <2>2, <4>1
        <3>2. elems'[a][n] = elems[a][n] /\ ElementHolds(own2, mem', a, n, elems[a][n])
            BY <1>1, <1>6, <2>2, <3>1
        <3> QED
            BY <2>2, <3>2
    <2>3. CASE b = a /\ n = len + 1
        <3>1. id = OfElement(a, n)
            BY <2>3 DEF id
        <3>2. \A x \in cell : own2[x] = OfElement(a, n) /\ Byte(mem', x) = val
            BY <1>3, <1>4, <3>1
        <3>3. Bytes(elems'[a][n].at, ElemSize[a]) = cell /\ elems'[a][n].val = val
            BY <1>1, <2>3 DEF cell, val
        <3> QED
            BY <2>3, <3>2, <3>3 DEF ElementHolds
    <2> QED
        BY <2>1, <2>2, <2>3
<1>8. ASSUME a \in ListArrays, NEW l, l = [of |-> a, ptr |-> ptr, elems |-> elems'[a]]
      PROVE  ListHolds(own2, mem', l)
    <2>1. l.of = a /\ l.ptr = ptr /\ l.elems = elems'[a]
        BY <1>8
    <2>2. ASSUME NEW n \in 1 .. len + 1, NEW x \in Bytes(Element(a, ptr, n - 1), ElemSize[a])
          PROVE  own2[x] = OfLists /\ Byte(mem', x) = elems'[a][n].val
        <3>1. CASE n = len + 1
            <4>1. n - 1 = len
                BY <1>1, <3>1
            <4>2. x \in cell
                BY <2>2, <4>1 DEF cell, at
            <4>3. id = OfLists
                BY <1>8, PoolsAssumption DEF id
            <4> QED
                BY <1>3, <1>4, <3>1, <4>2, <4>3 DEF val
        <3>2. CASE n # len + 1
            <4>1. n \in 1 .. len
                <5>1. len \in Nat
                    BY <1>1
                <5> QED
                    BY <3>2, <5>1
            <4>2. own1[x] = OfLists /\ Byte(m, x) = elems[a][n].val
                <5>1. PICK k : k = [of |-> a, ptr |-> ptr, elems |-> elems[a]]
                    OBVIOUS
                <5>2. ListHolds(own1, m, k) /\ k.of = a /\ k.ptr = ptr /\ k.elems = elems[a]
                    BY <1>8, <5>1
                <5>3. n \in 1 .. Len(k.elems) /\ x \in Bytes(Element(k.of, k.ptr, n - 1), ElemSize[k.of])
                    BY <1>1, <4>1, <5>2
                <5> QED
                    BY <5>2, <5>3 DEF ListHolds
            <4>3. x \notin cell
                BY <1>2, <4>2, OwnersDiffer
            <4>4. x \in Nat \X Nat
                <5>1. Element(a, ptr, n - 1) \in Ptr /\ ElemSize[a] \in Nat
                    BY <4>1, ElementAt, PoolsAssumption
                <5> QED
                    BY <5>1, BytesIn
            <4> QED
                BY <1>1, <1>3, <1>4, <4>1, <4>2, <4>3, <4>4
        <3> QED
            BY <3>1, <3>2
    <2> QED
        BY <1>1, <2>1, <2>2 DEF ListHolds
<1>9. ASSUME NEW l \in Lists'
      PROVE  ListHolds(own2, mem', l)
    <2>1. CASE l \in kept
        BY <1>6, <2>1 DEF Lists
    <2>2. CASE l \notin kept
        <3>1. PICK b \in ListArrays : l = [of |-> b, ptr |-> arrays'[b].ptr, elems |-> elems'[b]]
            BY <1>1, <2>2 DEF Lists
        <3>2. b \in Arrays
            BY DEF Arrays
        <3>3. CASE b = a
            <4>1. arrays'[a].ptr = ptr
                BY <1>1
            <4> QED
                BY <1>8, <3>1, <3>3, <4>1
        <3>4. CASE b # a
            <4>1. l = [of |-> b, ptr |-> arrays[b].ptr, elems |-> elems[b]]
                BY <1>1, <3>1, <3>2, <3>4
            <4>2. l \in Lists
                BY <4>1 DEF Lists
            <4> QED
                BY <1>6, <4>2
        <3> QED
            BY <3>3, <3>4
    <2> QED
        BY <2>1, <2>2
<1>10. ASSUME NEW b \in Arrays
       PROVE  SpareIs(own2, b, arrays'[b])
    <2>1. CASE b # a
        BY <1>1, <1>6, <2>1
    <2>2. CASE b = a
        <3>1. arrays'[a].ptr = ptr /\ arrays'[a].len = len + 1 /\ arrays'[a].capacity = capacity
            BY <1>1
        <3> QED
            BY <1>2, <1>3, <2>2, <3>1 DEF SpareIs
    <2> QED
        BY <2>1, <2>2
<1>11. ASSUME NEW x \in FreeBytes'
       PROVE  own2[x] = Unused
    <2>1. x \in Nat \X Nat /\ own1[x] = Unused
        BY DEF FreeBytes
    <2>2. x \notin cell
        BY <1>2, <2>1, OwnersDiffer
    <2> QED
        BY <1>3, <2>1, <2>2
<1>12. Owned(own2)'
    BY <1>7, <1>9, <1>10, <1>11 DEF Owned
<1> QED
    BY <1>1, <1>12

-----------------------------------------------------------------------------
(* The steps.                                                              *)

(* An append where there is room.                                          *)
LEMMA AppendInPlaceStep ==
    ASSUME PInv, NEW a \in Arrays, AppendInPlace(a)
    PROVE  PInv'
<1> DEFINE ptr == arrays[a].ptr
           len == arrays[a].len
           capacity == arrays[a].capacity
           W == Bytes(Element(a, ptr, len), (capacity - len) * ElemSize[a])
<1> PICK V : Typed(V)
    BY DEF PInv
<1> PICK own : Owned(own)
    BY DEF PInv
<1>1. /\ ptr \in Ptr /\ len \in Nat /\ capacity \in Nat /\ len <= capacity
      /\ ptr.block <= Len(blocks)
    BY DEF Typed, Array
<1>2. /\ len + 1 <= capacity /\ Append_to(a, ptr, capacity, mem)
      /\ blocks' = blocks /\ offset' = offset /\ allocs' = allocs
    BY <1>1 DEF AppendInPlace, Full, vars
<1>3. IndInv' /\ Len(blocks) \in Nat
    <2>1. IndInv /\ UNCHANGED vars
        BY <1>2 DEF PInv, vars
    <2>2. TypeOK
        BY <2>1 DEF IndInv
    <2> QED
        BY <2>1, <2>2, ArenaStays DEF TypeOK
<1>4. \A x \in W : own[x] = OfSpare(a)
    BY DEF Owned, SpareIs
<1>5. Writable(own, a, W) /\ ChangedIn(W, own, mem, own, mem)
    BY <1>4 DEF Writable, ChangedIn
<1>6. \A x \in FreeBytes' : own[x] = Unused
    BY <1>2 DEF FreeBytes, Owned
<1>7. ASSUME a \in ListArrays
      PROVE  ListHolds(own, mem, [of |-> a, ptr |-> ptr, elems |-> elems[a]])
    BY <1>7 DEF Owned, Lists
<1>8. Len(blocks') \in Nat /\ Len(blocks) <= Len(blocks') /\ ptr.block <= Len(blocks')
    BY <1>1, <1>2, <1>3
<1>m. PICK m : m = mem
    OBVIOUS
<1>9. (\E U : Typed(U)') /\ (\E own2 : Owned(own2)')
    <2>1. /\ Append_to(a, ptr, capacity, m) /\ arrays[a].len + 1 <= capacity
          /\ ChangedIn(W, own, mem, own, m)
          /\ \A x \in Bytes(Element(a, ptr, arrays[a].len), (capacity - arrays[a].len) * ElemSize[a]) :
                 x \in W /\ own[x] = OfSpare(a)
          /\ a \in ListArrays =>
                 ListHolds(own, m, [of |-> a, ptr |-> ptr, elems |-> elems[a]])
        BY <1>2, <1>4, <1>5, <1>7, <1>m
    <2> HIDE DEF W, ptr, capacity, len
    <2> QED
        BY <1>1, <1>3, <1>5, <1>6, <1>8, <2>1, AppendKeeps
<1> QED
    BY <1>3, <1>9 DEF PInv

(* The bytes of the elements of an array, one after the other.             *)
LEMMA ElementBytes ==
    ASSUME NEW a \in Arrays, NEW ptr \in Ptr, NEW len \in Nat, NEW n \in 1 .. len
    PROVE  \A x : x \in Bytes(Element(a, ptr, n - 1), ElemSize[a]) <=>
               /\ x \in Nat \X Nat /\ x[1] = ptr.block
               /\ ptr.start + (n - 1) * ElemSize[a] <= x[2]
               /\ x[2] < ptr.start + (n - 1) * ElemSize[a] + ElemSize[a]
<1>1. n - 1 \in Nat
    OBVIOUS
<1>2. /\ Element(a, ptr, n - 1) \in Ptr /\ Element(a, ptr, n - 1).block = ptr.block
      /\ Element(a, ptr, n - 1).start = ptr.start + (n - 1) * ElemSize[a]
      /\ ElemSize[a] \in Nat
    BY <1>1, ElementAt, Sized
<1> QED
    BY <1>2, BytesIn

(* The bytes in a memory read val.                                         *)
AllRead(m, bytes, val) == \A x \in bytes : Byte(m, x) = val

(* An element that is copied with its array reads what it did.             *)
LEMMA ElementCopied ==
    ASSUME NEW a \in Arrays, NEW dst \in Ptr, NEW src \in Ptr, NEW len \in Nat, NEW n \in 1 .. len,
           NEW m, NEW val, AllRead(m, Bytes(Element(a, src, n - 1), ElemSize[a]), val)
    PROVE  /\ Bytes(Element(a, dst, n - 1), ElemSize[a]) \subseteq Bytes(dst, len * ElemSize[a])
           /\ AllRead(memcpy(m, dst, src, len * ElemSize[a]), Bytes(Element(a, dst, n - 1), ElemSize[a]), val)
<1> PICK e, i, k : e = ElemSize[a] /\ i = (n - 1) * e /\ k = len * e
    OBVIOUS
<1>1. e \in Nat /\ i \in Nat /\ k \in Nat /\ i + e <= k
    <2>1. n - 1 \in Nat /\ n - 1 < len /\ (n - 1) + 1 = n
        OBVIOUS
    <2>2. (n - 1) * ElemSize[a] \in Nat /\ len * ElemSize[a] \in Nat /\ ElemSize[a] \in Nat
        BY <2>1, Sized
    <2>3. ((n - 1) + 1) * ElemSize[a] = (n - 1) * ElemSize[a] + ElemSize[a]
        BY <2>1, Sized
    <2>4. ((n - 1) + 1) * ElemSize[a] <= len * ElemSize[a]
        BY <2>1, Sized
    <2> QED
        BY <2>2, <2>3, <2>4
<1>2. dst.block \in Nat /\ dst.start \in Nat /\ src.block \in Nat /\ src.start \in Nat
    BY DEF Ptr
<1>3. ASSUME NEW x \in Bytes(Element(a, dst, n - 1), ElemSize[a])
      PROVE  /\ x \in Bytes(dst, len * ElemSize[a])
             /\ Byte(memcpy(m, dst, src, len * ElemSize[a]), x) = val
    <2>1. x \in Nat \X Nat /\ x[1] = dst.block /\ dst.start + i <= x[2] /\ x[2] < dst.start + i + e
        BY <1>3, ElementBytes
    <2>2. x[2] \in Nat
        BY <2>1
    <2>3. x \in Bytes(dst, k)
        <3>1. dst.start <= x[2] /\ x[2] < dst.start + k
            BY <1>1, <1>2, <2>1, <2>2
        <3> QED
            BY <1>1, <2>1, <3>1, BytesIn
    <2>y. PICK y : y = <<src.block, src.start + x[2] - dst.start>>
        OBVIOUS
    <2>4. y \in Nat \X Nat /\ y[1] = src.block /\ y[2] = src.start + x[2] - dst.start
        <3>1. src.start + x[2] - dst.start \in Nat
            BY <1>1, <1>2, <2>1, <2>2
        <3> QED
            BY <1>2, <2>y, <3>1
    <2>5. src.start + i <= y[2] /\ y[2] < src.start + i + e
        BY <1>1, <1>2, <2>1, <2>2, <2>4
    <2>6. y \in Bytes(Element(a, src, n - 1), ElemSize[a])
        BY <2>4, <2>5, ElementBytes
    <2>7. Byte(memcpy(m, dst, src, k), x) = Byte(m, y)
        BY <2>3, <2>y, memcpyReads
    <2>8. Byte(m, y) = val
        BY <2>6 DEF AllRead
    <2> QED
        BY <2>3, <2>7, <2>8
<1> QED
    BY <1>3 DEF AllRead

(* An append for which the array moves.                                    *)
LEMMA AppendMovedStep ==
    ASSUME PInv, NEW a \in Arrays, AppendMoved(a),
           Better(arrays[a].capacity) * ElemSize[a] <= BlockSize
    PROVE  PInv'
<1> PICK V : Typed(V)
    BY DEF PInv
<1> PICK own : Owned(own)
    BY DEF PInv
<1>0. PICK old, len, better, tmp :
         /\ old = arrays[a].ptr /\ len = arrays[a].len /\ better = Better(arrays[a].capacity)
         /\ tmp = [block |-> Last(allocs').block, start |-> Last(allocs').start]
    OBVIOUS
<1>m. PICK m : m = memcpy(mem, tmp, old, len * ElemSize[a])
    OBVIOUS
<1>1. /\ old \in Ptr /\ len \in Nat /\ len = Len(elems[a])
      /\ better \in Nat /\ len + 1 <= better
    <2>1. /\ old \in Ptr /\ len \in Nat /\ len = Len(elems[a])
          /\ arrays[a].capacity \in Nat /\ len <= arrays[a].capacity
        BY <1>0 DEF Typed, Array
    <2>2. better \in Nat /\ better >= arrays[a].capacity + 1
        BY <1>0, <2>1, BetterGrows
    <2> QED
        BY <2>1, <2>2
<1>2. better * ElemSize[a] \in 0 .. BlockSize /\ alloc(better * ElemSize[a])
    <2>1. better * ElemSize[a] \in Nat
        BY <1>1, Sized
    <2>2. better * ElemSize[a] <= BlockSize /\ BlockSize \in Nat
        BY <1>0, ArenaAssumption
    <2>3. alloc(better * ElemSize[a])
        BY <1>0 DEF AppendMoved
    <2> QED
        BY <2>1, <2>2, <2>3
<1>3. Append_to(a, tmp, better, m)
    BY <1>0, <1>m DEF AppendMoved
<1>4. IndInv /\ IndInv'
    BY <1>2, AllocKeeps DEF PInv
<1>w. PICK W : W = Bytes(tmp, better * ElemSize[a])
    OBVIOUS
<1>5. /\ tmp \in Ptr /\ tmp.block <= Len(blocks')
      /\ Len(blocks) \in Nat /\ Len(blocks') \in Nat /\ Len(blocks) <= Len(blocks')
      /\ \A x \in W : x \in FreeBytes /\ x \notin FreeBytes'
      /\ FreeBytes' \subseteq FreeBytes
    BY <1>0, <1>2, <1>4, <1>w, AllocTakes
<1>c. PICK copied : copied = Bytes(tmp, len * ElemSize[a])
    OBVIOUS
<1>r. PICK room : room = Bytes(Element(a, tmp, len), (better - len) * ElemSize[a])
    OBVIOUS
<1>6. /\ copied \subseteq W /\ room \subseteq W /\ W \subseteq Nat \X Nat
      /\ \A x \in room : x \notin copied
    <2> PICK i, k, r, at :
            /\ i = len * ElemSize[a] /\ k = better * ElemSize[a] /\ r = (better - len) * ElemSize[a]
            /\ at = Element(a, tmp, len)
        OBVIOUS
    <2>1. i \in Nat /\ k \in Nat /\ r \in Nat /\ r = k - i /\ i <= k
        <3>1. len <= better /\ better - len \in Nat
            BY <1>1
        <3> QED
            BY <1>1, <3>1, Sized
    <2>2. at \in Ptr /\ at.block = tmp.block /\ at.start = tmp.start + i /\ tmp.start \in Nat
        BY <1>1, <1>5, ElementAt DEF Ptr
    <2>3. \A x : x \in copied <=>
              x \in Nat \X Nat /\ x[1] = tmp.block /\ tmp.start <= x[2] /\ x[2] < tmp.start + i
        BY <1>5, <1>c, <2>1, BytesIn
    <2>4. \A x : x \in W <=>
              x \in Nat \X Nat /\ x[1] = tmp.block /\ tmp.start <= x[2] /\ x[2] < tmp.start + k
        BY <1>5, <1>w, <2>1, BytesIn
    <2>5. \A x : x \in room <=>
              x \in Nat \X Nat /\ x[1] = at.block /\ at.start <= x[2] /\ x[2] < at.start + r
        BY <1>r, <2>1, <2>2, BytesIn
    <2>6. ASSUME NEW x
          PROVE  /\ x \in copied => x \in W
                 /\ x \in room => x \in W /\ x \notin copied
                 /\ x \in W => x \in Nat \X Nat
        <3>1. x \in Nat \X Nat => x[2] \in Nat
            OBVIOUS
        <3>2. x \in copied => x \in W
            BY <2>1, <2>2, <2>3, <2>4, <3>1
        <3>3. x \in room => x \in W
            BY <2>1, <2>2, <2>4, <2>5, <3>1
        <3>4. x \in room => x \notin copied
            BY <2>1, <2>2, <2>3, <2>5, <3>1
        <3> QED
            BY <2>4, <3>2, <3>3, <3>4
    <2> QED
        BY <2>6
<1>7. PICK own1 :
         /\ \A x \in Nat \X Nat : x \notin W => own1[x] = own[x]
         /\ \A x \in copied : own1[x] = OfLists
         /\ \A x \in room : own1[x] = OfSpare(a)
    <2> PICK lists, spare : lists = OfLists /\ spare = OfSpare(a)
        OBVIOUS
    <2> DEFINE o == [x \in Nat \X Nat |-> IF x \notin W THEN own[x]
                                         ELSE IF x \in copied THEN lists ELSE spare]
    <2>1. /\ \A x \in Nat \X Nat : x \notin W => o[x] = own[x]
          /\ \A x \in copied : o[x] = lists
          /\ \A x \in room : o[x] = spare
        BY <1>6
    <2> QED
        BY <2>1
<1>8. Writable(own, a, W)
    BY <1>5 DEF Writable, Owned
<1>9. ChangedIn(W, own, mem, own1, m)
    <2> PICK size : size = len * ElemSize[a]
        OBVIOUS
    <2> PICK m0 : m0 = mem
        OBVIOUS
    <2>0. ASSUME NEW x, x \notin Bytes(tmp, size)
          PROVE  Byte(memcpy(m0, tmp, old, size), x) = Byte(m0, x)
        BY <2>0, memcpyReads
    <2>1. \A x : x \notin copied => Byte(m, x) = Byte(mem, x)
        BY <1>m, <1>c, <2>0
    <2> QED
        BY <1>6, <1>7, <2>1 DEF ChangedIn
<1>10. \A x \in FreeBytes' : own1[x] = Unused
    <2>1. ASSUME NEW x \in FreeBytes'
          PROVE  own1[x] = Unused
        <3>1. x \in FreeBytes /\ x \notin W
            BY <1>5
        <3>2. x \in Nat \X Nat /\ own[x] = Unused
            BY <3>1 DEF Owned, FreeBytes
        <3> QED
            BY <1>7, <3>1, <3>2
    <2> QED
        BY <2>1
<1>11. ASSUME a \in ListArrays
       PROVE  ListHolds(own1, m, [of |-> a, ptr |-> tmp, elems |-> elems[a]])
    <2>1. PICK l : l = [of |-> a, ptr |-> old, elems |-> elems[a]]
        OBVIOUS
    <2>2. ListHolds(own, mem, l) /\ l.of = a /\ l.ptr = old /\ l.elems = elems[a]
        BY <1>0, <1>11, <2>1 DEF Owned, Lists
    <2>3. ASSUME NEW n \in 1 .. len, NEW x \in Bytes(Element(a, tmp, n - 1), ElemSize[a])
          PROVE  own1[x] = OfLists /\ Byte(m, x) = elems[a][n].val
        <3>v. PICK val : val = elems[a][n].val
            OBVIOUS
        <3>m. PICK m0 : m0 = mem
            OBVIOUS
        <3>1. AllRead(m0, Bytes(Element(a, old, n - 1), ElemSize[a]), val)
            BY <1>1, <2>2, <3>v, <3>m DEF ListHolds, AllRead
        <3>2. /\ Bytes(Element(a, tmp, n - 1), ElemSize[a]) \subseteq Bytes(tmp, len * ElemSize[a])
              /\ AllRead(memcpy(m0, tmp, old, len * ElemSize[a]), Bytes(Element(a, tmp, n - 1), ElemSize[a]), val)
            BY <1>1, <1>5, <3>1, ElementCopied
        <3>3. /\ x \in copied
              /\ Byte(m, x) = val
            BY <1>m, <1>c, <2>3, <3>2, <3>m DEF AllRead
        <3> QED
            BY <1>7, <3>3, <3>v
    <2>4. PICK k : k = [of |-> a, ptr |-> tmp, elems |-> elems[a]]
        OBVIOUS
    <2>5. k.of = a /\ k.ptr = tmp /\ k.elems = elems[a]
        BY <2>4
    <2>6. ListHolds(own1, m, k)
        BY <1>1, <2>3, <2>5 DEF ListHolds
    <2> QED
        BY <2>4, <2>6
<1>12. (\E U : Typed(U)') /\ (\E own2 : Owned(own2)')
    <2>1. \A x \in Bytes(Element(a, tmp, arrays[a].len), (better - arrays[a].len) * ElemSize[a]) :
              x \in W /\ own1[x] = OfSpare(a)
        BY <1>0, <1>6, <1>7, <1>r
    <2>2. arrays[a].len + 1 <= better
        BY <1>0, <1>1
    <2> QED
        BY <1>1, <1>3, <1>5, <1>8, <1>9, <1>10, <1>11, <2>1, <2>2, AppendKeeps
<1> QED
    BY <1>4, <1>12 DEF PInv

(* A write through the pointer of an element: only its bytes change.       *)
LEMMA WriteStep ==
    ASSUME PInv, NEW a \in PoolArrays, Write(a)
    PROVE  PInv'
<1> PICK V : Typed(V)
    BY DEF PInv
<1> PICK own : Owned(own)
    BY DEF PInv
<1>1. PICK n \in DOMAIN elems[a] :
          /\ mem' = Store(mem, elems[a][n].at, ElemSize[a], -elems[a][n].val)
          /\ elems' = [elems EXCEPT ![a][n].val = -@]
          /\ UNCHANGED <<vars, arrays, kept>>
    BY DEF Write
<1>2. PICK at, val : at = elems[a][n].at /\ val = -elems[a][n].val
    OBVIOUS
<1>3. /\ a \in Arrays /\ elems \in [Arrays -> Seq(Item(V))] /\ elems[a] \in Seq(Item(V))
      /\ n \in 1 .. Len(elems[a]) /\ elems[a][n] \in Item(V) /\ at \in Ptr
    <2>1. a \in Arrays /\ elems \in [Arrays -> Seq(Item(V))] /\ elems[a] \in Seq(Item(V))
        BY DEF Arrays, Typed
    <2>2. n \in 1 .. Len(elems[a])
        BY <2>1
    <2>3. elems[a][n] \in Item(V)
        BY <2>1, <2>2, ElementOfSeq
    <2> QED
        BY <1>2, <2>1, <2>2, <2>3 DEF Item
<1>e. PICK e : e = [at |-> at, val |-> val]
    OBVIOUS
<1>4. [elems[a][n] EXCEPT !.val = -@] = e
    BY <1>2, <1>3, <1>e DEF Item
<1>l. PICK list : list = [elems[a] EXCEPT ![n] = e]
    OBVIOUS
<1>5. elems' = [elems EXCEPT ![a] = list]
    <2>1. elems' = [elems EXCEPT ![a] = [elems[a] EXCEPT ![n] = [elems[a][n] EXCEPT !.val = -@]]]
        BY <1>1
    <2> QED
        BY <1>4, <1>l, <2>1
<1>u. PICK U : U = V \cup {val}
    OBVIOUS
<1>6. Item(V) \subseteq Item(U) /\ e \in Item(U)
    BY <1>e, <1>u, <1>3 DEF Item
<1>7. /\ list \in Seq(Item(U)) /\ Len(list) = Len(elems[a]) /\ list[n] = e
      /\ \A k \in 1 .. Len(elems[a]) : k # n => list[k] = elems[a][k]
    <2>1. elems[a] \in Seq(Item(U))
        BY <1>3, <1>6
    <2> QED
        BY <1>3, <1>6, <1>l, <2>1
<1>8. /\ elems'[a] = list /\ \A b \in Arrays : b # a => elems'[b] = elems[b]
      /\ elems' \in [Arrays -> Seq(Item(U))]
    <2>1. \A b \in Arrays : elems[b] \in Seq(Item(U))
        BY <1>3, <1>6
    <2> QED
        BY <1>3, <1>5, <1>7, <2>1
<1>9. /\ arrays' = arrays /\ kept' = kept /\ UNCHANGED vars
      /\ blocks' = blocks /\ offset' = offset /\ allocs' = allocs
    BY <1>1 DEF vars
<1>10. Typed(U)'
    <2>1. kept' \subseteq List(U)
        <3>1. ASSUME NEW l \in List(V)
              PROVE  l \in List(U)
            <4>1. l.elems \in Seq(Item(V)) => l.elems \in Seq(Item(U))
                BY <1>6
            <4> QED
                BY <4>1 DEF List
        <3> QED
            BY <1>9, <3>1 DEF Typed
    <2>2. ASSUME NEW b \in Arrays
          PROVE  /\ arrays'[b].len = Len(elems'[b]) /\ arrays'[b].len <= arrays'[b].capacity
                 /\ arrays'[b].ptr.block <= Len(blocks')
                 /\ \A k \in 1 .. Len(elems'[b]) : elems'[b][k].at.block <= Len(blocks')
        <3>1. /\ arrays[b].len = Len(elems[b]) /\ arrays[b].len <= arrays[b].capacity
              /\ arrays[b].ptr.block <= Len(blocks)
              /\ \A k \in 1 .. Len(elems[b]) : elems[b][k].at.block <= Len(blocks)
            BY DEF Typed
        <3>2. CASE b # a
            BY <1>8, <1>9, <3>1, <3>2
        <3>3. CASE b = a
            <4>1. \A k \in 1 .. Len(list) : list[k].at = elems[a][k].at
                BY <1>2, <1>7, <1>e
            <4> QED
                BY <1>7, <1>8, <1>9, <3>1, <3>3, <4>1
        <3> QED
            BY <3>2, <3>3
    <2> QED
        BY <1>8, <1>9, <2>1, <2>2 DEF Typed
<1>11. \A x : Byte(mem', x) = IF x \in Bytes(at, ElemSize[a]) THEN val ELSE Byte(mem, x)
    BY <1>1, <1>2, StoreReads
<1>12. \A x \in Bytes(at, ElemSize[a]) : own[x] = OfElement(a, n)
    BY <1>2, <1>3 DEF Owned, ElementHolds
<1>13. ASSUME NEW x, own[x] # OfElement(a, n)
       PROVE  Byte(mem', x) = Byte(mem, x)
    BY <1>11, <1>12, <1>13
<1>14. ASSUME NEW b \in PoolArrays, NEW k \in 1 .. Len(elems'[b])
       PROVE  ElementHolds(own, mem', b, k, elems'[b][k])
    <2>0. b \in Arrays
        BY DEF Arrays
    <2>1. CASE b = a /\ k = n
        <3>1. elems'[b][k] = e /\ e.at = at /\ e.val = val
            BY <1>7, <1>8, <1>e, <2>1
        <3> QED
            BY <1>11, <1>12, <2>1, <3>1 DEF ElementHolds
    <2>2. CASE ~(b = a /\ k = n)
        <3>1. k \in 1 .. Len(elems[b]) /\ elems'[b][k] = elems[b][k]
            BY <1>7, <1>8, <2>0, <2>2
        <3>2. ElementHolds(own, mem, b, k, elems[b][k])
            BY <3>1 DEF Owned
        <3>3. OfElement(b, k) # OfElement(a, n)
            BY <2>2, OwnersDiffer
        <3> QED
            BY <1>13, <3>1, <3>2, <3>3 DEF ElementHolds
    <2> QED
        BY <2>1, <2>2
<1>15. ASSUME NEW l \in Lists'
       PROVE  ListHolds(own, mem', l)
    <2>1. l \in Lists
        <3>1. \A b \in ListArrays : b \in Arrays /\ b # a
            BY PoolsAssumption DEF Arrays
        <3>2. \A b \in ListArrays : arrays'[b].ptr = arrays[b].ptr /\ elems'[b] = elems[b]
            BY <1>8, <1>9, <3>1
        <3>3. CASE l \in kept
            BY <3>3 DEF Lists
        <3>4. CASE l \notin kept
            <4>1. PICK b \in ListArrays : l = [of |-> b, ptr |-> arrays'[b].ptr, elems |-> elems'[b]]
                BY <1>9, <3>4 DEF Lists
            <4>2. l = [of |-> b, ptr |-> arrays[b].ptr, elems |-> elems[b]]
                BY <3>2, <4>1
            <4> QED
                BY <4>2 DEF Lists
        <3> QED
            BY <3>3, <3>4
    <2>2. ListHolds(own, mem, l)
        BY <2>1 DEF Owned
    <2> QED
        BY <1>13, <2>2, OwnersDiffer DEF ListHolds
<1>16. Owned(own)'
    <2>1. \A b \in Arrays : SpareIs(own, b, arrays'[b])
        BY <1>9 DEF Owned
    <2>2. \A x \in FreeBytes' : own[x] = Unused
        BY <1>9 DEF Owned, FreeBytes
    <2> QED
        BY <1>14, <1>15, <2>1, <2>2 DEF Owned
<1>17. IndInv'
    BY <1>9, ArenaStays DEF PInv
<1> QED
    BY <1>10, <1>16, <1>17 DEF PInv

(* An array without memory has no spare part.                              *)
LEMMA NoSpare ==
    ASSUME NEW own, NEW a \in Arrays
    PROVE  SpareIs(own, a, NoArray)
<1>1. NoArray.ptr \in Ptr /\ NoArray.len = 0 /\ NoArray.capacity = 0
    BY DEF NoArray, NULL, Ptr
<1>2. Element(a, NoArray.ptr, 0) \in Ptr /\ ElemSize[a] \in Nat
    BY <1>1, ElementAt, Sized
<1>3. (NoArray.capacity - NoArray.len) * ElemSize[a] = 0
    BY <1>1, <1>2
<1>4. PICK at : at = Element(a, NoArray.ptr, 0)
    OBVIOUS
<1>5. at.start \in Nat
    BY <1>2, <1>4 DEF Ptr
<1>6. \A x : x \notin Bytes(at, 0)
    BY <1>5 DEF Bytes
<1>7. \A x : x \notin Bytes(Element(a, NoArray.ptr, NoArray.len),
                          (NoArray.capacity - NoArray.len) * ElemSize[a])
    BY <1>1, <1>3, <1>4, <1>6
<1> QED
    BY <1>7 DEF SpareIs

(* A list that is handed to its node keeps its memory.                     *)
LEMMA MoveStep ==
    ASSUME PInv, NEW a \in ListArrays, move(a)
    PROVE  PInv'
<1> PICK V : Typed(V)
    BY DEF PInv
<1> PICK own : Owned(own)
    BY DEF PInv
<1>l. PICK l : l = [of |-> a, ptr |-> arrays[a].ptr, elems |-> elems[a]]
    OBVIOUS
<1>1. /\ kept' = kept \cup {l} /\ arrays' = [arrays EXCEPT ![a] = NoArray]
      /\ elems' = [elems EXCEPT ![a] = <<>>] /\ mem' = mem
      /\ UNCHANGED vars /\ blocks' = blocks /\ offset' = offset /\ allocs' = allocs
    BY <1>l DEF move, vars
<1>2. /\ a \in Arrays /\ a \notin PoolArrays
      /\ arrays \in [Arrays -> Array] /\ elems \in [Arrays -> Seq(Item(V))]
    BY PoolsAssumption DEF Typed, Arrays
<1>3. /\ arrays'[a] = NoArray /\ elems'[a] = <<>>
      /\ \A b \in Arrays : b # a => arrays'[b] = arrays[b] /\ elems'[b] = elems[b]
    BY <1>1, <1>2
<1>4. IndInv' /\ Len(blocks) \in Nat
    <2>1. TypeOK /\ IndInv
        BY DEF PInv, IndInv
    <2> QED
        BY <1>1, <2>1, ArenaStays DEF TypeOK
<1>5. NoArray \in Array /\ NoArray.ptr.block = 0 /\ NoArray.len = 0 /\ NoArray.capacity = 0
    BY DEF NoArray, NULL, Array, Ptr
<1>6. Typed(V)'
    <2>1. arrays' \in [Arrays -> Array] /\ elems' \in [Arrays -> Seq(Item(V))]
        BY <1>1, <1>2, <1>5
    <2>2. l \in List(V) /\ l.ptr.block <= Len(blocks)
        <3>1. arrays[a].ptr \in Ptr /\ elems[a] \in Seq(Item(V)) /\ arrays[a].ptr.block <= Len(blocks)
            BY <1>2 DEF Array, Typed
        <3> QED
            BY <1>l, <3>1 DEF List
    <2>3. ASSUME NEW b \in Arrays
          PROVE  /\ arrays'[b].len = Len(elems'[b]) /\ arrays'[b].len <= arrays'[b].capacity
                 /\ arrays'[b].ptr.block <= Len(blocks')
                 /\ \A k \in 1 .. Len(elems'[b]) : elems'[b][k].at.block <= Len(blocks')
        <3>1. CASE b # a
            BY <1>1, <1>3, <3>1 DEF Typed
        <3>2. CASE b = a
            BY <1>1, <1>3, <1>4, <1>5, <3>2
        <3> QED
            BY <3>1, <3>2
    <2>4. kept' \subseteq List(V) /\ \A k \in kept' : k.ptr.block <= Len(blocks')
        BY <1>1, <2>2 DEF Typed
    <2> QED
        BY <2>1, <2>3, <2>4 DEF Typed
<1>7. ASSUME NEW b \in PoolArrays, NEW k \in 1 .. Len(elems'[b])
      PROVE  ElementHolds(own, mem', b, k, elems'[b][k])
    <2>1. b \in Arrays /\ b # a
        BY <1>2 DEF Arrays
    <2> QED
        BY <1>1, <1>3, <2>1 DEF Owned
<1>8. ASSUME NEW k \in Lists'
      PROVE  ListHolds(own, mem', k)
    <2>1. CASE k \in kept \/ k = l
        BY <1>1, <1>l, <2>1 DEF Owned, Lists
    <2>2. CASE ~(k \in kept \/ k = l)
        <3>1. PICK b \in ListArrays : k = [of |-> b, ptr |-> arrays'[b].ptr, elems |-> elems'[b]]
            BY <1>1, <2>2 DEF Lists
        <3>2. b \in Arrays
            BY DEF Arrays
        <3>3. CASE b = a
            <4>1. k.elems = <<>>
                BY <1>3, <3>1, <3>3
            <4> QED
                BY <4>1 DEF ListHolds
        <3>4. CASE b # a
            <4>1. k = [of |-> b, ptr |-> arrays[b].ptr, elems |-> elems[b]]
                BY <1>3, <3>1, <3>2, <3>4
            <4> QED
                BY <1>1, <4>1 DEF Owned, Lists
        <3> QED
            BY <3>3, <3>4
    <2> QED
        BY <2>1, <2>2
<1>9. ASSUME NEW b \in Arrays
      PROVE  SpareIs(own, b, arrays'[b])
    <2>1. CASE b # a
        BY <1>3, <2>1 DEF Owned
    <2>2. CASE b = a
        BY <1>2, <1>3, <2>2, NoSpare
    <2> QED
        BY <2>1, <2>2
<1>10. \A x \in FreeBytes' : own[x] = Unused
    BY <1>1 DEF FreeBytes, Owned
<1>11. Owned(own)'
    BY <1>7, <1>8, <1>9, <1>10 DEF Owned
<1> QED
    BY <1>4, <1>6, <1>11 DEF PInv

(* A step that leaves the arena alone gives no array more memory.          *)
LEMMA BackedStays ==
    ASSUME Backed, allocs' = allocs,
           \A a \in Arrays : \/ arrays'[a].capacity = 0
                             \/ /\ arrays'[a].capacity = arrays[a].capacity
                                /\ arrays'[a].ptr = arrays[a].ptr
    PROVE  Backed'
    BY DEF Backed

(* A moved array has what it asked for, and the others what they had.      *)
LEMMA BackedMoves ==
    ASSUME PInv, Backed, NEW a \in Arrays, AppendMoved(a),
           Better(arrays[a].capacity) * ElemSize[a] <= BlockSize
    PROVE  Backed'
<1> PICK V : Typed(V)
    BY DEF PInv
<1>1. PICK better, tmp, m :
          /\ better = Better(arrays[a].capacity)
          /\ tmp = [block |-> Last(allocs').block, start |-> Last(allocs').start]
          /\ alloc(better * ElemSize[a]) /\ Append_to(a, tmp, better, m)
    BY DEF AppendMoved
<1>2. better * ElemSize[a] \in 0 .. BlockSize
    <2>1. arrays[a].capacity \in Nat
        BY DEF Typed, Array
    <2>2. better * ElemSize[a] \in Nat
        BY <1>1, <2>1, BetterGrows, Sized
    <2> QED
        BY <1>1, <2>2, ArenaAssumption
<1>p. PICK p : p = [block |-> Len(blocks'), start |-> Start(better * ElemSize[a]), size |-> better * ElemSize[a]]
    OBVIOUS
<1>3. /\ allocs' \in Seq(Allocation) /\ Len(allocs) \in Nat /\ Len(allocs') = Len(allocs) + 1
      /\ allocs'[Len(allocs) + 1] = p
      /\ \A n \in 1 .. Len(allocs) : allocs'[n] = allocs[n]
    <2>1. TypeOK /\ Len(allocs) \in Nat
        BY DEF PInv, IndInv, TypeOK
    <2> QED
        BY <1>1, <1>2, <1>p, <2>1, AllocsGrow
<1>4. DOMAIN allocs' = 1 .. Len(allocs) + 1 /\ DOMAIN allocs = 1 .. Len(allocs)
    <2>1. allocs \in Seq(Allocation)
        BY DEF PInv, IndInv, TypeOK
    <2> QED
        BY <1>3, <2>1
<1>5. Last(allocs') = p
    BY <1>3 DEF Last
<1>6. /\ arrays'[a].ptr = tmp /\ arrays'[a].capacity = better
      /\ \A b \in Arrays : b # a => arrays'[b] = arrays[b]
    <2>1. arrays \in [Arrays -> Array]
        BY DEF Typed
    <2>2. PICK new : new = [ptr |-> tmp, len |-> arrays[a].len + 1, capacity |-> better]
        OBVIOUS
    <2>3. arrays' = [arrays EXCEPT ![a] = new]
        BY <1>1, <2>2 DEF Append_to
    <2> QED
        BY <2>1, <2>2, <2>3
<1>7. ASSUME NEW b \in Arrays, arrays'[b].capacity > 0
      PROVE  \E n \in DOMAIN allocs' : allocs'[n] =
                 [block |-> arrays'[b].ptr.block, start |-> arrays'[b].ptr.start,
                  size |-> arrays'[b].capacity * ElemSize[b]]
    <2>1. CASE b = a
        <3>1. p = [block |-> arrays'[a].ptr.block, start |-> arrays'[a].ptr.start,
                   size |-> arrays'[a].capacity * ElemSize[a]]
            BY <1>1, <1>5, <1>6, <1>p
        <3>2. Len(allocs) + 1 \in DOMAIN allocs'
            BY <1>3, <1>4
        <3> QED
            BY <1>3, <2>1, <3>1, <3>2
    <2>2. CASE b # a
        <3>1. PICK n \in DOMAIN allocs : allocs[n] =
                  [block |-> arrays[b].ptr.block, start |-> arrays[b].ptr.start,
                   size |-> arrays[b].capacity * ElemSize[b]]
            BY <1>6, <1>7, <2>2 DEF Backed
        <3>2. n \in DOMAIN allocs' /\ allocs'[n] = allocs[n]
            BY <1>3, <1>4
        <3> QED
            BY <1>6, <2>2, <3>1, <3>2
    <2> QED
        BY <2>1, <2>2
<1> QED
    BY <1>7 DEF Backed

-----------------------------------------------------------------------------
(* The invariant holds as long as the requests fit.                        *)

(* The calls of alloc are kept in a list.                                  *)
Logged == \E S : allocs \in Seq(S)

(* The invariant of the pools.                                             *)
PoolInv == Logged /\ (RequestsFit => PInv /\ Backed)

(* Nobody owns a byte yet.                                                 *)
LEMMA PoolInitInv == PoolInit => PoolInv
<1> SUFFICES ASSUME PoolInit PROVE PInv /\ Backed /\ Logged
    BY DEF PoolInv
<1>1. IndInv
    BY InitIndInv DEF PoolInit
<1>2. /\ allocs = <<>> /\ arrays = [a \in Arrays |-> NoArray]
      /\ elems = [a \in Arrays |-> <<>>] /\ kept = {}
      /\ Len(blocks) \in Nat
    BY <1>1 DEF PoolInit, Init, IndInv, TypeOK
<1>3. NoArray \in Array /\ NoArray.ptr.block = 0 /\ NoArray.len = 0 /\ NoArray.capacity = 0
    BY DEF NoArray, NULL, Array, Ptr
<1>4. Typed({})
    <2>1. arrays \in [Arrays -> Array] /\ elems \in [Arrays -> Seq(Item({}))]
        BY <1>2, <1>3
    <2>2. \A a \in Arrays : arrays[a] = NoArray /\ elems[a] = <<>>
        BY <1>2
    <2> QED
        BY <1>2, <1>3, <2>1, <2>2 DEF Typed
<1>5. PICK own : \A x \in Nat \X Nat : own[x] = Unused
    <2> PICK u : u = Unused
        OBVIOUS
    <2>1. \A x \in Nat \X Nat : [y \in Nat \X Nat |-> u][x] = u
        OBVIOUS
    <2> QED
        BY <2>1
<1>6. Owned(own)
    <2>1. \A a \in PoolArrays : elems[a] = <<>>
        BY <1>2 DEF Arrays
    <2>2. \A l \in Lists : l.elems = <<>>
        BY <1>2 DEF Lists, Arrays
    <2>3. ASSUME NEW a \in Arrays
          PROVE  SpareIs(own, a, arrays[a])
        BY <1>2, <2>3, NoSpare
    <2>4. \A x \in FreeBytes : own[x] = Unused
        BY <1>5 DEF FreeBytes
    <2> QED
        BY <2>1, <2>2, <2>3, <2>4 DEF Owned, ListHolds
<1>7. Backed
    BY <1>2, <1>3 DEF Backed
<1>8. Logged
    BY <1>2 DEF Logged
<1> QED
    BY <1>1, <1>4, <1>6, <1>7, <1>8 DEF PInv

(* An append that moves an array makes one request more.                   *)
LEMMA MovedLogs ==
    ASSUME Logged, NEW a \in Arrays, AppendMoved(a)
    PROVE  /\ Logged'
           /\ RequestsFit' => RequestsFit /\ Better(arrays[a].capacity) * ElemSize[a] <= BlockSize
<1>1. PICK S : allocs \in Seq(S)
    BY DEF Logged
<1>2. PICK size : size = Better(arrays[a].capacity) * ElemSize[a]
    OBVIOUS
<1>3. PICK p : p = [block |-> Len(blocks'), start |-> Start(size), size |-> size]
    OBVIOUS
<1>4. allocs' = Append(allocs, p) /\ p.size = size
    BY <1>2, <1>3 DEF AppendMoved, alloc
<1>5. PICK T : S \subseteq T /\ p \in T
    <2>1. S \subseteq S \cup {p} /\ p \in S \cup {p}
        OBVIOUS
    <2> QED
        BY <2>1
<1>6. /\ allocs' \in Seq(T) /\ Len(allocs) \in Nat /\ Len(allocs') = Len(allocs) + 1
      /\ allocs'[Len(allocs) + 1] = p
      /\ \A n \in 1 .. Len(allocs) : allocs'[n] = allocs[n]
    <2>1. allocs \in Seq(T)
        BY <1>1, <1>5
    <2> QED
        BY <1>4, <1>5, <2>1
<1>7. Logged'
    BY <1>6 DEF Logged
<1>8. ASSUME RequestsFit'
      PROVE  RequestsFit /\ size <= BlockSize
    <2>1. \A n \in 1 .. Len(allocs) + 1 : allocs'[n].size <= BlockSize
        BY <1>6, <1>8 DEF RequestsFit
    <2>2. allocs'[Len(allocs) + 1].size <= BlockSize
        BY <1>6, <2>1
    <2>3. \A n \in 1 .. Len(allocs) : allocs[n].size <= BlockSize
        BY <1>6, <2>1
    <2> QED
        BY <1>4, <1>6, <2>2, <2>3 DEF RequestsFit
<1> QED
    BY <1>2, <1>7, <1>8

(* One case for each operation of an array.                                *)
LEMMA PoolNextInv == PoolInv /\ [PoolNext]_poolVars => PoolInv'
<1> SUFFICES ASSUME PoolInv, [PoolNext]_poolVars PROVE PoolInv'
    OBVIOUS
<1>s. ASSUME allocs' = allocs
      PROVE  Logged' /\ (RequestsFit' => RequestsFit /\ PInv /\ Backed)
    BY <1>s DEF PoolInv, Logged, RequestsFit
<1>1. ASSUME NEW a \in Arrays, AppendInPlace(a)
      PROVE  PoolInv'
    <2>1. allocs' = allocs
        BY <1>1 DEF AppendInPlace, vars
    <2>2. ASSUME PInv, Backed
          PROVE  PInv' /\ Backed'
        <3>1. PInv'
            BY <1>1, <2>2, AppendInPlaceStep
        <3>2. PICK V : Typed(V)
            BY <2>2 DEF PInv
        <3>3. PICK new, m :
                  /\ new = [ptr |-> arrays[a].ptr, len |-> arrays[a].len + 1, capacity |-> arrays[a].capacity]
                  /\ m = mem
            OBVIOUS
        <3>4. arrays' = [arrays EXCEPT ![a] = new]
            BY <1>1, <3>3 DEF AppendInPlace, Append_to
        <3>5. arrays \in [Arrays -> Array]
            BY <3>2 DEF Typed
        <3>6. \A b \in Arrays : arrays'[b].capacity = arrays[b].capacity /\ arrays'[b].ptr = arrays[b].ptr
            BY <3>3, <3>4, <3>5
        <3> QED
            BY <2>1, <2>2, <3>1, <3>6, BackedStays
    <2> QED
        BY <1>s, <2>1, <2>2 DEF PoolInv
<1>2. ASSUME NEW a \in Arrays, AppendMoved(a)
      PROVE  PoolInv'
    <2>1. /\ Logged'
          /\ RequestsFit' => RequestsFit /\ Better(arrays[a].capacity) * ElemSize[a] <= BlockSize
        BY <1>2, MovedLogs DEF PoolInv
    <2>2. ASSUME RequestsFit'
          PROVE  PInv' /\ Backed'
        <3>1. PInv /\ Backed /\ Better(arrays[a].capacity) * ElemSize[a] <= BlockSize
            BY <2>1, <2>2 DEF PoolInv
        <3> QED
            BY <1>2, <3>1, AppendMovedStep, BackedMoves
    <2> QED
        BY <2>1, <2>2 DEF PoolInv
<1>3. ASSUME NEW a \in PoolArrays, Write(a)
      PROVE  PoolInv'
    <2>1. allocs' = allocs /\ arrays' = arrays
        BY <1>3 DEF Write, vars
    <2>2. ASSUME PInv, Backed
          PROVE  PInv' /\ Backed'
        BY <1>3, <2>1, <2>2, WriteStep, BackedStays
    <2> QED
        BY <1>s, <2>1, <2>2 DEF PoolInv
<1>4. ASSUME NEW a \in ListArrays, move(a)
      PROVE  PoolInv'
    <2>1. allocs' = allocs /\ arrays' = [arrays EXCEPT ![a] = NoArray]
        BY <1>4 DEF move, vars
    <2>2. ASSUME PInv, Backed
          PROVE  PInv' /\ Backed'
        <3>1. PInv'
            BY <1>4, <2>2, MoveStep
        <3>2. arrays \in [Arrays -> Array] /\ NoArray.capacity = 0
            BY <2>2 DEF PInv, Typed, NoArray
        <3>3. \A b \in Arrays : \/ arrays'[b].capacity = 0
                                \/ /\ arrays'[b].capacity = arrays[b].capacity
                                   /\ arrays'[b].ptr = arrays[b].ptr
            BY <2>1, <3>2
        <3> QED
            BY <2>1, <2>2, <3>1, <3>3, BackedStays
    <2> QED
        BY <1>s, <2>1, <2>2 DEF PoolInv
<1>5. CASE UNCHANGED poolVars
    <2>1. /\ blocks' = blocks /\ offset' = offset /\ allocs' = allocs /\ arrays' = arrays
          /\ mem' = mem /\ elems' = elems /\ kept' = kept
        BY <1>5 DEF poolVars
    <2>2. ASSUME PInv, Backed
          PROVE  PInv' /\ Backed'
        <3>1. IndInv'
            BY <2>1, <2>2, ArenaStays DEF PInv, vars
        <3>2. \E V : Typed(V)'
            BY <2>1, <2>2 DEF PInv, Typed
        <3>3. \E own : Owned(own)'
            BY <2>1, <2>2 DEF PInv, Owned, Lists, FreeBytes
        <3> QED
            BY <2>1, <2>2, <3>1, <3>2, <3>3, BackedStays DEF PInv
    <2> QED
        BY <1>s, <2>1, <2>2 DEF PoolInv
<1> QED
    BY <1>1, <1>2, <1>3, <1>4, <1>5 DEF PoolNext, append

(* The invariant of the pools, from first to last.                         *)
LEMMA PoolInductive == PoolSpec => []PoolInv
    BY PoolInitInv, PoolNextInv, PTL DEF PoolSpec

-----------------------------------------------------------------------------

(* The arena and the arrays have their types, and the memory of an array   *)
(* is what alloc returned for its capacity, as long as no array asked for  *)
(* more than a block.                                                      *)
THEOREM PoolTypeCorrect == PoolSpec => [](RequestsFit => PoolTypeOK)
<1>1. PoolInv => (RequestsFit => PoolTypeOK)
    <2> SUFFICES ASSUME PInv, Backed PROVE PoolTypeOK
        BY DEF PoolInv
    <2>1. PICK V : Typed(V)
        BY DEF PInv
    <2>2. TypeOK /\ Len(blocks) \in Nat
        BY DEF PInv, IndInv, TypeOK
    <2>3. \A ptr \in Ptr : ptr.block <= Len(blocks) => ptr \in Pointer
        BY <2>2 DEF Ptr, Pointer
    <2>4. ASSUME NEW a \in Arrays
          PROVE  /\ arrays[a] \in [ptr : Pointer, len : Nat, capacity : Nat]
                 /\ arrays[a].len = Len(elems[a]) /\ arrays[a].len <= arrays[a].capacity
                 /\ \A n \in DOMAIN elems[a] : elems[a][n].at \in Pointer
        <3>1. /\ arrays[a] \in Array /\ arrays[a].ptr.block <= Len(blocks)
              /\ arrays[a].len = Len(elems[a]) /\ arrays[a].len <= arrays[a].capacity
              /\ elems[a] \in Seq(Item(V))
              /\ \A n \in 1 .. Len(elems[a]) : elems[a][n].at.block <= Len(blocks)
            BY <2>1 DEF Typed
        <3>2. arrays[a] \in [ptr : Pointer, len : Nat, capacity : Nat]
            BY <2>3, <3>1 DEF Array
        <3>3. \A n \in DOMAIN elems[a] : elems[a][n].at \in Pointer
            <4>1. ASSUME NEW n \in 1 .. Len(elems[a])
                  PROVE  elems[a][n].at \in Pointer
                <5>1. elems[a][n] \in Item(V)
                    BY <3>1, ElementOfSeq
                <5> QED
                    BY <2>3, <3>1, <5>1 DEF Item
            <4> QED
                BY <3>1, <4>1
        <3> QED
            BY <3>1, <3>2, <3>3
    <2>5. arrays \in [Arrays -> [ptr : Pointer, len : Nat, capacity : Nat]]
        BY <2>1, <2>4 DEF Typed
    <2>6. \A l \in kept : l.ptr \in Pointer
        BY <2>1, <2>3 DEF Typed, List
    <2> QED
        BY <2>2, <2>4, <2>5, <2>6 DEF PoolTypeOK
<1> QED
    BY <1>1, PoolInductive, PTL

(* The allocations of the arrays lie in their blocks and do not overlap,   *)
(* under the same condition, with the sizes that the arrays ask for.       *)
THEOREM PoolsShareTheArena == PoolSpec => [](RequestsFit => AllocationsInBlock /\ AllocationsDisjoint)
<1>1. PoolInv => (RequestsFit => AllocationsInBlock /\ AllocationsDisjoint)
    BY DEF PoolInv, PInv, IndInv
<1> QED
    BY <1>1, PoolInductive, PTL

(* Nothing that another array or an older block of the same array does     *)
(* changes a node, a type or a list, under the same condition: pointers    *)
(* into memory that a pool has left read what was written through them.    *)
THEOREM NothingIsLost == PoolSpec => [](RequestsFit => NothingLost)
<1>1. PoolInv => (RequestsFit => NothingLost)
    <2> SUFFICES ASSUME PInv PROVE NothingLost
        BY DEF PoolInv
    <2>1. PICK V : Typed(V)
        BY DEF PInv
    <2>2. PICK own : Owned(own)
        BY DEF PInv
    <2>3. PointersHold
        <3>1. ASSUME NEW a \in PoolArrays, NEW n \in DOMAIN elems[a]
              PROVE  Reads(elems[a][n].at, ElemSize[a], elems[a][n].val)
            <4>1. a \in Arrays
                BY DEF Arrays
            <4>2. n \in 1 .. Len(elems[a])
                BY <2>1, <4>1 DEF Typed
            <4>3. ElementHolds(own, mem, a, n, elems[a][n])
                BY <2>2, <4>2 DEF Owned
            <4> QED
                BY <4>3 DEF ElementHolds, Reads
        <3> QED
            BY <3>1 DEF PointersHold
    <2>4. ListsHold
        <3>1. ASSUME NEW l \in Lists, NEW n \in DOMAIN l.elems
              PROVE  Reads(Element(l.of, l.ptr, n - 1), ElemSize[l.of], l.elems[n].val)
            <4>1. l.elems \in Seq(Item(V))
                <5>1. CASE l \in kept
                    BY <2>1, <5>1 DEF Typed, List
                <5>2. CASE l \notin kept
                    BY <2>1, <5>2 DEF Typed, Lists, Arrays
                <5> QED
                    BY <5>1, <5>2
            <4>2. n \in 1 .. Len(l.elems)
                BY <4>1
            <4>3. ListHolds(own, mem, l)
                BY <2>2 DEF Owned
            <4> QED
                BY <4>2, <4>3 DEF ListHolds, Reads
        <3> QED
            BY <3>1 DEF ListsHold, Lists
    <2> QED
        BY <2>3, <2>4 DEF NothingLost
<1> QED
    BY <1>1, PoolInductive, PTL
=============================================================================
