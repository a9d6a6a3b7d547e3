------------------------------- MODULE Arena --------------------------------
(***************************************************************************)
(* Arena of cortex.h (826-892): blocks from mmap, filled one after the     *)
(* other; dealloc does nothing.  A pointer is a block and an offset in it. *)
(***************************************************************************)
EXTENDS Integers, Sequences

CONSTANTS
    BlockSize,      \* block_size, which no constructor changes
    FirstSizes,     \* what the constructors may map as the first block
    Sizes,          \* the sizes asked for
    Word,           \* the number of values of usize
    MaxAllocs       \* bound: the calls of alloc in a run

ASSUME ArenaAssumption ==
    /\ BlockSize \in Nat \ {0}
    /\ Word \in Nat /\ BlockSize < Word
    /\ FirstSizes \subseteq {n \in Nat : n >= BlockSize}
    /\ Sizes \subseteq 0 .. Word - 1
    /\ MaxAllocs \in Nat

VARIABLES
    blocks,     \* the number of bytes mapped for each block
    offset,     \* the first free byte of the last block
    allocs      \* the pointers returned, with the sizes asked for

vars == <<blocks, offset, allocs>>

(* Without a test for room every pointer is into the first block.          *)
NoRoom_slip(size) == FALSE

(* An off-by-one in the test for room.                                     *)
NoRoom_inexact_slip(size) == size > BlockSize - offset + 1

(* `size > block_size - offset`, in usize: the difference wraps.           *)
NoRoom(size) == size > (BlockSize - offset) % Word

Start(size) == IF NoRoom(size) THEN 0 ELSE offset

(* offset is reset behind the pointer, not before it.                      *)
alloc_slip(size) ==
    /\ blocks' = IF NoRoom(size) THEN Append(blocks, BlockSize) ELSE blocks
    /\ allocs' = Append(allocs, [block |-> Len(blocks'), start |-> Start(size),
                                 size |-> size])
    /\ offset' = IF NoRoom(size) THEN 0 ELSE offset + size

alloc(size) ==
    /\ blocks' = IF NoRoom(size) THEN Append(blocks, BlockSize) ELSE blocks
    /\ allocs' = Append(allocs, [block |-> Len(blocks'), start |-> Start(size),
                                 size |-> size])
    /\ offset' = (Start(size) + size) % Word

Init ==
    /\ \E first \in FirstSizes : blocks = <<first>>
    /\ offset = 0
    /\ allocs = <<>>

Next == Len(allocs) < MaxAllocs /\ \E size \in Sizes : alloc(size)

Spec == Init /\ [][Next]_vars

-----------------------------------------------------------------------------

Allocation == [block : Nat \ {0}, start : Nat, size : Nat]

(* The type invariant: a pointer is into a block that was mapped.          *)
TypeOK ==
    /\ blocks \in Seq(Nat) /\ blocks # <<>>
    /\ offset \in 0 .. BlockSize
    /\ allocs \in Seq(Allocation)
    /\ \A a \in 1 .. Len(allocs) : allocs[a].block <= Len(blocks)

(* "no enough space in this block" (cortex.h 871) makes alloc take another *)
(* one: what it returns lies within the bytes mapped for its block.        *)
AllocationsInBlock ==
    \A a \in 1 .. Len(allocs) :
        allocs[a].start + allocs[a].size <= blocks[allocs[a].block]

(* No byte is handed out twice: the pools that share the arena of the Ast, *)
(* and the older copies of a pool that has grown, do not overlap.          *)
AllocationsDisjoint ==
    \A b \in 1 .. Len(allocs) : \A a \in 1 .. b - 1 :
        allocs[a].block = allocs[b].block =>
            allocs[a].start + allocs[a].size <= allocs[b].start
=============================================================================
