------------------------------ MODULE HashMap -------------------------------
(***************************************************************************)
(* HashMap of cortex_map.h (34-162): open addressing with linear probing,  *)
(* tombstones and a rehash when the table fills up.  Its buckets are a     *)
(* DynArray whose capacity grows by ensure_capacity (cortex.h 707-726).    *)
(*                                                                         *)
(* StaticHashMap (164-297) repeats get, put and remove line by line on an  *)
(* array of a fixed size, and exits where HashMap rehashes; the keywords   *)
(* of the lexer are one (lexer.cpp 66).  `fixed` says which one it is.     *)
(*                                                                         *)
(* put is a sequence of steps, one per iteration of its loops but for the  *)
(* probes: a probe is the least index at which its loop stops.  Nothing    *)
(* else runs between two steps; get and remove are one step each.  The     *)
(* products with 100 and the capacities stay far below 2^31 here.          *)
(***************************************************************************)
EXTENDS Integers, FiniteSets, FiniteSetsExt

CONSTANTS
    Keys, Vals,
    NoKey, NoVal,       \* the fields of an entry nothing was written to
    Hash,               \* fnv_hash
    INIT_SIZE, HIGH_WATERMARK, LOW_WATERMARK,
    GrowBy,             \* the 8 of `better_capacity * 5 / 2 + 8`
    FixedCapacity       \* the capacity of a StaticHashMap

ASSUME HashMapAssumption ==
    /\ NoKey \notin Keys
    /\ Hash \in [Keys -> Nat]
    /\ INIT_SIZE \in Nat \ {0}
    /\ HIGH_WATERMARK \in 1 .. 100
    /\ LOW_WATERMARK \in 1 .. 100
    /\ GrowBy \in Nat \ {0}
    /\ FixedCapacity \in Nat

VARIABLES
    fixed,      \* a StaticHashMap, not a HashMap
    buckets,    \* the entries, [0 .. capacity - 1 -> Entry]
    capacity,   \* buckets.capacity
    used,
    new_bucks,  \* the locals of rehash...
    cap,        \* ... the capacity asked for, then the one allocated
    i,          \* ... the entry moved next
    arg,        \* the key and the value of the put that runs
    pc          \* what the put does next, "idle" between two calls, or
                \* "exit" when it has ended the program

vars == <<fixed, buckets, capacity, used, new_bucks, cap, i, arg, pc>>

EmptyEntry == [key |-> NoKey, val |-> NoVal, state |-> "Empty"]

NoArg == [key |-> NoKey, val |-> NoVal]

Slot(k, n, size) == (Hash[k] + n) % size

Stops_slip(b, size, k) ==
    {n \in 0 .. size - 1 :
        LET ent == b[Slot(k, n, size)]
        IN  ent.state # "Occupied" \/ ent.key = k}

(* The iterations at which a probe for k stops: at k or at an empty entry. *)
Stops(b, size, k) ==
    {n \in 0 .. size - 1 :
        LET ent == b[Slot(k, n, size)]
        IN  ent.state = "Empty" \/ (ent.state = "Occupied" /\ ent.key = k)}

NoSlot == -1

(* The index of the entry get_entry returns a pointer to.                  *)
get_entry(k) ==
    LET stops == Stops(buckets, capacity, k)
        slot == Slot(k, Min(stops), capacity)
    IN  IF stops # {} /\ buckets[slot].state = "Occupied" THEN slot ELSE NoSlot

In(state, b) == {n \in DOMAIN b : b[n].state = state}

nkeys == Cardinality(In("Occupied", buckets))

(* buckets.empty() or usage at the watermark.                              *)
NeedsRehash ==
    capacity > 0 => (used * 100) \div capacity >= HIGH_WATERMARK

put(k, v) ==
    /\ pc = "idle"
    /\ ~(NeedsRehash /\ fixed)
    /\ arg' = [key |-> k, val |-> v]
    /\ IF NeedsRehash
       THEN /\ cap' = (IF capacity = 0 THEN INIT_SIZE ELSE capacity)
            /\ pc' = "resize"
       ELSE /\ pc' = "insert"
            /\ UNCHANGED cap
    /\ UNCHANGED <<fixed, buckets, capacity, used, new_bucks, i>>

(* "increase the fixed length of the StaticHashMap", also when the key is  *)
(* already there: exit(1).                                                 *)
PutExits(k, v) ==
    /\ pc = "idle"
    /\ NeedsRehash /\ fixed
    /\ arg' = [key |-> k, val |-> v]
    /\ pc' = "exit"
    /\ UNCHANGED <<fixed, buckets, capacity, used, new_bucks, cap, i>>

(* while ((nkeys * 100) / cap >= LOW_WATERMARK)                            *)
DoubleCapacity ==
    /\ pc = "resize"
    /\ (nkeys * 100) \div cap >= LOW_WATERMARK
    /\ cap' = cap * 2
    /\ UNCHANGED <<fixed, buckets, capacity, used, new_bucks, i, arg, pc>>

Better_slip(c) == (c * 5) \div 2

(* The capacities an empty DynArray grows through until one is enough.     *)
Better(c) == (c * 5) \div 2 + GrowBy

StartAllocation ==
    /\ pc = "resize"
    /\ (nkeys * 100) \div cap < LOW_WATERMARK
    /\ i' = Better(0)
    /\ pc' = "allocate"
    /\ UNCHANGED <<fixed, buckets, capacity, used, new_bucks, cap, arg>>

BetterCapacity ==
    /\ pc = "allocate"
    /\ i < cap
    /\ i' = Better(i)
    /\ UNCHANGED <<fixed, buckets, capacity, used, new_bucks, cap, arg, pc>>

Allocate_slip ==
    /\ pc = "allocate"
    /\ i >= cap
    /\ cap' = i
    /\ new_bucks' = [n \in 0 .. cap - 1 |-> EmptyEntry]
    /\ i' = 0
    /\ pc' = "move"
    /\ UNCHANGED <<fixed, buckets, capacity, used, arg>>

Allocate ==
    /\ pc = "allocate"
    /\ i >= cap
    /\ cap' = i
    /\ new_bucks' = [n \in 0 .. i - 1 |-> EmptyEntry]
    /\ i' = 0
    /\ pc' = "move"
    /\ UNCHANGED <<fixed, buckets, capacity, used, arg>>

(* The first empty entry of the new buckets takes an occupied old one.     *)
MoveEntry ==
    LET old == buckets[i]
        free == {n \in 0 .. cap - 1 :
                    new_bucks[Slot(old.key, n, cap)].state = "Empty"}
    IN  /\ pc = "move"
        /\ i < capacity
        /\ new_bucks' = IF old.state = "Occupied" /\ free # {}
                        THEN [new_bucks EXCEPT ![Slot(old.key, Min(free), cap)] = old]
                        ELSE new_bucks
        /\ i' = i + 1
        /\ UNCHANGED <<fixed, buckets, capacity, used, cap, arg, pc>>

EndRehash ==
    /\ pc = "move"
    /\ i = capacity
    /\ buckets' = new_bucks
    /\ capacity' = cap
    /\ used' = nkeys
    /\ new_bucks' = << >> /\ cap' = 0 /\ i' = 0
    /\ pc' = "insert"
    /\ UNCHANGED <<fixed, arg>>

(* The three ends of the probe of get_or_insert_entry: the key, an empty   *)
(* entry (or the first tombstone before it), or no entry at all.           *)
ArgStops == Stops(buckets, capacity, arg.key)
ArgSlot == Slot(arg.key, Min(ArgStops), capacity)

FirstTombstone ==
    {n \in 0 .. Min(ArgStops) :
        /\ buckets[Slot(arg.key, n, capacity)].state = "Tombstone"
        /\ \A m \in 0 .. n - 1 :
               buckets[Slot(arg.key, m, capacity)].state # "Tombstone"}

Target ==
    IF FirstTombstone = {} THEN ArgSlot
    ELSE Slot(arg.key, CHOOSE n \in FirstTombstone : TRUE, capacity)

Update ==
    /\ pc = "insert"
    /\ ArgStops # {}
    /\ buckets[ArgSlot].state = "Occupied"
    /\ buckets' = [buckets EXCEPT ![ArgSlot].val = arg.val]
    /\ pc' = "idle" /\ arg' = NoArg
    /\ UNCHANGED <<fixed, capacity, used, new_bucks, cap, i>>

Insert ==
    /\ pc = "insert"
    /\ ArgStops # {}
    /\ buckets[ArgSlot].state = "Empty"
    /\ buckets' = [buckets EXCEPT ![Target] =
                       [key |-> arg.key, val |-> arg.val, state |-> "Occupied"]]
    /\ used' = used + 1
    /\ pc' = "idle" /\ arg' = NoArg
    /\ UNCHANGED <<fixed, capacity, new_bucks, cap, i>>

(* "HashMap is full": exit(1).  Not a step of Next, for it never comes to   *)
(* that (NeverFull).                                                       *)
Full == pc = "insert" /\ ArgStops = {}

remove_slip(k) ==
    /\ pc = "idle"
    /\ get_entry(k) # NoSlot
    /\ buckets' = [buckets EXCEPT ![get_entry(k)] = EmptyEntry]
    /\ UNCHANGED <<fixed, capacity, used, new_bucks, cap, i, arg, pc>>

remove_uncounted_slip(k) ==
    /\ pc = "idle"
    /\ get_entry(k) # NoSlot
    /\ buckets' = [buckets EXCEPT ![get_entry(k)].state = "Tombstone"]
    /\ used' = used - 1
    /\ UNCHANGED <<fixed, capacity, new_bucks, cap, i, arg, pc>>

(* An entry that is removed stays used.                                    *)
remove(k) ==
    /\ pc = "idle"
    /\ get_entry(k) # NoSlot
    /\ buckets' = [buckets EXCEPT ![get_entry(k)].state = "Tombstone"]
    /\ UNCHANGED <<fixed, capacity, used, new_bucks, cap, i, arg, pc>>

-----------------------------------------------------------------------------

NoBuckets == fixed = FALSE /\ capacity = 0 /\ buckets = << >>

FixedBuckets ==
    /\ fixed = TRUE
    /\ capacity = FixedCapacity
    /\ buckets = [n \in 0 .. FixedCapacity - 1 |-> EmptyEntry]

Init ==
    /\ NoBuckets \/ FixedBuckets
    /\ used = 0
    /\ new_bucks = << >> /\ cap = 0 /\ i = 0
    /\ arg = NoArg
    /\ pc = "idle"

Call == \E k \in Keys : remove(k) \/ \E v \in Vals : put(k, v) \/ PutExits(k, v)

Continue ==
    \/ DoubleCapacity \/ StartAllocation \/ BetterCapacity \/ Allocate
    \/ MoveEntry \/ EndRehash
    \/ Update \/ Insert

Next == Call \/ Continue

Spec == Init /\ [][Next]_vars

(* A call runs to its end; nobody has to call.                             *)
FairSpec == Spec /\ WF_vars(Continue)
-----------------------------------------------------------------------------

Entry ==
    [key : Keys \cup {NoKey}, val : Vals \cup {NoVal},
     state : {"Empty", "Occupied", "Tombstone"}]

(* An array of entries of this size, keys in the entries that had one.     *)
IsTable(b, size) ==
    /\ b \in [0 .. size - 1 -> Entry]
    /\ \A n \in 0 .. size - 1 : b[n].state # "Empty" => b[n].key \in Keys

(* The type invariant: the arrays have the capacities kept beside them.    *)
TypeOK ==
    /\ capacity \in Nat /\ IsTable(buckets, capacity)
    /\ used \in Nat
    /\ pc \in {"idle", "exit", "resize", "allocate", "move", "insert"}
    /\ cap \in Nat /\ i \in Nat
    /\ IF pc = "move" THEN IsTable(new_bucks, cap) ELSE new_bucks = << >>
    /\ IF pc = "idle" THEN arg = NoArg ELSE arg \in [key : Keys, val : Vals]

(* Every entry is the one that get finds for its key: no empty entry and   *)
(* no second copy of the key lies before it on the key's probe sequence,   *)
(* whatever was removed, reused or moved to a larger array.                *)
EveryEntryFound ==
    \A n \in In("Occupied", buckets) : get_entry(buckets[n].key) = n

(* "HashMap is full" (cortex_map.h 133, 266 of a StaticHashMap) is never   *)
(* printed: `used` counts every entry that is not empty, tombstones        *)
(* included, so the watermark leaves an empty entry to stop at.            *)
NeverFull == ~Full

(* The map the buckets stand for: what get returns for each key.           *)
Found == {k \in Keys : get_entry(k) # NoSlot}

Contents == [k \in Found |-> buckets[get_entry(k)].val]

(* The table is a map: what get returns changes when a put returns, for    *)
(* its key and as it should, at a remove, for its key, and at no other     *)
(* step: not while the entries are moved to another array.                 *)
Map == INSTANCE KeyMap WITH map <- Contents

IsAMap == Map!Spec

(* A put returns, for the loops of rehash come to an end; only the one of a *)
(* StaticHashMap may end the program instead.                              *)
PutReturns == pc # "idle" ~> pc = "idle" \/ (pc = "exit" /\ fixed)
=============================================================================
