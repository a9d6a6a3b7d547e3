---------------------------- MODULE TableProofs -----------------------------
(***************************************************************************)
(* The symbol table: the hash map it is made of, then the stack of scopes. *)
(*                                                                         *)
(* The hash map, for all keys, values, hashes and sizes: a probe always    *)
(* ends, it finds every entry, and the table is a map through insertions   *)
(* into tombstones, removals and rehashes.  What the steps of a rehash     *)
(* rely on is Rehashing; the lemmas before it are about one table, b, of   *)
(* some size, for there are two during a rehash.                           *)
(*                                                                         *)
(* The stack implements the stack of views, for any names, symbols and     *)
(* number of scopes.                                                       *)
(***************************************************************************)
EXTENDS HashMap, SymbolStack, MinMax, SequenceTheorems, TLAPS

(* The entries that are not empty: what `used` counts, at least.           *)
Taken(b) == {p \in DOMAIN b : b[p].state # "Empty"}

Holds(b, p, k) == b[p].state = "Occupied" /\ b[p].key = k

(* No probe for a key that is in the table stops before it gets there.     *)
Reachable(b, size) ==
    \A k \in Keys, n \in 0 .. size - 1 :
        Holds(b, Slot(k, n, size), k) =>
            \A m \in 0 .. n - 1 : m \notin Stops(b, size, k)

-----------------------------------------------------------------------------
(* Arithmetic.                                                             *)

(* A usage below a watermark is a number below the capacity.               *)
LEMMA UsageBelow ==
    ASSUME NEW a \in Nat, NEW c \in Nat \ {0}, NEW w \in 1 .. 100, (a * 100) \div c < w
    PROVE  a < c
  OBVIOUS

LEMMA ModUnique ==
    ASSUME NEW q \in Nat, NEW c \in Nat \ {0}, NEW r \in 0 .. c - 1
    PROVE  (c * q + r) % c = r
  OBVIOUS

LEMMA DivMod ==
    ASSUME NEW a \in Nat, NEW c \in Nat \ {0}
    PROVE  /\ a \div c \in Nat
           /\ a % c \in 0 .. c - 1
           /\ a = c * (a \div c) + (a % c)
  OBVIOUS

-----------------------------------------------------------------------------
(* Probe sequences: the slots of a key are all places of the table, each   *)
(* once.                                                                   *)

LEMMA SlotType ==
    ASSUME NEW k \in Keys, NEW n \in Nat, NEW size \in Nat \ {0}
    PROVE  Slot(k, n, size) \in 0 .. size - 1
<1>1. Hash[k] + n \in Nat
  BY HashMapAssumption
<1> QED
  BY <1>1, DivMod DEF Slot

LEMMA SlotOnto ==
    ASSUME NEW k \in Keys, NEW size \in Nat \ {0}, NEW p \in 0 .. size - 1
    PROVE  \E n \in 0 .. size - 1 : Slot(k, n, size) = p
<1> DEFINE q == Hash[k] \div size
           r == Hash[k] % size
<1>1. /\ q \in Nat /\ r \in 0 .. size - 1
      /\ Hash[k] \in Nat /\ Hash[k] = size * q + r
  BY HashMapAssumption, DivMod
<1> HIDE DEF q, r
<1>2. CASE p >= r
  <2>1. /\ p - r \in 0 .. size - 1
        /\ Hash[k] + (p - r) = size * q + p
    BY <1>1, <1>2
  <2> QED
    BY <1>1, <2>1, ModUnique DEF Slot
<1>3. CASE p < r
  <2>1. /\ p - r + size \in 0 .. size - 1
        /\ Hash[k] + (p - r + size) = size * q + size + p
    BY <1>1, <1>3
  <2>2. size * q + size = size * (q + 1) /\ q + 1 \in Nat
    BY <1>1
  <2>3. Hash[k] + (p - r + size) = size * (q + 1) + p
    BY <2>1, <2>2
  <2> QED
    BY <2>1, <2>2, <2>3, ModUnique DEF Slot
<1> QED
  BY <1>1, <1>2, <1>3

LEMMA SlotInjective ==
    ASSUME NEW k \in Keys, NEW size \in Nat \ {0},
           NEW n \in 0 .. size - 1, NEW m \in 0 .. size - 1,
           Slot(k, n, size) = Slot(k, m, size)
    PROVE  n = m
<1> DEFINE a == Hash[k] + n
           b == Hash[k] + m
           qa == a \div size
           qb == b \div size
           r == a % size
<1>1. Hash[k] \in Nat /\ a \in Nat /\ b \in Nat
  BY HashMapAssumption
<1>2. b % size = r
  BY DEF Slot
<1>3. a = size * qa + r /\ qa \in Nat /\ r \in 0 .. size - 1
  BY <1>1, DivMod
<1>4. b = size * qb + r /\ qb \in Nat /\ r \in Nat
  <2>1. b = size * qb + (b % size) /\ qb \in Nat
    BY <1>1, DivMod
  <2> QED
    BY <1>2, <1>3, <2>1
<1>5. n - m = size * qa - size * qb
  <2>1. a - b = n - m
    BY <1>1
  <2> HIDE DEF a, b, qa, qb, r
  <2>2. a - b = size * qa - size * qb
    BY <1>3, <1>4
  <2> QED
    BY <2>1, <2>2
<1> HIDE DEF a, b, qa, qb, r
<1>6. CASE qa > qb
  <2>1. PICK d \in Nat \ {0} : qa = qb + d
    <3>1. qa - qb \in Nat \ {0} /\ qa = qb + (qa - qb)
      BY <1>3, <1>4, <1>6
    <3> QED
      BY <3>1
  <2>2. size * qa = size * qb + size * d
    BY <1>3, <1>4, <2>1
  <2>3. size * d >= size
    BY <2>1
  <2> QED
    BY <1>3, <1>4, <1>5, <2>2, <2>3
<1>7. CASE qa < qb
  <2>1. PICK d \in Nat \ {0} : qb = qa + d
    <3>1. qb - qa \in Nat \ {0} /\ qb = qa + (qb - qa)
      BY <1>3, <1>4, <1>7
    <3> QED
      BY <3>1
  <2>2. size * qb = size * qa + size * d
    BY <1>3, <1>4, <2>1
  <2>3. size * d >= size
    BY <2>1
  <2> QED
    BY <1>3, <1>4, <1>5, <2>2, <2>3
<1>8. CASE qa = qb
  BY <1>3, <1>4, <1>5, <1>8
<1> QED
  BY <1>3, <1>4, <1>6, <1>7, <1>8

-----------------------------------------------------------------------------
(* Lookups in a table.                                                     *)

(* get_entry on any table.                                                 *)
Lookup(b, size, k) ==
    LET stops == Stops(b, size, k)
        slot == Slot(k, Min(stops), size)
    IN  IF stops # {} /\ b[slot].state = "Occupied" THEN slot ELSE NoSlot

LEMMA LookupIsGetEntry ==
    ASSUME NEW k
    PROVE  /\ get_entry(k) = Lookup(buckets, capacity, k)
           /\ get_entry(k)' = Lookup(buckets', capacity', k)
  BY DEF get_entry, Lookup, Stops, Slot

(* Where a probe stops, and that nothing before stops it.                  *)
LEMMA FirstStop ==
    ASSUME NEW size \in Nat \ {0}, NEW b, NEW k \in Keys, Stops(b, size, k) # {}
    PROVE  LET s == Min(Stops(b, size, k))
           IN  /\ s \in 0 .. size - 1
               /\ s \in Stops(b, size, k)
               /\ \A m \in 0 .. s - 1 : m \notin Stops(b, size, k)
               /\ \/ b[Slot(k, s, size)].state = "Empty"
                  \/ Holds(b, Slot(k, s, size), k)
<1> DEFINE S == Stops(b, size, k)
<1>1. S \subseteq Nat /\ S \subseteq 0 .. size - 1
  BY DEF Stops
<1> DEFINE s == Min(S)
<1>2. s \in S /\ \A y \in S : s <= y
  BY <1>1, MinIsLeast
<1> HIDE DEF s, S
<1>3. s \in 0 .. size - 1 /\ \A m \in 0 .. s - 1 : m \notin S
  BY <1>1, <1>2
<1>4. s \in S
  BY <1>2
<1> QED
  BY <1>3, <1>4 DEF Stops, Holds, s, S

(* A lookup finds the place of its key in a reachable table, if there is   *)
(* one, and nothing otherwise.                                             *)
LEMMA LookupFinds ==
    ASSUME NEW size \in Nat, NEW b, NEW k \in Keys, Reachable(b, size)
    PROVE  /\ \A p \in 0 .. size - 1 : Holds(b, p, k) => Lookup(b, size, k) = p
           /\ Lookup(b, size, k) # NoSlot =>
                  /\ Lookup(b, size, k) \in 0 .. size - 1
                  /\ Holds(b, Lookup(b, size, k), k)
<1>1. ASSUME NEW p \in 0 .. size - 1, Holds(b, p, k)
      PROVE  Lookup(b, size, k) = p
  <2>1. size \in Nat \ {0}
    OBVIOUS
  <2>2. PICK n \in 0 .. size - 1 : Slot(k, n, size) = p
    BY <2>1, SlotOnto
  <2>3. n \in Stops(b, size, k)
    BY <1>1, <2>2 DEF Stops, Holds
  <2> DEFINE s == Min(Stops(b, size, k))
  <2>4. /\ s \in 0 .. size - 1 /\ s \in Stops(b, size, k)
        /\ \A m \in 0 .. s - 1 : m \notin Stops(b, size, k)
    BY <2>1, <2>3, FirstStop
  <2>5. \A m \in 0 .. n - 1 : m \notin Stops(b, size, k)
    BY <1>1, <2>2 DEF Reachable
  <2> HIDE DEF s
  <2>6. s = n
    BY <2>3, <2>4, <2>5
  <2> QED
    BY <1>1, <2>2, <2>3, <2>6 DEF Lookup, Holds, s
<1>2. ASSUME Lookup(b, size, k) # NoSlot
      PROVE  /\ Lookup(b, size, k) \in 0 .. size - 1
             /\ Holds(b, Lookup(b, size, k), k)
  <2> DEFINE s == Min(Stops(b, size, k))
  <2>1. /\ Stops(b, size, k) # {}
        /\ b[Slot(k, s, size)].state = "Occupied"
        /\ Lookup(b, size, k) = Slot(k, s, size)
    BY <1>2 DEF Lookup
  <2>2. size \in Nat \ {0}
    BY <2>1 DEF Stops
  <2>3. s \in 0 .. size - 1 /\ (b[Slot(k, s, size)].state = "Empty" \/ Holds(b, Slot(k, s, size), k))
    BY <2>1, <2>2, FirstStop
  <2> QED
    BY <2>1, <2>2, <2>3, SlotType
<1> QED
  BY <1>1, <1>2

(* A key has one place at most.                                            *)
LEMMA OnePlace ==
    ASSUME NEW size \in Nat, NEW b, NEW k \in Keys, Reachable(b, size),
           NEW p \in 0 .. size - 1, NEW q \in 0 .. size - 1,
           Holds(b, p, k), Holds(b, q, k)
    PROVE  p = q
  BY LookupFinds

-----------------------------------------------------------------------------
(* Changes of a table.                                                     *)

(* A key that is not in the table may be written to any place that its     *)
(* probe gets to.                                                          *)
LEMMA PlacedReachable ==
    ASSUME NEW size \in Nat \ {0}, NEW b, IsTable(b, size), Reachable(b, size),
           NEW e \in Entry, e.state = "Occupied", e.key \in Keys,
           \A p \in 0 .. size - 1 : ~Holds(b, p, e.key),
           NEW t \in 0 .. size - 1,
           \A m \in 0 .. t - 1 : m \notin Stops(b, size, e.key)
    PROVE  LET c == [b EXCEPT ![Slot(e.key, t, size)] = e]
           IN  IsTable(c, size) /\ Reachable(c, size)
<1> DEFINE x == Slot(e.key, t, size)
           c == [b EXCEPT ![x] = e]
<1>1. x \in 0 .. size - 1
  BY SlotType
<1> HIDE DEF x
<1>2. IsTable(c, size)
  BY <1>1 DEF IsTable
<1>3. /\ c[x] = e
      /\ \A p \in 0 .. size - 1 : p # x => c[p] = b[p]
  BY <1>1 DEF IsTable
<1> HIDE DEF c
<1>4. Reachable(c, size)
  <2> SUFFICES ASSUME NEW k \in Keys, NEW n \in 0 .. size - 1,
                      Holds(c, Slot(k, n, size), k),
                      NEW m \in 0 .. n - 1
               PROVE  m \notin Stops(c, size, k)
    BY DEF Reachable
  <2>1. m \in 0 .. size - 1 /\ Slot(k, n, size) \in 0 .. size - 1 /\ Slot(k, m, size) \in 0 .. size - 1
    BY SlotType
  <2>2. CASE k = e.key
    <3>1. Slot(k, n, size) = x
      BY <1>3, <2>1, <2>2 DEF Holds
    <3>2. n = t
      BY <2>2, <3>1, SlotInjective DEF x
    <3>3. Slot(k, m, size) # x
      BY <2>1, <2>2, <3>2, SlotInjective DEF x
    <3>4. m \notin Stops(b, size, k)
      BY <2>2, <3>2
    <3> QED
      BY <1>3, <2>1, <3>3, <3>4 DEF Stops
  <2>3. CASE k # e.key
    <3>1. Slot(k, n, size) # x
      BY <1>3, <2>3 DEF Holds
    <3>2. Holds(b, Slot(k, n, size), k)
      BY <1>3, <2>1, <3>1 DEF Holds
    <3>3. m \notin Stops(b, size, k)
      BY <3>2 DEF Reachable
    <3> QED
      BY <1>3, <2>1, <2>3, <3>3 DEF Stops
  <2> QED
    BY <2>2, <2>3
<1> QED
  BY <1>2, <1>4 DEF c, x

-----------------------------------------------------------------------------
(* Counting entries.                                                       *)

LEMMA TableFinite ==
    ASSUME NEW size \in Nat, NEW b, IsTable(b, size), NEW S \in SUBSET (0 .. size - 1)
    PROVE  /\ DOMAIN b = 0 .. size - 1
           /\ IsFiniteSet(S) /\ Cardinality(S) \in 0 .. size
           /\ IsFiniteSet(Taken(b)) /\ Cardinality(Taken(b)) \in Nat
<1>1. DOMAIN b = 0 .. size - 1
  BY DEF IsTable
<1>2. IsFiniteSet(0 .. size - 1) /\ Cardinality(0 .. size - 1) = size
  <2>1. size - 1 \in Int /\ (0 > size - 1 <=> size = 0)
    OBVIOUS
  <2> QED
    BY <2>1, FS_Interval
<1>3. \A T \in SUBSET (0 .. size - 1) : IsFiniteSet(T) /\ Cardinality(T) <= size
  BY <1>2, FS_Subset
<1>4. \A T \in SUBSET (0 .. size - 1) : Cardinality(T) \in Nat
  BY <1>3, FS_CardinalityType
<1>5. Taken(b) \subseteq 0 .. size - 1
  BY <1>1 DEF Taken
<1> QED
  BY <1>1, <1>3, <1>4, <1>5

(* A table with fewer entries than places has an empty entry on the probe  *)
(* sequence of every key.                                                  *)
LEMMA EmptyOnEveryProbe ==
    ASSUME NEW size \in Nat \ {0}, NEW b, IsTable(b, size), NEW k \in Keys,
           Cardinality(Taken(b)) < size
    PROVE  \E n \in 0 .. size - 1 : b[Slot(k, n, size)].state = "Empty"
<1>1. DOMAIN b = 0 .. size - 1
  BY DEF IsTable
<1>2. Cardinality(0 .. size - 1) = size
  BY FS_Interval
<1>3. Taken(b) # 0 .. size - 1
  BY <1>2
<1>4. PICK p \in 0 .. size - 1 : b[p].state = "Empty"
  BY <1>1, <1>3 DEF Taken
<1> QED
  BY <1>4, SlotOnto

(* Writing to one place takes at most one more.                            *)
LEMMA TakenGrows ==
    ASSUME NEW size \in Nat, NEW b, IsTable(b, size),
           NEW x \in 0 .. size - 1, NEW e
    PROVE  LET c == [b EXCEPT ![x] = e]
           IN  Cardinality(Taken(c)) <= Cardinality(Taken(b)) + 1
<1> DEFINE c == [b EXCEPT ![x] = e]
<1>1. Taken(c) \subseteq Taken(b) \cup {x}
  BY DEF Taken
<1>2. IsFiniteSet(Taken(b)) /\ Cardinality(Taken(b)) \in Nat
  BY TableFinite
<1>3. /\ IsFiniteSet(Taken(b) \cup {x})
      /\ Cardinality(Taken(b) \cup {x}) <= Cardinality(Taken(b)) + 1
      /\ Cardinality(Taken(b) \cup {x}) \in Nat
  BY <1>2, FS_AddElement
<1>4. /\ Cardinality(Taken(c)) <= Cardinality(Taken(b) \cup {x})
      /\ Cardinality(Taken(c)) \in Nat
  BY <1>1, <1>3, FS_Subset, FS_CardinalityType
<1> QED
  BY <1>2, <1>3, <1>4

-----------------------------------------------------------------------------
(* The invariant.                                                          *)

(* `used` counts at least the entries that are not empty.                  *)
Counted == Cardinality(Taken(buckets)) <= used

TableReachable == Reachable(buckets, capacity)

(* The entries a rehash has got through.                                   *)
Seen == {j \in 0 .. i - 1 : buckets[j].state = "Occupied"}

(* The new buckets hold just the occupied entries got through so far, and  *)
(* there is room for all.                                                  *)
Moving ==
    /\ nkeys < cap
    /\ i \in 0 .. capacity
    /\ Reachable(new_bucks, cap)
    /\ \A n \in 0 .. cap - 1 :
           new_bucks[n].state # "Empty" => \E j \in Seen : new_bucks[n] = buckets[j]
    /\ \A j \in Seen : \E n \in 0 .. cap - 1 : new_bucks[n] = buckets[j]
    /\ Cardinality(Taken(new_bucks)) <= Cardinality(Seen)

Rehashing ==
    /\ pc = "resize" => cap > 0
    /\ pc = "allocate" => nkeys < cap
    /\ pc = "move" => Moving
    /\ pc = "insert" => used < capacity

IndInv == TypeOK /\ TableReachable /\ Counted /\ Rehashing

-----------------------------------------------------------------------------

LEMMA NkeysType ==
    ASSUME TypeOK
    PROVE  nkeys \in Nat
<1>1. In("Occupied", buckets) \subseteq 0 .. capacity - 1
  BY DEF TypeOK, IsTable, In
<1> QED
  BY <1>1, TableFinite DEF TypeOK, nkeys

LEMMA InitInv == Init => IndInv
<1> SUFFICES ASSUME Init
             PROVE  IndInv
  OBVIOUS
<1>1. capacity \in Nat /\ IsTable(buckets, capacity)
  <2>1. CASE NoBuckets
    BY <2>1 DEF NoBuckets, IsTable
  <2>2. CASE FixedBuckets
    BY <2>2, HashMapAssumption DEF FixedBuckets, IsTable, EmptyEntry, Entry
  <2> QED
    BY <2>1, <2>2 DEF Init
<1>2. \A n \in 0 .. capacity - 1 : buckets[n].state = "Empty"
  <2>1. CASE NoBuckets
    BY <2>1 DEF NoBuckets
  <2>2. CASE FixedBuckets
    BY <2>2 DEF FixedBuckets, EmptyEntry
  <2> QED
    BY <2>1, <2>2 DEF Init
<1>3. TypeOK
  BY <1>1 DEF Init, TypeOK, NoArg
<1>4. TableReachable
  <2> SUFFICES ASSUME NEW k \in Keys, NEW n \in 0 .. capacity - 1
               PROVE  ~Holds(buckets, Slot(k, n, capacity), k)
    BY DEF TableReachable, Reachable
  <2>1. Slot(k, n, capacity) \in 0 .. capacity - 1
    BY <1>1, SlotType
  <2> QED
    BY <1>2, <2>1 DEF Holds
<1>5. Counted
  <2>1. Taken(buckets) = {}
    BY <1>1, <1>2 DEF Taken, IsTable
  <2> QED
    BY <2>1, FS_EmptySet DEF Counted, Init
<1> QED
  BY <1>3, <1>4, <1>5 DEF IndInv, Rehashing, Init

LEMMA PutStep ==
    ASSUME IndInv, NEW k \in Keys, NEW v \in Vals, put(k, v)
    PROVE  IndInv'
<1> USE DEF put
<1>1. TypeOK' /\ TableReachable' /\ Counted'
  <2>1. cap' \in Nat
    BY HashMapAssumption DEF IndInv, TypeOK
  <2> QED
    BY <2>1 DEF IndInv, TypeOK, TableReachable, Counted
<1>2. CASE NeedsRehash
  <2>1. cap' > 0 /\ pc' = "resize"
    BY <1>2, HashMapAssumption DEF IndInv, TypeOK
  <2> QED
    BY <1>1, <2>1 DEF IndInv, Rehashing
<1>3. CASE ~NeedsRehash
  <2>1. used \in Nat /\ capacity \in Nat \ {0}
    BY <1>3 DEF IndInv, TypeOK, NeedsRehash
  <2>2. (used * 100) \div capacity \in Nat
    <3>1. used * 100 \in Nat
      BY <2>1
    <3> QED
      BY <2>1, <3>1, DivMod
  <2>3. (used * 100) \div capacity < HIGH_WATERMARK
    BY <1>3, <2>1, <2>2, HashMapAssumption DEF NeedsRehash
  <2>4. used < capacity
    BY <2>1, <2>3, UsageBelow, HashMapAssumption
  <2> QED
    BY <1>1, <1>3, <2>4 DEF IndInv, Rehashing
<1> QED
  BY <1>2, <1>3

LEMMA PutExitsStep ==
    ASSUME IndInv, NEW k \in Keys, NEW v \in Vals, PutExits(k, v)
    PROVE  IndInv'
  BY DEF PutExits, IndInv, TypeOK, TableReachable, Counted, Rehashing

(* A tombstone stops no probe that the entry did not.                      *)
LEMMA RemoveStep ==
    ASSUME IndInv, NEW k \in Keys, remove(k)
    PROVE  IndInv'
<1> DEFINE p == get_entry(k)
<1>1. p \in 0 .. capacity - 1 /\ Holds(buckets, p, k)
  BY LookupIsGetEntry, LookupFinds DEF remove, IndInv, TypeOK, TableReachable
<1> HIDE DEF p
<1>2. /\ buckets' = [buckets EXCEPT ![p].state = "Tombstone"]
      /\ UNCHANGED <<capacity, used, new_bucks, cap, i, arg, pc>> /\ pc = "idle"
  BY DEF remove, p
<1>3. IsTable(buckets, capacity) /\ capacity \in Nat
  BY DEF IndInv, TypeOK
<1>4. IsTable(buckets', capacity')
  <2> DEFINE e == [buckets[p] EXCEPT !.state = "Tombstone"]
  <2>1. buckets[p] \in Entry /\ buckets[p].key \in Keys
    BY <1>1, <1>3 DEF IsTable, Holds
  <2>2. e \in Entry
    BY <2>1 DEF Entry
  <2>3. e.key \in Keys
    BY <2>1 DEF Entry
  <2>4. buckets' = [buckets EXCEPT ![p] = e]
    BY <1>2
  <2> HIDE DEF e
  <2> QED
    BY <1>1, <1>2, <1>3, <2>2, <2>3, <2>4 DEF IsTable
<1>5. /\ \A q \in 0 .. capacity - 1 : q # p => buckets'[q] = buckets[q]
      /\ buckets'[p].state = "Tombstone"
  BY <1>1, <1>2, <1>3 DEF IsTable, Entry
<1>6. TableReachable'
  <2> SUFFICES ASSUME NEW l \in Keys, NEW n \in 0 .. capacity - 1,
                      Holds(buckets', Slot(l, n, capacity), l),
                      NEW m \in 0 .. n - 1
               PROVE  m \notin Stops(buckets', capacity, l)
    BY <1>2 DEF TableReachable, Reachable
  <2>1. Slot(l, n, capacity) \in 0 .. capacity - 1 /\ Slot(l, m, capacity) \in 0 .. capacity - 1
    BY <1>3, SlotType
  <2>2. Holds(buckets, Slot(l, n, capacity), l)
    BY <1>5, <2>1 DEF Holds
  <2>3. m \notin Stops(buckets, capacity, l)
    BY <2>2 DEF IndInv, TableReachable, Reachable
  <2> QED
    BY <1>5, <2>1, <2>3 DEF Stops
<1>7. Taken(buckets') = Taken(buckets)
  <2>1. DOMAIN buckets = 0 .. capacity - 1 /\ DOMAIN buckets' = 0 .. capacity - 1
    BY <1>2, <1>3, <1>4 DEF IsTable
  <2> QED
    BY <1>1, <1>5, <2>1 DEF Taken, Holds
<1> QED
  BY <1>2, <1>4, <1>6, <1>7 DEF IndInv, TypeOK, Counted, Rehashing

LEMMA CapacityStep ==
    ASSUME IndInv, DoubleCapacity \/ StartAllocation \/ BetterCapacity
    PROVE  IndInv'
<1>1. nkeys \in Nat /\ nkeys' = nkeys
  BY NkeysType DEF IndInv, nkeys, In, DoubleCapacity, StartAllocation, BetterCapacity
<1>2. Better(0) \in Nat /\ Better(i) \in Nat
  BY HashMapAssumption DEF Better, IndInv, TypeOK
<1>3. TypeOK' /\ TableReachable' /\ Counted'
  BY <1>2 DEF IndInv, TypeOK, TableReachable, Counted,
              DoubleCapacity, StartAllocation, BetterCapacity
<1>4. CASE DoubleCapacity
  BY <1>3, <1>4 DEF IndInv, TypeOK, Rehashing, DoubleCapacity
<1>5. CASE StartAllocation
  <2>1. nkeys < cap
    <3>1. cap \in Nat \ {0}
      BY <1>5 DEF IndInv, TypeOK, Rehashing, StartAllocation
    <3> QED
      BY <1>1, <1>5, <3>1, UsageBelow, HashMapAssumption DEF StartAllocation
  <2> QED
    BY <1>1, <1>3, <1>5, <2>1 DEF IndInv, Rehashing, StartAllocation
<1>6. CASE BetterCapacity
  BY <1>1, <1>3, <1>6 DEF IndInv, Rehashing, BetterCapacity
<1> QED
  BY <1>4, <1>5, <1>6

LEMMA AllocateStep ==
    ASSUME IndInv, Allocate
    PROVE  IndInv'
<1>1. nkeys \in Nat /\ nkeys' = nkeys
  BY NkeysType DEF IndInv, nkeys, In, Allocate
<1>2. nkeys < cap' /\ cap' \in Nat \ {0} /\ cap' = i
  BY <1>1 DEF IndInv, TypeOK, Rehashing, Allocate
<1>3. /\ IsTable(new_bucks', cap')
      /\ \A n \in 0 .. cap' - 1 : new_bucks'[n].state = "Empty"
  BY <1>2 DEF Allocate, IsTable, Entry, EmptyEntry
<1>4. TypeOK' /\ TableReachable' /\ Counted'
  BY <1>2, <1>3 DEF IndInv, TypeOK, TableReachable, Counted, Allocate
<1>5. Reachable(new_bucks', cap')
  <2> SUFFICES ASSUME NEW k \in Keys, NEW n \in 0 .. cap' - 1
               PROVE  ~Holds(new_bucks', Slot(k, n, cap'), k)
    BY DEF Reachable
  <2>1. Slot(k, n, cap') \in 0 .. cap' - 1
    BY <1>2, SlotType
  <2> QED
    BY <1>3, <2>1 DEF Holds
<1>6. Seen' = {} /\ Taken(new_bucks') = {}
  BY <1>3 DEF Seen, Taken, IsTable, Allocate
<1>7. i' \in 0 .. capacity'
  BY DEF IndInv, TypeOK, Allocate
<1>8. Moving'
  <2>1. Cardinality(Taken(new_bucks')) <= Cardinality(Seen')
    <3>1. Cardinality({}) <= Cardinality({})
      BY FS_EmptySet
    <3> QED
      BY <1>6, <3>1
  <2> QED
    BY <1>1, <1>2, <1>3, <1>5, <1>6, <1>7, <2>1 DEF Moving
<1> QED
  BY <1>4, <1>8 DEF IndInv, Rehashing, Allocate

(* What a rehash still has to place fits.                                  *)
LEMMA RoomToMove ==
    ASSUME IndInv, Moving
    PROVE  /\ IsFiniteSet(Seen) /\ Cardinality(Seen) \in Nat
           /\ Cardinality(Seen) <= nkeys
           /\ Cardinality(Taken(new_bucks)) < cap \/ pc # "move"
<1>1. capacity \in Nat /\ IsTable(buckets, capacity)
  BY DEF IndInv, TypeOK
<1>2. In("Occupied", buckets) \in SUBSET (0 .. capacity - 1)
  BY <1>1 DEF In, IsTable
<1>3. Seen \subseteq In("Occupied", buckets)
  BY <1>1 DEF Moving, Seen, In, IsTable
<1>4. IsFiniteSet(In("Occupied", buckets)) /\ nkeys \in Nat
  BY <1>1, <1>2, TableFinite DEF nkeys
<1>5. IsFiniteSet(Seen) /\ Cardinality(Seen) <= nkeys
  BY <1>3, <1>4, FS_Subset DEF nkeys
<1>6. Cardinality(Seen) \in Nat
  BY <1>5, FS_CardinalityType
<1>7. CASE pc = "move"
  <2>1. cap \in Nat /\ IsTable(new_bucks, cap)
    BY <1>7 DEF IndInv, TypeOK
  <2>2. Cardinality(Taken(new_bucks)) \in Nat
    BY <2>1, TableFinite
  <2> QED
    BY <1>4, <1>5, <1>6, <2>1, <2>2 DEF Moving
<1> QED
  BY <1>5, <1>6, <1>7

LEMMA SkipEntry ==
    ASSUME IndInv, MoveEntry, buckets[i].state # "Occupied"
    PROVE  IndInv'
<1>1. pc = "move" /\ i < capacity /\ i \in Nat /\ capacity \in Nat
  BY DEF MoveEntry, IndInv, TypeOK
<1>2. /\ new_bucks' = new_bucks /\ i' = i + 1
      /\ UNCHANGED <<buckets, capacity, used, cap, arg, pc>>
  BY DEF MoveEntry
<1>3. Seen' = Seen /\ nkeys' = nkeys
  BY <1>1, <1>2 DEF Seen, nkeys, In
<1>4. Moving'
  BY <1>1, <1>2, <1>3 DEF IndInv, Rehashing, Moving
<1> QED
  BY <1>1, <1>2, <1>4 DEF IndInv, TypeOK, TableReachable, Counted, Rehashing

(* An occupied entry goes to the first empty place of its probe sequence   *)
(* in the new buckets: there is one.                                       *)
LEMMA PlaceEntry ==
    ASSUME IndInv, MoveEntry, buckets[i].state = "Occupied"
    PROVE  \E x \in 0 .. cap - 1 :
               /\ new_bucks[x].state = "Empty"
               /\ new_bucks' = [new_bucks EXCEPT ![x] = buckets[i]]
               /\ IsTable(new_bucks', cap) /\ Reachable(new_bucks', cap)
<1> DEFINE old == buckets[i]
           k == old.key
           free == {n \in 0 .. cap - 1 : new_bucks[Slot(k, n, cap)].state = "Empty"}
           t == Min(free)
<1>1. /\ pc = "move" /\ i \in 0 .. capacity - 1 /\ capacity \in Nat
      /\ IsTable(buckets, capacity) /\ Reachable(buckets, capacity)
      /\ Moving /\ cap \in Nat /\ IsTable(new_bucks, cap)
  BY DEF MoveEntry, IndInv, TypeOK, TableReachable, Rehashing
<1>2. old \in Entry /\ old.state = "Occupied" /\ old.key = k /\ k \in Keys
  BY <1>1 DEF IsTable
<1>3. Cardinality(Taken(new_bucks)) < cap /\ cap \in Nat \ {0}
  BY <1>1, RoomToMove, NkeysType DEF Moving, IndInv
<1>4. free # {} /\ free \subseteq 0 .. cap - 1 /\ free \subseteq Nat
  BY <1>1, <1>2, <1>3, EmptyOnEveryProbe
<1>5. t \in free /\ \A n \in free : t <= n
  <2> HIDE DEF free
  <2> QED
    BY <1>4, MinIsLeast
<1>6. new_bucks' = [new_bucks EXCEPT ![Slot(k, t, cap)] = old]
  BY <1>4 DEF MoveEntry
<1> HIDE DEF t
<1>7. t \in 0 .. cap - 1 /\ new_bucks[Slot(k, t, cap)].state = "Empty"
  BY <1>5
<1>8. \A m \in 0 .. t - 1 : new_bucks[Slot(k, m, cap)].state # "Empty"
  <2> SUFFICES ASSUME NEW m \in 0 .. t - 1, new_bucks[Slot(k, m, cap)].state = "Empty"
               PROVE  FALSE
    OBVIOUS
  <2>1. m \in 0 .. cap - 1
    BY <1>1, <1>7
  <2>2. t <= m
    BY <1>5, <2>1
  <2> QED
    BY <1>7, <2>2
<1> HIDE DEF free
<1>9. \A p \in 0 .. cap - 1 : ~Holds(new_bucks, p, k)
  <2> SUFFICES ASSUME NEW p \in 0 .. cap - 1, Holds(new_bucks, p, k)
               PROVE  FALSE
    OBVIOUS
  <2>1. PICK j \in Seen : new_bucks[p] = buckets[j]
    BY <1>1 DEF Moving, Holds
  <2>2. j \in 0 .. capacity - 1 /\ j # i
    BY <1>1 DEF Seen
  <2>3. Holds(buckets, j, k) /\ Holds(buckets, i, k)
    BY <2>1 DEF Holds
  <2> QED
    BY <1>1, <1>2, <2>2, <2>3, OnePlace
<1>10. \A m \in 0 .. t - 1 : m \notin Stops(new_bucks, cap, k)
  <2> SUFFICES ASSUME NEW m \in 0 .. t - 1
               PROVE  m \notin Stops(new_bucks, cap, k)
    OBVIOUS
  <2>1. Slot(k, m, cap) \in 0 .. cap - 1
    BY <1>2, <1>3, SlotType
  <2> QED
    BY <1>8, <1>9, <2>1 DEF Stops, Holds
<1>11. Slot(k, t, cap) \in 0 .. cap - 1
  BY <1>2, <1>3, <1>7, SlotType
<1>12. IsTable(new_bucks', cap) /\ Reachable(new_bucks', cap)
  <2> HIDE DEF old
  <2> DEFINE c == [new_bucks EXCEPT ![Slot(old.key, t, cap)] = old]
  <2>1. IsTable(new_bucks, cap) /\ Reachable(new_bucks, cap)
    BY <1>1 DEF Moving
  <2>2. IsTable(c, cap) /\ Reachable(c, cap)
    BY <1>2, <1>3, <1>7, <1>9, <1>10, <2>1, PlacedReachable
  <2> QED
    BY <1>6, <2>2
<1> QED
  BY <1>6, <1>7, <1>11, <1>12

LEMMA MoveOccupied ==
    ASSUME IndInv, MoveEntry, buckets[i].state = "Occupied"
    PROVE  IndInv'
<1>1. /\ pc = "move" /\ i \in 0 .. capacity - 1 /\ capacity \in Nat
      /\ IsTable(buckets, capacity)
      /\ Moving /\ cap \in Nat /\ IsTable(new_bucks, cap)
  BY DEF MoveEntry, IndInv, TypeOK, Rehashing
<1>2. i' = i + 1 /\ UNCHANGED <<buckets, capacity, used, cap, arg, pc>>
  BY DEF MoveEntry
<1>3. PICK x \in 0 .. cap - 1 :
          /\ new_bucks[x].state = "Empty"
          /\ new_bucks' = [new_bucks EXCEPT ![x] = buckets[i]]
          /\ IsTable(new_bucks', cap) /\ Reachable(new_bucks', cap)
  BY PlaceEntry
<1>4. Seen' = Seen \cup {i} /\ i \notin Seen /\ nkeys' = nkeys
  BY <1>1, <1>2 DEF Seen, nkeys, In
<1>5. /\ new_bucks'[x] = buckets[i]
      /\ \A n \in 0 .. cap - 1 : n # x => new_bucks'[n] = new_bucks[n]
  BY <1>1, <1>3 DEF IsTable
<1>6. \A n \in 0 .. cap - 1 :
          new_bucks'[n].state # "Empty" => \E j \in Seen' : new_bucks'[n] = buckets[j]
  BY <1>1, <1>4, <1>5 DEF Moving
<1>7. \A j \in Seen' : \E n \in 0 .. cap - 1 : new_bucks'[n] = buckets[j]
  <2> SUFFICES ASSUME NEW j \in Seen
               PROVE  \E n \in 0 .. cap - 1 : new_bucks'[n] = buckets[j]
    BY <1>4, <1>5
  <2>1. PICK n \in 0 .. cap - 1 : new_bucks[n] = buckets[j]
    BY <1>1 DEF Moving
  <2>2. n # x
    BY <1>3, <2>1 DEF Seen
  <2> QED
    BY <1>5, <2>1, <2>2
<1>8. Cardinality(Taken(new_bucks')) <= Cardinality(Seen')
  <2>1. Cardinality(Seen') = Cardinality(Seen) + 1 /\ Cardinality(Seen) \in Nat
    BY <1>1, <1>4, RoomToMove, FS_AddElement
  <2>2. /\ Cardinality(Taken(new_bucks')) <= Cardinality(Taken(new_bucks)) + 1
        /\ Cardinality(Taken(new_bucks)) \in Nat /\ Cardinality(Taken(new_bucks')) \in Nat
    BY <1>1, <1>3, TakenGrows, TableFinite
  <2>3. Cardinality(Taken(new_bucks)) <= Cardinality(Seen)
    BY <1>1 DEF Moving
  <2> QED
    BY <2>1, <2>2, <2>3
<1>9. i' \in 0 .. capacity /\ nkeys' < cap'
  BY <1>1, <1>2, <1>4 DEF Moving
<1>10. Moving'
  BY <1>2, <1>3, <1>6, <1>7, <1>8, <1>9 DEF Moving
<1>11. TypeOK'
  BY <1>1, <1>2, <1>3, <1>9 DEF IndInv, TypeOK
<1> QED
  BY <1>1, <1>2, <1>10, <1>11 DEF IndInv, TableReachable, Counted, Rehashing

(* The entries a rehash has placed are counted anew.                       *)
LEMMA EndRehashStep ==
    ASSUME IndInv, EndRehash
    PROVE  IndInv'
<1>1. /\ pc = "move" /\ i = capacity /\ Moving
      /\ cap \in Nat /\ IsTable(new_bucks, cap)
      /\ arg \in [key : Keys, val : Vals]
  BY DEF EndRehash, IndInv, TypeOK, Rehashing
<1>2. /\ buckets' = new_bucks /\ capacity' = cap /\ used' = nkeys
      /\ new_bucks' = << >> /\ cap' = 0 /\ i' = 0 /\ pc' = "insert" /\ arg' = arg
  BY DEF EndRehash
<1>3. nkeys \in Nat
  BY NkeysType DEF IndInv
<1>4. TypeOK'
  BY <1>1, <1>2, <1>3 DEF TypeOK
<1>5. Counted'
  <2>1. /\ Cardinality(Taken(new_bucks)) <= Cardinality(Seen)
        /\ Cardinality(Seen) <= nkeys /\ Cardinality(Seen) \in Nat
        /\ Cardinality(Taken(new_bucks)) \in Nat
    BY <1>1, RoomToMove, TableFinite DEF Moving
  <2> QED
    BY <1>2, <1>3, <2>1 DEF Counted
<1> QED
  BY <1>1, <1>2, <1>4, <1>5 DEF IndInv, TableReachable, Rehashing, Moving

-----------------------------------------------------------------------------
(* The end of a put.                                                       *)

LEMMA UpdateStep ==
    ASSUME IndInv, Update
    PROVE  IndInv'
<1> DEFINE p == ArgSlot
           e == [buckets[p] EXCEPT !.val = arg.val]
<1>1. /\ capacity \in Nat \ {0} /\ IsTable(buckets, capacity)
      /\ arg \in [key : Keys, val : Vals]
  BY DEF Update, IndInv, TypeOK, ArgStops, Stops
<1>2. p \in 0 .. capacity - 1
  BY <1>1, FirstStop, SlotType DEF Update, ArgStops, ArgSlot
<1>3. buckets' = [buckets EXCEPT ![p] = e] /\ buckets[p].state = "Occupied"
  BY DEF Update
<1> HIDE DEF p
<1>4. buckets[p] \in Entry /\ buckets[p].key \in Keys
  BY <1>1, <1>2, <1>3 DEF IsTable
<1>5. e \in Entry /\ e.key = buckets[p].key /\ e.state = buckets[p].state
  BY <1>1, <1>4 DEF Entry
<1> HIDE DEF e
<1>6. /\ capacity' = capacity /\ used' = used /\ pc' = "idle" /\ arg' = NoArg
      /\ UNCHANGED <<new_bucks, cap, i>>
  BY DEF Update
<1>7. IsTable(buckets', capacity)
  BY <1>1, <1>2, <1>3, <1>4, <1>5 DEF IsTable
<1>8. \A q \in 0 .. capacity - 1 :
          buckets'[q].key = buckets[q].key /\ buckets'[q].state = buckets[q].state
  BY <1>1, <1>2, <1>3, <1>5 DEF IsTable
<1>9. TableReachable'
  <2> SUFFICES ASSUME NEW k \in Keys, NEW n \in 0 .. capacity - 1,
                      Holds(buckets', Slot(k, n, capacity), k),
                      NEW m \in 0 .. n - 1
               PROVE  m \notin Stops(buckets', capacity, k)
    BY <1>6 DEF TableReachable, Reachable
  <2>1. Slot(k, n, capacity) \in 0 .. capacity - 1 /\ Slot(k, m, capacity) \in 0 .. capacity - 1
    BY <1>1, SlotType
  <2>2. m \notin Stops(buckets, capacity, k)
    BY <1>8, <2>1 DEF IndInv, TableReachable, Reachable, Holds
  <2> QED
    BY <1>8, <2>1, <2>2 DEF Stops
<1>10. Counted'
  <2>1. DOMAIN buckets = 0 .. capacity - 1 /\ DOMAIN buckets' = 0 .. capacity - 1
    BY <1>1, <1>7 DEF IsTable
  <2>2. Taken(buckets') = Taken(buckets)
    BY <1>8, <2>1 DEF Taken
  <2> QED
    BY <1>6, <2>2 DEF IndInv, Counted
<1>11. TypeOK'
  BY <1>6, <1>7 DEF IndInv, TypeOK, Update
<1> QED
  BY <1>6, <1>9, <1>10, <1>11 DEF IndInv, Rehashing

(* A key that is inserted was nowhere in the table, and its target lies on *)
(* its probe sequence before the empty entry that ended the probe.         *)
LEMMA InsertTarget ==
    ASSUME IndInv, Insert
    PROVE  \E t \in 0 .. capacity - 1 :
               /\ Target = Slot(arg.key, t, capacity)
               /\ \A m \in 0 .. t - 1 : m \notin Stops(buckets, capacity, arg.key)
               /\ \A p \in 0 .. capacity - 1 : ~Holds(buckets, p, arg.key)
               /\ buckets[Target].state # "Occupied"
<1> DEFINE s == Min(ArgStops)
<1>1. /\ capacity \in Nat \ {0} /\ Reachable(buckets, capacity)
      /\ arg \in [key : Keys, val : Vals] /\ arg.key \in Keys
  BY DEF Insert, IndInv, TypeOK, TableReachable, ArgStops, Stops
<1>2. /\ s \in 0 .. capacity - 1 /\ s \in ArgStops
      /\ \A m \in 0 .. s - 1 : m \notin ArgStops
  BY <1>1, FirstStop DEF Insert, ArgStops
<1>3. ArgSlot = Slot(arg.key, s, capacity) /\ buckets[ArgSlot].state = "Empty"
  BY DEF ArgSlot, Insert
<1>4. \A p \in 0 .. capacity - 1 : ~Holds(buckets, p, arg.key)
  <2> SUFFICES ASSUME NEW p \in 0 .. capacity - 1, Holds(buckets, p, arg.key)
               PROVE  FALSE
    OBVIOUS
  <2>1. PICK n \in 0 .. capacity - 1 : Slot(arg.key, n, capacity) = p
    BY <1>1, SlotOnto
  <2>2. n \in ArgStops
    BY <2>1 DEF ArgStops, Stops, Holds
  <2>3. \A m \in 0 .. n - 1 : m \notin ArgStops
    BY <1>1, <2>1 DEF Reachable, ArgStops
  <2> HIDE DEF s
  <2>4. s = n
    BY <1>2, <2>2, <2>3
  <2> QED
    BY <1>3, <2>1, <2>4 DEF Holds
<1>5. CASE FirstTombstone = {}
  BY <1>2, <1>3, <1>4, <1>5 DEF Target, ArgStops
<1>6. CASE FirstTombstone # {}
  <2>1. PICK t \in FirstTombstone : Target = Slot(arg.key, t, capacity)
    BY <1>6 DEF Target
  <2>2. t \in 0 .. s /\ buckets[Slot(arg.key, t, capacity)].state = "Tombstone"
    BY <2>1 DEF FirstTombstone
  <2> HIDE DEF s
  <2>3. t \in 0 .. capacity - 1 /\ \A m \in 0 .. t - 1 : m \notin ArgStops
    BY <1>1, <1>2, <2>2
  <2> QED
    BY <1>4, <2>1, <2>2, <2>3 DEF ArgStops
<1> QED
  BY <1>5, <1>6

LEMMA InsertStep ==
    ASSUME IndInv, Insert
    PROVE  IndInv'
<1> DEFINE e == [key |-> arg.key, val |-> arg.val, state |-> "Occupied"]
<1>1. /\ capacity \in Nat \ {0} /\ IsTable(buckets, capacity)
      /\ Reachable(buckets, capacity) /\ used \in Nat
      /\ arg \in [key : Keys, val : Vals]
  BY DEF Insert, IndInv, TypeOK, TableReachable, ArgStops, Stops
<1>2. /\ buckets' = [buckets EXCEPT ![Target] = e] /\ used' = used + 1
      /\ capacity' = capacity /\ pc' = "idle" /\ arg' = NoArg
      /\ UNCHANGED <<new_bucks, cap, i>>
  BY DEF Insert
<1>3. e \in Entry /\ e.state = "Occupied" /\ e.key = arg.key /\ e.key \in Keys
  BY <1>1 DEF Entry
<1> HIDE DEF e
<1>4. PICK t \in 0 .. capacity - 1 :
          /\ Target = Slot(e.key, t, capacity)
          /\ \A m \in 0 .. t - 1 : m \notin Stops(buckets, capacity, e.key)
          /\ \A p \in 0 .. capacity - 1 : ~Holds(buckets, p, e.key)
  BY <1>3, InsertTarget
<1>5. IsTable(buckets', capacity) /\ Reachable(buckets', capacity)
  BY <1>1, <1>2, <1>3, <1>4, PlacedReachable
<1>6. Target \in 0 .. capacity - 1
  BY <1>1, <1>3, <1>4, SlotType
<1>7. Counted'
  <2>1. /\ Cardinality(Taken(buckets')) <= Cardinality(Taken(buckets)) + 1
        /\ Cardinality(Taken(buckets)) \in Nat /\ Cardinality(Taken(buckets')) \in Nat
    BY <1>1, <1>2, <1>5, <1>6, TakenGrows, TableFinite
  <2> QED
    BY <1>1, <1>2, <2>1 DEF IndInv, Counted
<1>8. TypeOK'
  BY <1>1, <1>2, <1>5 DEF IndInv, TypeOK, Insert
<1> QED
  BY <1>2, <1>5, <1>7, <1>8 DEF IndInv, TableReachable, Rehashing

-----------------------------------------------------------------------------

LEMMA StepInv ==
    ASSUME IndInv, [Next]_vars
    PROVE  IndInv'
<1>1. CASE UNCHANGED vars
  <2>1. Seen' = Seen /\ nkeys' = nkeys
    BY <1>1 DEF vars, Seen, nkeys, In
  <2> QED
    BY <1>1, <2>1 DEF vars, IndInv, TypeOK, TableReachable, Counted, Rehashing, Moving
<1>2. CASE Call
  BY <1>2, RemoveStep, PutStep, PutExitsStep DEF Call
<1>3. CASE Continue
  <2>1. CASE MoveEntry
    BY <2>1, SkipEntry, MoveOccupied
  <2> QED
    BY <1>3, <2>1, CapacityStep, AllocateStep, EndRehashStep, UpdateStep, InsertStep
    DEF Continue
<1> QED
  BY <1>1, <1>2, <1>3 DEF Next

(* The strengthening is an invariant of the table in both of its forms.    *)
THEOREM Invariant == Spec => []IndInv
<1>1. Init => IndInv
  BY InitInv
<1>2. IndInv /\ [Next]_vars => IndInv'
  BY StepInv
<1> QED
  BY <1>1, <1>2, PTL DEF Spec

(* The arrays have the capacities kept beside them, and hold entries.      *)
THEOREM TypeCorrect == Spec => []TypeOK
<1>1. IndInv => TypeOK
  BY DEF IndInv
<1> QED
  BY <1>1, Invariant, PTL

(* Every entry is the one that get finds for its key.                      *)
THEOREM EntriesAreFound == Spec => []EveryEntryFound
<1>1. IndInv => EveryEntryFound
  <2> SUFFICES ASSUME IndInv, NEW n \in In("Occupied", buckets)
               PROVE  get_entry(buckets[n].key) = n
    BY DEF EveryEntryFound
  <2>1. n \in 0 .. capacity - 1 /\ buckets[n].state = "Occupied" /\ buckets[n].key \in Keys
    BY DEF IndInv, TypeOK, IsTable, In
  <2> QED
    BY <2>1, LookupFinds, LookupIsGetEntry DEF IndInv, TypeOK, TableReachable, Holds
<1> QED
  BY <1>1, Invariant, PTL

(* "HashMap is full" is never printed.                                     *)
THEOREM NeverRunsFull == Spec => []NeverFull
<1>1. IndInv => NeverFull
  <2> SUFFICES ASSUME IndInv, pc = "insert"
               PROVE  ArgStops # {}
    BY DEF NeverFull, Full
  <2>1. /\ capacity \in Nat \ {0} /\ IsTable(buckets, capacity) /\ arg.key \in Keys
        /\ used \in Nat /\ used < capacity
    BY DEF IndInv, TypeOK, Rehashing
  <2>2. Cardinality(Taken(buckets)) < capacity
    <3>1. Cardinality(Taken(buckets)) \in Nat
      BY <2>1, TableFinite
    <3> QED
      BY <2>1, <3>1 DEF IndInv, Counted
  <2> QED
    BY <2>1, <2>2, EmptyOnEveryProbe DEF ArgStops, Stops
<1> QED
  BY <1>1, Invariant, PTL

-----------------------------------------------------------------------------
(* The table is a map.                                                     *)

InTable(b, size) == {k \in Keys : Lookup(b, size, k) # NoSlot}

ContentsIn(b, size) == [k \in InTable(b, size) |-> b[Lookup(b, size, k)].val]

LEMMA ContentsOfBuckets ==
    /\ Contents = ContentsIn(buckets, capacity)
    /\ Contents' = ContentsIn(buckets', capacity')
  BY LookupIsGetEntry DEF Contents, Found, ContentsIn, InTable

(* Contents are told by the occupied entries, wherever they are.           *)
LEMMA ContentsAre ==
    ASSUME NEW size \in Nat, NEW b, Reachable(b, size),
           NEW S \in SUBSET Keys, NEW f \in [S -> Vals \cup {NoVal}],
           \A k \in S : \E p \in 0 .. size - 1 : Holds(b, p, k) /\ b[p].val = f[k],
           \A k \in Keys : (\E p \in 0 .. size - 1 : Holds(b, p, k)) => k \in S
    PROVE  ContentsIn(b, size) = f
<1>1. ASSUME NEW k \in S
      PROVE  k \in InTable(b, size) /\ b[Lookup(b, size, k)].val = f[k]
  <2>1. PICK p \in 0 .. size - 1 : Holds(b, p, k) /\ b[p].val = f[k]
    OBVIOUS
  <2>2. Lookup(b, size, k) = p
    BY <2>1, LookupFinds
  <2> QED
    BY <2>1, <2>2 DEF InTable, NoSlot
<1>2. ASSUME NEW k \in InTable(b, size)
      PROVE  k \in S
  <2>1. k \in Keys /\ Lookup(b, size, k) # NoSlot
    BY DEF InTable
  <2> QED
    BY <2>1, LookupFinds
<1>3. InTable(b, size) = S
  BY <1>1, <1>2
<1> QED
  BY <1>1, <1>3 DEF ContentsIn

(* What the contents of the buckets are, and of which type.                *)
LEMMA ContentsType ==
    ASSUME IndInv
    PROVE  /\ DOMAIN Contents \in SUBSET Keys
           /\ Contents \in [DOMAIN Contents -> Vals \cup {NoVal}]
           /\ \A k \in DOMAIN Contents :
                  \E p \in 0 .. capacity - 1 :
                      Holds(buckets, p, k) /\ buckets[p].val = Contents[k]
           /\ \A k \in Keys : \A p \in 0 .. capacity - 1 :
                  Holds(buckets, p, k) =>
                      k \in DOMAIN Contents /\ buckets[p].val = Contents[k]
<1>1. capacity \in Nat /\ IsTable(buckets, capacity) /\ Reachable(buckets, capacity)
  BY DEF IndInv, TypeOK, TableReachable
<1>2. /\ DOMAIN Contents = InTable(buckets, capacity)
      /\ \A k \in DOMAIN Contents : Contents[k] = buckets[Lookup(buckets, capacity, k)].val
      /\ Contents = [k \in DOMAIN Contents |-> Contents[k]]
  BY ContentsOfBuckets DEF ContentsIn
<1>3. ASSUME NEW k \in DOMAIN Contents
      PROVE  /\ Lookup(buckets, capacity, k) \in 0 .. capacity - 1
             /\ Holds(buckets, Lookup(buckets, capacity, k), k)
             /\ Contents[k] \in Vals \cup {NoVal}
  <2>1. k \in Keys /\ Lookup(buckets, capacity, k) # NoSlot
    BY <1>2 DEF InTable
  <2>2. /\ Lookup(buckets, capacity, k) \in 0 .. capacity - 1
        /\ Holds(buckets, Lookup(buckets, capacity, k), k)
    BY <1>1, <2>1, LookupFinds
  <2>3. buckets[Lookup(buckets, capacity, k)] \in Entry
    BY <1>1, <2>2 DEF IsTable
  <2> QED
    BY <1>2, <2>2, <2>3 DEF Entry
<1>4. ASSUME NEW k \in Keys, NEW p \in 0 .. capacity - 1, Holds(buckets, p, k)
      PROVE  k \in DOMAIN Contents /\ buckets[p].val = Contents[k]
  <2>1. Lookup(buckets, capacity, k) = p
    BY <1>1, <1>4, LookupFinds
  <2>2. k \in DOMAIN Contents
    BY <1>2, <2>1 DEF InTable, NoSlot
  <2> QED
    BY <1>2, <2>1, <2>2
<1>5. DOMAIN Contents \in SUBSET Keys
  BY <1>2 DEF InTable
<1>6. Contents \in [DOMAIN Contents -> Vals \cup {NoVal}]
  BY <1>2, <1>3
<1> QED
  BY <1>2, <1>3, <1>4, <1>5, <1>6

LEMMA InitIsEmpty == Init => Map!Init
<1> SUFFICES ASSUME Init
             PROVE  Map!Init
  OBVIOUS
<1>1. \A k \in Keys : get_entry(k) = NoSlot
  <2> SUFFICES ASSUME NEW k \in Keys, get_entry(k) # NoSlot
               PROVE  FALSE
    OBVIOUS
  <2>1. capacity \in Nat /\ Reachable(buckets, capacity)
    BY InitInv DEF IndInv, TypeOK, TableReachable
  <2>2. get_entry(k) \in 0 .. capacity - 1 /\ Holds(buckets, get_entry(k), k)
    BY <2>1, LookupIsGetEntry, LookupFinds
  <2>3. CASE NoBuckets
    BY <2>2, <2>3 DEF NoBuckets
  <2>4. CASE FixedBuckets
    BY <2>2, <2>4 DEF FixedBuckets, EmptyEntry, Holds
  <2> QED
    BY <2>3, <2>4 DEF Init
<1>2. Found = {}
  BY <1>1 DEF Found
<1>3. Contents = << >>
  BY <1>2 DEF Contents
<1> QED
  BY <1>3 DEF Map!Init, Map!NoArg, Init, NoArg

LEMMA PutIsCalled ==
    ASSUME IndInv, NEW k \in Keys, NEW v \in Vals, put(k, v) \/ PutExits(k, v)
    PROVE  Map!CallPut(k, v)
<1>1. buckets' = buckets /\ capacity' = capacity
  BY DEF put, PutExits
<1>2. Contents' = Contents
  BY <1>1, ContentsOfBuckets
<1> QED
  BY <1>2 DEF Map!CallPut, Map!NoArg, NoArg, put, PutExits, IndInv, TypeOK

LEMMA RemoveRemoves ==
    ASSUME IndInv, NEW k \in Keys, remove(k)
    PROVE  Map!Remove(k)
<1> DEFINE p == get_entry(k)
           S == DOMAIN Contents \ {k}
           f == [x \in S |-> Contents[x]]
<1>1. p \in 0 .. capacity - 1 /\ Holds(buckets, p, k)
  BY LookupIsGetEntry, LookupFinds DEF remove, IndInv, TypeOK, TableReachable
<1> HIDE DEF p
<1>2. /\ buckets' = [buckets EXCEPT ![p].state = "Tombstone"]
      /\ capacity' = capacity /\ arg' = arg /\ pc = "idle"
  BY DEF remove, p
<1>3. IsTable(buckets, capacity) /\ capacity \in Nat
  BY DEF IndInv, TypeOK
<1>4. /\ \A q \in 0 .. capacity - 1 : q # p => buckets'[q] = buckets[q]
      /\ buckets'[p].state = "Tombstone"
  BY <1>1, <1>2, <1>3 DEF IsTable, Entry
<1>5. IndInv'
  BY RemoveStep
<1>6. Reachable(buckets', capacity)
  BY <1>2, <1>5 DEF IndInv, TableReachable
<1>7. S \in SUBSET Keys /\ f \in [S -> Vals \cup {NoVal}]
  BY ContentsType
<1>8. ASSUME NEW x \in S
      PROVE  \E q \in 0 .. capacity - 1 : Holds(buckets', q, x) /\ buckets'[q].val = f[x]
  <2>1. PICK q \in 0 .. capacity - 1 : Holds(buckets, q, x) /\ buckets[q].val = Contents[x]
    BY ContentsType
  <2>2. q # p
    BY <1>1, <2>1 DEF Holds
  <2> QED
    BY <1>4, <2>1, <2>2 DEF Holds
<1>9. ASSUME NEW x \in Keys, NEW q \in 0 .. capacity - 1, Holds(buckets', q, x)
      PROVE  x \in S
  <2>1. Holds(buckets, q, x) /\ q # p
    BY <1>4, <1>9 DEF Holds
  <2>2. x # k
    BY <1>1, <1>3, <2>1, OnePlace DEF IndInv, TableReachable
  <2> QED
    BY <2>1, <2>2, ContentsType
<1>10. ContentsIn(buckets', capacity) = f
  <2> HIDE DEF f, S
  <2> QED
    BY <1>3, <1>6, <1>7, <1>8, <1>9, ContentsAre
<1>11. Contents' = f
  BY <1>2, <1>10, ContentsOfBuckets
<1>12. arg = NoArg
  BY <1>2 DEF IndInv, TypeOK
<1> QED
  BY <1>2, <1>11, <1>12 DEF Map!Remove, Map!NoArg, NoArg

(* The value under the key of the running put is its argument, and nothing *)
(* else has changed: both ends of a put come down to this.                 *)
LEMMA PutReturned ==
    ASSUME IndInv, IndInv', pc = "insert", arg' = NoArg, capacity' = capacity,
           NEW p \in 0 .. capacity - 1,
           Holds(buckets', p, arg.key), buckets'[p].val = arg.val,
           \A q \in 0 .. capacity - 1 : q # p => buckets'[q] = buckets[q],
           \A k \in Keys : Holds(buckets, p, k) => k = arg.key
    PROVE  Map!ReturnPut
<1> DEFINE S == DOMAIN Contents \cup {arg.key}
           f == [x \in S |-> IF x = arg.key THEN arg.val ELSE Contents[x]]
<1>1. /\ capacity \in Nat /\ Reachable(buckets', capacity)
      /\ arg \in [key : Keys, val : Vals]
  BY DEF IndInv, TypeOK, TableReachable
<1>2. S \in SUBSET Keys /\ f \in [S -> Vals \cup {NoVal}]
  BY <1>1, ContentsType
<1>3. ASSUME NEW x \in S
      PROVE  \E q \in 0 .. capacity - 1 : Holds(buckets', q, x) /\ buckets'[q].val = f[x]
  <2>1. CASE x = arg.key
    BY <2>1
  <2>2. CASE x # arg.key
    <3>1. x \in Keys /\ x \in DOMAIN Contents
      BY <1>2, <2>2
    <3>2. PICK q \in 0 .. capacity - 1 : Holds(buckets, q, x) /\ buckets[q].val = Contents[x]
      BY <3>1, ContentsType
    <3>3. q # p
      BY <2>2, <3>1, <3>2
    <3> QED
      BY <2>2, <3>2, <3>3 DEF Holds
  <2> QED
    BY <2>1, <2>2
<1>4. ASSUME NEW x \in Keys, NEW q \in 0 .. capacity - 1, Holds(buckets', q, x)
      PROVE  x \in S
  <2>1. CASE q = p
    BY <1>4, <2>1 DEF Holds
  <2>2. CASE q # p
    <3>1. Holds(buckets, q, x)
      BY <1>4, <2>2 DEF Holds
    <3> QED
      BY <3>1, ContentsType
  <2> QED
    BY <2>1, <2>2
<1>5. ContentsIn(buckets', capacity) = f
  <2> HIDE DEF f, S
  <2> QED
    BY <1>1, <1>2, <1>3, <1>4, ContentsAre
<1>6. Contents' = f
  BY <1>5, ContentsOfBuckets
<1>7. arg # NoArg
  BY <1>1, HashMapAssumption DEF NoArg
<1> QED
  BY <1>6, <1>7 DEF Map!ReturnPut, Map!NoArg, NoArg

LEMMA UpdateReturns ==
    ASSUME IndInv, Update
    PROVE  Map!ReturnPut
<1> DEFINE p == ArgSlot
           e == [buckets[p] EXCEPT !.val = arg.val]
<1>1. /\ capacity \in Nat \ {0} /\ IsTable(buckets, capacity)
      /\ arg \in [key : Keys, val : Vals] /\ IndInv'
  BY UpdateStep DEF Update, IndInv, TypeOK, ArgStops, Stops
<1>2. /\ buckets' = [buckets EXCEPT ![p] = e] /\ buckets[p].state = "Occupied"
      /\ pc = "insert" /\ arg' = NoArg /\ capacity' = capacity
  BY DEF Update
<1>3. p \in 0 .. capacity - 1 /\ Holds(buckets, p, arg.key)
  BY <1>1, <1>2, FirstStop, SlotType DEF Update, ArgStops, ArgSlot
<1> HIDE DEF p
<1>4. buckets[p] \in Entry
  BY <1>1, <1>3 DEF IsTable
<1>5. e.key = buckets[p].key /\ e.state = buckets[p].state /\ e.val = arg.val
  BY <1>1, <1>4 DEF Entry
<1> HIDE DEF e
<1>6. /\ buckets'[p] = e
      /\ \A q \in 0 .. capacity - 1 : q # p => buckets'[q] = buckets[q]
  BY <1>1, <1>2, <1>3 DEF IsTable
<1> QED
  BY <1>1, <1>2, <1>3, <1>5, <1>6, PutReturned DEF Holds

LEMMA InsertReturns ==
    ASSUME IndInv, Insert
    PROVE  Map!ReturnPut
<1>1. /\ capacity \in Nat \ {0} /\ IsTable(buckets, capacity)
      /\ arg \in [key : Keys, val : Vals] /\ IndInv'
  BY InsertStep DEF Insert, IndInv, TypeOK, ArgStops, Stops
<1>2. PICK t \in 0 .. capacity - 1 :
          Target = Slot(arg.key, t, capacity) /\ buckets[Target].state # "Occupied"
  BY InsertTarget
<1>3. Target \in 0 .. capacity - 1
  BY <1>1, <1>2, SlotType
<1>4. /\ pc = "insert" /\ arg' = NoArg /\ capacity' = capacity
      /\ buckets' = [buckets EXCEPT ![Target] =
                         [key |-> arg.key, val |-> arg.val, state |-> "Occupied"]]
  BY DEF Insert
<1>5. /\ buckets'[Target] = [key |-> arg.key, val |-> arg.val, state |-> "Occupied"]
      /\ \A q \in 0 .. capacity - 1 : q # Target => buckets'[q] = buckets[q]
  BY <1>1, <1>3, <1>4 DEF IsTable
<1> QED
  BY <1>1, <1>2, <1>3, <1>4, <1>5, PutReturned DEF Holds

(* Behind the last entry the new buckets have all that the old ones had.   *)
LEMMA RehashKeepsContents ==
    ASSUME IndInv, EndRehash
    PROVE  Contents' = Contents
<1>1. /\ pc = "move" /\ i = capacity /\ Moving
      /\ capacity \in Nat /\ cap \in Nat /\ Reachable(new_bucks, cap)
  BY DEF EndRehash, IndInv, TypeOK, Rehashing, Moving
<1>2. buckets' = new_bucks /\ capacity' = cap
  BY DEF EndRehash
<1>3. Seen = {j \in 0 .. capacity - 1 : buckets[j].state = "Occupied"}
  BY <1>1 DEF Seen
<1>4. ASSUME NEW k \in DOMAIN Contents
      PROVE  \E n \in 0 .. cap - 1 : Holds(new_bucks, n, k) /\ new_bucks[n].val = Contents[k]
  <2>1. PICK p \in 0 .. capacity - 1 : Holds(buckets, p, k) /\ buckets[p].val = Contents[k]
    BY ContentsType
  <2>2. PICK n \in 0 .. cap - 1 : new_bucks[n] = buckets[p]
    BY <1>1, <1>3, <2>1 DEF Moving, Holds
  <2> QED
    BY <2>1, <2>2 DEF Holds
<1>5. ASSUME NEW k \in Keys, NEW n \in 0 .. cap - 1, Holds(new_bucks, n, k)
      PROVE  k \in DOMAIN Contents
  <2>1. PICK j \in Seen : new_bucks[n] = buckets[j]
    BY <1>1, <1>5 DEF Moving, Holds
  <2>2. j \in 0 .. capacity - 1 /\ Holds(buckets, j, k)
    BY <1>3, <1>5, <2>1 DEF Holds
  <2> QED
    BY <2>2, ContentsType
<1>6. ContentsIn(new_bucks, cap) = Contents
  BY <1>1, <1>4, <1>5, ContentsType, ContentsAre
<1> QED
  BY <1>2, <1>6, ContentsOfBuckets

LEMMA StepIsOfMap ==
    ASSUME IndInv, [Next]_vars
    PROVE  [Map!Next]_<<Contents, arg>>
<1>1. CASE buckets' = buckets /\ capacity' = capacity /\ arg' = arg
  BY <1>1, ContentsOfBuckets
<1>2. CASE EndRehash
  BY <1>2, RehashKeepsContents DEF EndRehash
<1>3. CASE Update \/ Insert
  BY <1>3, UpdateReturns, InsertReturns DEF Map!Next
<1>4. CASE Call
  BY <1>4, PutIsCalled, RemoveRemoves DEF Call, Map!Next
<1> QED
  BY <1>1, <1>2, <1>3, <1>4
  DEF Next, Continue, vars, DoubleCapacity, StartAllocation, BetterCapacity, Allocate, MoveEntry

(* HashMap implements KeyMap.                                              *)
THEOREM TableIsAMap == Spec => IsAMap
<1>1. Init => Map!Init
  BY InitIsEmpty
<1>2. IndInv /\ [Next]_vars => [Map!Next]_<<Contents, arg>>
  BY StepIsOfMap
<1> QED
  BY <1>1, <1>2, Invariant, PTL DEF Spec, IsAMap, Map!Spec

-----------------------------------------------------------------------------
(* The stack of scopes.                                                    *)

USE SymbolStackAssumption

(* A scope is a function from some names to symbols.                       *)
LEMMA ScopeIsFunction ==
    \A f : f \in Scope <=> DOMAIN f \subseteq Names /\ f \in [DOMAIN f -> Symbols]
  BY DEF Scope

(* put keeps a map a map, changes one name and no other.                   *)
LEMMA PutInScope ==
    ASSUME NEW scope \in Scope, NEW n \in Names, NEW s \in Symbols
    PROVE  /\ Put(scope, n, s) \in Scope
           /\ DOMAIN Put(scope, n, s) = DOMAIN scope \cup {n}
           /\ Put(scope, n, s)[n] = s
           /\ \A m \in DOMAIN scope : m # n => Put(scope, n, s)[m] = scope[m]
<1>1. DOMAIN scope \subseteq Names /\ scope \in [DOMAIN scope -> Symbols]
  BY ScopeIsFunction
<1>2. DOMAIN Put(scope, n, s) = DOMAIN scope \cup {n}
  BY DEF Put
<1>3. Put(scope, n, s) \in [DOMAIN scope \cup {n} -> Symbols]
  BY <1>1 DEF Put
<1>4. Put(scope, n, s) \in Scope
  BY <1>1, <1>2, <1>3, ScopeIsFunction
<1> QED
  BY <1>2, <1>4 DEF Put

(* Scopes outside the reach of a change mean what they meant.              *)
LEMMA SameBelow ==
    ASSUME NEW d, d \in Nat,
           \A e \in 1 .. d : scopes'[e] = scopes[e]
    PROVE  \A n : lookup_at(d, n)' = lookup_at(d, n)
<1> TAKE n
<1>1. Declaring(d, n)' = Declaring(d, n)
  BY DEF Declaring
<1>2. Declaring(d, n) \subseteq 1 .. d
  BY DEF Declaring
<1> QED
  BY <1>1, <1>2 DEF lookup_at

(* A lookup finds at most symbols.                                         *)
LEMMA LookupFindsSymbols ==
    ASSUME StackTypeOK, NEW d \in 1 .. Len(scopes), NEW n
    PROVE  lookup_at(d, n) \in SUBSET Symbols
<1> SUFFICES ASSUME NEW e \in Declaring(d, n) PROVE scopes[e][n] \in Symbols
  BY DEF lookup_at
<1>1. e \in 1 .. Len(scopes) /\ n \in DOMAIN scopes[e]
  BY DEF Declaring, StackTypeOK
<1>2. scopes[e] \in Scope
  BY <1>1 DEF StackTypeOK
<1> QED
  BY <1>1, <1>2, ScopeIsFunction

(* The views are a sequence with one view for each open scope.             *)
ViewsShape ==
    /\ Views \in Seq([Names -> SUBSET Symbols])
    /\ Len(Views) = Len(scopes)
    /\ Len(scopes) \in Nat \ {0}
    /\ \A d \in 1 .. Len(scopes) : Views[d] = [n \in Names |-> lookup_at(d, n)]

LEMMA ViewsHaveShape == StackTypeOK => ViewsShape
<1> SUFFICES ASSUME StackTypeOK PROVE ViewsShape
  OBVIOUS
<1>1. Len(scopes) \in Nat \ {0}
  BY DEF StackTypeOK
<1>2. \A d \in 1 .. Len(scopes) :
          [n \in Names |-> lookup_at(d, n)] \in [Names -> SUBSET Symbols]
  BY LookupFindsSymbols
<1>3. Views \in [1 .. Len(scopes) -> [Names -> SUBSET Symbols]]
  BY <1>2 DEF Views
<1> QED
  BY <1>1, <1>3 DEF Views, ViewsShape

LEMMA ViewsHaveShapeNext == StackTypeOK' => ViewsShape'
  BY ViewsHaveShape, PTL

-----------------------------------------------------------------------------

LEMMA InitTypeOK == StackInit => StackTypeOK
<1>1. EmptyScope \in Scope
  BY ScopeIsFunction DEF EmptyScope
<1> QED
  BY <1>1 DEF StackInit, StackTypeOK

LEMMA NextTypeOK == StackTypeOK /\ [StackNext]_stackVars => StackTypeOK'
<1> SUFFICES ASSUME StackTypeOK, [StackNext]_stackVars PROVE StackTypeOK'
  OBVIOUS
<1> USE DEF StackTypeOK
<1>1. CASE enter_scope
  <2>1. EmptyScope \in Scope
    BY ScopeIsFunction DEF EmptyScope
  <2> QED
    BY <1>1, <2>1 DEF enter_scope
<1>2. CASE exit_scope
  <2>1. CASE Len(scopes) > 1
    <3>1. scopes' = SubSeq(scopes, 1, Len(scopes) - 1)
      BY <1>2, <2>1 DEF exit_scope
    <3>2. scopes' \in Seq(Scope) /\ Len(scopes') = Len(scopes) - 1
      BY <3>1, <2>1, SubSeqProperties
    <3>3. Len(scopes) \in Nat /\ Len(<<>>) = 0
      OBVIOUS
    <3>4. scopes' # <<>>
      BY <2>1, <3>2, <3>3
    <3> QED
      BY <1>2, <3>2, <3>4 DEF exit_scope
  <2>2. CASE ~(Len(scopes) > 1)
    BY <1>2, <2>2 DEF exit_scope
  <2> QED
    BY <2>1, <2>2
<1>3. ASSUME NEW n \in Names, NEW s \in Symbols, declare(n, s) PROVE StackTypeOK'
  <2>1. Len(scopes) \in 1 .. Len(scopes) /\ scopes[Len(scopes)] \in Scope
    OBVIOUS
  <2>2. Put(scopes[Len(scopes)], n, s) \in Scope
    BY <2>1, PutInScope
  <2>3. scopes' \in Seq(Scope) /\ scopes' # <<>>
    BY <1>3, <2>1, <2>2 DEF declare
  <2>4. call' \in {"declare"} \X Names \X Symbols
    BY <1>3 DEF declare
  <2> QED
    BY <2>3, <2>4
<1>4. CASE UNCHANGED stackVars
  BY <1>4 DEF stackVars
<1> QED
  BY <1>1, <1>2, <1>3, <1>4 DEF StackNext

(* The global scope stays open: declare and lookup_current_scope always    *)
(* find a last scope.                                                      *)
THEOREM ScopesTypeCorrect == StackSpec => []StackTypeOK
  BY InitTypeOK, NextTypeOK, PTL DEF StackSpec

-----------------------------------------------------------------------------

LEMMA InitImplements == StackInit => View!Init
<1> SUFFICES ASSUME StackInit PROVE View!Init
  OBVIOUS
<1>1. scopes[1] = EmptyScope /\ Len(scopes) = 1
  BY DEF StackInit
<1>2. \A n \in Names : lookup_at(1, n) = {}
  BY <1>1 DEF lookup_at, Declaring, EmptyScope
<1>3. Views = [d \in 1 .. 1 |-> [n \in Names |-> {}]]
  BY <1>1, <1>2 DEF Views
<1> QED
  BY <1>3 DEF View!Init, StackInit

(* Entering a scope: the empty map hides nothing.                          *)
LEMMA EnterImplements == StackTypeOK /\ StackTypeOK' /\ enter_scope => View!Enter
<1> SUFFICES ASSUME StackTypeOK, StackTypeOK', enter_scope PROVE View!Enter
  OBVIOUS
<1> PICK k : k = Len(scopes)
  OBVIOUS
<1>1. /\ k \in Nat \ {0} /\ Len(scopes') = k + 1
      /\ scopes'[k + 1] = EmptyScope
      /\ \A e \in 1 .. k : scopes'[e] = scopes[e]
  BY DEF enter_scope, StackTypeOK
<1>2. \A d \in 1 .. k : \A n : lookup_at(d, n)' = lookup_at(d, n)
  <2> SUFFICES ASSUME NEW d \in 1 .. k
               PROVE  \A n : lookup_at(d, n)' = lookup_at(d, n)
    OBVIOUS
  <2>1. d \in Nat /\ \A e \in 1 .. d : scopes'[e] = scopes[e]
    BY <1>1
  <2> QED
    BY <2>1, SameBelow
<1>3. \A n : lookup_at(k + 1, n)' = lookup_at(k, n)
  <2> TAKE n
  <2>1. Declaring(k + 1, n)' = Declaring(k, n)
    <3>1. 1 .. k + 1 = (1 .. k) \cup {k + 1}
      BY <1>1
    <3>2. n \notin DOMAIN scopes'[k + 1]
      BY <1>1 DEF EmptyScope
    <3> QED
      BY <1>1, <3>1, <3>2 DEF Declaring
  <2>2. Declaring(k, n) \subseteq 1 .. k
    BY DEF Declaring
  <2> QED
    BY <1>1, <2>1, <2>2 DEF lookup_at
<1>4. /\ Views \in Seq([Names -> SUBSET Symbols]) /\ Len(Views) = k
      /\ \A d \in 1 .. k : Views[d] = [n \in Names |-> lookup_at(d, n)]
  BY ViewsHaveShape DEF ViewsShape
<1>5. /\ Views' \in Seq([Names -> SUBSET Symbols]) /\ Len(Views') = k + 1
      /\ \A d \in 1 .. k + 1 : Views'[d] = [n \in Names |-> lookup_at(d, n)']
  BY <1>1, ViewsHaveShapeNext DEF ViewsShape
<1>6. Views[k] \in [Names -> SUBSET Symbols]
  BY <1>1, <1>4
<1>7. /\ Append(Views, Views[k]) \in Seq([Names -> SUBSET Symbols])
      /\ Len(Append(Views, Views[k])) = k + 1
      /\ \A d \in 1 .. k : Append(Views, Views[k])[d] = Views[d]
      /\ Append(Views, Views[k])[k + 1] = Views[k]
  BY <1>4, <1>6, AppendProperties
<1>8. \A d \in 1 .. k + 1 : Views'[d] = Append(Views, Views[k])[d]
  <2>1. \A d \in 1 .. k : Views'[d] = Views[d]
    BY <1>1, <1>2, <1>4, <1>5
  <2>2. Views'[k + 1] = Views[k]
    BY <1>1, <1>3, <1>4, <1>5
  <2> QED
    BY <1>1, <1>7, <2>1, <2>2
<1>9. Views' = Append(Views, Views[k])
  <2> HIDE <1>6
  <2> QED
    BY <1>5, <1>7, <1>8, SeqEqual
<1> QED
  BY <1>4, <1>9 DEF View!Enter, enter_scope

(* Leaving a scope that is not the global one.                             *)
LEMMA ExitImplements ==
    ASSUME StackTypeOK, StackTypeOK', exit_scope, Len(scopes) > 1
    PROVE  View!Exit
<1> PICK k : k = Len(scopes)
  OBVIOUS
<1>1. /\ k \in Nat /\ k > 1 /\ Len(scopes') = k - 1
      /\ \A e \in 1 .. k - 1 : scopes'[e] = scopes[e]
  <2>1. scopes \in Seq(Scope) /\ k \in Nat /\ k > 1
    BY DEF StackTypeOK, exit_scope
  <2>2. scopes' = SubSeq(scopes, 1, k - 1)
    BY DEF exit_scope
  <2>3. \A e \in 1 .. k - 1 : scopes[e] \in Scope
    BY <2>1
  <2> QED
    BY <2>1, <2>2, <2>3, SubSeqProperties
<1>2. \A d \in 1 .. k - 1 : \A n : lookup_at(d, n)' = lookup_at(d, n)
  <2> SUFFICES ASSUME NEW d \in 1 .. k - 1
               PROVE  \A n : lookup_at(d, n)' = lookup_at(d, n)
    OBVIOUS
  <2>1. d \in Nat /\ \A e \in 1 .. d : scopes'[e] = scopes[e]
    BY <1>1
  <2> QED
    BY <2>1, SameBelow
<1>3. /\ Views \in Seq([Names -> SUBSET Symbols]) /\ Len(Views) = k
      /\ \A d \in 1 .. k : Views[d] = [n \in Names |-> lookup_at(d, n)]
  BY ViewsHaveShape DEF ViewsShape
<1>4. /\ Views' \in Seq([Names -> SUBSET Symbols]) /\ Len(Views') = k - 1
      /\ \A d \in 1 .. k - 1 : Views'[d] = [n \in Names |-> lookup_at(d, n)']
  BY <1>1, ViewsHaveShapeNext DEF ViewsShape
<1>5. \A d \in 1 .. k - 1 : Views[d] \in [Names -> SUBSET Symbols]
  BY <1>1, <1>3
<1>6. /\ SubSeq(Views, 1, k - 1) \in Seq([Names -> SUBSET Symbols])
      /\ Len(SubSeq(Views, 1, k - 1)) = k - 1
      /\ \A d \in 1 .. k - 1 : SubSeq(Views, 1, k - 1)[d] = Views[d]
  BY <1>1, <1>5, SubSeqProperties
<1>7. \A d \in 1 .. k - 1 : Views'[d] = SubSeq(Views, 1, k - 1)[d]
  <2> SUFFICES ASSUME NEW d \in 1 .. k - 1
               PROVE  Views'[d] = SubSeq(Views, 1, k - 1)[d]
    OBVIOUS
  <2>1. d \in 1 .. k
    BY <1>1
  <2>2. \A n \in Names : lookup_at(d, n)' = lookup_at(d, n)
    BY <1>2
  <2>3. Views'[d] = [n \in Names |-> lookup_at(d, n)']
    BY <1>4
  <2>4. Views[d] = [n \in Names |-> lookup_at(d, n)]
    BY <1>3, <2>1
  <2>5. Views'[d] = Views[d]
    BY <2>2, <2>3, <2>4
  <2> QED
    BY <1>6, <2>5
<1>8. Views' = SubSeq(Views, 1, k - 1)
  BY <1>4, <1>6, <1>7, SeqEqual
<1> QED
  BY <1>1, <1>3, <1>8 DEF View!Exit, exit_scope

(* Leaving the global scope: nothing happens.                              *)
LEMMA ExitGlobalImplements ==
    ASSUME StackTypeOK, exit_scope, ~(Len(scopes) > 1)
    PROVE  View!Exit
<1>1. scopes' = scopes /\ call' = <<"exit_scope">>
  BY DEF exit_scope
<1>2. Views' = Views
  BY <1>1 DEF Views, lookup_at, Declaring
<1>3. Len(Views) = Len(scopes)
  BY ViewsHaveShape DEF ViewsShape
<1> QED
  BY <1>1, <1>2, <1>3 DEF View!Exit

(* What a declaration does to the lookups from the innermost scope.        *)
LEMMA DeclareChangesOneName ==
    ASSUME StackTypeOK, NEW k, k = Len(scopes),
           NEW n \in Names, NEW s \in Symbols, declare(n, s)
    PROVE  /\ lookup_at(k, n)' = {s}
           /\ \A m : m # n => lookup_at(k, m)' = lookup_at(k, m)
<1>1. k \in Nat \ {0} /\ scopes[k] \in Scope
  BY DEF StackTypeOK
<1>2. /\ scopes'[k] = Put(scopes[k], n, s)
      /\ \A e \in 1 .. k - 1 : scopes'[e] = scopes[e]
  BY <1>1 DEF declare, StackTypeOK
<1>3. /\ DOMAIN scopes'[k] = DOMAIN scopes[k] \cup {n}
      /\ scopes'[k][n] = s
      /\ \A m \in DOMAIN scopes[k] : m # n => scopes'[k][m] = scopes[k][m]
  <2>1. /\ DOMAIN Put(scopes[k], n, s) = DOMAIN scopes[k] \cup {n}
        /\ Put(scopes[k], n, s)[n] = s
        /\ \A m \in DOMAIN scopes[k] : m # n => Put(scopes[k], n, s)[m] = scopes[k][m]
    <3>1. PICK scope \in Scope : scope = scopes[k]
      BY <1>1
    <3>2. /\ DOMAIN Put(scope, n, s) = DOMAIN scope \cup {n}
          /\ Put(scope, n, s)[n] = s
          /\ \A m \in DOMAIN scope : m # n => Put(scope, n, s)[m] = scope[m]
      BY PutInScope, Zenon
    <3> QED
      BY <3>1, <3>2
  <2> QED
    BY <1>2, <2>1
<1>4. lookup_at(k, n)' = {s}
  <2>1. k \in Declaring(k, n)'
    BY <1>1, <1>3 DEF Declaring
  <2>2. \A f \in Declaring(k, n)' : f \in 1 .. k
    BY DEF Declaring
  <2>3. {f \in Declaring(k, n)' : \A g \in Declaring(k, n)' : g <= f} = {k}
    BY <1>1, <2>1, <2>2
  <2> QED
    BY <1>3, <2>3 DEF lookup_at
<1>5. ASSUME NEW m, m # n PROVE lookup_at(k, m)' = lookup_at(k, m)
  <2>1. \A e \in 1 .. k : m \in DOMAIN scopes'[e] <=> m \in DOMAIN scopes[e]
    BY <1>1, <1>2, <1>3, <1>5
  <2>2. Declaring(k, m)' = Declaring(k, m)
    BY <2>1 DEF Declaring
  <2>3. \A e \in Declaring(k, m) : scopes'[e][m] = scopes[e][m]
    <3> SUFFICES ASSUME NEW e \in Declaring(k, m)
                 PROVE  scopes'[e][m] = scopes[e][m]
      OBVIOUS
    <3>1. e \in 1 .. k /\ m \in DOMAIN scopes[e]
      BY DEF Declaring
    <3>2. CASE e = k
      BY <1>3, <1>5, <3>1, <3>2
    <3>3. CASE e # k
      BY <1>1, <1>2, <3>1, <3>3
    <3> QED
      BY <3>2, <3>3
  <2> QED
    BY <2>2, <2>3 DEF lookup_at
<1> QED
  BY <1>4, <1>5

LEMMA DeclareImplements ==
    ASSUME StackTypeOK, StackTypeOK', NEW n \in Names, NEW s \in Symbols, declare(n, s)
    PROVE  View!Declare(n, s)
<1> PICK k : k = Len(scopes)
  OBVIOUS
<1>1. /\ k \in Nat \ {0} /\ Len(scopes') = k
      /\ \A e \in 1 .. k - 1 : scopes'[e] = scopes[e]
  BY DEF declare, StackTypeOK
<1>2. \A d \in 1 .. k - 1 : \A m : lookup_at(d, m)' = lookup_at(d, m)
  <2> SUFFICES ASSUME NEW d \in 1 .. k - 1
               PROVE  \A m : lookup_at(d, m)' = lookup_at(d, m)
    OBVIOUS
  <2>1. d \in Nat /\ \A e \in 1 .. d : scopes'[e] = scopes[e]
    BY <1>1
  <2> QED
    BY <2>1, SameBelow
<1>3. /\ Views \in Seq([Names -> SUBSET Symbols]) /\ Len(Views) = k
      /\ \A d \in 1 .. k : Views[d] = [m \in Names |-> lookup_at(d, m)]
  BY ViewsHaveShape DEF ViewsShape
<1>4. /\ Views' \in Seq([Names -> SUBSET Symbols]) /\ Len(Views') = k
      /\ \A d \in 1 .. k : Views'[d] = [m \in Names |-> lookup_at(d, m)']
  BY <1>1, ViewsHaveShapeNext DEF ViewsShape
<1> DEFINE view == [Views[k] EXCEPT ![n] = {s}]
           next == [Views EXCEPT ![k] = view]
<1>5. Views'[k] = view
  <2>1. Views[k] = [m \in Names |-> lookup_at(k, m)]
    BY <1>1, <1>3
  <2>2. Views'[k] = [m \in Names |-> lookup_at(k, m)']
    BY <1>1, <1>4
  <2>3. lookup_at(k, n)' = {s} /\ \A m : m # n => lookup_at(k, m)' = lookup_at(k, m)
    BY DeclareChangesOneName
  <2>4. \A m \in Names : lookup_at(k, m)' = IF m = n THEN {s} ELSE lookup_at(k, m)
    BY <2>3
  <2>5. view = [m \in Names |-> IF m = n THEN {s} ELSE lookup_at(k, m)]
    BY <2>1
  <2>6. Views'[k] = [m \in Names |-> IF m = n THEN {s} ELSE lookup_at(k, m)]
    BY <2>2, <2>4
  <2> QED
    BY <2>5, <2>6
<1>6. view \in [Names -> SUBSET Symbols]
  BY <1>1, <1>3
<1> HIDE DEF view
<1>7. /\ next \in Seq([Names -> SUBSET Symbols]) /\ Len(next) = k
      /\ \A d \in 1 .. k : next[d] = IF d = k THEN view ELSE Views[d]
  BY <1>1, <1>3, <1>6, ExceptSeq
<1>8. \A d \in 1 .. k : Views'[d] = next[d]
  <2> SUFFICES ASSUME NEW d \in 1 .. k PROVE Views'[d] = next[d]
    OBVIOUS
  <2>1. CASE d = k
    BY <1>5, <1>7, <2>1
  <2>2. CASE d # k
    <3>1. d \in 1 .. k - 1
      BY <1>1, <2>2
    <3>2. \A m \in Names : lookup_at(d, m)' = lookup_at(d, m)
      BY <1>2, <3>1
    <3>3. Views'[d] = [m \in Names |-> lookup_at(d, m)']
      BY <1>4
    <3>4. Views[d] = [m \in Names |-> lookup_at(d, m)]
      BY <1>3
    <3>5. Views'[d] = Views[d]
      BY <3>2, <3>3, <3>4
    <3> QED
      BY <1>7, <2>2, <3>5
  <2> QED
    BY <2>1, <2>2
<1> HIDE DEF next
<1>9. Views' = next
  BY <1>4, <1>7, <1>8, SeqEqual
<1> QED
  BY <1>3, <1>9 DEF View!Declare, view, next, declare

LEMMA NextImplements == StackTypeOK /\ StackTypeOK' /\ [StackNext]_stackVars => [View!Next]_<<Views, call>>
<1> SUFFICES ASSUME StackTypeOK, StackTypeOK', [StackNext]_stackVars PROVE [View!Next]_<<Views, call>>
  OBVIOUS
<1>1. CASE enter_scope
  BY <1>1, EnterImplements DEF View!Next
<1>2. CASE exit_scope
  BY <1>2, ExitImplements, ExitGlobalImplements DEF View!Next
<1>3. ASSUME NEW n \in Names, NEW s \in Symbols, declare(n, s) PROVE View!Next
  BY <1>3, DeclareImplements DEF View!Next
<1>4. CASE UNCHANGED stackVars
  BY <1>4 DEF stackVars, Views, lookup_at, Declaring
<1> QED
  BY <1>1, <1>2, <1>3, <1>4 DEF StackNext

(* Every run of enter_scope, exit_scope and declare is scoped: see         *)
(* IsScoped.                                                               *)
THEOREM ScopesNest == StackSpec => IsScoped
<1>1. StackInit => View!Init
  BY InitImplements
<1>2. StackTypeOK /\ StackTypeOK' /\ [StackNext]_stackVars => [View!Next]_<<Views, call>>
  BY NextImplements
<1> QED
  BY <1>1, <1>2, ScopesTypeCorrect, PTL DEF StackSpec, IsScoped, View!Spec
=============================================================================
