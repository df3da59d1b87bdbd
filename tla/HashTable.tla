------------------------------- MODULE HashTable -------------------------------
(***************************************************************************)
(* src/hashtable.c: buckets of chained nodes.  The table doubles when it   *)
(* holds as many entries as it has buckets, and falls back to its least    *)
(* size when the last entry is erased; both move every node to the bucket  *)
(* its hash has under the new capacity.  Any allocation may fail.          *)
(*                                                                         *)
(* A chain is the set of its nodes <<key, value>>.                         *)
(***************************************************************************)
EXTENDS Integers, FiniteSets

CONSTANTS
  Keys, Values,
  Hash,                  \* the hash function, before it is reduced
  HT_MINIMUM_CAPACITY,
  InitialCapacity,       \* what ht_setup is asked for
  ReserveSizes,          \* what ht_reserve is asked for, in entries
  MaxFailures            \* bound: allocations that fail

HT_LOAD_FACTOR   == 5
HT_GROWTH_FACTOR == 2

ASSUME HashAssumption ==
  /\ IsFiniteSet(Keys) /\ IsFiniteSet(Values) /\ Hash \in [Keys -> Nat]
  /\ HT_MINIMUM_CAPACITY \in Nat \ {0}
  /\ InitialCapacity \in Nat /\ ReserveSizes \subseteq Nat /\ MaxFailures \in Nat

VARIABLES
  nodes,      \* bucket -> chain, or NULL
  capacity,   \* number of buckets
  size,       \* number of entries, as the table counts them
  last,       \* the last call: what it was, with its arguments, and what it returned
  failures    \* allocations that have failed

vars == <<nodes, capacity, size, last, failures>>

Nodes == Keys \X Values
NULL == [c \in {} |-> {}]
Index(k, cap) == Hash[k] % cap
In(table) == UNION {table[c] : c \in DOMAIN table}
All == In(nodes)

Holds(chain, k) == \E n \in chain : n[1] = k
Without(chain, S) == {n \in chain : n[1] \notin S}

\* Mutant of Rehash: nodes keep their bucket.
RehashInPlace(kept, cap) == [c \in 0 .. cap - 1 |-> IF c < capacity THEN kept[c] ELSE {}]

\* _ht_rehash of what is left of the table into cap new buckets.
Rehash(kept, cap) == [c \in 0 .. cap - 1 |-> {n \in In(kept) : Index(n[1], cap) = c}]

\* _ht_resize changes nothing when both sizes are below the least one.
Resizes(wanted) == wanted >= HT_MINIMUM_CAPACITY \/ capacity > HT_MINIMUM_CAPACITY
AtLeast(cap) == IF cap < HT_MINIMUM_CAPACITY THEN HT_MINIMUM_CAPACITY ELSE cap

\* Lays kept out anew if cond calls for a resize to the wanted capacity.
Lay(kept, cond, wanted) ==
  IF cond /\ Resizes(wanted) THEN Rehash(kept, AtLeast(wanted)) ELSE kept
CapacityAfter(cond, wanted) == IF cond /\ Resizes(wanted) THEN AtLeast(wanted) ELSE capacity

ShouldGrow == size = capacity
\* HT_SHRINK_THRESHOLD is (1 / 4), which is 0 in C.
ShouldShrink(left) == left = 0

Init ==
  /\ nodes = [c \in 0 .. AtLeast(InitialCapacity) - 1 |-> {}]
  /\ capacity = AtLeast(InitialCapacity)
  /\ size = 0 /\ last = <<<<"setup">>, "success">> /\ failures = 0

-----------------------------------------------------------------------------
\* The buckets ht_insert searches, after _ht_adjust_capacity.
Grown == Lay(nodes, ShouldGrow, size * HT_GROWTH_FACTOR)

GrownCapacity == CapacityAfter(ShouldGrow, size * HT_GROWTH_FACTOR)

Insert(k, v) ==
  LET index == Index(k, GrownCapacity) IN
  /\ nodes # NULL
  /\ nodes' = [Grown EXCEPT ![index] = Without(@, {k}) \cup {<<k, v>>}]
  /\ size' = IF Holds(Grown[index], k) THEN size ELSE size + 1
  /\ last' = <<<<"insert", k, v>>, IF Holds(Grown[index], k) THEN "updated" ELSE "inserted">>
  /\ capacity' = GrownCapacity
  /\ UNCHANGED failures

Failure == failures < MaxFailures /\ failures' = failures + 1

\* _ht_push_front without memory for the node: the bucket is overwritten with NULL.
InsertFails(k) ==
  LET index == Index(k, GrownCapacity) IN
  /\ nodes # NULL
  /\ ~Holds(Grown[index], k)
  /\ nodes' = [Grown EXCEPT ![index] = {}]
  /\ capacity' = GrownCapacity
  /\ last' = <<<<"any">>, "error">> /\ Failure
  /\ UNCHANGED size

\* Mutant of Left: unlinking the node drops the rest of its chain.
LeftShort(k) == [nodes EXCEPT ![Index(k, capacity)] = {}]

Left(k) == [nodes EXCEPT ![Index(k, capacity)] = Without(@, {k})]

\* Mutant of Erase: the count is not taken down.
EraseUncounted(k) ==
  /\ nodes # NULL
  /\ Holds(nodes[Index(k, capacity)], k)
  /\ nodes' = Left(k)
  /\ last' = <<<<"erase", k>>, "success">>
  /\ UNCHANGED <<capacity, size, failures>>

Erase(k) ==
  /\ nodes # NULL
  /\ Holds(nodes[Index(k, capacity)], k)
  /\ nodes' = Lay(Left(k), ShouldShrink(size - 1), 0)
  /\ capacity' = CapacityAfter(ShouldShrink(size - 1), 0)
  /\ size' = size - 1
  /\ last' = <<<<"erase", k>>, "success">>
  /\ UNCHANGED failures

EraseMissing(k) ==
  /\ nodes # NULL
  /\ ~Holds(nodes[Index(k, capacity)], k)
  /\ last' = <<<<"erase", k>>, "not_found">>
  /\ UNCHANGED <<nodes, capacity, size, failures>>

\* ht_iterate_n_erase, with a callback that picks the keys in S.
EraseSome(S) ==
  /\ nodes # NULL
  /\ nodes' = [c \in DOMAIN nodes |-> Without(nodes[c], S)]
  /\ size' = size - Cardinality({n \in All : n[1] \in S})
  /\ last' = <<<<"iterate", S>>, "success">>
  /\ UNCHANGED <<capacity, failures>>

Clear ==
  /\ nodes # NULL
  /\ nodes' = [c \in 0 .. HT_MINIMUM_CAPACITY - 1 |-> {}]
  /\ capacity' = HT_MINIMUM_CAPACITY /\ size' = 0 /\ last' = <<<<"clear">>, "success">>
  /\ UNCHANGED failures

\* The threshold ht_reserve compares with is capacity * HT_LOAD_FACTOR.
Reserves(minimum) == minimum > capacity * HT_LOAD_FACTOR

Reserve(minimum) ==
  /\ nodes # NULL
  /\ nodes' = Lay(nodes, Reserves(minimum), minimum \div HT_LOAD_FACTOR)
  /\ capacity' = CapacityAfter(Reserves(minimum), minimum \div HT_LOAD_FACTOR)
  /\ last' = <<<<"reserve">>, "success">>
  /\ UNCHANGED <<size, failures>>

-----------------------------------------------------------------------------
\* _ht_allocate without memory for the buckets leaves NULL for them: ht_insert
\* dereferences it at once, the others leave that to the next call.
NoBuckets(call) ==
  /\ nodes' = NULL /\ last' = call /\ Failure
  /\ UNCHANGED capacity

GrowFails ==
  /\ nodes # NULL /\ ShouldGrow /\ Resizes(size * HT_GROWTH_FACTOR)
  /\ NoBuckets(<<<<"any">>, "crash">>) /\ UNCHANGED size

ShrinkFails(k) ==
  /\ nodes # NULL /\ Holds(nodes[Index(k, capacity)], k)
  /\ ShouldShrink(size - 1) /\ Resizes(0)
  /\ NoBuckets(<<<<"any">>, "error">>) /\ size' = size - 1

ReserveFails(minimum) ==
  /\ nodes # NULL /\ Reserves(minimum) /\ Resizes(minimum \div HT_LOAD_FACTOR)
  /\ NoBuckets(<<<<"any">>, "error">>) /\ UNCHANGED size

\* ht_clear does not look at what the allocation returned.
ClearFails ==
  /\ nodes # NULL
  /\ NoBuckets(<<<<"clear">>, "success">>) /\ size' = 0

Next ==
  \/ \E k \in Keys, v \in Values : Insert(k, v)
  \/ \E k \in Keys : InsertFails(k) \/ Erase(k) \/ EraseMissing(k) \/ ShrinkFails(k)
  \/ \E S \in SUBSET Keys : EraseSome(S)
  \/ \E minimum \in ReserveSizes : Reserve(minimum) \/ ReserveFails(minimum)
  \/ Clear \/ GrowFails \/ ClearFails

Spec == Init /\ [][Next]_vars

-----------------------------------------------------------------------------
\* Type invariant of the table that ht_setup makes and its operations change.
TypeOK ==
  /\ capacity \in Nat /\ capacity >= HT_MINIMUM_CAPACITY
  /\ nodes = NULL \/ nodes \in [0 .. capacity - 1 -> SUBSET Nodes]
  /\ size \in Nat /\ failures \in 0 .. MaxFailures
  /\ last[2] \in {"success", "inserted", "updated", "not_found", "error", "crash"}

\* Every node is in the bucket its hash has now, at whatever capacity it was
\* inserted: lookups search no other (_ht_rehash, _ht_hash).
Placed == \A c \in DOMAIN nodes : \A n \in nodes[c] : Index(n[1], capacity) = c

\* No key has two nodes, which a lookup would tell apart and ht_erase would not remove.
Unique == \A m, n \in All : m[1] = n[1] => m = n

\* size is the number of entries, on which growing, shrinking and ht_is_empty
\* rely, as long as no allocation failed; a failed one can only leave it too large.
SizeCounts ==
  /\ nodes # NULL => Cardinality(All) <= size
  /\ failures = 0 => Cardinality(All) = size

\* What _ht_should_grow and _ht_should_shrink assert: the table never holds
\* more entries than it has buckets.
SizeBounded == size <= capacity

\* The keys that a lookup finds in the table, and what it finds.
Present(table, cap) == {k \in Keys : table # NULL /\ Holds(table[Index(k, cap)], k)}
Lookup(chain, k) == (CHOOSE n \in chain : n[1] = k)[2]
Contents(table, cap) == [k \in Present(table, cap) |-> Lookup(table[Index(k, cap)], k)]

Map == INSTANCE KeyMap WITH map <- Contents(nodes, capacity)

\* Through every growth, shrinking and failure the table is a map from keys to values.
ImplementsMap == Map!Spec

\* The chains: every lookup that searches one bucket finds the one node there is.
ChainsSound == Placed /\ Unique

\* The counters: types, what they count and the bound the code asserts.
CountersSound == TypeOK /\ SizeCounts /\ SizeBounded
=============================================================================
