---------------------------- MODULE UtilityProofs ----------------------------
(***************************************************************************)
(* What the parts every command shares promise for all values of their     *)
(* constants: the hash table of src/hashtable.c, the buffer that cYAML     *)
(* prints to, mem_reg of src/tools.c, the watchdog command, and what       *)
(* precedes the erasing of flash on a Xiongmai board.                      *)
(***************************************************************************)
EXTENDS HashTable, StringBuffer, XmBoard, FiniteSetTheorems, TLAPS

(***************************************************************************)
(* The hash table keeps every node in its bucket, at most one per key, and *)
(* implements a map, for every set of keys, hash function and least size.  *)
(*                                                                         *)
(* A table in order (Good) and the map that lookups see in it have the     *)
(* same entries (GraphOfContents); each step is then a fact about the set  *)
(* of all nodes.                                                           *)
(***************************************************************************)

Good(table, buckets) ==
  /\ table \in [0 .. buckets - 1 -> SUBSET Nodes]
  /\ \A c \in 0 .. buckets - 1 : \A n \in table[c] : Index(n[1], buckets) = c
  /\ \A c \in 0 .. buckets - 1 : \A m, n \in table[c] : m[1] = n[1] => m = n

\* The inductive invariant.
IInv ==
  /\ capacity \in Nat \ {0} /\ HT_MINIMUM_CAPACITY <= capacity /\ size \in Int /\ size <= capacity
  /\ nodes = NULL \/ Good(nodes, capacity)

GraphOf(f) == {<<k, f[k]>> : k \in DOMAIN f}
IsMap(f) == f = [k \in DOMAIN f |-> f[k]]

\* A bucket number is below the number of buckets.
LEMMA IndexRange ==
  ASSUME NEW k \in Keys, NEW buckets \in Nat \ {0}
  PROVE  Index(k, buckets) \in 0 .. buckets - 1
  BY HashAssumption DEF Index

\* A table with buckets is not NULL.
LEMMA GoodNotNull ==
  ASSUME NEW table, NEW buckets \in Nat \ {0}, Good(table, buckets)
  PROVE  table # NULL
<1>1. DOMAIN table = 0 .. buckets - 1
  BY DEF Good
<1>2. 0 \in DOMAIN table
  BY <1>1
<1>3. QED
  BY <1>2 DEF NULL

\* Every node of a table in order is a pair in the bucket of its key.
LEMMA NodeAt ==
  ASSUME NEW table, NEW buckets \in Nat \ {0}, Good(table, buckets), NEW n
  PROVE  n \in In(table) <=> n \in Nodes /\ n \in table[Index(n[1], buckets)]
<1>1. ASSUME n \in In(table)
      PROVE  n \in Nodes /\ n \in table[Index(n[1], buckets)]
  BY <1>1 DEF Good, In
<1>2. ASSUME n \in Nodes, n \in table[Index(n[1], buckets)]
      PROVE  n \in In(table)
  BY <1>2, IndexRange DEF Good, In, Nodes
<1>3. QED
  BY <1>1, <1>2

\* No key has two nodes.
LEMMA OneNode ==
  ASSUME NEW table, NEW buckets \in Nat \ {0}, Good(table, buckets),
         NEW m \in In(table), NEW n \in In(table), m[1] = n[1]
  PROVE  m = n
<1>1. m \in Nodes /\ m \in table[Index(m[1], buckets)] /\ n \in table[Index(m[1], buckets)]
  BY NodeAt
<1>2. Index(m[1], buckets) \in 0 .. buckets - 1
  BY <1>1, IndexRange DEF Nodes
<1>3. QED
  BY <1>1, <1>2 DEF Good

\* A key has a node in its bucket if it has one at all.
LEMMA HoldsIn ==
  ASSUME NEW table, NEW buckets \in Nat \ {0}, Good(table, buckets), NEW k \in Keys
  PROVE  Holds(table[Index(k, buckets)], k) <=> \E n \in In(table) : n[1] = k
<1>1. ASSUME Holds(table[Index(k, buckets)], k)
      PROVE  \E n \in In(table) : n[1] = k
  BY <1>1, IndexRange DEF Good, In, Holds
<1>2. ASSUME NEW n \in In(table), n[1] = k
      PROVE  Holds(table[Index(k, buckets)], k)
  BY <1>2, NodeAt DEF Holds
<1>3. QED
  BY <1>1, <1>2

\* What a lookup finds.
LEMMA LookupFinds ==
  ASSUME NEW table, NEW buckets \in Nat \ {0}, Good(table, buckets),
         NEW n \in Nodes, n \in table[Index(n[1], buckets)]
  PROVE  Lookup(table[Index(n[1], buckets)], n[1]) = n[2]
<1>. DEFINE chain == table[Index(n[1], buckets)]
            found == CHOOSE m \in chain : m[1] = n[1]
<1>1. Index(n[1], buckets) \in 0 .. buckets - 1
  BY IndexRange DEF Nodes
<1>2. found \in chain /\ found[1] = n[1]
  OBVIOUS
<1>3. found = n
  BY <1>1, <1>2 DEF Good
<1>4. QED
  BY <1>3 DEF Lookup

\* The map that lookups see has exactly the table's nodes as its entries.
LEMMA GraphOfContents ==
  ASSUME NEW table, NEW buckets \in Nat \ {0}, table = NULL \/ Good(table, buckets)
  PROVE  GraphOf(Contents(table, buckets)) = In(table)
<1>1. CASE table = NULL
  <2>1. In(table) = {}
    BY <1>1 DEF In, NULL
  <2>2. DOMAIN Contents(table, buckets) = {}
    BY <1>1 DEF Contents, Present
  <2>3. QED
    BY <2>1, <2>2 DEF GraphOf
<1>2. CASE Good(table, buckets)
  <2>. DEFINE M == Contents(table, buckets)
  <2>1. DOMAIN M = Present(table, buckets) /\ \A k \in DOMAIN M : M[k] = Lookup(table[Index(k, buckets)], k)
    BY DEF Contents
  <2>2. ASSUME NEW n \in In(table)
        PROVE  n \in GraphOf(M)
    <3>1. n \in Nodes /\ n \in table[Index(n[1], buckets)]
      BY <1>2, NodeAt
    <3>2. n = <<n[1], n[2]>> /\ n[1] \in Keys
      BY <3>1 DEF Nodes
    <3>3. n[1] \in Present(table, buckets)
      BY <1>2, <3>1, <3>2, GoodNotNull DEF Present, Holds
    <3>4. M[n[1]] = n[2]
      BY <1>2, <2>1, <3>1, <3>3, LookupFinds
    <3>5. QED
      BY <2>1, <3>2, <3>3, <3>4 DEF GraphOf
  <2>3. ASSUME NEW k \in DOMAIN M
        PROVE  <<k, M[k]>> \in In(table)
    <3>1. k \in Keys /\ Holds(table[Index(k, buckets)], k)
      BY <2>1 DEF Present
    <3>2. PICK n \in table[Index(k, buckets)] : n[1] = k
      BY <3>1 DEF Holds
    <3>3. n \in Nodes
      BY <1>2, <3>1, <3>2, IndexRange DEF Good
    <3>4. M[k] = n[2]
      BY <1>2, <2>1, <3>2, <3>3, LookupFinds
    <3>5. n = <<k, M[k]>>
      BY <3>2, <3>3, <3>4 DEF Nodes
    <3>6. QED
      BY <1>2, <3>2, <3>3, <3>5, NodeAt
  <2>4. QED
    BY <2>2, <2>3 DEF GraphOf
<1>3. QED
  BY <1>1, <1>2

\* A map is determined by its entries.
LEMMA SameGraph ==
  ASSUME NEW f, NEW g, IsMap(f), IsMap(g), GraphOf(f) = GraphOf(g)
  PROVE  f = g
<1>1. \A k \in DOMAIN f : k \in DOMAIN g /\ g[k] = f[k]
  <2>1. SUFFICES ASSUME NEW k \in DOMAIN f PROVE k \in DOMAIN g /\ g[k] = f[k]
    OBVIOUS
  <2>2. <<k, f[k]>> \in GraphOf(g)
    BY DEF GraphOf
  <2>3. QED
    BY <2>2 DEF GraphOf
<1>2. \A k \in DOMAIN g : k \in DOMAIN f
  <2>1. SUFFICES ASSUME NEW k \in DOMAIN g PROVE k \in DOMAIN f
    OBVIOUS
  <2>2. <<k, g[k]>> \in GraphOf(f)
    BY DEF GraphOf
  <2>3. QED
    BY <2>2 DEF GraphOf
<1>3. DOMAIN f = DOMAIN g
  BY <1>1, <1>2
<1>4. QED
  BY <1>1, <1>3 DEF IsMap

-----------------------------------------------------------------------------
(* The operations keep a table in order, and what each makes of its nodes. *)

LEMMA RehashGood ==
  ASSUME NEW kept, NEW old \in Nat \ {0}, NEW buckets \in Nat \ {0}, Good(kept, old)
  PROVE  Good(Rehash(kept, buckets), buckets) /\ In(Rehash(kept, buckets)) = In(kept)
<1>. DEFINE table == Rehash(kept, buckets)
<1>1. In(kept) \subseteq Nodes
  BY NodeAt
<1>2. \A m, n \in In(kept) : m[1] = n[1] => m = n
  BY OneNode
<1>3. table \in [0 .. buckets - 1 -> SUBSET Nodes]
  BY <1>1 DEF Rehash
<1>4. \A c \in 0 .. buckets - 1 : \A n \in table[c] : n \in In(kept) /\ Index(n[1], buckets) = c
  BY DEF Rehash
<1>5. Good(table, buckets)
  BY <1>2, <1>3, <1>4 DEF Good
<1>6. \A n \in In(kept) : n \in table[Index(n[1], buckets)]
  BY <1>1, IndexRange DEF Rehash, Nodes
<1>7. DOMAIN table = 0 .. buckets - 1
  BY <1>3
<1>8. In(table) \subseteq In(kept)
  BY <1>4, <1>7 DEF In
<1>9. In(kept) \subseteq In(table)
  BY <1>1, <1>5, <1>6, NodeAt
<1>10. QED
  BY <1>5, <1>8, <1>9

LEMMA AtLeastNat ==
  ASSUME NEW buckets \in Nat
  PROVE  AtLeast(buckets) \in Nat \ {0} /\ buckets <= AtLeast(buckets)
  BY HashAssumption DEF AtLeast

LEMMA LayGood ==
  ASSUME NEW kept, NEW cond \in BOOLEAN, NEW wanted \in Nat,
         capacity \in Nat \ {0}, Good(kept, capacity)
  PROVE  /\ CapacityAfter(cond, wanted) \in Nat \ {0}
         /\ Good(Lay(kept, cond, wanted), CapacityAfter(cond, wanted))
         /\ In(Lay(kept, cond, wanted)) = In(kept)
<1>1. CASE cond /\ Resizes(wanted)
  <2>1. /\ Lay(kept, cond, wanted) = Rehash(kept, AtLeast(wanted))
        /\ CapacityAfter(cond, wanted) = AtLeast(wanted)
    BY <1>1 DEF Lay, CapacityAfter
  <2>2. QED
    BY <2>1, AtLeastNat, RehashGood
<1>2. CASE ~(cond /\ Resizes(wanted))
  BY <1>2 DEF Lay, CapacityAfter
<1>3. QED
  BY <1>1, <1>2

\* Replacing the chain of a bucket by nodes of its own keys.
LEMMA ExceptGood ==
  ASSUME NEW table, NEW buckets \in Nat \ {0}, Good(table, buckets), NEW index \in 0 .. buckets - 1,
         NEW chain \in SUBSET Nodes,
         \A n \in chain : Index(n[1], buckets) = index,
         \A m, n \in chain : m[1] = n[1] => m = n,
         NEW new, new = [table EXCEPT ![index] = chain]
  PROVE  /\ Good(new, buckets)
         /\ \A n : n \in In(new) <=> n \in chain \/ (n \in In(table) /\ Index(n[1], buckets) # index)
<1>1. /\ new \in [0 .. buckets - 1 -> SUBSET Nodes]
      /\ \A c \in 0 .. buckets - 1 : new[c] = IF c = index THEN chain ELSE table[c]
  BY DEF Good
<1>2. Good(new, buckets)
  BY <1>1 DEF Good
<1>3. \A n \in Nodes : Index(n[1], buckets) \in 0 .. buckets - 1
  BY IndexRange DEF Nodes
<1>4. ASSUME NEW n
      PROVE  n \in In(new) <=> n \in chain \/ (n \in In(table) /\ Index(n[1], buckets) # index)
  <2>1. n \in In(new) <=> n \in Nodes /\ n \in new[Index(n[1], buckets)]
    BY <1>2, NodeAt
  <2>2. n \in In(table) <=> n \in Nodes /\ n \in table[Index(n[1], buckets)]
    BY NodeAt
  <2>3. QED
    BY <1>1, <1>3, <2>1, <2>2
<1>5. QED
  BY <1>2, <1>4
\* What ht_insert finds after it has grown the table.
LEMMA GrownGood ==
  ASSUME IInv, nodes # NULL
  PROVE  /\ GrownCapacity \in Nat \ {0} /\ HT_MINIMUM_CAPACITY <= GrownCapacity
         /\ size + 1 <= GrownCapacity
         /\ Good(Grown, GrownCapacity) /\ In(Grown) = All
<1>1. Good(nodes, capacity)
  BY DEF IInv
<1>2. CASE ShouldGrow
  <2>1. size * HT_GROWTH_FACTOR \in Nat
    BY <1>2 DEF IInv, ShouldGrow, HT_GROWTH_FACTOR
  <2>2. GrownCapacity = AtLeast(size * HT_GROWTH_FACTOR)
    BY <1>2, HashAssumption
       DEF IInv, ShouldGrow, HT_GROWTH_FACTOR, GrownCapacity, CapacityAfter, Resizes
  <2>3. HT_MINIMUM_CAPACITY <= GrownCapacity /\ size + 1 <= GrownCapacity
    BY <1>2, <2>2, HashAssumption DEF IInv, ShouldGrow, HT_GROWTH_FACTOR, AtLeast
  <2>4. QED
    BY <1>1, <1>2, <2>1, <2>3, LayGood DEF IInv, Grown, GrownCapacity, All
<1>3. CASE ~ShouldGrow
  <2>1. Grown = nodes /\ GrownCapacity = capacity
    BY <1>3 DEF Grown, GrownCapacity, Lay, CapacityAfter
  <2>2. size + 1 <= capacity
    BY <1>3 DEF IInv, ShouldGrow
  <2>3. QED
    BY <1>1, <2>1, <2>2 DEF IInv, All
<1>4. QED
  BY <1>2, <1>3

\* ht_insert replaces the node of its key, if there is one.
LEMMA InsertStep ==
  ASSUME IInv, NEW k \in Keys, NEW v \in Values, Insert(k, v)
  PROVE  /\ IInv'
         /\ All' = {n \in All : n[1] # k} \cup {<<k, v>>}
         /\ Holds(Grown[Index(k, GrownCapacity)], k) <=> \E n \in All : n[1] = k
<1>. DEFINE index == Index(k, GrownCapacity)
            chain == Without(Grown[index], {k}) \cup {<<k, v>>}
<1>1. /\ GrownCapacity \in Nat \ {0} /\ HT_MINIMUM_CAPACITY <= GrownCapacity
      /\ size + 1 <= GrownCapacity
      /\ Good(Grown, GrownCapacity) /\ In(Grown) = All
  BY GrownGood DEF Insert
<1>2. index \in 0 .. GrownCapacity - 1
  BY <1>1, IndexRange
<1>3. nodes' = [Grown EXCEPT ![index] = chain] /\ capacity' = GrownCapacity
  BY <1>1, <1>2 DEF Insert, Good
<1>4. /\ chain \in SUBSET Nodes
      /\ \A n \in chain : Index(n[1], GrownCapacity) = index
      /\ \A m, n \in chain : m[1] = n[1] => m = n
  BY <1>1, <1>2 DEF Good, Without, Nodes
<1>5. /\ Good(nodes', capacity')
      /\ In(nodes') = {n \in All : Index(n[1], GrownCapacity) # index} \cup chain
  <2>. HIDE DEF index, chain
  <2>1. /\ Good(nodes', GrownCapacity)
        /\ \A n : n \in In(nodes') <=>
             n \in chain \/ (n \in In(Grown) /\ Index(n[1], GrownCapacity) # index)
    BY <1>1, <1>2, <1>3, <1>4, ExceptGood
  <2>2. QED
    BY <1>1, <1>3, <2>1
<1>6. ASSUME NEW n \in All
      PROVE  n \in Grown[Index(n[1], GrownCapacity)]
  BY <1>1, NodeAt
<1>7. Grown[index] \subseteq All
  BY <1>1, <1>2 DEF In, Good
<1>8. All' = {n \in All : n[1] # k} \cup {<<k, v>>}
  <2>1. {n \in All : Index(n[1], GrownCapacity) # index} \cup Without(Grown[index], {k})
          = {n \in All : n[1] # k}
    BY <1>6, <1>7, <1>1, <1>2 DEF Without, Good
  <2>2. QED
    BY <1>5, <2>1 DEF All
<1>9. size' \in Int /\ size' <= capacity'
  BY <1>1, <1>3 DEF Insert, IInv
<1>10. IInv'
  BY <1>1, <1>3, <1>5, <1>9 DEF IInv
<1>11. QED
  BY <1>1, <1>8, <1>10, HoldsIn

\* Without memory for the node the rest of its chain is lost.
LEMMA InsertFailsStep ==
  ASSUME IInv, NEW k \in Keys, InsertFails(k)
  PROVE  IInv' /\ \E S \in SUBSET Keys : All' = {n \in All : n[1] \in S}
<1>. DEFINE index == Index(k, GrownCapacity)
            S == {x \in Keys : Index(x, GrownCapacity) # index}
<1>1. /\ GrownCapacity \in Nat \ {0} /\ HT_MINIMUM_CAPACITY <= GrownCapacity
      /\ size + 1 <= GrownCapacity
      /\ Good(Grown, GrownCapacity) /\ In(Grown) = All
  BY GrownGood DEF InsertFails
<1>2. index \in 0 .. GrownCapacity - 1
  BY <1>1, IndexRange
<1>3. nodes' = [Grown EXCEPT ![index] = {}] /\ capacity' = GrownCapacity /\ size' = size
  BY DEF InsertFails
<1>4. /\ Good(nodes', capacity')
      /\ In(nodes') = {n \in All : Index(n[1], GrownCapacity) # index}
  <2>. DEFINE chain == {}
  <2>1. /\ chain \in SUBSET Nodes
        /\ \A n \in chain : Index(n[1], GrownCapacity) = index
        /\ \A m, n \in chain : m[1] = n[1] => m = n
        /\ nodes' = [Grown EXCEPT ![index] = chain]
    BY <1>3
  <2>. HIDE DEF index, chain
  <2>2. /\ Good(nodes', GrownCapacity)
        /\ \A n : n \in In(nodes') <=>
             n \in chain \/ (n \in In(Grown) /\ Index(n[1], GrownCapacity) # index)
    BY <1>1, <1>2, <2>1, ExceptGood
  <2>3. QED
    BY <1>1, <1>3, <2>2 DEF chain
<1>5. \A n \in All : n[1] \in Keys
  BY <1>1, NodeAt DEF Nodes
<1>6. All' = {n \in All : n[1] \in S}
  BY <1>4, <1>5 DEF All
<1>7. IInv'
  BY <1>1, <1>3, <1>4 DEF IInv
<1>8. QED
  BY <1>6, <1>7
\* ht_erase takes the node of its key out, and may then shrink the table.
LEMMA EraseStep ==
  ASSUME IInv, NEW k \in Keys, Erase(k)
  PROVE  IInv' /\ All' = {n \in All : n[1] # k} /\ \E n \in All : n[1] = k
<1>. DEFINE index == Index(k, capacity)
            chain == Without(nodes[index], {k})
            cond == ShouldShrink(size - 1)
<1>1. Good(nodes, capacity) /\ capacity \in Nat \ {0} /\ index \in 0 .. capacity - 1
  BY IndexRange DEF IInv, Erase
<1>2. /\ chain \in SUBSET Nodes
      /\ \A n \in chain : Index(n[1], capacity) = index
      /\ \A m, n \in chain : m[1] = n[1] => m = n
      /\ Left(k) = [nodes EXCEPT ![index] = chain]
  BY <1>1 DEF Good, Without, Left
<1>3. /\ Good(Left(k), capacity)
      /\ \A n : n \in In(Left(k)) <=> n \in chain \/ (n \in All /\ Index(n[1], capacity) # index)
  <2>. HIDE DEF index, chain
  <2>1. QED
    BY <1>1, <1>2, ExceptGood DEF All
<1>4. In(Left(k)) = {n \in All : n[1] # k}
  <2>1. \A n \in All : n \in Nodes /\ n \in nodes[Index(n[1], capacity)]
    BY <1>1, NodeAt DEF All
  <2>2. nodes[index] \subseteq All
    BY <1>1 DEF All, In, Good
  <2>3. \A n \in chain : n \in nodes[index] /\ n[1] # k
    BY DEF Without
  <2>4. \A n \in All : n[1] # k /\ Index(n[1], capacity) = index => n \in chain
    BY <2>1 DEF Without
  <2>5. \A n \in All : Index(n[1], capacity) # index => n[1] # k
    OBVIOUS
  <2>. HIDE DEF index, chain
  <2>6. QED
    BY <1>3, <2>2, <2>3, <2>4, <2>5
<1>5. /\ capacity' \in Nat \ {0} /\ Good(nodes', capacity') /\ In(nodes') = In(Left(k))
  <2>1. /\ cond \in BOOLEAN /\ 0 \in Nat /\ nodes' = Lay(Left(k), cond, 0)
        /\ capacity' = CapacityAfter(cond, 0)
    BY DEF Erase, ShouldShrink
  <2>. HIDE DEF cond
  <2>2. QED
    BY <1>1, <1>3, <2>1, LayGood
<1>6. HT_MINIMUM_CAPACITY <= capacity' /\ size' \in Int /\ size' <= capacity'
  BY HashAssumption DEF Erase, IInv, CapacityAfter, AtLeast, ShouldShrink, Resizes
<1>7. \E n \in All : n[1] = k
  BY <1>1, HoldsIn DEF Erase, All
<1>8. QED
  BY <1>4, <1>5, <1>6, <1>7 DEF IInv, All

\* ht_iterate_n_erase takes out what its callback picks.
LEMMA EraseSomeStep ==
  ASSUME IInv, NEW S \in SUBSET Keys, EraseSome(S)
  PROVE  IInv' /\ All' = {n \in All : n[1] \notin S}
<1>1. Good(nodes, capacity) /\ capacity \in Nat \ {0}
  BY DEF IInv, EraseSome
<1>2. nodes' = [c \in 0 .. capacity - 1 |-> Without(nodes[c], S)] /\ capacity' = capacity
  BY <1>1 DEF EraseSome, Good
<1>3. Good(nodes', capacity')
  BY <1>1, <1>2 DEF Good, Without
<1>4. All' = {n \in All : n[1] \notin S}
  BY <1>1, <1>2 DEF All, In, Good, Without
<1>5. Cardinality({n \in All : n[1] \in S}) \in Nat
  <2>1. IsFiniteSet(Nodes)
    BY HashAssumption, FS_Product DEF Nodes
  <2>2. {n \in All : n[1] \in S} \in SUBSET Nodes
    BY <1>1, NodeAt DEF All
  <2>3. QED
    BY <2>1, <2>2, FS_Subset, FS_CardinalityType
<1>6. size' \in Int /\ size' <= capacity'
  BY <1>2, <1>5 DEF IInv, EraseSome
<1>7. QED
  BY <1>2, <1>3, <1>4, <1>6 DEF IInv

LEMMA ReserveStep ==
  ASSUME IInv, NEW minimum \in Nat, Reserve(minimum)
  PROVE  IInv' /\ All' = All
<1>. DEFINE cond == Reserves(minimum)
            wanted == minimum \div HT_LOAD_FACTOR
<1>1. Good(nodes, capacity) /\ capacity \in Nat \ {0}
  BY DEF IInv, Reserve
<1>2. wanted \in Nat /\ cond \in BOOLEAN
  BY DEF HT_LOAD_FACTOR, Reserves
<1>3. cond => capacity <= wanted
  BY <1>1 DEF HT_LOAD_FACTOR, Reserves
<1>4. nodes' = Lay(nodes, cond, wanted) /\ capacity' = CapacityAfter(cond, wanted) /\ size' = size
  BY DEF Reserve
<1>. HIDE DEF cond, wanted
<1>5. capacity' \in Nat \ {0} /\ Good(nodes', capacity') /\ In(nodes') = In(nodes)
  BY <1>1, <1>2, <1>4, LayGood
<1>6. HT_MINIMUM_CAPACITY <= capacity' /\ size' <= capacity'
  BY <1>1, <1>2, <1>3, <1>4, HashAssumption DEF IInv, CapacityAfter, AtLeast, Resizes
<1>7. QED
  BY <1>4, <1>5, <1>6 DEF IInv, All

\* Empty buckets.
LEMMA EmptyGood ==
  ASSUME NEW buckets \in Nat \ {0}, NEW table, table = [c \in 0 .. buckets - 1 |-> {}]
  PROVE  Good(table, buckets) /\ In(table) = {}
  BY DEF Good, In

LEMMA ClearStep ==
  ASSUME IInv, Clear
  PROVE  IInv' /\ All' = {}
<1>1. /\ HT_MINIMUM_CAPACITY \in Nat \ {0} /\ capacity' = HT_MINIMUM_CAPACITY /\ size' = 0
      /\ nodes' = [c \in 0 .. HT_MINIMUM_CAPACITY - 1 |-> {}]
  BY HashAssumption DEF Clear
<1>2. Good(nodes', HT_MINIMUM_CAPACITY) /\ In(nodes') = {}
  BY <1>1, EmptyGood
<1>3. /\ capacity' \in Nat \ {0} /\ HT_MINIMUM_CAPACITY <= capacity'
      /\ size' \in Int /\ size' <= capacity'
  BY <1>1
<1>4. Good(nodes', capacity')
  BY <1>1, <1>2
<1>5. QED
  BY <1>2, <1>3, <1>4 DEF IInv, All

\* An allocation of buckets that fails leaves none.
LEMMA NoBucketsStep ==
  ASSUME IInv, NEW call, NoBuckets(call), size' \in {size, size - 1, 0}
  PROVE  IInv' /\ All' = {}
<1>1. nodes' = NULL /\ capacity' = capacity
  BY DEF NoBuckets
<1>2. In(nodes') = {}
  BY <1>1 DEF In, NULL
<1>3. size' \in Int /\ size' <= capacity'
  BY <1>1 DEF IInv
<1>4. QED
  BY <1>1, <1>2, <1>3 DEF IInv, All
-----------------------------------------------------------------------------
THEOREM InitIInv == Init => IInv
<1>1. SUFFICES ASSUME Init PROVE IInv
  OBVIOUS
<1>2. capacity \in Nat \ {0} /\ HT_MINIMUM_CAPACITY <= capacity
  BY <1>1, HashAssumption DEF Init, AtLeast
<1>3. Good(nodes, capacity)
  BY <1>1, <1>2, EmptyGood DEF Init
<1>4. QED
  BY <1>1, <1>2, <1>3 DEF Init, IInv

\* Every step keeps the tables in order.
THEOREM NextIInv == IInv /\ [Next]_vars => IInv'
<1>1. SUFFICES ASSUME IInv, [Next]_vars PROVE IInv'
  OBVIOUS
<1>2. ASSUME NEW k \in Keys, NEW v \in Values, Insert(k, v) PROVE IInv'
  BY <1>1, <1>2, InsertStep
<1>3. ASSUME NEW k \in Keys, InsertFails(k) PROVE IInv'
  BY <1>1, <1>3, InsertFailsStep
<1>4. ASSUME NEW k \in Keys, Erase(k) PROVE IInv'
  BY <1>1, <1>4, EraseStep
<1>5. ASSUME NEW k \in Keys, EraseMissing(k) PROVE IInv'
  BY <1>1, <1>5 DEF EraseMissing, IInv
<1>6. ASSUME NEW S \in SUBSET Keys, EraseSome(S) PROVE IInv'
  BY <1>1, <1>6, EraseSomeStep
<1>7. ASSUME NEW minimum \in ReserveSizes, Reserve(minimum) PROVE IInv'
  BY <1>1, <1>7, ReserveStep, HashAssumption
<1>8. ASSUME Clear PROVE IInv'
  BY <1>1, <1>8, ClearStep
<1>9. ASSUME NEW k \in Keys, ShrinkFails(k) PROVE IInv'
  BY <1>1, <1>9, NoBucketsStep DEF ShrinkFails
<1>10. ASSUME NEW minimum \in ReserveSizes, ReserveFails(minimum) PROVE IInv'
  BY <1>1, <1>10, NoBucketsStep DEF ReserveFails
<1>11. ASSUME GrowFails \/ ClearFails PROVE IInv'
  BY <1>1, <1>11, NoBucketsStep DEF GrowFails, ClearFails
<1>12. ASSUME UNCHANGED vars PROVE IInv'
  BY <1>1, <1>12 DEF vars, IInv
<1>13. QED
  BY <1>1, <1>2, <1>3, <1>4, <1>5, <1>6, <1>7, <1>8, <1>9, <1>10, <1>11, <1>12 DEF Next

THEOREM IInvHolds == Spec => []IInv
<1>1. QED
  BY InitIInv, NextIInv, PTL DEF Spec

\* Nodes are always where a lookup searches for them.
THEOREM PlacedHolds == Spec => []Placed
<1>1. IInv => Placed
  BY DEF IInv, Placed, Good, NULL
<1>2. QED
  BY <1>1, IInvHolds, PTL

\* No key ever has two nodes.
THEOREM UniqueHolds == Spec => []Unique
<1>1. IInv => Unique
  <2>1. CASE nodes = NULL
    BY <2>1 DEF Unique, All, In, NULL
  <2>2. ASSUME IInv, Good(nodes, capacity) PROVE Unique
    BY <2>2, OneNode DEF IInv, Unique, All
  <2>3. QED
    BY <2>1, <2>2 DEF IInv
<1>2. QED
  BY <1>1, IInvHolds, PTL

\* What _ht_should_grow and _ht_should_shrink assert is always so.
THEOREM SizeBoundedHolds == Spec => []SizeBounded
<1>1. IInv => SizeBounded
  BY DEF IInv, SizeBounded
<1>2. QED
  BY <1>1, IInvHolds, PTL

-----------------------------------------------------------------------------
(* The number of entries. *)

Counted ==
  /\ size \in Nat /\ failures \in 0 .. MaxFailures
  /\ Cardinality(All) <= size
  /\ failures = 0 => Cardinality(All) = size

LEMMA AllFinite ==
  ASSUME IInv
  PROVE  IsFiniteSet(All) /\ Cardinality(All) \in Nat
<1>1. IsFiniteSet(Nodes)
  BY HashAssumption, FS_Product DEF Nodes
<1>2. All \in SUBSET Nodes
  <2>1. CASE nodes = NULL
    BY <2>1 DEF All, In, NULL
  <2>2. CASE Good(nodes, capacity)
    BY <2>2, NodeAt DEF IInv, All
  <2>3. QED
    BY <2>1, <2>2 DEF IInv
<1>3. QED
  BY <1>1, <1>2, FS_Subset, FS_CardinalityType

\* Taking the node of a key out.
LEMMA WithoutKey ==
  ASSUME IInv, nodes # NULL, NEW k \in Keys
  PROVE  /\ IsFiniteSet({n \in All : n[1] # k})
         /\ Cardinality({n \in All : n[1] # k}) =
              IF \E n \in All : n[1] = k THEN Cardinality(All) - 1 ELSE Cardinality(All)
<1>1. ASSUME NEW m \in All, m[1] = k
      PROVE  {n \in All : n[1] # k} = All \ {m}
  BY <1>1, OneNode DEF IInv, All
<1>2. ASSUME NEW m \in All, m[1] = k
      PROVE  /\ IsFiniteSet({n \in All : n[1] # k})
             /\ Cardinality({n \in All : n[1] # k}) = Cardinality(All) - 1
  BY <1>1, <1>2, AllFinite, FS_RemoveElement
<1>3. CASE ~ \E n \in All : n[1] = k
  <2>1. {n \in All : n[1] # k} = All
    BY <1>3
  <2>2. QED
    BY <1>3, <2>1, AllFinite
<1>4. QED
  BY <1>2, <1>3

LEMMA InsertCounts ==
  ASSUME IInv, Counted, NEW k \in Keys, NEW v \in Values, Insert(k, v)
  PROVE  Counted'
<1>. DEFINE rest == {n \in All : n[1] # k}
<1>1. /\ All' = rest \cup {<<k, v>>}
      /\ Holds(Grown[Index(k, GrownCapacity)], k) <=> \E n \in All : n[1] = k
  BY InsertStep
<1>2. /\ IsFiniteSet(rest)
      /\ Cardinality(rest) = IF \E n \in All : n[1] = k THEN Cardinality(All) - 1 ELSE Cardinality(All)
  BY WithoutKey DEF Insert
<1>3. <<k, v>> \notin rest
  OBVIOUS
<1>. HIDE DEF rest
<1>4. Cardinality(All') = Cardinality(rest) + 1
  BY <1>1, <1>2, <1>3, FS_AddElement
<1>5. size' = (IF \E n \in All : n[1] = k THEN size ELSE size + 1) /\ failures' = failures
  BY <1>1 DEF Insert
<1>6. QED
  BY <1>2, <1>4, <1>5, AllFinite DEF Counted

LEMMA EraseCounts ==
  ASSUME IInv, Counted, NEW k \in Keys, Erase(k)
  PROVE  Counted'
<1>1. All' = {n \in All : n[1] # k} /\ \E n \in All : n[1] = k
  BY EraseStep
<1>2. Cardinality(All') = Cardinality(All) - 1 /\ Cardinality(All') \in Nat
  BY <1>1, WithoutKey, FS_CardinalityType DEF Erase
<1>3. size' = size - 1 /\ failures' = failures
  BY DEF Erase
<1>4. QED
  BY <1>2, <1>3, AllFinite DEF Counted

LEMMA EraseSomeCounts ==
  ASSUME IInv, Counted, NEW S \in SUBSET Keys, EraseSome(S)
  PROVE  Counted'
<1>. DEFINE gone == {n \in All : n[1] \in S}
<1>1. All' = All \ gone /\ All \cap gone = gone /\ gone \subseteq All
  BY EraseSomeStep
<1>2. size' = size - Cardinality(gone) /\ failures' = failures
  BY DEF EraseSome
<1>. HIDE DEF gone
<1>3. Cardinality(All') = Cardinality(All) - Cardinality(gone)
  <2>1. Cardinality(All \ gone) = Cardinality(All) - Cardinality(All \cap gone)
    BY AllFinite, FS_Difference
  <2>2. QED
    BY <1>1, <2>1
<1>4. Cardinality(gone) \in Nat /\ Cardinality(gone) <= Cardinality(All)
  BY <1>1, AllFinite, FS_Subset, FS_CardinalityType
<1>5. QED
  BY <1>2, <1>3, <1>4, AllFinite DEF Counted

\* A failure can only lose nodes.
LEMMA FailureCounts ==
  ASSUME IInv, Counted, Failure, All' \in SUBSET All,
         size' = size \/ (All' = {} /\ size' \in Nat)
  PROVE  Counted'
<1>1. Cardinality(All') <= Cardinality(All) /\ Cardinality({}) = 0
  BY AllFinite, FS_Subset, FS_EmptySet
<1>2. failures' \in 0 .. MaxFailures /\ failures' # 0
  BY HashAssumption DEF Failure, Counted
<1>3. Cardinality(All') \in Nat
  BY AllFinite, FS_Subset, FS_CardinalityType
<1>4. QED
  BY <1>1, <1>2, <1>3, AllFinite DEF Counted

\* Every step keeps the count.
LEMMA NextCounted == IInv /\ Counted /\ [Next]_vars => Counted'
<1>1. SUFFICES ASSUME IInv, Counted, [Next]_vars PROVE Counted'
  OBVIOUS
<1>2. ASSUME NEW k \in Keys, NEW v \in Values, Insert(k, v) PROVE Counted'
  BY <1>1, <1>2, InsertCounts
<1>3. ASSUME NEW k \in Keys, InsertFails(k) PROVE Counted'
  BY <1>1, <1>3, InsertFailsStep, FailureCounts DEF InsertFails
<1>4. ASSUME NEW k \in Keys, Erase(k) PROVE Counted'
  BY <1>1, <1>4, EraseCounts
<1>5. ASSUME NEW k \in Keys, EraseMissing(k) PROVE Counted'
  BY <1>1, <1>5 DEF EraseMissing, Counted, All
<1>6. ASSUME NEW S \in SUBSET Keys, EraseSome(S) PROVE Counted'
  BY <1>1, <1>6, EraseSomeCounts
<1>7. ASSUME NEW minimum \in ReserveSizes, Reserve(minimum) PROVE Counted'
  <2>1. All' = All
    BY <1>1, <1>7, ReserveStep, HashAssumption
  <2>2. QED
    BY <1>1, <1>7, <2>1 DEF Reserve, Counted
<1>8. ASSUME Clear PROVE Counted'
  <2>1. All' = {}
    BY <1>1, <1>8, ClearStep
  <2>2. QED
    BY <1>1, <1>8, <2>1, FS_EmptySet DEF Clear, Counted
<1>9. ASSUME NEW k \in Keys, ShrinkFails(k) PROVE Counted'
  <2>1. All' = {} /\ Failure /\ size' \in Int /\ size' = size - 1 /\ size - 1 = 0
    BY <1>1, <1>9, NoBucketsStep DEF ShrinkFails, NoBuckets, ShouldShrink
  <2>2. QED
    BY <1>1, <2>1, FailureCounts
<1>10. ASSUME NEW minimum \in ReserveSizes, ReserveFails(minimum) PROVE Counted'
  BY <1>1, <1>10, NoBucketsStep, FailureCounts DEF ReserveFails, NoBuckets
<1>11. ASSUME GrowFails \/ ClearFails PROVE Counted'
  BY <1>1, <1>11, NoBucketsStep, FailureCounts DEF GrowFails, ClearFails, NoBuckets
<1>12. ASSUME UNCHANGED vars PROVE Counted'
  BY <1>1, <1>12 DEF vars, Counted, All
<1>13. QED
  BY <1>1, <1>2, <1>3, <1>4, <1>5, <1>6, <1>7, <1>8, <1>9, <1>10, <1>11, <1>12 DEF Next

LEMMA InitCounted == Init => Counted
<1>1. SUFFICES ASSUME Init PROVE Counted
  OBVIOUS
<1>2. AtLeast(InitialCapacity) \in Nat \ {0}
  BY HashAssumption, AtLeastNat
<1>3. All = {}
  BY <1>1, <1>2, EmptyGood DEF Init, All
<1>4. QED
  BY <1>1, <1>3, FS_EmptySet, HashAssumption DEF Init, Counted

\* size is the number of entries until an allocation fails, and never less.
THEOREM SizeCountsHolds == Spec => []SizeCounts
<1>1. IInv /\ Counted => SizeCounts
  BY DEF Counted, SizeCounts
<1>2. QED
  BY <1>1, InitIInv, InitCounted, NextIInv, NextCounted, PTL DEF Spec

\* What a call may return.
ReturnOK == last[2] \in {"success", "inserted", "updated", "not_found", "error", "crash"}

LEMMA NextReturns == ReturnOK /\ [Next]_vars => ReturnOK'
<1>1. ASSUME NEW k \in Keys, NEW v \in Values, Insert(k, v) PROVE ReturnOK'
  <2>1. last'[2] = "updated" \/ last'[2] = "inserted"
    BY <1>1 DEF Insert
  <2>2. QED
    BY <2>1 DEF ReturnOK
<1>2. ASSUME NEW k \in Keys, InsertFails(k) \/ Erase(k) \/ EraseMissing(k) \/ ShrinkFails(k)
      PROVE  ReturnOK'
  BY <1>2 DEF ReturnOK, InsertFails, Erase, EraseMissing, ShrinkFails, NoBuckets
<1>3. ASSUME NEW S \in SUBSET Keys, EraseSome(S) PROVE ReturnOK'
  BY <1>3 DEF ReturnOK, EraseSome
<1>4. ASSUME NEW minimum \in ReserveSizes, Reserve(minimum) \/ ReserveFails(minimum)
      PROVE  ReturnOK'
  BY <1>4 DEF ReturnOK, Reserve, ReserveFails, NoBuckets
<1>5. ASSUME Clear \/ GrowFails \/ ClearFails PROVE ReturnOK'
  BY <1>5 DEF ReturnOK, Clear, GrowFails, ClearFails, NoBuckets
<1>6. ASSUME ReturnOK, UNCHANGED vars PROVE ReturnOK'
  BY <1>6 DEF ReturnOK, vars
<1>7. QED
  BY <1>1, <1>2, <1>3, <1>4, <1>5, <1>6 DEF Next

\* The table has at least the least number of buckets, with chains of nodes.
THEOREM TypeCorrect == Spec => []TypeOK
<1>1. Init => ReturnOK
  BY DEF Init, ReturnOK
<1>2. IInv /\ Counted /\ ReturnOK => TypeOK
  BY DEF IInv, Good, Counted, ReturnOK, TypeOK
<1>3. QED
  BY <1>1, <1>2, InitIInv, InitCounted, NextIInv, NextCounted, NextReturns, PTL DEF Spec

-----------------------------------------------------------------------------
(* The refinement. *)

\* The entries of a map that is restricted, and of one that is changed at a key.
LEMMA GraphOfOnly ==
  ASSUME NEW f, NEW g, NEW S, g = [k \in DOMAIN f \cap S |-> f[k]]
  PROVE  GraphOf(g) = {n \in GraphOf(f) : n[1] \in S}
  BY DEF GraphOf

Override(f, k, v) == [x \in DOMAIN f \cup {k} |-> IF x = k THEN v ELSE f[x]]

LEMMA GraphOfOverride ==
  ASSUME NEW f, NEW k, NEW v
  PROVE  /\ GraphOf(Override(f, k, v)) = {n \in GraphOf(f) : n[1] # k} \cup {<<k, v>>}
         /\ IsMap(Override(f, k, v))
<1>. DEFINE g == Override(f, k, v)
<1>1. DOMAIN g = DOMAIN f \cup {k} /\ \A x \in DOMAIN g : g[x] = IF x = k THEN v ELSE f[x]
  BY DEF Override
<1>2. IsMap(g)
  BY DEF IsMap, Override
<1>. HIDE DEF g
<1>3. GraphOf(g) = {n \in GraphOf(f) : n[1] # k} \cup {<<k, v>>}
  BY <1>1 DEF GraphOf
<1>4. QED
  BY <1>2, <1>3 DEF g

M == Contents(nodes, capacity)

\* The map of a table in order is a function whose entries are the nodes.
LEMMA ContentsOf ==
  ASSUME IInv
  PROVE  GraphOf(M) = All /\ IsMap(M) /\ DOMAIN M = Present(nodes, capacity)
  BY GraphOfContents DEF IInv, M, All, Contents, IsMap

LEMMA OnlyStep ==
  ASSUME IInv, IInv', NEW S, All' = {n \in All : n[1] \in S}
  PROVE  M' = [k \in DOMAIN M \cap S |-> M[k]]
<1>. DEFINE g == [k \in DOMAIN M \cap S |-> M[k]]
<1>1. GraphOf(M) = All
  BY ContentsOf
<1>2. GraphOf(M') = All' /\ IsMap(M')
  BY GraphOfContents DEF IInv, M, All, Contents, IsMap
<1>3. GraphOf(g) = {n \in All : n[1] \in S}
  BY <1>1, GraphOfOnly
<1>4. IsMap(g)
  BY DEF IsMap
<1>. HIDE DEF g
<1>5. M' = g
  BY <1>2, <1>3, <1>4, SameGraph
<1>6. QED
  BY <1>5 DEF g
LEMMA OverrideStep ==
  ASSUME IInv, IInv', NEW k, NEW v, All' = {n \in All : n[1] # k} \cup {<<k, v>>}
  PROVE  M' = Override(M, k, v)
<1>1. GraphOf(M) = All
  BY ContentsOf
<1>2. GraphOf(M') = All' /\ IsMap(M')
  BY GraphOfContents DEF IInv, M, All, Contents, IsMap
<1>3. GraphOf(Override(M, k, v)) = GraphOf(M')
  BY <1>1, <1>2, GraphOfOverride
<1>4. QED
  BY <1>2, <1>3, GraphOfOverride, SameGraph

\* A key is in the map if it has a node.
LEMMA InMap ==
  ASSUME IInv, NEW k \in Keys
  PROVE  k \in DOMAIN M <=> \E n \in All : n[1] = k
<1>1. GraphOf(M) = All
  BY ContentsOf
<1>2. ASSUME k \in DOMAIN M PROVE \E n \in All : n[1] = k
  <2>1. <<k, M[k]>> \in All
    BY <1>1, <1>2 DEF GraphOf
  <2>2. QED
    BY <2>1
<1>3. ASSUME NEW n \in All, n[1] = k PROVE k \in DOMAIN M
  <2>1. PICK x \in DOMAIN M : n = <<x, M[x]>>
    BY <1>1 DEF GraphOf
  <2>2. QED
    BY <1>3, <2>1
<1>4. QED
  BY <1>2, <1>3

LEMMA AllKeys ==
  ASSUME IInv
  PROVE  \A n \in All : n[1] \in Keys
<1>1. CASE nodes = NULL
  BY <1>1 DEF All, In, NULL
<1>2. CASE Good(nodes, capacity)
  BY <1>2, NodeAt DEF IInv, All, Nodes
<1>3. QED
  BY <1>1, <1>2 DEF IInv

\* Every initial table is an initial map.
LEMMA MapInit == Init => Map!Init
<1>1. SUFFICES ASSUME Init PROVE Map!Init
  OBVIOUS
<1>2. IInv
  BY <1>1, InitIInv
<1>3. All = {}
  <2>1. AtLeast(InitialCapacity) \in Nat \ {0}
    BY HashAssumption, AtLeastNat
  <2>2. QED
    BY <1>1, <2>1, EmptyGood DEF Init, All
<1>4. DOMAIN M = {}
  BY <1>2, <1>3, ContentsOf DEF GraphOf
<1>5. QED
  BY <1>1, <1>4 DEF Init, Map!Init, M

\* Every step of the table is a step of the map.
LEMMA MapNext == IInv /\ [Next]_vars => [Map!Next]_(Map!mapVars)
<1>1. SUFFICES ASSUME IInv, [Next]_vars PROVE [Map!Next]_(Map!mapVars)
  OBVIOUS
<1>2. IInv'
  BY <1>1, NextIInv
<1>3. ASSUME NEW k \in Keys, NEW v \in Values, Insert(k, v) PROVE Map!Insert(k, v)
  <2>. All' = {n \in All : n[1] # k} \cup {<<k, v>>}
    BY <1>1, <1>3, InsertStep
  <2>1. M' = Override(M, k, v)
    BY <1>1, <1>2, OverrideStep
  <2>2. Holds(Grown[Index(k, GrownCapacity)], k) <=> k \in DOMAIN M
    BY <1>1, <1>3, InsertStep, InMap
  <2>3. QED
    BY <1>3, <2>1, <2>2 DEF Insert, Map!Insert, Override, M
<1>4. ASSUME NEW k \in Keys, Erase(k) PROVE Map!Erase(k)
  <2>1. All' = {n \in All : n[1] \in Keys \ {k}} /\ k \in DOMAIN M
    BY <1>1, <1>4, EraseStep, InMap, AllKeys
  <2>2. M' = [x \in DOMAIN M \cap (Keys \ {k}) |-> M[x]]
    BY <1>1, <1>2, <2>1, OnlyStep
  <2>3. QED
    BY <1>4, <2>1, <2>2 DEF Erase, Map!Erase, Map!Only, M
<1>5. ASSUME NEW k \in Keys, EraseMissing(k) PROVE Map!Erase(k)
  <2>1. All' = All
    BY <1>5 DEF EraseMissing, All
  <2>2. Good(nodes, capacity) /\ capacity \in Nat \ {0}
    BY <1>1, <1>5 DEF IInv, EraseMissing
  <2>3. k \notin DOMAIN M
    BY <1>1, <1>5, <2>2, HoldsIn, InMap DEF EraseMissing, All
  <2>4. All' = {n \in All : n[1] \in Keys \ {k}}
    BY <1>1, <2>1, <2>3, InMap, AllKeys
  <2>5. M' = [x \in DOMAIN M \cap (Keys \ {k}) |-> M[x]]
    BY <1>1, <1>2, <2>4, OnlyStep
  <2>6. QED
    BY <1>5, <2>3, <2>5 DEF EraseMissing, Map!Erase, Map!Only, M
<1>6. ASSUME NEW S \in SUBSET Keys, EraseSome(S) PROVE Map!EraseSome(S)
  <2>1. All' = {n \in All : n[1] \in Keys \ S}
    BY <1>1, <1>6, EraseSomeStep, AllKeys
  <2>2. M' = [x \in DOMAIN M \cap (Keys \ S) |-> M[x]]
    BY <1>1, <1>2, <2>1, OnlyStep
  <2>3. QED
    BY <1>6, <2>2 DEF EraseSome, Map!EraseSome, Map!Only, M
<1>7. ASSUME NEW minimum \in ReserveSizes, Reserve(minimum) PROVE Map!Reserve
  <2>1. All' = {n \in All : n[1] \in Keys}
    BY <1>1, <1>7, ReserveStep, AllKeys, HashAssumption
  <2>2. M' = [x \in DOMAIN M \cap Keys |-> M[x]]
    BY <1>1, <1>2, <2>1, OnlyStep
  <2>3. DOMAIN M \cap Keys = DOMAIN M
    BY <1>1, ContentsOf DEF Present
  <2>4. M' = M
    BY <1>1, <2>2, <2>3, ContentsOf DEF IsMap
  <2>5. QED
    BY <1>7, <2>4 DEF Reserve, Map!Reserve, M
<1>8. ASSUME All' = {} PROVE M' = [x \in DOMAIN M \cap {} |-> M[x]]
  BY <1>1, <1>2, <1>8, OnlyStep
<1>9. ASSUME Clear PROVE Map!Clear
  BY <1>1, <1>8, <1>9, ClearStep DEF Clear, Map!Clear, Map!Only, M
<1>10. ASSUME ClearFails PROVE Map!Clear
  BY <1>1, <1>8, <1>10, NoBucketsStep DEF ClearFails, NoBuckets, Map!Clear, Map!Only, M
<1>11. ASSUME NEW k \in Keys, InsertFails(k) PROVE \E S \in SUBSET Keys : Map!Fail(S)
  <2>1. PICK S \in SUBSET Keys : All' = {n \in All : n[1] \in S}
    BY <1>1, <1>11, InsertFailsStep
  <2>2. M' = [x \in DOMAIN M \cap S |-> M[x]]
    BY <1>1, <1>2, <2>1, OnlyStep
  <2>3. Map!Fail(S)
    BY <1>11, <2>2 DEF InsertFails, Map!Fail, Map!Only, M
  <2>4. QED
    BY <2>3
<1>12. ASSUME NEW call \in {<<<<"any">>, "error">>, <<<<"any">>, "crash">>},
              NoBuckets(call), size' \in {size, size - 1}
       PROVE  Map!Fail({})
  BY <1>1, <1>8, <1>12, NoBucketsStep DEF NoBuckets, Map!Fail, Map!Only, M
<1>13. ASSUME NEW k \in Keys, ShrinkFails(k) PROVE Map!Fail({})
  BY <1>12, <1>13 DEF ShrinkFails
<1>14. ASSUME NEW minimum \in ReserveSizes, ReserveFails(minimum) PROVE Map!Fail({})
  BY <1>12, <1>14 DEF ReserveFails
<1>15. ASSUME GrowFails PROVE Map!Fail({})
  BY <1>12, <1>15 DEF GrowFails
<1>16. ASSUME UNCHANGED vars PROVE UNCHANGED Map!mapVars
  BY <1>16 DEF vars, Map!mapVars
<1>17. QED
  BY <1>1, <1>3, <1>4, <1>5, <1>6, <1>7, <1>9, <1>10, <1>11, <1>13, <1>14, <1>15, <1>16
     DEF Next, Map!Next

\* Through every growth, shrinking and failed allocation the hash table is a map:
\* what a lookup finds is what was last inserted under the key.
THEOREM RefinesMap == Spec => ImplementsMap
<1>1. Map!Spec <=> Map!Init /\ [][Map!Next]_(Map!mapVars)
  BY DEF Map!Spec
<1>2. QED
  BY <1>1, MapInit, MapNext, IInvHolds, PTL DEF Spec, ImplementsMap
-----------------------------------------------------------------------------
\* Lookups that search one bucket find the one node of their key.
THEOREM ChainsSoundHolds == Spec => []ChainsSound
  BY PlacedHolds, UniqueHolds, PTL DEF ChainsSound

\* The counters count what is there, within the bound the code asserts.
THEOREM CountersSoundHolds == Spec => []CountersSound
  BY TypeCorrect, SizeCountsHolds, SizeBoundedHolds, PTL DEF CountersSound

-----------------------------------------------------------------------------
(* Fitting for strings of any length: strbuf_push asks strbuf_expand for the *)
(* length of the string alone, and doubling what is larger of that and the *)
(* buffer is enough for both.                                              *)

\* The inductive invariant: what is pushed fits, and both counters are numbers.
BufInv == len \in Nat /\ cap \in Nat /\ Fitting

\* strbuf_expand makes room for a string that did not fit: either it is shorter
\* than the buffer, which then covers it, or it is as long as all that is there.
LEMMA ExpandedSuffices ==
  ASSUME BufInv, NEW n \in Nat
  PROVE  Expanded(n + 1) \in Nat /\ len + n + 1 <= Expanded(n + 1)
<1>1. CASE n + 1 < cap
  BY <1>1 DEF Expanded, BufInv, Fitting
<1>2. CASE ~(n + 1 < cap)
  BY <1>2 DEF Expanded, BufInv, Fitting
<1> QED BY <1>1, <1>2

LEMMA BufInvStep == BufInv /\ [BufNext]_bufVars => BufInv'
<1> SUFFICES ASSUME BufInv, [BufNext]_bufVars PROVE BufInv'
  OBVIOUS
<1>1. ASSUME NEW n \in Lengths, Push(n) PROVE BufInv'
  <2>1. n \in Nat
    BY StringBufferAssumption
  <2>2. CASE len + n + 1 > cap
    <3>1. len' = len + n /\ cap' = Expanded(n + 1)
      BY <1>1, <2>2 DEF Push
    <3>2. Expanded(n + 1) \in Nat /\ len + n + 1 <= Expanded(n + 1)
      BY <2>1, ExpandedSuffices
    <3> HIDE DEF Expanded
    <3> QED BY <2>1, <3>1, <3>2 DEF BufInv, Fitting
  <2>3. CASE ~(len + n + 1 > cap)
    BY <1>1, <2>1, <2>3 DEF Push, BufInv, Fitting
  <2> QED BY <2>2, <2>3
<1>2. ASSUME NEW n \in Lengths, PushFails(n) PROVE BufInv'
  BY <1>2 DEF PushFails, BufInv, Fitting
<1>3. CASE UNCHANGED bufVars
  BY <1>3 DEF bufVars, BufInv, Fitting
<1> QED BY <1>1, <1>2, <1>3 DEF BufNext

\* strbuf_push: what was pushed and the terminator lie inside the buffer, for any
\* lengths and any first capacity.
THEOREM BufferHolds == BufSpec => []Fitting
<1>1. BufInit => BufInv
  BY StringBufferAssumption DEF BufInit, BufInv, Fitting
<1>2. BufInv => Fitting
  BY DEF BufInv
<1> QED BY <1>1, <1>2, BufInvStep, PTL DEF BufSpec

-----------------------------------------------------------------------------
(* What mem_reg promises for every set of addresses and claimed pages.        *)

(* The inductive invariant: a window that is kept begins on a boundary of its *)
(* kind, so an aligned address within its size lies within its pages.         *)
Reachable ==
    /\ area = NoArea \/ (area.offset \in Nat /\ area.offset % 4 = 0 /\ area.size \in {65535, Page})
    /\ windows = (IF Loaded THEN 1 ELSE 0)
    /\ Loaded => Allowed(area)
    /\ at # Outside

LEMMA WindowShape ==
    ASSUME NEW addr \in Addresses
    PROVE  /\ Window(addr).offset \in Nat /\ Window(addr).offset % 4 = 0 /\ Window(addr).size = 65535
           /\ OnePage(addr).offset \in Nat /\ OnePage(addr).offset % 4 = 0 /\ OnePage(addr).size = Page
           /\ Window(addr) # NoArea /\ OnePage(addr) # NoArea
<1>1. addr \in Nat /\ addr > 0 /\ addr % 4 = 0
  BY AddressAssumption
<1>2. addr - (addr % 65536) \in Nat /\ (addr - (addr % 65536)) % 4 = 0
  BY <1>1
<1>3. addr - (addr % Page) \in Nat /\ (addr - (addr % Page)) % 4 = 0
  <2>1. CASE Page = 4096 BY <1>1, <2>1
  <2>2. CASE Page = 16384 BY <1>1, <2>2
  <2>3. CASE Page = 65536 BY <1>1, <2>3
  <2> QED BY <2>1, <2>2, <2>3, PageAssumption
<1> QED BY <1>2, <1>3, PageAssumption DEF Window, OnePage, NoArea

(* A fresh window reaches the address it was mapped for.                      *)
LEMMA FreshReaches ==
    ASSUME NEW addr \in Addresses
    PROVE  Reached(Window(addr), addr) = addr /\ Reached(OnePage(addr), addr) = addr
<1>1. addr \in Nat /\ addr > 0 /\ addr % 4 = 0
  BY AddressAssumption
<1>2. addr - (addr % 65536) <= addr /\ addr + 4 <= (addr - (addr % 65536)) + 65536
  BY <1>1
<1>3. addr - (addr % Page) <= addr /\ addr + 4 <= (addr - (addr % Page)) + Page
  <2>1. CASE Page = 4096 BY <1>1, <2>1
  <2>2. CASE Page = 16384 BY <1>1, <2>2
  <2>3. CASE Page = 65536 BY <1>1, <2>3
  <2> QED BY <2>1, <2>2, <2>3, PageAssumption
<1> QED BY <1>2, <1>3, PageAssumption DEF Reached, Pages, Window, OnePage

(* So does a window kept from an earlier call.                                *)
LEMMA KeptReaches ==
    ASSUME NEW addr \in Addresses, Reachable, InCache(addr)
    PROVE  Reached(area, addr) = addr
<1>1. addr \in Nat /\ addr % 4 = 0
  BY AddressAssumption
<1>2. /\ area.offset \in Nat /\ area.offset % 4 = 0 /\ area.size \in {65535, Page}
      /\ area.offset <= addr /\ addr - area.offset < area.size
  BY DEF Reachable, InCache, Loaded
<1>3. CASE area.size = 65535
  <2>1. addr + 4 <= area.offset + 65536
    BY <1>1, <1>2, <1>3
  <2> QED BY <1>2, <1>3, <2>1 DEF Reached, Pages
<1>4. CASE area.size = Page
  <2>1. addr + 4 <= area.offset + Page
    <3>1. CASE Page = 4096 BY <1>1, <1>2, <1>4, <3>1
    <3>2. CASE Page = 16384 BY <1>1, <1>2, <1>4, <3>2
    <3>3. CASE Page = 65536 BY <1>1, <1>2, <1>4, <3>3
    <3> QED BY <3>1, <3>2, <3>3, PageAssumption
  <2>2. Pages(area) = Page
    BY <1>4, PageAssumption DEF Pages
  <2> QED BY <1>2, <2>1, <2>2 DEF Reached
<1> QED BY <1>2, <1>3, <1>4

LEMMA CallSound ==
    ASSUME Reachable, NEW addr \in Addresses, Call(addr)
    PROVE  Reachable'
<1>1. addr \in Nat
  BY AddressAssumption
<1>2. CASE InCache(addr)
  <2>1. UNCHANGED <<area, windows>> /\ at' = addr
    BY <1>2, KeptReaches DEF Call
  <2>2. at' # Outside
    BY <1>1, <2>1 DEF Outside
  <2> QED BY <2>1, <2>2 DEF Reachable, Loaded, Allowed, Pages
<1>3. ASSUME ~InCache(addr), NEW w \in Mappable(memFd', addr), area' = w, at' = Reached(w, addr),
             windows' = IF Loaded THEN windows ELSE windows + 1
      PROVE  Reachable'
  <2>1. w \in {Window(addr), OnePage(addr)} /\ Allowed(w)
    BY <1>3 DEF Mappable
  <2>2. w.offset \in Nat /\ w.offset % 4 = 0 /\ w.size \in {65535, Page} /\ w # NoArea
    BY <2>1, WindowShape
  <2>3. at' # Outside
    BY <1>1, <1>3, <2>1, FreshReaches DEF Outside
  <2>4. windows' = 1 /\ Loaded'
    BY <1>3, <2>2 DEF Reachable, Loaded
  <2> QED BY <1>3, <2>1, <2>2, <2>3, <2>4 DEF Reachable, Allowed, Pages
<1>4. CASE area' = NoArea /\ windows' = (IF Loaded THEN windows - 1 ELSE windows) /\ at' = Nothing
  BY <1>4 DEF Reachable, Loaded, Nothing, Outside
<1> QED BY <1>2, <1>3, <1>4 DEF Call

LEMMA StepSound == Reachable /\ [MemNext]_memVars => Reachable'
<1> SUFFICES ASSUME Reachable, [MemNext]_memVars PROVE Reachable'
  OBVIOUS
<1>1. CASE CallNoPinmux
  BY <1>1 DEF CallNoPinmux, Reachable, Loaded, Allowed, Pages, Nothing, Outside
<1>2. CASE CallCleanUp
  BY <1>2 DEF CallCleanUp, Reachable, Loaded, Nothing, Outside
<1>3. CASE \E addr \in Addresses : Call(addr)
  BY <1>3, CallSound
<1>4. CASE UNCHANGED memVars
  BY <1>4 DEF memVars, Reachable, Loaded, Allowed, Pages
<1> QED BY <1>1, <1>2, <1>3, <1>4 DEF MemNext

(* Every register access of the program, whatever was accessed before and     *)
(* however calls failed, lies in the window that is mapped at the time.       *)
THEOREM AccessesInside == MemSpec => []NeverOutside
<1>1. MemInit => Reachable
  BY DEF MemInit, Reachable, Loaded, Nothing, Outside
<1>2. Reachable => NeverOutside
  BY DEF Reachable, NeverOutside
<1> QED BY <1>1, <1>2, StepSound, PTL DEF MemSpec

(* Moving the window leaks none, and never maps a driver's page.              *)
THEOREM WindowKept == MemSpec => []OneWindow
<1>1. MemInit => Reachable
  BY DEF MemInit, Reachable, Loaded, Nothing, Outside
<1>2. Reachable => OneWindow
  BY DEF Reachable, OneWindow
<1> QED BY <1>1, <1>2, StepSound, PTL DEF MemSpec

(* mem_reg touches registers inside the one window it has mapped.             *)
THEOREM WindowSoundHolds == MemSpec => []WindowSound
  BY AccessesInside, WindowKept, PTL DEF WindowSound
-----------------------------------------------------------------------------
(* The watchdog command, for every driver, options in any number and order,   *)
(* and a signal at any moment.                                                *)

DogVarsOK ==
    /\ dogEnv \in DogCases /\ dog \in DogType
    /\ optind \in Nat \ {0} /\ pingRate \in Nat /\ slept \in Nat
    /\ stopRet \in {"none", "ok", "failed"}

(* Between two feedings the watchdog has run down by the time slept at most.  *)
LeftToSleep ==
    (~dogEnv.faults /\ Understood(NewHisiCtl) /\ wpc = "sleep") =>
        slept <= pingRate /\ dog.timeout <= dog.left + slept

(* The inductive invariant: the watchdog fires only in a sleep or when the    *)
(* program is gone, and stopping is the program's last call.                  *)
Minding ==
    /\ DogVarsOK /\ LeftToSleep /\ DogMinded
    /\ wpc # "done" => ~dog.fired /\ stopRet = "none"
    /\ wpc = "done" /\ wout = "runs" => dog.fired

LEMMA DogFields ==
    ASSUME NEW d \in DogType
    PROVE  /\ d.on \in BOOLEAN /\ d.left \in Nat /\ d.timeout \in Nat
           /\ d.expect \in BOOLEAN /\ d.fired \in BOOLEAN
  BY DEF DogType

LEMMA DogOps ==
    ASSUME NEW d \in DogType
    PROVE  /\ Started(d) \in DogType /\ Started(d).fired = d.fired
           /\ Stopped(d) \in DogType /\ Stopped(d).fired = d.fired /\ ~Stopped(d).on
           /\ Stopped(d).left = d.left /\ Stopped(d).timeout = d.timeout
           /\ Fed(d) \in DogType /\ Fed(d).fired = d.fired /\ Fed(d).left = d.timeout
           /\ Fed(d).timeout = d.timeout /\ Fed(d).on = d.on
           /\ Closed(d) \in DogType /\ Closed(d).fired = d.fired
           /\ \A t \in Nat : Timed(d, t) \in DogType /\ Timed(d, t).fired = d.fired
           /\ Announced(d) \in DogType /\ Announced(d).fired = d.fired /\ Announced(d).expect
           /\ ~d.on => ~Closed(d).on
           /\ d.expect => ~Closed(d).on
  BY DEF DogType, Started, Stopped, Fed, Closed, Timed, Announced

LEMMA DogLeft ==
    ASSUME NEW d \in DogType, NEW n \in Nat, NEW e, e = [d EXCEPT !.left = n]
    PROVE  e \in DogType /\ e.timeout = d.timeout /\ e.on = d.on /\ e.left = n /\ e.fired = d.fired
  BY DEF DogType

LEMMA DogPasses ==
    ASSUME NEW d \in DogType
    PROVE  /\ Passed(d) \in DogType /\ Passed(d).timeout = d.timeout /\ Passed(d).on = d.on
           /\ d.on /\ d.left > 1 => Passed(d).left = d.left - 1 /\ Passed(d).fired = d.fired
           /\ d.on /\ ~(d.left > 1) => Passed(d).left = 0 /\ Passed(d).fired
           /\ ~d.on => Passed(d) = d
<1> DEFINE e == Passed(d)
           less == d.left - 1
<1>1. d.left \in Nat /\ (d.left > 1 => less \in Nat)
  BY DogFields
<1>2. (~d.on => e = d) /\ (d.on /\ d.left > 1 => e = [d EXCEPT !.left = less])
      /\ (d.on /\ ~(d.left > 1) => e = [[d EXCEPT !.left = 0] EXCEPT !.fired = TRUE])
  BY DEF Passed
<1> HIDE DEF e, less
<1>3. CASE d.on /\ d.left > 1
  <2>1. e \in DogType /\ e.timeout = d.timeout /\ e.on = d.on /\ e.left = less /\ e.fired = d.fired
    BY <1>1, <1>2, <1>3, DogLeft
  <2> QED BY <1>3, <2>1 DEF e, less
<1>4. CASE d.on /\ ~(d.left > 1)
  <2> DEFINE spent == [d EXCEPT !.left = 0]
  <2>1. spent \in DogType /\ spent.timeout = d.timeout /\ spent.on = d.on /\ spent.left = 0
    BY DogLeft
  <2>2. e = [spent EXCEPT !.fired = TRUE]
    BY <1>2, <1>4
  <2> HIDE DEF spent
  <2>3. e \in DogType /\ e.timeout = d.timeout /\ e.on = d.on /\ e.left = 0 /\ e.fired
    BY <2>1, <2>2 DEF DogType
  <2> QED BY <1>4, <2>3 DEF e
<1> QED BY <1>2, <1>3, <1>4 DEF e

LEMMA MindingStarts == ASSUME DogInit PROVE Minding
<1>1. /\ dogEnv \in DogCases /\ dog = dogEnv.dog /\ wpc = "open" /\ optind = 1 /\ pingRate = DefaultPing
      /\ slept = 0 /\ stopRet = "none"
  BY DEF DogInit, WatchdogInit
<1>2. dog \in DogType /\ ~dog.fired /\ DefaultPing \in Nat
  BY <1>1, DogAssumption
<1> QED BY <1>1, <1>2 DEF Minding, DogVarsOK, LeftToSleep, DogMinded, FedInTime, OffAtEnd

(* watchdog_stop stops the watchdog when it says so.                          *)
LEMMA StopStops ==
    ASSUME dog \in DogType, NEW failed, WatchdogStop(failed)
    PROVE  /\ dog' \in DogType /\ dog'.fired = dog.fired /\ stopRet' \in {"ok", "failed"}
           /\ stopRet' = "ok" => ~dog'.on
<1>1. \/ dog' = Closed(dog) /\ stopRet' = "failed"
      \/ dog' = Closed(Stopped(dog)) /\ stopRet' = "ok"
      \/ dog' = Closed(Announced(dog)) /\ stopRet' = "ok"
  BY DEF WatchdogStop
<1>2. CASE dog' = Closed(dog) /\ stopRet' = "failed"
  BY <1>2, DogOps
<1>3. CASE dog' = Closed(Stopped(dog)) /\ stopRet' = "ok"
  <2>1. Stopped(dog) \in DogType /\ Stopped(dog).fired = dog.fired /\ ~Stopped(dog).on
    BY DogOps
  <2> QED BY <1>3, <2>1, DogOps
<1>4. CASE dog' = Closed(Announced(dog)) /\ stopRet' = "ok"
  <2>1. Announced(dog) \in DogType /\ Announced(dog).fired = dog.fired /\ Announced(dog).expect
    BY DogOps
  <2> QED BY <1>4, <2>1, DogOps
<1> QED BY <1>1, <1>2, <1>3, <1>4

(* The options change the watchdog but never make it fire.                    *)
LEMMA OptionMinds == ASSUME Minding, Option PROVE Minding'
<1> DEFINE o == dogEnv.opts[optind]
<1>1. /\ wpc = "options" /\ optind \in Nat \ {0} /\ optind <= Len(dogEnv.opts) /\ dogEnv \in DogCases
      /\ dog \in DogType /\ ~dog.fired /\ stopRet = "none" /\ pingRate \in Nat /\ slept \in Nat
  BY DEF Minding, DogVarsOK, Option
<1>2. o.arg \in Nat
  <2> DEFINE opts == dogEnv.opts
  <2>1. opts \in Seq(DogOption) /\ optind <= Len(opts)
    BY <1>1, DogAssumption
  <2> HIDE DEF opts
  <2>2. optind \in 1 .. Len(opts)
    BY <1>1, <2>1
  <2>3. opts[optind] \in DogOption
    BY <2>1, <2>2
  <2> QED BY <2>3 DEF DogOption, opts
<1>3. dog' \in DogType /\ dog'.fired = dog.fired
  <2>1. PICK failed : dog' = OptionDone(o, failed)
    BY DEF Option
  <2>2. \/ dog' = dog \/ dog' = Stopped(dog) \/ dog' = Started(dog) \/ dog' = Timed(dog, o.arg)
    BY <2>1 DEF OptionDone
  <2>3. CASE dog' = Timed(dog, o.arg)
    <3> HIDE DEF o
    <3> QED BY <1>1, <1>2, <2>3, DogOps
  <2> QED BY <1>1, <2>2, <2>3, DogOps
<1>4. /\ optind' = optind + 1 /\ dogEnv' = dogEnv /\ slept' = slept /\ stopRet' = stopRet
      /\ wpc' \in {"options", "end"} /\ pingRate' \in {o.arg, DefaultPing, pingRate}
  BY <1>1 DEF Option
<1>5. pingRate' \in Nat /\ optind' \in Nat \ {0}
  BY <1>1, <1>2, <1>4, DogAssumption
<1> QED
  BY <1>1, <1>3, <1>4, <1>5 DEF Minding, DogVarsOK, LeftToSleep, DogMinded, FedInTime, OffAtEnd

(* A program that is fed and slept no longer than its rate has not been reset *)
(* before that rate was as long as the watchdog's time.                       *)
LEMMA TickMinds == ASSUME Minding, Tick PROVE Minding'
<1>1. /\ dogEnv \in DogCases /\ dog \in DogType /\ optind \in Nat \ {0} /\ pingRate \in Nat /\ slept \in Nat
      /\ stopRet \in {"none", "ok", "failed"} /\ OffAtEnd
  BY DEF Minding, DogVarsOK, DogMinded
<1>2. /\ dogEnv' = dogEnv /\ optind' = optind /\ pingRate' = pingRate /\ stopRet' = stopRet /\ wout' = wout
      /\ wpc' = (IF dog'.fired THEN "done" ELSE wpc) /\ dog' = Passed(dog) /\ ~dog.fired
      /\ (wpc = "sleep" /\ slept < pingRate /\ slept' = slept + 1) \/ (wpc = "done" /\ dog.on /\ slept' = slept)
  BY DEF Tick
<1>3. /\ dog' \in DogType /\ dog'.timeout = dog.timeout /\ dog'.on = dog.on
      /\ dog.on /\ dog.left > 1 => dog'.left = dog.left - 1 /\ dog'.fired = dog.fired
      /\ dog.on /\ ~(dog.left > 1) => dog'.left = 0 /\ dog'.fired
      /\ ~dog.on => dog' = dog
  BY <1>1, <1>2, DogPasses
<1>4. dog.left \in Nat /\ dog.timeout \in Nat /\ dog.on \in BOOLEAN
  BY <1>1, DogFields
<1>5. CASE wpc = "sleep" /\ slept < pingRate /\ slept' = slept + 1
  <2>1. stopRet = "none"
    BY <1>5 DEF Minding
  <2>2. slept' \in Nat /\ DogVarsOK' /\ OffAtEnd'
    BY <1>1, <1>2, <1>3, <1>5, <2>1 DEF DogVarsOK, OffAtEnd
  <2>3. ASSUME ~dogEnv.faults, Understood(NewHisiCtl)
        PROVE  /\ dog'.timeout <= dog'.left + slept'
               /\ dog'.fired => dog'.timeout <= pingRate
    <3> DEFINE left == dog.left
               time == dog.timeout
               less == dog'.left
    <3>1. time <= left + slept /\ left \in Nat /\ time \in Nat /\ slept \in Nat /\ pingRate \in Nat
      BY <1>1, <1>4, <1>5, <2>3 DEF Minding, LeftToSleep
    <3>2. dog'.timeout = time /\ (less = left \/ less = left - 1 \/ (less = 0 /\ ~(left > 1)))
          /\ (dog'.fired => ~(left > 1)) /\ slept < pingRate /\ slept' = slept + 1
      BY <1>2, <1>3, <1>4, <1>5
    <3> HIDE DEF left, time, less
    <3>3. time <= less + (slept + 1) /\ (~(left > 1) => time <= pingRate)
      BY <3>1, <3>2
    <3> QED BY <3>2, <3>3 DEF less
  <2>4. Understood(NewHisiCtl)' <=> Understood(NewHisiCtl)
    BY <1>2 DEF Understood, NewHisiCtl
  <2>5. LeftToSleep'
    BY <1>1, <1>2, <1>5, <2>3, <2>4 DEF LeftToSleep
  <2>6. FedInTime'
    BY <1>1, <1>2, <1>3, <1>4, <2>3, <2>4 DEF FedInTime
  <2>7. wpc' # "done" => ~dog'.fired /\ stopRet' = "none"
    BY <1>2, <2>1
  <2>8. wpc' = "done" => dog'.fired
    BY <1>2, <1>5
  <2> QED BY <2>2, <2>5, <2>6, <2>7, <2>8 DEF Minding, DogMinded
<1>6. CASE wpc = "done" /\ dog.on /\ slept' = slept
  <2>1. wpc' = "done"
    BY <1>2, <1>6
  <2>2. wout # "runs"
    BY <1>2, <1>6 DEF Minding
  <2>3. OffAtEnd'
    BY <1>1, <1>2, <1>6, <2>1 DEF OffAtEnd
  <2>4. FedInTime' /\ LeftToSleep' /\ DogVarsOK'
    BY <1>1, <1>2, <1>3, <1>6, <2>1, <2>2 DEF FedInTime, LeftToSleep, DogVarsOK
  <2> QED BY <1>2, <2>1, <2>2, <2>3, <2>4 DEF Minding, DogMinded
<1> QED BY <1>2, <1>5, <1>6

LEMMA MindingKept ==
    ASSUME Minding, [DogNext]_<<dog, dogVars>>
    PROVE  Minding'
<1> USE DEF Minding, DogVarsOK, LeftToSleep, DogMinded, FedInTime, OffAtEnd
<1>1. dog \in DogType
  OBVIOUS
<1>2. CASE Open
  <2>1. dog' \in DogType /\ dog'.fired = dog.fired
    BY <1>1, <1>2, DogOps DEF Open
  <2> QED BY <1>2, <2>1 DEF Open
<1>3. CASE Option
  BY <1>3, OptionMinds
<1>4. CASE Options
  BY <1>4 DEF Options
<1>5. CASE Handle
  BY <1>5 DEF Handle
<1>6. CASE Feed
  <2>1. dog' \in DogType /\ dog'.fired = dog.fired
    BY <1>1, <1>6, DogOps DEF Feed, KeepAlive
  <2>2. ASSUME ~dogEnv.faults, Understood(NewHisiCtl) PROVE dog' = Fed(dog)
    BY <1>6, <2>2 DEF Feed, Fails, KeepAlive
  <2>3. Fed(dog).left = dog.timeout /\ Fed(dog).timeout = dog.timeout /\ dog.timeout \in Nat
    BY <1>1, DogOps, DogFields
  <2>4. Understood(NewHisiCtl)' <=> Understood(NewHisiCtl)
    BY <1>6 DEF Feed, Understood, NewHisiCtl
  <2>5. LeftToSleep'
    BY <1>6, <2>2, <2>3, <2>4 DEF Feed
  <2> QED BY <1>6, <2>1, <2>5 DEF Feed
<1>7. CASE Wake
  BY <1>7 DEF Wake
<1>8. ASSUME End \/ Term PROVE Minding'
  <2>1. PICK failed : WatchdogStop(failed)
    BY <1>8 DEF End, Term
  <2>2. /\ dog' \in DogType /\ dog'.fired = dog.fired /\ stopRet' \in {"ok", "failed"}
        /\ stopRet' = "ok" => ~dog'.on
    BY <1>1, <2>1, StopStops
  <2> QED BY <1>8, <2>2 DEF End, Term
<1>9. CASE Killed
  <2>1. dog' \in DogType /\ dog'.fired = dog.fired
    BY <1>1, <1>9, DogOps DEF Killed
  <2> QED BY <1>9, <2>1 DEF Killed
<1>10. CASE Tick
  BY <1>10, TickMinds
<1>11. CASE UNCHANGED <<dog, dogVars>>
  BY <1>11 DEF dogVars, Understood, NewHisiCtl
<1> QED
  BY <1>2, <1>3, <1>4, <1>5, <1>6, <1>7, <1>8, <1>9, <1>10, <1>11 DEF DogNext, WatchdogStep, Signal

(* The watchdog command feeds in time and leaves nothing to reset.            *)
THEOREM DogMindedHolds == DogSpec => []DogMinded
<1>1. DogInit => Minding
  BY MindingStarts
<1>2. Minding /\ [DogNext]_<<dog, dogVars>> => Minding'
  BY MindingKept
<1>3. Minding => DogMinded
  BY DEF Minding
<1> QED BY <1>1, <1>2, <1>3, PTL DEF DogSpec
-----------------------------------------------------------------------------
(* What precedes and does the erasing on a Xiongmai board.                    *)

(* The watchdog has run down to nothing only when it has fired, which ends    *)
(* everything.                                                                *)
DogCounts ==
    /\ xmEnv \in XmCases /\ dog \in DogType /\ secs \in Nat
    /\ feeder \in {"sofia", "other", "none"}
    /\ dog.left <= dog.timeout /\ dog.timeout <= DownCount
    /\ dog.fired => xpc = "done"
    /\ dog.fired \/ dog.left > 0

(* Nobody has been stopped from feeding it but Sofia, and then the wait lasts *)
(* longer than the watchdog.                                                  *)
Disarmed ==
    /\ (xpc = "sleep" /\ secs = 0) \/ xpc \in {"control", "wait"} => feeder = "none"
    /\ xpc = "wait" => ~dog.on \/ dog.left <= secs
    /\ (xpc \in {"free", "kill"} \/ Writing) /\ feeder = "none" => ~dog.on

Locks == [password : Nat, session : BOOLEAN, protected : BOOLEAN]

(* The board is known once and for all; unless calls fail, the password is    *)
(* the program's where there is one, and the protection is off.               *)
Known ==
    /\ driver \in Locks
    /\ xpc = "free" => mounted
    /\ xpc # "free" /\ (xmEnv.account \/ xmEnv.xminfo) => detected
    /\ xpc = "unlock" /\ xmEnv.lock /\ ~xmEnv.faults => driver.password = Password /\ ~driver.protected

(* The inductive invariant.                                                   *)
XmSound == DogCounts /\ Disarmed /\ Known /\ NoResetWhileErasing /\ XmErases

LEMMA XmStarts == ASSUME XmAlone PROVE XmSound
<1>1. /\ xmEnv \in XmCases /\ dog = xmEnv.dog /\ xpc = "free" /\ mounted = TRUE /\ feeder = xmEnv.feeder
      /\ secs = 0 /\ driver = [password |-> 0, session |-> FALSE, protected |-> xmEnv.protect] /\ xout = "runs"
  BY DEF XmAlone, XmInit
<1>2. /\ dog \in DogType /\ ~dog.fired /\ 0 < dog.left /\ dog.left <= dog.timeout /\ dog.timeout <= DownCount
      /\ feeder \in {"sofia", "other", "none"} /\ (feeder = "none" => ~dog.on)
  BY <1>1, XmAssumption
<1>3. DogCounts /\ Disarmed
  BY <1>1, <1>2, DogFields DEF DogCounts, Disarmed
<1>4. driver \in Locks
  BY <1>1, XmAssumption DEF Locks
<1> QED BY <1>1, <1>3, <1>4 DEF XmSound, Known, NoResetWhileErasing, XmErases

(* No step of the program lets the watchdog run: it stops it or leaves it.    *)
LEMMA StepsLeaveDog ==
    ASSUME XmSound, XmStep
    PROVE  /\ dog' \in DogType /\ dog'.left = dog.left /\ dog'.timeout = dog.timeout /\ dog'.fired = dog.fired
           /\ ~dog.on => ~dog'.on
           /\ xmEnv' = xmEnv /\ feeder' = feeder /\ ~dog.fired /\ xpc # "done"
<1>1. dog' = dog \/ dog' = Stopped(dog)
  BY DEF XmStep, FreeResources, KillSofia, DeleteModules, ClearControl, Waited, UmountAll, PlainErase,
         Erased, FlashInit, UnlockAndErase
<1>2. xmEnv' = xmEnv /\ feeder' = feeder /\ xpc # "done"
  BY DEF XmStep, FreeResources, KillSofia, DeleteModules, ClearControl, Waited, UmountAll, PlainErase,
         Erased, FlashInit, UnlockAndErase
<1>3. dog \in DogType /\ ~dog.fired
  BY <1>2 DEF XmSound, DogCounts
<1> QED BY <1>1, <1>2, <1>3, DogOps

(* The steps keep the watchdog away from the erasing.                         *)
LEMMA StepsDisarm == ASSUME XmSound, XmStep PROVE DogCounts' /\ Disarmed'
<1>1. /\ dog' \in DogType /\ dog'.left = dog.left /\ dog'.timeout = dog.timeout /\ dog'.fired = dog.fired
      /\ ~dog.on => ~dog'.on
      /\ xmEnv' = xmEnv /\ feeder' = feeder /\ ~dog.fired
  BY StepsLeaveDog
<1>2. /\ xmEnv \in XmCases /\ dog \in DogType /\ secs \in Nat
      /\ feeder \in {"sofia", "other", "none"}
      /\ dog.left <= dog.timeout /\ dog.timeout <= DownCount /\ dog.left > 0
      /\ dog.left \in Nat /\ dog.timeout \in Nat
      /\ SofiaWait \in Nat \ {0} /\ DownCount \in Nat
  BY <1>1, DogFields, XmAssumption DEF XmSound, DogCounts
<1>3. secs' \in Nat
  BY <1>2 DEF XmStep, FreeResources, KillSofia, DeleteModules, ClearControl, Countdown, Waited, UmountAll,
              PlainErase, Erased, FlashInit, UnlockAndErase
<1>4. DogCounts'
  BY <1>1, <1>2, <1>3 DEF DogCounts
<1>5. Disarmed
  BY DEF XmSound
<1>6. CASE FreeResources
  <2>1. xpc = "free" /\ xpc' \in {"kill", "umount"}
    BY <1>6 DEF FreeResources
  <2> QED BY <1>1, <1>4, <1>5, <2>1 DEF Disarmed, Writing
<1>7. CASE KillSofia
  <2>1. /\ xpc = "kill" /\ xpc' \in {"sleep", "umount", "done"}
        /\ xpc' = "sleep" => secs' = SofiaWait
    BY <1>7 DEF KillSofia, FinishXm
  <2> QED BY <1>1, <1>2, <1>4, <1>5, <2>1 DEF Disarmed, Writing
<1>8. CASE DeleteModules
  <2>1. xpc = "sleep" /\ secs = 0 /\ xpc' \in {"control", "done"}
    BY <1>8 DEF DeleteModules, FinishXm
  <2> QED BY <1>1, <1>4, <1>5, <2>1 DEF Disarmed, Writing
<1>9. CASE ClearControl
  <2>1. xpc = "control" /\ xpc' \in {"wait", "done"} /\ (xpc' = "wait" => secs' = DownCount)
    BY <1>9 DEF ClearControl, Countdown, FinishXm
  <2>2. dog'.left <= DownCount
    BY <1>1, <1>2
  <2> QED BY <1>1, <1>4, <1>5, <2>1, <2>2 DEF Disarmed, Writing
<1>10. CASE Waited
  <2>1. xpc = "wait" /\ secs = 0 /\ xpc' = "umount"
    BY <1>10 DEF Waited
  <2>2. ~dog.on
    BY <1>2, <1>5, <2>1 DEF Disarmed
  <2> QED BY <1>1, <1>4, <2>1, <2>2 DEF Disarmed, Writing
<1>11. ASSUME UmountAll \/ PlainErase \/ Erased \/ FlashInit \/ UnlockAndErase PROVE Disarmed'
  <2>1. Writing /\ (Writing' \/ xpc' = "done")
    BY <1>11
    DEF UmountAll, PlainErase, Erased, FlashInit, UnlockAndErase, FinishXm, Writing
  <2> QED BY <1>1, <1>5, <2>1 DEF Disarmed, Writing
<1> QED BY <1>4, <1>6, <1>7, <1>8, <1>9, <1>10, <1>11 DEF XmStep

LEMMA GivenKeeps ==
    ASSUME NEW d \in Locks, NEW p
    PROVE  /\ Given(d, p) \in Locks /\ Given(d, p).password = d.password
           /\ Given(d, p).protected <=> d.protected
           /\ Given(d, p).session <=> (p = d.password)
<1>1. (p = d.password) \in BOOLEAN
  OBVIOUS
<1>2. d = [password |-> d.password, session |-> d.session, protected |-> d.protected]
  BY DEF Locks
<1> QED BY <1>1, <1>2 DEF Given, Locks

LEMMA UnprotectedKeeps ==
    ASSUME NEW d \in Locks
    PROVE  /\ Unprotected(d) \in Locks /\ Unprotected(d).password = d.password
           /\ Unprotected(d).protected <=> (d.protected /\ ~d.session)
  BY DEF Unprotected, Locks

(* After the branch on the flag the protection is off, unless calls fail.     *)
LEMMA OpeningUnprotects ==
    ASSUME NEW d \in Locks, d.password = Password, NEW flag \in Flags(d), NEW o \in Opening(d, flag)
    PROVE  o \in Locks /\ o.password = Password /\ (~xmEnv.faults => ~o.protected)
<1>1. CASE flag > 0
  <2>1. o = d
    BY <1>1 DEF Opening
  <2>2. ~xmEnv.faults => ~d.protected
    BY <1>1 DEF Flags
  <2> QED BY <2>1, <2>2
<1>2. CASE ~(flag > 0)
  <2> DEFINE once == Given(d, Password)  twice == Unprotected(once)
  <2>1. /\ once \in Locks /\ once.password = Password /\ once.session
    BY GivenKeeps
  <2> HIDE DEF once
  <2>2. /\ twice \in Locks /\ twice.password = Password /\ ~twice.protected
    BY <2>1, UnprotectedKeeps
  <2> HIDE DEF twice
  <2>3. /\ Given(twice, 0) \in Locks /\ Given(twice, 0).password = Password /\ ~Given(twice, 0).protected
    BY <2>2, GivenKeeps
  <2>4. Given(d, 0) \in Locks /\ Given(d, 0).password = Password
    BY GivenKeeps
  <2>5. o = Given(twice, 0) \/ (xmEnv.faults /\ o = Given(d, 0))
    BY <1>2 DEF Opening, twice, once
  <2> QED BY <2>3, <2>4, <2>5
<1> QED BY <1>1, <1>2

(* The steps keep what is known of the board, and erase where it is known.    *)
LEMMA StepsErase == ASSUME XmSound, XmStep PROVE Known' /\ NoResetWhileErasing' /\ XmErases'
<1>1. Known /\ NoResetWhileErasing /\ XmErases /\ xmEnv' = xmEnv
  BY StepsLeaveDog DEF XmSound
<1> USE DEF Known, NoResetWhileErasing, XmErases, FinishXm
<1>2. CASE FreeResources
  BY <1>1, <1>2 DEF FreeResources, IsXmBoard
<1>3. CASE KillSofia \/ DeleteModules \/ ClearControl \/ Waited \/ UmountAll \/ Erased
  BY <1>1, <1>3 DEF KillSofia, DeleteModules, ClearControl, Waited, UmountAll, Erased
<1>4. CASE PlainErase
  BY <1>1, <1>4 DEF PlainErase, IsXmBoard
<1>5. CASE FlashInit
  <2> DEFINE set == [driver EXCEPT !.password = Password]
  <2>1. set \in Locks /\ set.password = Password /\ Flags(set) = Flags(driver)
    BY <1>1 DEF Password, Locks, Flags
  <2>2. /\ xmEnv' = xmEnv /\ UNCHANGED <<detected, mounted>> /\ xpc = "init"
        /\ \/ driver' = driver /\ (xpc' = "unlock" => ~xmEnv.lock \/ xmEnv.faults)
           \/ \E flag \in Flags(driver) : \E o \in Opening(set, flag) : driver' = Given(Given(o, Password), 0)
    BY <1>5 DEF FlashInit, XmMayFail, set
  <2> HIDE DEF set
  <2>3. /\ driver' \in Locks
        /\ xpc' = "unlock" /\ xmEnv.lock /\ ~xmEnv.faults => driver'.password = Password /\ ~driver'.protected
    <3>1. CASE driver' = driver /\ (xpc' = "unlock" => ~xmEnv.lock \/ xmEnv.faults)
      BY <1>1, <3>1
    <3>2. ASSUME NEW flag \in Flags(driver), NEW o \in Opening(set, flag), driver' = Given(Given(o, Password), 0)
          PROVE  driver' \in Locks /\ driver'.password = Password /\ (~xmEnv.faults => ~driver'.protected)
      <4>1. o \in Locks /\ o.password = Password /\ (~xmEnv.faults => ~o.protected)
        BY <2>1, OpeningUnprotects
      <4>2. /\ Given(o, Password) \in Locks /\ Given(o, Password).password = Password
            /\ Given(o, Password).protected <=> o.protected
        BY <4>1, GivenKeeps
      <4>3. /\ driver' \in Locks /\ driver'.password = Password
            /\ driver'.protected <=> Given(o, Password).protected
        BY <3>2, <4>2, GivenKeeps
      <4> QED BY <4>1, <4>2, <4>3
    <3> QED BY <2>2, <3>1, <3>2
  <2>4. xout' = "noerase" => xmEnv.faults \/ xout = "noerase"
    BY <1>5 DEF FlashInit, XmMayFail
  <2>5. xpc' # "free" /\ (xout' = "torn" => xout = "torn")
    BY <1>5 DEF FlashInit
  <2>6. xmEnv.account \/ xmEnv.xminfo => detected'
    BY <1>1, <2>2
  <2>7. Known'
    BY <1>1, <2>3, <2>5, <2>6
  <2>8. NoResetWhileErasing' /\ XmErases'
    BY <1>1, <2>4, <2>5
  <2> QED BY <2>7, <2>8
<1>6. CASE UnlockAndErase
  <2>1. /\ driver' \in Locks
        /\ driver'.session <=> (Password = driver.password)
        /\ driver'.protected <=> driver.protected
    BY <1>1, <1>6, GivenKeeps DEF UnlockAndErase
  <2>2. xout' = "noerase" => xmEnv.faults \/ xout = "noerase"
    <3>1. SUFFICES ASSUME ~xmEnv.faults
                   PROVE  xout' = "noerase" => xout = "noerase"
      OBVIOUS
    <3>2. xmEnv.lock => driver'.session /\ ~driver'.protected
      BY <1>1, <1>6, <2>1, <3>1 DEF UnlockAndErase
    <3> QED BY <1>6, <3>1, <3>2 DEF UnlockAndErase, XmMayFail
  <2>3. xpc = "unlock" /\ xpc' \in {"erase", "done"} /\ UNCHANGED detected
        /\ (xout' = "torn" => xout = "torn")
    BY <1>6 DEF UnlockAndErase
  <2>4. xmEnv.account \/ xmEnv.xminfo => detected'
    <3>1. xmEnv.account \/ xmEnv.xminfo => detected
      BY <1>1, <2>3
    <3> QED BY <2>3, <3>1
  <2>5. Known'
    BY <1>1, <2>1, <2>3, <2>4
  <2>6. NoResetWhileErasing' /\ XmErases'
    BY <1>1, <2>2, <2>3
  <2> QED BY <2>5, <2>6
<1> QED BY <1>2, <1>3, <1>4, <1>5, <1>6 DEF XmStep

(* The time that passes does not reset the machine while flash is written.    *)
LEMMA XmTicks == ASSUME XmSound, XmTick PROVE XmSound'
<1>1. /\ dog \in DogType /\ dog.left \in Nat /\ dog.timeout \in Nat /\ ~dog.fired /\ dog.left > 0
      /\ dog.left <= dog.timeout /\ dog.timeout <= DownCount /\ DownCount \in Nat
      /\ secs \in Nat /\ feeder \in {"sofia", "other", "none"} /\ xmEnv \in XmCases /\ xpc # "done"
      /\ Disarmed /\ Known /\ NoResetWhileErasing /\ XmErases
  BY DogFields, XmAssumption DEF XmSound, DogCounts, XmTick
<1>2. /\ xmEnv' = xmEnv /\ detected' = detected /\ mounted' = mounted /\ driver' = driver
      /\ secs' = (IF xpc \in {"sleep", "wait"} THEN secs - 1 ELSE secs)
      /\ (xpc \in {"sleep", "wait"} => secs > 0)
      /\ feeder' \in (IF xpc = "sleep" THEN {"none"} \union (IF secs > 1 THEN {feeder} ELSE {}) ELSE {feeder})
      /\ dog' = (IF feeder # "none" THEN Fed(dog) ELSE Passed(dog))
      /\ (IF dog'.fired THEN xpc' = "done" /\ xout' = (IF Writing THEN "torn" ELSE "reset")
          ELSE xpc' = xpc /\ xout' = xout)
  BY DEF XmTick, FinishXm
<1>3. secs' \in Nat /\ feeder' \in {"sofia", "other", "none"} /\ (xpc = "wait" => secs' = secs - 1)
      /\ (xpc # "sleep" => feeder' = feeder) /\ (xpc = "sleep" /\ secs' = 0 => feeder' = "none")
  BY <1>1, <1>2
<1>4. CASE feeder # "none"
  <2>1. dog' \in DogType /\ dog'.fired = dog.fired /\ dog'.left = dog.timeout /\ dog'.timeout = dog.timeout
    BY <1>1, <1>2, <1>4, DogOps
  <2>2. xpc' = xpc /\ xout' = xout /\ ~dog'.fired
    BY <1>1, <1>2, <2>1
  <2>3. xpc \notin {"control", "wait"}
    BY <1>1, <1>4 DEF Disarmed
  <2>4. DogCounts' /\ Disarmed'
    BY <1>1, <1>2, <1>3, <1>4, <2>1, <2>2, <2>3 DEF DogCounts, Disarmed, Writing
  <2> QED BY <1>1, <1>2, <2>2, <2>4 DEF XmSound, Known, NoResetWhileErasing, XmErases
<1>5. CASE feeder = "none" /\ ~dog.on
  <2>1. dog' = dog
    BY <1>1, <1>2, <1>5, DogPasses
  <2>2. xpc' = xpc /\ xout' = xout /\ feeder' = "none"
    BY <1>1, <1>2, <1>5, <2>1
  <2>3. DogCounts' /\ Disarmed'
    BY <1>1, <1>2, <1>3, <1>5, <2>1, <2>2 DEF DogCounts, Disarmed, Writing
  <2> QED BY <1>1, <1>2, <2>2, <2>3 DEF XmSound, Known, NoResetWhileErasing, XmErases
<1>6. CASE feeder = "none" /\ dog.on
  <2>1. /\ dog' \in DogType /\ dog'.timeout = dog.timeout
        /\ dog.left > 1 => dog'.left = dog.left - 1 /\ dog'.fired = dog.fired
        /\ ~(dog.left > 1) => dog'.left = 0 /\ dog'.fired
    BY <1>1, <1>2, <1>6, DogPasses
  <2>2. xpc \in {"sleep", "control", "wait"} \/ ~(xpc \in {"free", "kill"} \/ Writing)
    BY <1>6, <1>1 DEF Disarmed
  <2>3. ~Writing /\ ~(xpc \in {"free", "kill"})
    BY <1>1, <1>6 DEF Disarmed
  <2>4. feeder' = "none"
    BY <1>2, <1>6
  <2>5. DogCounts'
    <3>1. CASE dog.left > 1
      BY <1>1, <1>2, <1>3, <2>1, <3>1 DEF DogCounts
    <3>2. CASE ~(dog.left > 1)
      BY <1>1, <1>2, <1>3, <2>1, <3>2 DEF DogCounts
    <3> QED BY <3>1, <3>2
  <2>6. Disarmed'
    <3>1. CASE dog'.fired
      BY <1>2, <3>1 DEF Disarmed, Writing
    <3>2. CASE ~dog'.fired
      <4>1. xpc' = xpc /\ dog'.left = dog.left - 1
        BY <1>2, <2>1, <3>2
      <4>2. xpc = "wait" => dog'.left <= secs'
        BY <1>1, <1>3, <1>6, <2>1, <4>1 DEF Disarmed
      <4> QED BY <2>3, <2>4, <4>1, <4>2 DEF Disarmed, Writing
    <3> QED BY <3>1, <3>2
  <2>7. xout' = "reset" \/ (xpc' = xpc /\ xout' = xout)
    BY <1>2, <2>3
  <2>8. xpc' = "done" \/ xpc' = xpc
    BY <1>2
  <2>9. Known' /\ NoResetWhileErasing' /\ XmErases'
    BY <1>1, <1>2, <2>3, <2>7, <2>8 DEF Known, NoResetWhileErasing, XmErases
  <2> QED BY <2>5, <2>6, <2>9 DEF XmSound
<1> QED BY <1>4, <1>5, <1>6

LEMMA XmSoundKept ==
    ASSUME XmSound, [XmStep \/ XmTick]_<<memVars, dog, xmVars>>
    PROVE  XmSound'
<1>1. CASE XmStep
  BY <1>1, StepsDisarm, StepsErase DEF XmSound
<1>2. CASE XmTick
  BY <1>2, XmTicks
<1>3. CASE UNCHANGED <<memVars, dog, xmVars>>
  BY <1>3 DEF xmVars, XmSound, DogCounts, Disarmed, Writing, Known, NoResetWhileErasing, XmErases
<1> QED BY <1>1, <1>2, <1>3

(* A Xiongmai board's flash is erased, and no watchdog interrupts it.         *)
THEOREM ErasesSafelyHolds == XmSpec => []ErasesSafely
<1>1. XmAlone => XmSound
  BY XmStarts
<1>2. XmSound /\ [XmStep \/ XmTick]_<<memVars, dog, xmVars>> => XmSound'
  BY XmSoundKept
<1>3. XmSound => ErasesSafely
  BY DEF XmSound, ErasesSafely
<1> QED BY <1>1, <1>2, <1>3, PTL DEF XmSpec
=============================================================================
